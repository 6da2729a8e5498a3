--------------------------- MODULE CircuitBreaker ---------------------------
(***************************************************************************)
(* OpenAICompatibleGenerator (agent/generators.py): the chat requests of   *)
(* one API process call the language model, retry, and fall back on the    *)
(* extractive answer; a circuit shared by all of them keeps requests away  *)
(* from a model that keeps failing.                                        *)
(*                                                                         *)
(* FastAPI runs the synchronous chat handler in a pool of threads, so any  *)
(* number of requests are inside generate at once.  The lock covers one    *)
(* method call, never a whole request: a step of the model is one call of  *)
(* _circuit_is_open, _record_failure or _record_success, or one answer of  *)
(* the model.  The backoff between two attempts changes no shared state    *)
(* and is a part of the wait for the next answer.                          *)
(***************************************************************************)
EXTENDS Integers, FiniteSets

CONSTANTS
    Threads,     \* the threads that serve chat requests
    MaxRetries,  \* LLM_MAX_RETRIES
    Threshold,   \* LLM_FAILURE_THRESHOLD
    Reset        \* LLM_CIRCUIT_RESET_SECONDS, in ticks of the clock

ASSUME ThreadsAssumption == IsFiniteSet(Threads)
ASSUME RetriesAssumption == MaxRetries \in Nat
ASSUME ThresholdAssumption == Threshold \in Nat \ {0}
ASSUME ResetAssumption == Reset \in Nat \ {0}

VARIABLES
    failures,  \* _consecutive_failures
    cooldown,  \* ticks until time.monotonic() - _circuit_opened_at >= Reset
    pc,        \* where the request of every thread is
    attempt    \* the loop variable of generate

vars == <<failures, cooldown, pc, attempt>>

\* A thread whose request ended - with the model's answer, the extractive one or
\* an exception - is ready for the next.
Ended == {"idle"}
InCall == {"remote", "failure", "success"}

\* The types of the circuit and of the threads; no call makes more than
\* MaxRetries + 1 attempts (agent/generators.py:232-241).
TypeOK ==
    /\ failures \in Nat
    /\ cooldown \in 0..Reset
    /\ pc \in [Threads -> Ended \cup InCall]
    /\ attempt \in [Threads -> 0..MaxRetries]

Init ==
    /\ failures = 0
    /\ cooldown = 0
    /\ pc = [t \in Threads |-> "idle"]
    /\ attempt = [t \in Threads |-> 0]

------------------------------------------------------------------------------
Tripped == failures >= Threshold

Call(t) ==
    /\ pc' = [pc EXCEPT ![t] = "remote"]
    /\ attempt' = [attempt EXCEPT ![t] = 0]

\* The circuit is never open: a mistake the properties must notice.
CallModelUnchecked(t) ==
    /\ pc[t] \in Ended
    /\ Call(t)
    /\ UNCHANGED <<failures, cooldown>>

\* _circuit_is_open returns False: too few failures.
CallModel(t) ==
    /\ pc[t] \in Ended
    /\ ~Tripped
    /\ Call(t)
    /\ UNCHANGED <<failures, cooldown>>

\* _circuit_is_open returns False: the reset time has passed since the circuit
\* opened.  The count starts again from zero, for everybody.
CallAfterReset(t) ==
    /\ pc[t] \in Ended
    /\ Tripped /\ cooldown = 0
    /\ failures' = 0 /\ cooldown' = 0
    /\ Call(t)

\* A request that is turned away starts the reset time over: another mistake.
ShieldRequestExtends(t) ==
    /\ pc[t] \in Ended
    /\ Tripped /\ cooldown > 0
    /\ pc' = [pc EXCEPT ![t] = "idle"]
    /\ cooldown' = Reset
    /\ UNCHANGED <<failures, attempt>>

\* _circuit_is_open returns True: the request is answered without the model.
ShieldRequest(t) ==
    /\ pc[t] \in Ended
    /\ Tripped /\ cooldown > 0
    /\ pc' = [pc EXCEPT ![t] = "idle"]
    /\ UNCHANGED <<failures, cooldown, attempt>>

\* The loop makes one attempt too many: another mistake.
RetryOnceMore(t) ==
    /\ pc[t] = "remote"
    /\ attempt[t] <= MaxRetries
    /\ attempt' = [attempt EXCEPT ![t] = @ + 1]
    /\ UNCHANGED <<failures, cooldown, pc>>

\* An expected failure that _is_retryable, before the last attempt: the loop
\* goes on, without another look at the circuit.
Retry(t) ==
    /\ pc[t] = "remote"
    /\ attempt[t] < MaxRetries
    /\ attempt' = [attempt EXCEPT ![t] = @ + 1]
    /\ UNCHANGED <<failures, cooldown, pc>>

\* The loop variable means nothing outside the loop.
LeaveLoop(t, to) ==
    /\ pc[t] = "remote"
    /\ pc' = [pc EXCEPT ![t] = to]
    /\ attempt' = [attempt EXCEPT ![t] = 0]

\* An expected failure of the last attempt, or one that is not retryable.
ModelFails(t) ==
    /\ LeaveLoop(t, "failure")
    /\ UNCHANGED <<failures, cooldown>>

\* An exception _EXPECTED_LLM_FAILURES does not name (content null: no strip)
\* leaves generate; neither a failure nor a success is recorded.
UnexpectedError(t) ==
    /\ LeaveLoop(t, "idle")
    /\ UNCHANGED <<failures, cooldown>>

\* _generate_remote returns an answer.
ModelAnswers(t) ==
    /\ LeaveLoop(t, "success")
    /\ UNCHANGED <<failures, cooldown>>

\* Also when others opened the circuit meanwhile: the reset time starts over.
RecordFailure(t) ==
    /\ pc[t] = "failure"
    /\ failures' = failures + 1
    /\ cooldown' = IF failures' >= Threshold THEN Reset ELSE cooldown
    /\ pc' = [pc EXCEPT ![t] = "idle"]
    /\ UNCHANGED attempt

\* Also when others opened the circuit since this request began.  An answer
\* without a valid citation was replaced by the extractive one, and is a
\* success all the same.
RecordSuccess(t) ==
    /\ pc[t] = "success"
    /\ failures' = 0 /\ cooldown' = 0
    /\ pc' = [pc EXCEPT ![t] = "idle"]
    /\ UNCHANGED attempt

\* Time passes; the circuit may be asked at any time after its reset time.
Tick ==
    /\ cooldown > 0
    /\ cooldown' = cooldown - 1
    /\ UNCHANGED <<failures, pc, attempt>>

ThreadNext(t) ==
    \/ CallModel(t) \/ CallAfterReset(t) \/ ShieldRequest(t)
    \/ Retry(t) \/ ModelFails(t) \/ UnexpectedError(t) \/ ModelAnswers(t)
    \/ RecordFailure(t) \/ RecordSuccess(t)

Next == Tick \/ \E t \in Threads : ThreadNext(t)

Spec == Init /\ [][Next]_vars

\* The clock goes on.  Nothing makes a request arrive or the model answer.
FairSpec == Spec /\ WF_vars(Tick)

------------------------------------------------------------------------------
(* Properties *)

\* An outage of the model is paid for by a bounded number of requests: beyond
\* the failures that open the circuit, at most those fail that were already
\* past _circuit_is_open, one for every other thread
\* (agent/generators.py:221, 318-332: the check and the record are two calls).
FailuresBounded == failures <= Threshold - 1 + Cardinality(Threads)

\* A circuit that is open comes to the end of its reset time, whatever the
\* requests that arrive meanwhile do and although a late failure of a request
\* that began before starts it over (agent/generators.py:322, 331-332).
ResetComes == Tripped ~> (~Tripped \/ cooldown = 0)
==============================================================================
