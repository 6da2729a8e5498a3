----------------------------- MODULE ChatTraffic -----------------------------
(***************************************************************************)
(* The two guards of a chat request, in the order in which FastAPI runs    *)
(* them: the dependency limit_chat asks the token bucket of the user, and  *)
(* the handler reaches the language model through the circuit breaker.     *)
(* The bucket is that of one user, the circuit is everybody's: the threads *)
(* also serve other users, whose buckets share nothing with this one.      *)
(* Either clock is read in steps of its own, so the two need not agree.    *)
(***************************************************************************)
EXTENDS CircuitBreaker, TokenBucket

ASSUME CallersAssumption == Callers = Threads

trafficVars == <<vars, bucketVars>>

TrafficInit == Init /\ BucketInit

\* A thread takes the next request of the user; one that the bucket refuses, or
\* that cannot ask it, never gets to the handler.
LimitChat(t) ==
    /\ pc[t] \in Ended
    /\ Ask(t)
    /\ UNCHANGED vars

\* The handler is left without the model: the question or the evidence for it
\* was refused, or the search failed (module Chat).
LeaveEarly(t) == Leave(t) /\ UNCHANGED vars

AskGenerator(t) == CallModel(t) \/ CallAfterReset(t) \/ ShieldRequest(t)

\* The handler asks the generator for an answer.
Generate(t) == Leave(t) /\ AskGenerator(t)

\* A thread without a request of the user asks it for somebody else.
GenerateForOther(t) ==
    /\ gate[t] = "outside"
    /\ AskGenerator(t)
    /\ UNCHANGED bucketVars

\* The generator goes on: no step of it looks at the bucket again.
Continue(t) ==
    /\ \/ Retry(t) \/ ModelFails(t) \/ UnexpectedError(t) \/ ModelAnswers(t)
       \/ RecordFailure(t) \/ RecordSuccess(t)
    /\ UNCHANGED bucketVars

CircuitTick == Tick /\ UNCHANGED bucketVars

TrafficNext ==
    \/ BucketEnvironment /\ UNCHANGED vars
    \/ CircuitTick
    \/ \E t \in Threads :
        \/ LimitChat(t) \/ LeaveEarly(t) \/ Continue(t)
        \/ Generate(t) \/ GenerateForOther(t)

\* Only the clock of the circuit goes on by itself: nothing makes a request
\* arrive or the model answer.
TrafficSpec ==
    TrafficInit /\ [][TrafficNext]_trafficVars /\ WF_trafficVars(CircuitTick)
==============================================================================
