-------------------------- MODULE ChatTrafficProofs --------------------------
(***************************************************************************)
(* Proofs about the two guards of a chat request: the circuit breaker, for *)
(* any number of threads; the token bucket, for every limit, window and    *)
(* number of callers, and without a bound on what they do; and that to run *)
(* the two together takes nothing from either: every behaviour of          *)
(* ChatTraffic is one of the bucket and one of the circuit.                *)
(***************************************************************************)
EXTENDS ChatTraffic, FiniteSetTheorems, TLAPS

------------------------------------------------------------------------------
(* The circuit breaker *)

\* The requests that were let through and have recorded nothing yet.
Calling == {t \in Threads : pc[t] \in InCall}

\* Once the circuit is open nobody is let through, so every failure recorded
\* from then on takes one request out of Calling.
OutageInv == Tripped => failures + Cardinality(Calling) <= Threshold - 1 + Cardinality(Threads)

\* Calling is a finite set, no larger than Threads.
LEMMA CallingFinite ==
    IsFiniteSet(Calling) /\ Cardinality(Calling) \in Nat
      /\ Cardinality(Threads) \in Nat /\ Cardinality(Calling) <= Cardinality(Threads)
  <1>1. Calling \subseteq Threads
    BY DEF Calling
  <1>2. QED
    BY <1>1, ThreadsAssumption, FS_Subset, FS_CardinalityType

\* Types are kept: _consecutive_failures never is negative, and the reset time
\* never exceeds LLM_CIRCUIT_RESET_SECONDS (agent/generators.py:318-337).
THEOREM TypeCorrect == Spec => []TypeOK
  <1>1. Init => TypeOK
    BY RetriesAssumption, ResetAssumption DEF Init, TypeOK, Ended, InCall
  <1>2. TypeOK /\ [Next]_vars => TypeOK'
    <2>1. SUFFICES ASSUME TypeOK, [Next]_vars PROVE TypeOK'
      OBVIOUS
    <2>2. CASE UNCHANGED vars
      BY <2>1, <2>2 DEF TypeOK, vars
    <2>3. CASE Tick
      BY <2>1, <2>3, ResetAssumption DEF TypeOK, Tick
    <2>4. ASSUME NEW t \in Threads, ThreadNext(t) PROVE TypeOK'
      <3>1. CASE CallModel(t) \/ CallAfterReset(t) \/ ShieldRequest(t)
        BY <2>1, <3>1, RetriesAssumption, ResetAssumption
           DEF TypeOK, CallModel, CallAfterReset, ShieldRequest, Call, Ended, InCall
      <3>2. CASE Retry(t)
        BY <2>1, <3>2, RetriesAssumption DEF TypeOK, Retry
      <3>3. CASE ModelFails(t) \/ UnexpectedError(t) \/ ModelAnswers(t)
        BY <2>1, <3>3, RetriesAssumption
           DEF TypeOK, ModelFails, UnexpectedError, ModelAnswers, LeaveLoop, Ended, InCall
      <3>4. CASE RecordFailure(t)
        BY <2>1, <3>4, ResetAssumption DEF TypeOK, RecordFailure, Ended
      <3>5. CASE RecordSuccess(t)
        BY <2>1, <3>5, ResetAssumption DEF TypeOK, RecordSuccess, Ended
      <3>6. QED
        BY <2>4, <3>1, <3>2, <3>3, <3>4, <3>5 DEF ThreadNext
    <2>5. QED
      BY <2>1, <2>2, <2>3, <2>4 DEF Next
  <1>3. QED
    BY <1>1, <1>2, PTL DEF Spec

\* What a step of a thread that stays in its call, or comes out of one, does
\* to the set of those that are in one.
LEMMA CallingShrinks ==
    ASSUME TypeOK, TypeOK', NEW t \in Threads,
           \A u \in Threads \ {t} : pc'[u] = pc[u],
           pc[t] \in InCall \/ pc'[t] \notin InCall
    PROVE  Cardinality(Calling') <= Cardinality(Calling)
  <1>1. Calling' \subseteq Calling
    BY DEF Calling
  <1>2. QED
    BY <1>1, CallingFinite, FS_Subset

\* A request that records a failure leaves the set of those that are calling.
LEMMA RecordedLeaves ==
    ASSUME TypeOK, NEW t \in Threads, RecordFailure(t)
    PROVE  Cardinality(Calling') = Cardinality(Calling) - 1
  <1>1. t \in Calling
    BY DEF Calling, RecordFailure, InCall
  <1>2. Calling' = Calling \ {t}
    BY DEF Calling, RecordFailure, InCall, TypeOK
  <1>3. QED
    BY <1>1, <1>2, CallingFinite, FS_RemoveElement

\* Every step keeps the account of the failures that can still come.
LEMMA OutageStep ==
    ASSUME TypeOK, TypeOK', OutageInv, Next
    PROVE  OutageInv'
  <1>1. CASE Tick
    BY <1>1 DEF OutageInv, Tick, Tripped, Calling
  <1>2. ASSUME NEW t \in Threads, ThreadNext(t) PROVE OutageInv'
    <2>1. CASE CallModel(t) \/ CallAfterReset(t)
      <3>1. ~Tripped'
        BY <2>1, ThresholdAssumption DEF CallModel, CallAfterReset, Tripped, TypeOK
      <3>2. QED
        BY <3>1 DEF OutageInv
    <2>2. CASE RecordSuccess(t)
      BY <2>2, ThresholdAssumption DEF RecordSuccess, OutageInv, Tripped
    <2>3. CASE ShieldRequest(t) \/ Retry(t) \/ ModelFails(t) \/ UnexpectedError(t) \/ ModelAnswers(t)
      <3>1. failures' = failures
        BY <2>3 DEF ShieldRequest, Retry, ModelFails, UnexpectedError, ModelAnswers, LeaveLoop
      <3>2. /\ \A u \in Threads \ {t} : pc'[u] = pc[u]
            /\ pc[t] \in InCall \/ pc'[t] \notin InCall
        BY <2>3
        DEF TypeOK, InCall, ShieldRequest, Retry, ModelFails, UnexpectedError, ModelAnswers, LeaveLoop
      <3>3. Cardinality(Calling') <= Cardinality(Calling)
        BY <3>2, CallingShrinks
      <3>4. Cardinality(Calling') \in Nat
        <4>1. Calling' \subseteq Threads
          BY DEF Calling
        <4>2. QED
          BY <4>1, ThreadsAssumption, FS_Subset, FS_CardinalityType
      <3>5. QED
        BY <3>1, <3>3, <3>4, CallingFinite, ThresholdAssumption DEF OutageInv, Tripped, TypeOK
    <2>4. CASE RecordFailure(t)
      <3>1. failures' = failures + 1
        BY <2>4 DEF RecordFailure
      <3>2. Cardinality(Calling') = Cardinality(Calling) - 1
        BY <2>4, RecordedLeaves
      <3>3. QED
        BY <3>1, <3>2, CallingFinite, ThresholdAssumption DEF OutageInv, Tripped, TypeOK
    <2>5. QED
      BY <1>2, <2>1, <2>2, <2>3, <2>4 DEF ThreadNext
  <1>3. QED
    BY <1>1, <1>2 DEF Next

\* An outage costs at most the failures that open the circuit and one more for
\* every other thread, however the threads interleave
\* (agent/generators.py:221, 318-332).
THEOREM OutageBounded == Spec => []FailuresBounded
  <1>1. Init => OutageInv
    BY ThresholdAssumption DEF Init, OutageInv, Tripped
  <1>2. TypeOK /\ TypeOK' /\ OutageInv /\ [Next]_vars => OutageInv'
    <2>1. CASE UNCHANGED vars
      BY <2>1 DEF OutageInv, Tripped, Calling, vars
    <2>2. QED
      BY <2>1, OutageStep
  <1>3. TypeOK /\ OutageInv => FailuresBounded
    <2>1. SUFFICES ASSUME TypeOK, OutageInv PROVE FailuresBounded
      OBVIOUS
    <2>2. QED
      BY <2>1, CallingFinite, ThresholdAssumption DEF OutageInv, FailuresBounded, Tripped, TypeOK
  <1>4. QED
    BY <1>1, <1>2, <1>3, TypeCorrect, PTL DEF Spec

------------------------------------------------------------------------------
(* The token bucket *)

\* A bucket takes at least one token (app/config.py checks limit and window).
LEMMA CapacityType == Capacity \in Nat /\ Window <= Capacity
<1>1. \A l \in Nat \ {0}, w \in Nat \ {0} : l * w \in Nat /\ w <= l * w
    <2>1. SUFFICES ASSUME NEW l \in Nat \ {0}, NEW w \in Nat \ {0}
                   PROVE  l * w \in Nat /\ w <= l * w
        OBVIOUS
    <2>2. l * w = (l - 1) * w + w /\ (l - 1) * w \in Nat
        OBVIOUS
    <2> QED BY <2>2
<1> QED BY <1>1, LimitAssumption, WindowAssumption DEF Capacity

\* Time is worth tokens: what n ticks bring.
LEMMA TicksBring ==
    \A m \in Nat, n \in Nat :
           /\ Limit * m \in Nat
           /\ m * Limit = Limit * m
           /\ Limit * (m + n) = Limit * m + Limit * n
           /\ m <= n => Limit * m <= Limit * n
<1>1. \A l \in Nat \ {0}, a \in Nat, b \in Nat :
        /\ l * a \in Nat /\ a * l = l * a
        /\ l * (a + b) = l * a + l * b
    OBVIOUS
<1>2. \A l \in Nat \ {0}, a \in Nat, b \in Nat : a <= b => l * a <= l * b
    <2>1. SUFFICES ASSUME NEW l \in Nat \ {0}, NEW a \in Nat, NEW b \in Nat, a <= b
                   PROVE  l * a <= l * b
        OBVIOUS
    <2>2. b - a \in Nat /\ b = a + (b - a)
        BY <2>1
    <2>3. l * (a + (b - a)) = l * a + l * (b - a) /\ l * (b - a) \in Nat /\ l * a \in Nat
        BY <1>1, <2>2
    <2> QED BY <2>2, <2>3
<1> QED BY <1>1, <1>2, LimitAssumption

\* What a bucket holds at a time that is not in the future, and never less later.
LEMMA RefilledType ==
    ASSUME BucketTypeOK, NEW now \in 0..clock
    PROVE  /\ Refilled(now) \in 0..Capacity
           /\ level <= Refilled(now) \/ updated = NoBucket
           /\ Refilled(now) <= Refilled(clock)
<1>1. CASE updated = NoBucket
    BY <1>1, CapacityType DEF Refilled, BucketTypeOK
<1>2. CASE updated # NoBucket
    <2>1. updated \in 0..clock /\ level \in 0..Capacity /\ clock \in Nat /\ now \in Nat
        BY <1>2 DEF BucketTypeOK
    <2>2. now > updated => /\ now - updated \in Nat /\ clock - updated \in Nat
                           /\ now - updated <= clock - updated
        BY <2>1
    <2>3. now > updated => /\ (now - updated) * Limit \in Nat
                           /\ (clock - updated) * Limit \in Nat
                           /\ (now - updated) * Limit <= (clock - updated) * Limit
        BY <2>2, TicksBring
    <2>4. clock > updated => (clock - updated) * Limit \in Nat
        <3>1. clock > updated => clock - updated \in Nat
            BY <2>1
        <3> QED BY <3>1, TicksBring
    <2> QED
        BY <1>2, <2>1, <2>3, <2>4, CapacityType DEF Refilled, Smaller
<1> QED BY <1>1, <1>2

------------------------------------------------------------------------------
(* Types *)

LEMMA TakeType ==
    ASSUME BucketTypeOK, NEW c \in Callers, NEW now \in 0..clock, Take(c, now),
           clock' = clock, backend' = backend, mark' = mark,
           reading' \in [Callers -> 0..clock]
    PROVE  BucketTypeOK'
<1>1. Refilled(now) \in 0..Capacity
    BY RefilledType
<1> QED
    BY <1>1, CapacityType, WindowAssumption DEF BucketTypeOK, Take

LEMMA TypeInitial == BucketInit => BucketTypeOK
BY CapacityType DEF BucketInit, BucketTypeOK, NoBucket, Marks

LEMMA TypeStep == BucketTypeOK /\ [BucketNext]_bucketVars => BucketTypeOK'
<1> SUFFICES ASSUME BucketTypeOK, [BucketNext]_bucketVars
             PROVE  BucketTypeOK'
    OBVIOUS
<1> clock \in Nat
    BY DEF BucketTypeOK
<1>1. CASE UNCHANGED bucketVars
    BY <1>1 DEF bucketVars, BucketTypeOK, Capacity
<1>2. ASSUME NEW c \in Callers, Ask(c) PROVE BucketTypeOK'
    <2>1. CASE CheckRedis(c)
        BY <2>1, TakeType DEF CheckRedis, BucketTypeOK
    <2>2. CASE RedisUnavailable(c)
        <3>1. Refilled(clock) \in 0..Capacity
            BY RefilledType
        <3> QED
            BY <2>2, <3>1, CapacityType, WindowAssumption
               DEF RedisUnavailable, BucketTypeOK
    <2>3. CASE ReadClock(c)
        BY <2>3 DEF ReadClock, BucketTypeOK
    <2>4. CASE CheckMemory(c)
        <3>1. reading[c] \in 0..clock /\ reading' \in [Callers -> 0..clock]
            BY <2>4 DEF CheckMemory, BucketTypeOK
        <3> QED BY <2>4, <3>1, TakeType DEF CheckMemory
    <2> QED BY <1>2, <2>1, <2>2, <2>3, <2>4 DEF Ask
<1>3. ASSUME NEW c \in Callers, Leave(c) PROVE BucketTypeOK'
    BY <1>3 DEF Leave, BucketTypeOK
<1>4. CASE Expire
    BY <1>4, CapacityType DEF Expire, BucketTypeOK
<1>5. CASE TickBucket
    <2>1. reading \in [Callers -> 0..(clock + 1)]
        BY DEF BucketTypeOK
    <2> QED BY <1>5, <2>1 DEF TickBucket, BucketTypeOK
<1>6. CASE Observe
    BY <1>6 DEF Observe, BucketTypeOK, Marks
<1> QED
    BY <1>1, <1>2, <1>3, <1>4, <1>5, <1>6 DEF BucketNext, BucketEnvironment

\* The types of the bucket and of those who ask it.
THEOREM BucketTypeCorrect == BucketSpec => []BucketTypeOK
BY TypeInitial, TypeStep, PTL DEF BucketSpec

------------------------------------------------------------------------------
(* The bound *)

\* What the bucket can still give now, the ticks that count since the mark, and
\* what was taken since then.
Held == Refilled(clock)
Earned == (clock - mark.clock) + (waited - mark.waited)
Taken == Window * (admitted - mark.admitted)

\* What was taken and what is left were in the bucket or earned.  Only the
\* in-memory variant makes anybody wait.
BoundInv ==
    /\ mark.clock <= clock /\ mark.waited <= waited /\ mark.admitted <= admitted
    /\ Taken + Held <= Capacity + Limit * Earned
    /\ backend = "redis" => waited = 0 /\ \A c \in Callers : gate[c] # "locking"

LEMMA CountTypes ==
    ASSUME BucketTypeOK, BoundInv
    PROVE  /\ Earned \in Nat /\ Limit * Earned \in Nat
           /\ admitted - mark.admitted \in Nat /\ Taken \in Nat
           /\ Held \in 0..Capacity
           /\ Window * ((admitted - mark.admitted) + 1) = Taken + Window
<1>1. Earned \in Nat /\ admitted - mark.admitted \in Nat
    BY DEF BucketTypeOK, BoundInv, Earned, Marks
<1>2. \A w \in Nat, n \in Nat : w * n \in Nat /\ w * (n + 1) = w * n + w
    OBVIOUS
<1>3. Held \in 0..Capacity
    <2>1. clock \in 0..clock
        BY DEF BucketTypeOK
    <2> QED BY <2>1, RefilledType DEF Held
<1> QED BY <1>1, <1>2, <1>3, TicksBring, WindowAssumption DEF Taken

\* A request that takes a token gives up as much as it takes, except for the
\* ticks it waited, which the next request finds again.
LEMMA TakeBound ==
    ASSUME BucketTypeOK, BoundInv, NEW c \in Callers, NEW now \in 0..clock,
           Take(c, now), clock' = clock, mark' = mark
    PROVE  (Taken + Held <= Capacity + Limit * Earned)'
<1>1. /\ Refilled(now) \in 0..Capacity /\ Refilled(now) <= Held
      /\ clock \in Nat /\ now \in Nat /\ now <= clock /\ waited \in Nat
    BY RefilledType DEF Held, BucketTypeOK
<1>2. clock - now \in Nat /\ Limit * (clock - now) \in Nat
      /\ (clock - now) * Limit = Limit * (clock - now)
    <2>1. clock - now \in Nat
        BY <1>1
    <2> QED BY <2>1, TicksBring
<1>3. (Limit * Earned)' = Limit * Earned + Limit * (clock - now)
    <2>1. Earned' = Earned + (clock - now)
        BY <1>1, CountTypes DEF Earned, Take, BucketTypeOK, Marks
    <2> QED BY <1>2, <2>1, CountTypes, TicksBring
<1>4. CASE Refilled(now) >= Window
    <2>1. level' = Refilled(now) - Window /\ updated' = now /\ level' \in Nat
        BY <1>1, <1>4, WindowAssumption, CapacityType DEF Take
    <2>2. Held' <= level' + Limit * (clock - now)
        BY <1>1, <1>2, <2>1, CapacityType DEF Held, Refilled, Smaller, NoBucket, Capacity
    <2>3. Taken' = Taken + Window
        <3>1. (admitted - mark.admitted)' = (admitted - mark.admitted) + 1
            BY <1>4 DEF Take, BucketTypeOK, Marks
        <3> QED BY <3>1, CountTypes DEF Taken
    <2>4. Held' \in Nat
        BY <1>1, <1>2, <2>1, CapacityType DEF Held, Refilled, Smaller, NoBucket, Capacity
    <2>5. Held \in Nat /\ Taken \in Nat /\ Limit * Earned \in Nat /\ Window \in Nat
          /\ Taken + Held <= Capacity + Limit * Earned /\ Capacity \in Nat
        BY CountTypes, CapacityType, WindowAssumption DEF BoundInv
    <2>6. Capacity' = Capacity
        BY DEF Capacity
    <2> QED BY <1>1, <1>2, <1>3, <2>1, <2>2, <2>3, <2>4, <2>5, <2>6
<1>5. CASE ~(Refilled(now) >= Window)
    <2>1. level' = Refilled(now) /\ updated' = now /\ level' \in Nat
        BY <1>1, <1>5 DEF Take
    <2>2. Held' <= level' + Limit * (clock - now)
        BY <1>1, <1>2, <2>1, CapacityType DEF Held, Refilled, Smaller, NoBucket, Capacity
    <2>3. Taken' = Taken
        BY <1>5 DEF Take, Taken
    <2>4. Held' \in Nat
        BY <1>1, <1>2, <2>1, CapacityType DEF Held, Refilled, Smaller, NoBucket, Capacity
    <2>5. Held \in Nat /\ Taken \in Nat /\ Limit * Earned \in Nat /\ Window \in Nat
          /\ Taken + Held <= Capacity + Limit * Earned /\ Capacity \in Nat
        BY CountTypes, CapacityType, WindowAssumption DEF BoundInv
    <2>6. Capacity' = Capacity
        BY DEF Capacity
    <2> QED BY <1>1, <1>2, <1>3, <2>1, <2>2, <2>3, <2>4, <2>5, <2>6
<1> QED BY <1>1, <1>4, <1>5, WindowAssumption

\* As long as nothing is taken and no time passes, a bucket that holds no more
\* than before keeps the bound.
LEMMA BoundKept ==
    ASSUME BucketTypeOK, BoundInv, Held' \in Nat, Held' <= Held,
           UNCHANGED <<clock, admitted, waited, mark>>
    PROVE  (Taken + Held <= Capacity + Limit * Earned)'
<1>1. Taken' = Taken /\ Earned' = Earned /\ Capacity' = Capacity
    BY DEF Taken, Earned, Capacity
<1>2. Taken + Held <= Capacity + Limit * Earned
    BY DEF BoundInv
<1> QED BY <1>1, <1>2, CountTypes, CapacityType

\* A tick brings at most Limit.
LEMMA TickBound ==
    ASSUME BucketTypeOK, BoundInv, TickBucket
    PROVE  (Taken + Held <= Capacity + Limit * Earned)'
<1>1. clock \in Nat /\ clock' = clock + 1 /\ level \in 0..Capacity
      /\ updated' = updated /\ level' = level /\ Taken' = Taken /\ Capacity' = Capacity
    BY DEF TickBucket, BucketTypeOK, Taken, Capacity
<1>2. (Limit * Earned)' = Limit * Earned + Limit
    <2>1. Earned' = Earned + 1
        BY DEF Earned, TickBucket, BucketTypeOK, Marks
    <2>2. Limit * 1 = Limit
        BY LimitAssumption
    <2> QED BY <2>1, <2>2, CountTypes, TicksBring
<1>3. Held' \in Nat /\ Held' <= Held + Limit
    <2>1. CASE updated = NoBucket
        BY <1>1, <2>1, CapacityType, LimitAssumption DEF Held, Refilled
    <2>2. CASE updated # NoBucket
        <3>1. updated \in 0..clock
            BY <2>2 DEF BucketTypeOK
        <3>2. clock - updated \in Nat /\ (clock + 1) - updated = (clock - updated) + 1
            BY <1>1, <3>1
        <3>3. /\ (clock - updated) * Limit \in Nat
              /\ ((clock + 1) - updated) * Limit = (clock - updated) * Limit + Limit
            <4>1. Limit * 1 = Limit
                BY LimitAssumption
            <4>2. (clock - updated) + 1 \in Nat
                BY <3>2
            <4>3. /\ (clock - updated) * Limit = Limit * (clock - updated)
                  /\ ((clock - updated) + 1) * Limit = Limit * ((clock - updated) + 1)
                  /\ Limit * ((clock - updated) + 1) = Limit * (clock - updated) + Limit * 1
                BY <3>2, <4>2, TicksBring
            <4> QED BY <3>2, <4>1, <4>3, TicksBring
        <3>4. CASE clock = updated
            <4>1. (clock - updated) * Limit = 0
                BY <3>4, <1>1, LimitAssumption
            <4> QED
                BY <1>1, <2>2, <3>1, <3>3, <3>4, <4>1, CapacityType, LimitAssumption
                   DEF Held, Refilled, Smaller
        <3>5. CASE clock # updated
            BY <1>1, <2>2, <3>1, <3>3, <3>5, CapacityType, LimitAssumption
               DEF Held, Refilled, Smaller
        <3> QED BY <3>4, <3>5
    <2> QED BY <2>1, <2>2
<1>4. Taken + Held <= Capacity + Limit * Earned
    BY DEF BoundInv
<1> QED BY <1>1, <1>2, <1>3, <1>4, CountTypes, CapacityType, LimitAssumption

\* A bucket that was not used for a window is full: forgetting it adds nothing.
LEMMA ExpireBound ==
    ASSUME BucketTypeOK, BoundInv, Expire
    PROVE  (Taken + Held <= Capacity + Limit * Earned)'
<1>1. updated \in 0..clock /\ clock \in Nat /\ level \in 0..Capacity
      /\ clock - updated \in Nat /\ Window <= clock - updated
    BY WindowAssumption DEF Expire, BucketTypeOK
<1>2. Capacity <= (clock - updated) * Limit
    <2>1. Window \in Nat
        BY WindowAssumption
    <2>2. Limit * Window <= Limit * (clock - updated)
          /\ (clock - updated) * Limit = Limit * (clock - updated)
        BY <1>1, <2>1, TicksBring
    <2> QED BY <2>2 DEF Capacity
<1>3. Held = Capacity
    <2>1. (clock - updated) * Limit \in Nat
        BY <1>1, TicksBring
    <2>2. updated < clock
        BY <1>1, WindowAssumption
    <2> QED BY <1>1, <1>2, <2>1, <2>2, CapacityType DEF Held, Refilled, Smaller, Expire
<1>4. Held' = Capacity
    BY DEF Held, Refilled, Expire, Capacity
<1> QED BY <1>3, <1>4, BoundKept, CapacityType DEF Expire

LEMMA BoundInitial == BucketInit => BoundInv
<1> SUFFICES ASSUME BucketInit PROVE BoundInv
    OBVIOUS
<1>1. Taken = 0 /\ Earned = 0 /\ Held = Capacity
    BY WindowAssumption DEF BucketInit, Taken, Earned, Held, Refilled
<1>2. Limit * 0 = 0
    BY LimitAssumption
<1> QED BY <1>1, <1>2, CapacityType DEF BucketInit, BoundInv

LEMMA BoundStep == BucketTypeOK /\ BoundInv /\ [BucketNext]_bucketVars => BoundInv'
<1> SUFFICES ASSUME BucketTypeOK, BoundInv, [BucketNext]_bucketVars
             PROVE  BoundInv'
    OBVIOUS
<1> DEFINE Late == backend = "redis" => waited = 0 /\ \A c \in Callers : gate[c] # "locking"
           Since == mark.clock <= clock /\ mark.waited <= waited
                    /\ mark.admitted <= admitted
<1>1. Since /\ Late /\ BucketTypeOK'
    BY TypeStep DEF BoundInv
<1>2. Since'
    BY <1>1 DEF BucketTypeOK, Marks, bucketVars, BucketNext, BucketEnvironment, Ask, Leave,
       CheckRedis, RedisUnavailable, ReadClock, CheckMemory, Take, Expire, TickBucket, Observe
<1>3. Late'
    BY <1>1 DEF BucketTypeOK, bucketVars, BucketNext, BucketEnvironment, Ask, Leave,
       CheckRedis, RedisUnavailable, ReadClock, CheckMemory, Take, Expire, TickBucket, Observe
<1>4. Held \in 0..Capacity /\ clock \in 0..clock
    BY CountTypes DEF BucketTypeOK
<1>5. ASSUME UNCHANGED <<clock, level, updated, admitted, waited, mark>>
      PROVE  (Taken + Held <= Capacity + Limit * Earned)'
    <2>1. Held' = Held
        BY <1>5 DEF Held, Refilled, Capacity
    <2> QED BY <1>4, <1>5, <2>1, BoundKept
<1>6. ASSUME NEW c \in Callers, CheckRedis(c)
      PROVE  (Taken + Held <= Capacity + Limit * Earned)'
    BY <1>4, <1>6, TakeBound DEF CheckRedis
<1>7. ASSUME NEW c \in Callers, CheckMemory(c)
      PROVE  (Taken + Held <= Capacity + Limit * Earned)'
    <2>1. reading[c] \in 0..clock
        BY DEF BucketTypeOK
    <2> QED BY <1>7, <2>1, TakeBound DEF CheckMemory
<1>8. ASSUME NEW c \in Callers, RedisUnavailable(c)
      PROVE  (Taken + Held <= Capacity + Limit * Earned)'
    <2>1. CASE UNCHANGED <<level, updated>>
        BY <1>5, <1>8, <2>1 DEF RedisUnavailable
    <2>2. CASE ~UNCHANGED <<level, updated>>
        <3>1. /\ Refilled(clock) \in 0..Capacity /\ updated' = clock /\ clock' = clock
              /\ level' = Refilled(clock) - (IF Refilled(clock) >= Window THEN Window ELSE 0)
            BY <1>4, <1>8, <2>2 DEF RedisUnavailable, Held
        <3>2. level' \in Nat /\ level' <= Refilled(clock)
            BY <3>1, WindowAssumption, CapacityType
        <3>3. Held' = level'
            BY <1>4, <3>1 DEF Held, Refilled, NoBucket
        <3>4. Held' \in Nat /\ Held' <= Held
            BY <3>2, <3>3 DEF Held
        <3> QED BY <1>8, <3>1, <3>4, BoundKept DEF RedisUnavailable
    <2> QED BY <2>1, <2>2
<1>9. ASSUME Observe
       PROVE  (Taken + Held <= Capacity + Limit * Earned)'
    <2>1. Taken' = 0 /\ Earned' = 0 /\ Held' = Held /\ Capacity' = Capacity
        BY <1>9, WindowAssumption
           DEF Observe, Taken, Earned, Held, Refilled, Capacity, BucketTypeOK
    <2>2. Limit * 0 = 0
        BY LimitAssumption
    <2> QED BY <1>4, <2>1, <2>2, CapacityType
<1>10. ASSUME Expire
       PROVE  (Taken + Held <= Capacity + Limit * Earned)'
    BY <1>10, ExpireBound
<1>11. ASSUME TickBucket
       PROVE  (Taken + Held <= Capacity + Limit * Earned)'
    BY <1>11, TickBound
<1>12. ASSUME NEW c \in Callers, ReadClock(c) \/ Leave(c)
       PROVE  (Taken + Held <= Capacity + Limit * Earned)'
    BY <1>5, <1>12 DEF ReadClock, Leave
<1>13. ASSUME UNCHANGED bucketVars
       PROVE  (Taken + Held <= Capacity + Limit * Earned)'
    BY <1>5, <1>13 DEF bucketVars
<1> QED
    BY <1>2, <1>3, <1>6, <1>7, <1>8, <1>9, <1>10, <1>11, <1>12, <1>13
       DEF BucketNext, BucketEnvironment, Ask, BoundInv

\* From any moment on, requests take at most a full bucket and what the time
\* brings, in Redis exactly and in memory plus what requests waited for the lock.
THEOREM LimitHolds == BucketSpec => []AdmissionsBounded
<1>1. BucketTypeOK /\ BoundInv => AdmissionsBounded
    <2> SUFFICES ASSUME BucketTypeOK, BoundInv PROVE AdmissionsBounded
        OBVIOUS
    <2>1. Taken <= Capacity + Limit * Earned
        BY CountTypes, CapacityType DEF BoundInv
    <2> QED BY <2>1 DEF AdmissionsBounded, BoundInv, Taken, Earned
<1> QED
    BY <1>1, TypeInitial, TypeStep, BoundInitial, BoundStep, PTL DEF BucketSpec

------------------------------------------------------------------------------
(* Both together *)

\* A step of the composition is a step of each guard, or leaves it alone.
LEMMA TrafficStep ==
    [TrafficNext]_trafficVars => [Next]_vars /\ [BucketNext]_bucketVars
<1> SUFFICES ASSUME [TrafficNext]_trafficVars
             PROVE  [Next]_vars /\ [BucketNext]_bucketVars
    OBVIOUS
<1>1. CASE BucketEnvironment /\ UNCHANGED vars
    BY <1>1 DEF BucketNext
<1>2. CASE CircuitTick
    BY <1>2 DEF CircuitTick, Next
<1>3. ASSUME NEW t \in Threads, LimitChat(t) \/ LeaveEarly(t)
      PROVE  [Next]_vars /\ [BucketNext]_bucketVars
    BY <1>3, CallersAssumption DEF LimitChat, LeaveEarly, BucketNext
<1>4. ASSUME NEW t \in Threads, Generate(t) \/ GenerateForOther(t)
      PROVE  [Next]_vars /\ [BucketNext]_bucketVars
    BY <1>4, CallersAssumption
    DEF Generate, GenerateForOther, AskGenerator, BucketNext, Next, ThreadNext
<1>5. ASSUME NEW t \in Threads, Continue(t)
      PROVE  [Next]_vars /\ [BucketNext]_bucketVars
    BY <1>5 DEF Continue, Next, ThreadNext
<1>6. CASE UNCHANGED trafficVars
    BY <1>6 DEF trafficVars
<1> QED
    BY <1>1, <1>2, <1>3, <1>4, <1>5, <1>6 DEF TrafficNext

\* The composition implements both parts.
THEOREM GuardsCompose == TrafficSpec => Spec /\ BucketSpec
BY TrafficStep, PTL DEF TrafficSpec, TrafficInit, Spec, BucketSpec

\* So a chat endpoint keeps the promises of both: an outage of the model costs a
\* bounded number of failures, and the requests of a user are bounded.
THEOREM TrafficBounded == TrafficSpec => []FailuresBounded /\ []AdmissionsBounded
BY GuardsCompose, OutageBounded, LimitHolds, PTL
==============================================================================
