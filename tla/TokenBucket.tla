----------------------------- MODULE TokenBucket -----------------------------
(***************************************************************************)
(* RateLimiter (app/rate_limit.py) for one subject and policy, and the     *)
(* dependency of an endpoint that asks it (api/traffic.py).  Buckets of    *)
(* different keys share nothing.                                           *)
(*                                                                         *)
(* Redis runs the check as a script, alone and with its own time.  The     *)
(* in-memory variant reads the clock first and takes the lock afterwards,  *)
(* so a request may apply its reading after a request that read later.     *)
(*                                                                         *)
(* A tick is the unit of the clock.  A bucket is counted in parts of a     *)
(* token: one request costs Window parts and a tick brings Limit of them,  *)
(* so that limit / window needs no fractions.                              *)
(***************************************************************************)
EXTENDS Integers

CONSTANTS
    Callers,   \* the threads that serve requests of the subject
    Limit,     \* the limit of the policy
    Window,    \* RATE_LIMIT_WINDOW_SECONDS, in ticks
    MaxClock   \* bound on the clock

ASSUME LimitAssumption == Limit \in Nat \ {0}
ASSUME WindowAssumption == Window \in Nat \ {0}
ASSUME MaxClockAssumption == MaxClock \in Nat

VARIABLES
    backend,   \* RATE_LIMIT_BACKEND
    clock,     \* time.monotonic(), or TIME in Redis
    level,     \* what the bucket held when it was last written
    updated,   \* when that was; NoBucket when the key does not exist
    reading,   \* the clock reading of a request that waits for the lock
    gate,      \* where the request of a caller is
    admitted,  \* requests let through so far
    waited,    \* ticks that requests waited between their reading and the check
    mark       \* the moment an observer began to count, and the counts then

bucketVars == <<backend, clock, level, updated, reading, gate, admitted,
                waited, mark>>

NoBucket == -1
Capacity == Limit * Window
Marks == [clock : Nat, admitted : Nat, waited : Nat]

BucketInit ==
    /\ backend \in {"memory", "redis"}
    /\ clock = 0 /\ updated = NoBucket /\ level = 0
    /\ reading = [c \in Callers |-> 0]
    /\ gate = [c \in Callers |-> "outside"]
    /\ admitted = 0 /\ waited = 0
    /\ mark = [clock |-> 0, admitted |-> 0, waited |-> 0]

------------------------------------------------------------------------------
Smaller(m, n) == IF m < n THEN m ELSE n

\* A time that lies before updated takes tokens away: a mistake.
RefilledBackwards(now) ==
    IF updated = NoBucket THEN Capacity
    ELSE Smaller(Capacity, level + (now - updated) * Limit)

\* What the bucket holds at a time: full when there is none, refilled since it
\* was written, never more than it takes.  A time that lies before updated
\* brings nothing.
Refilled(now) ==
    IF updated = NoBucket THEN Capacity
    ELSE IF now <= updated THEN level
    ELSE Smaller(Capacity, level + (now - updated) * Limit)

\* A refused request does not write the time back, although it writes the
\* refilled bucket: another mistake.
TakeForgetsTime(c, now) ==
    /\ IF Refilled(now) >= Window
       THEN /\ level' = Refilled(now) - Window
            /\ admitted' = admitted + 1
            /\ gate' = [gate EXCEPT ![c] = "inside"]
            /\ updated' = now
       ELSE /\ level' = Refilled(now)
            /\ gate' = [gate EXCEPT ![c] = "outside"]
            /\ UNCHANGED <<admitted, updated>>
    /\ waited' = waited + (clock - now)

\* The body of a check, in the script and under the lock: refill, let the
\* request through if a token is left, and write level and time either way.
\* _enforce turns a refusal into 429.
Take(c, now) ==
    /\ IF Refilled(now) >= Window
       THEN /\ level' = Refilled(now) - Window
            /\ admitted' = admitted + 1
            /\ gate' = [gate EXCEPT ![c] = "inside"]
       ELSE /\ level' = Refilled(now)
            /\ gate' = [gate EXCEPT ![c] = "outside"]
            /\ UNCHANGED admitted
    /\ updated' = now
    /\ waited' = waited + (clock - now)

\* _check_redis: the script runs alone and asks the server for the time.
CheckRedis(c) ==
    /\ backend = "redis"
    /\ gate[c] = "outside"
    /\ Take(c, clock)
    /\ UNCHANGED <<backend, clock, reading, mark>>

\* Redis does not answer: RuntimeError, and 503.  A timeout may also come after
\* the script ran, so the bucket may have been written and a token be gone.
RedisUnavailable(c) ==
    /\ backend = "redis"
    /\ gate[c] = "outside"
    /\ \/ /\ level' = Refilled(clock) - (IF Refilled(clock) >= Window THEN Window ELSE 0)
          /\ updated' = clock
       \/ UNCHANGED <<level, updated>>
    /\ UNCHANGED <<backend, clock, reading, gate, admitted, waited, mark>>

\* _check_memory reads the clock before it has the lock.
ReadClock(c) ==
    /\ backend = "memory"
    /\ gate[c] = "outside"
    /\ reading' = [reading EXCEPT ![c] = clock]
    /\ gate' = [gate EXCEPT ![c] = "locking"]
    /\ UNCHANGED <<backend, clock, level, updated, admitted, waited, mark>>

\* The block under the lock, with the reading from before.
CheckMemory(c) ==
    /\ gate[c] = "locking"
    /\ Take(c, reading[c])
    /\ reading' = [reading EXCEPT ![c] = 0]
    /\ UNCHANGED <<backend, clock, mark>>

\* PEXPIRE: Redis forgets a bucket that was not used for two windows.
Expire ==
    /\ backend = "redis"
    /\ updated # NoBucket /\ clock - updated >= 2 * Window
    /\ updated' = NoBucket /\ level' = 0
    /\ UNCHANGED <<backend, clock, reading, gate, admitted, waited, mark>>

TickBucket ==
    /\ clock < MaxClock
    /\ clock' = clock + 1
    /\ UNCHANGED <<backend, level, updated, reading, gate, admitted,
                   waited, mark>>

\* The observer begins to count: at any moment, once.
Observe ==
    /\ mark.clock = 0
    /\ mark' = [clock |-> clock, admitted |-> admitted, waited |-> waited]
    /\ mark' # mark
    /\ UNCHANGED <<backend, clock, level, updated, reading, gate, admitted,
                   waited>>

\* The request is over, or has gone where the bucket does not follow it.
Leave(c) ==
    /\ gate[c] = "inside"
    /\ gate' = [gate EXCEPT ![c] = "outside"]
    /\ UNCHANGED <<backend, clock, level, updated, reading, admitted, waited, mark>>

Ask(c) == CheckRedis(c) \/ RedisUnavailable(c) \/ ReadClock(c) \/ CheckMemory(c)

BucketEnvironment == Expire \/ TickBucket \/ Observe

BucketNext == BucketEnvironment \/ \E c \in Callers : Ask(c) \/ Leave(c)

BucketSpec == BucketInit /\ [][BucketNext]_bucketVars

------------------------------------------------------------------------------
(* Properties *)

\* Types; the bucket never holds more than it takes and nothing in it is from
\* the future (app/rate_limit.py:20-30, 84-89).
BucketTypeOK ==
    /\ backend \in {"memory", "redis"}
    /\ clock \in Nat /\ admitted \in Nat /\ waited \in Nat
    /\ level \in 0..Capacity
    /\ updated \in {NoBucket} \cup 0..clock
    /\ reading \in [Callers -> 0..clock]
    /\ gate \in [Callers -> {"outside", "locking", "inside"}]
    /\ mark \in Marks

\* From any moment on, the requests let through are at most a full bucket and
\* what the time since then brings - in parts of a token - plus, in memory
\* only, what the time brings that requests waited for the lock: a late request
\* spends what was there when it read the clock and sets the bucket back to that
\* time, and the next one refills the interval again (app/rate_limit.py:80-91).
\* Neither an expiring key nor a failing Redis nor refused requests add to it.
AdmissionsBounded ==
    /\ Window * (admitted - mark.admitted) <=
        Capacity + Limit * ((clock - mark.clock) + (waited - mark.waited))
    /\ backend = "redis" => waited = 0
==============================================================================
