------------------------------ MODULE AuditLog ------------------------------
(***************************************************************************)
(* The audit trail of app/database.py: claim_ingestion, delete_document    *)
(* and save_feedback append their event to a chain of hashes in the same   *)
(* transaction as the change it is about (_append_audit_with_connection),  *)
(* verify_audit_chain reads it back.                                       *)
(*                                                                         *)
(* A step is one SQL statement of a transaction, or its COMMIT; a          *)
(* transaction may be rolled back between any two of them, which stands    *)
(* for a statement that raises, a lost connection and the death of the     *)
(* process.  What others committed is visible from statement to statement  *)
(* (READ COMMITTED), what they have not is not.                            *)
(*                                                                         *)
(* Transactions that find nothing to audit (a duplicate upload, a delete   *)
(* of a document that is gone) change neither the trail nor the rows       *)
(* below and are left out.                                                 *)
(***************************************************************************)
EXTENDS Integers, Sequences

CONSTANTS
    Writers,        \* connections: requests of any API process
    Tenants,
    Documents,      \* what the unique index tells apart: (tenant, sha256)
    Conversations,
    TenantOf,       \* the tenant a document or a conversation belongs to
    Database,       \* the one write lock of an SQLite database
    None,           \* nobody, no hash
    MaxEvents       \* bound: how long a tenant's trail gets before no more begin

Rows == Documents \cup Conversations

ASSUME TenantsAssumption == TenantOf \in [Rows -> Tenants]
ASSUME WritersAssumption == None \notin Writers
ASSUME KeysAssumption ==
    /\ Database \notin Rows \cup Tenants
    /\ Rows \cap Tenants = {}
    /\ Documents \cap Conversations = {}

VARIABLES
    postgres,  \* is it PostgreSQL, not SQLite? (is_postgres, never changes)
    present,   \* the documents that exist
    trail,     \* audit_events by tenant, in the order of their commits
    locks,     \* who holds a row, a tenant's advisory lock or the database
    pc,        \* the last statement of every open transaction
    row,       \* the row it changed
    action,    \* the event it will append
    last       \* the newest event it read: sequence and event_hash

vars == <<postgres, present, trail, locks, pc, row, action, last>>

------------------------------------------------------------------------------
Actions == {"accepted", "reingested", "deleted", "rated"}
Steps == {"idle", "changed", "locked", "read", "inserted"}

\* _audit_hash, free of collisions.  It covers previous_hash as well, which
\* the chain compares anyway; detail and time are no part of the model.
Hash(e) == <<e.sequence, e.actor, e.row, e.action>>
Hashes == Nat \X Writers \X Rows \X Actions

Events == [sequence : Nat, actor : Writers, row : Rows, action : Actions,
           previous : Hashes \cup {None}]

\* What PostgreSQL locks when a row is changed or pg_advisory_xact_lock is
\* called; SQLite has one lock for every writer, taken by its first change.
Locks == Rows \cup Tenants \cup {Database}
RowLock(r) == IF postgres THEN r ELSE Database
ChainLock(t) == IF postgres THEN t ELSE Database

\* The types of the trail, the locks and the open transactions.
TypeOK ==
    /\ postgres \in BOOLEAN
    /\ present \subseteq Documents
    /\ trail \in [Tenants -> Seq(Events)]
    /\ locks \in [Locks -> Writers \cup {None}]
    /\ pc \in [Writers -> Steps]
    /\ row \in [Writers -> Rows \cup {None}]
    /\ action \in [Writers -> Actions \cup {None}]
    /\ last \in [Writers -> [sequence : Nat, hash : Hashes \cup {None}]]

NoEvent == [sequence |-> 0, hash |-> None]

Init ==
    /\ postgres \in BOOLEAN
    /\ present = {}
    /\ trail = [t \in Tenants |-> <<>>]
    /\ locks = [k \in Locks |-> None]
    /\ pc = [p \in Writers |-> "idle"]
    /\ row = [p \in Writers |-> None]
    /\ action = [p \in Writers |-> None]
    /\ last = [p \in Writers |-> NoEvent]

------------------------------------------------------------------------------
Tenant(p) == TenantOf[row[p]]

\* What the code does to a row it finds, once it has the lock: accept or
\* ingest again (claim_ingestion), delete, rate.
Possible(r) ==
    CASE r \in Conversations -> {"rated"}
      [] r \in present -> {"reingested", "deleted"}
      [] OTHER -> {"accepted"}

\* The lock is not waited for: a mistake the properties must notice.
ChangeUnlocked(p, r) ==
    /\ pc[p] = "idle"
    /\ Len(trail[TenantOf[r]]) < MaxEvents
    /\ \E a \in Possible(r) : action' = [action EXCEPT ![p] = a]
    /\ locks' = [locks EXCEPT ![RowLock(r)] = p]
    /\ row' = [row EXCEPT ![p] = r]
    /\ pc' = [pc EXCEPT ![p] = "changed"]
    /\ UNCHANGED <<postgres, present, trail, last>>

\* INSERT, UPDATE or DELETE of the row itself, which waits for the transaction
\* that holds it and then finds what that one committed.
Change(p, r) ==
    /\ pc[p] = "idle"
    /\ Len(trail[TenantOf[r]]) < MaxEvents
    /\ locks[RowLock(r)] = None
    /\ \E a \in Possible(r) : action' = [action EXCEPT ![p] = a]
    /\ locks' = [locks EXCEPT ![RowLock(r)] = p]
    /\ row' = [row EXCEPT ![p] = r]
    /\ pc' = [pc EXCEPT ![p] = "changed"]
    /\ UNCHANGED <<postgres, present, trail, last>>

\* The advisory lock is only looked for: another mistake.
LockChainUnheeded(p) ==
    /\ pc[p] = "changed"
    /\ locks' = [locks EXCEPT ![ChainLock(Tenant(p))] = p]
    /\ pc' = [pc EXCEPT ![p] = "locked"]
    /\ UNCHANGED <<postgres, present, trail, row, action, last>>

\* SELECT pg_advisory_xact_lock(hashtext(tenant_id)).  On SQLite the
\* transaction has the only lock already.
LockChain(p) ==
    /\ pc[p] = "changed"
    /\ locks[ChainLock(Tenant(p))] \in {None, p}
    /\ locks' = [locks EXCEPT ![ChainLock(Tenant(p))] = p]
    /\ pc' = [pc EXCEPT ![p] = "locked"]
    /\ UNCHANGED <<postgres, present, trail, row, action, last>>

\* The first event of a tenant finds nothing and does not look: a mistake.
NewestUnchecked(t) ==
    IF trail[t] = <<>> THEN None
    ELSE LET e == trail[t][Len(trail[t])] IN [sequence |-> e.sequence, hash |-> Hash(e)]

Newest(t) ==
    IF trail[t] = <<>> THEN NoEvent
    ELSE LET e == trail[t][Len(trail[t])] IN [sequence |-> e.sequence, hash |-> Hash(e)]

\* SELECT sequence, event_hash ... ORDER BY sequence DESC LIMIT 1
ReadNewest(p) ==
    /\ pc[p] = "locked"
    /\ last' = [last EXCEPT ![p] = Newest(Tenant(p))]
    /\ pc' = [pc EXCEPT ![p] = "read"]
    /\ UNCHANGED <<postgres, present, trail, locks, row, action>>

\* The event without its link: a mistake.
NewEventUnlinked(p) ==
    [sequence |-> last[p].sequence + 1, actor |-> p, row |-> row[p],
     action |-> action[p], previous |-> None]

NewEvent(p) ==
    [sequence |-> last[p].sequence + 1, actor |-> p, row |-> row[p],
     action |-> action[p], previous |-> last[p].hash]

\* UNIQUE(tenant_id, sequence) refuses a number that is committed, and makes
\* the INSERT wait for a transaction that has used it.
NumberFree(p) ==
    /\ \A i \in 1..Len(trail[Tenant(p)]) :
          trail[Tenant(p)][i].sequence # NewEvent(p).sequence
    /\ \A q \in Writers \ {p} :
          pc[q] = "inserted" /\ Tenant(q) = Tenant(p) =>
              NewEvent(q).sequence # NewEvent(p).sequence

\* INSERT INTO audit_events.  When the number is taken the transaction waits
\* or is rolled back.
InsertEvent(p) ==
    /\ pc[p] = "read"
    /\ NumberFree(p)
    /\ pc' = [pc EXCEPT ![p] = "inserted"]
    /\ UNCHANGED <<postgres, present, trail, locks, row, action, last>>

Released(p) == [k \in Locks |-> IF locks[k] = p THEN None ELSE locks[k]]

\* What the transaction knew goes with it.
Forget(p) ==
    /\ pc' = [pc EXCEPT ![p] = "idle"]
    /\ row' = [row EXCEPT ![p] = None]
    /\ action' = [action EXCEPT ![p] = None]
    /\ last' = [last EXCEPT ![p] = NoEvent]

\* COMMIT: the change and its event become visible together.
Commit(p) ==
    /\ pc[p] = "inserted"
    /\ trail' = [trail EXCEPT ![Tenant(p)] = Append(@, NewEvent(p))]
    /\ present' = CASE action[p] = "accepted" -> present \cup {row[p]}
                    [] action[p] = "deleted" -> present \ {row[p]}
                    [] OTHER -> present
    /\ locks' = Released(p)
    /\ Forget(p)
    /\ UNCHANGED postgres

\* The advisory lock belongs to the session and outlives the transaction: the
\* mistake of pg_advisory_lock on a pooled connection.
RollbackKeepsLock(p) ==
    /\ pc[p] # "idle"
    /\ locks' = [k \in Locks |-> IF locks[k] = p /\ k \notin Tenants THEN None ELSE locks[k]]
    /\ Forget(p)
    /\ UNCHANGED <<postgres, present, trail>>

\* ROLLBACK: neither the change nor the event remains.
Rollback(p) ==
    /\ pc[p] # "idle"
    /\ locks' = Released(p)
    /\ Forget(p)
    /\ UNCHANGED <<postgres, present, trail>>

Proceed(p) == LockChain(p) \/ ReadNewest(p) \/ InsertEvent(p) \/ Commit(p)

\* Nothing need be going on.
Rest == (\A p \in Writers : pc[p] = "idle") /\ UNCHANGED vars

Next ==
    \/ \E p \in Writers : (\E r \in Rows : Change(p, r)) \/ Proceed(p) \/ Rollback(p)
    \/ Rest

Spec == Init /\ [][Next]_vars

\* A transaction takes its next step; the database hands a lock to those who
\* wait for it in turn.  No transaction need ever begin or fail.
FairSpec == Spec /\ \A p \in Writers : SF_vars(LockChain(p)) /\ WF_vars(Proceed(p))

------------------------------------------------------------------------------
(* Properties *)

\* What verify_audit_chain looks at in the i-th row.
Linked(events, i) ==
    /\ events[i].sequence = i
    /\ events[i].previous = IF i = 1 THEN None ELSE Hash(events[i - 1])

\* The trail of every tenant verifies at every moment, in the order in which
\* its events were committed: numbers without gap or repetition, every event
\* linked to the one before (app/database.py:854-887).
ChainIntact ==
    \A t \in Tenants : \A i \in 1..Len(trail[t]) : Linked(trail[t], i)

\* The constraint on (tenant_id, sequence) is never what keeps the chain
\* straight: the lock does, so no upload, delete or rating is ever rolled back
\* because somebody else was being audited (app/database.py:778-785).
NumbersNeverClash == \A p \in Writers : pc[p] = "read" => NumberFree(p)

\* May event e follow event d of the same row?
Follows(d, e) ==
    CASE e.action = "accepted" -> d.action = "deleted"
      [] e.action \in {"reingested", "deleted"} -> d.action # "deleted"
      [] OTHER -> TRUE

NoneBetween(events, i, j) == \A k \in (i + 1)..(j - 1) : events[k].row # events[i].row

\* The trail tells what happened: the events of a document are those of a life
\* that begins with its acceptance, and end as the documents table stands
\* (app/database.py:398-422, 528-543).
TrailTellsHistory ==
    \A t \in Tenants :
        LET events == trail[t] IN
        \A i \in 1..Len(events) :
            /\ (\A k \in 1..(i - 1) : events[k].row # events[i].row)
                  => events[i].action \in {"accepted", "rated"}
            /\ \A j \in (i + 1)..Len(events) :
                  events[j].row = events[i].row /\ NoneBetween(events, i, j)
                      => Follows(events[i], events[j])
            /\ events[i].row \in Documents /\ NoneBetween(events, i, Len(events) + 1)
                  => (events[i].row \in present <=> events[i].action # "deleted")

\* Every transaction ends: audited changes wait for the row first and for the
\* tenant's chain second, never the other way round (app/database.py:528, 779).
TransactionsEnd == \A p \in Writers : pc[p] # "idle" ~> pc[p] = "idle"
==============================================================================
