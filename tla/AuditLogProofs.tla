--------------------------- MODULE AuditLogProofs ---------------------------
(***************************************************************************)
(* For any number of connections, tenants and rows, and on both databases: *)
(* the trail of every tenant verifies, and no two transactions ever want   *)
(* the same number.                                                        *)
(*                                                                         *)
(* ChainIntact is not inductive.  What carries it is that the newest event *)
(* a transaction has read is still the newest when it commits (Current),   *)
(* because whoever has read it holds the lock of the tenant's chain        *)
(* (ChainHeld), and one holder excludes another.                           *)
(***************************************************************************)
EXTENDS AuditLog, TLAPS

Appending == {"locked", "read", "inserted"}

\* An open transaction is about a row and an event that fits it.
Underway ==
    \A p \in Writers : pc[p] # "idle" =>
        /\ row[p] \in Rows /\ action[p] \in Actions
        /\ action[p] = "accepted" => row[p] \in Documents

\* Whoever is past LockChain holds the chain of its tenant.
ChainHeld ==
    \A p \in Writers : pc[p] \in Appending => locks[ChainLock(Tenant(p))] = p

\* What was read last is still the newest.
Current ==
    \A p \in Writers : pc[p] \in {"read", "inserted"} => last[p] = Newest(Tenant(p))

ChainInv == TypeOK /\ Underway /\ ChainHeld /\ Current /\ ChainIntact

------------------------------------------------------------------------------
\* Two transactions past LockChain are about different tenants.
LEMMA ChainExcludes ==
    ASSUME ChainHeld, NEW p \in Writers, NEW q \in Writers,
           pc[p] \in Appending, pc[q] \in Appending, Tenant(p) = Tenant(q)
    PROVE  p = q
BY DEF ChainHeld

\* In a chain that verifies, the newest event has the number of its place.
LEMMA NewestNumber ==
    ASSUME TypeOK, ChainIntact, NEW t \in Tenants
    PROVE  /\ Newest(t) = IF trail[t] = <<>> THEN NoEvent
                          ELSE [sequence |-> Len(trail[t]),
                                hash |-> Hash(trail[t][Len(trail[t])])]
           /\ Newest(t).sequence = Len(trail[t])
<1>1. trail[t] \in Seq(Events)
  BY DEF TypeOK
<1>2. CASE trail[t] = <<>>
  BY <1>2 DEF Newest, NoEvent
<1>3. CASE trail[t] # <<>>
  <2>1. Len(trail[t]) \in 1..Len(trail[t])
    BY <1>1, <1>3
  <2>2. trail[t][Len(trail[t])].sequence = Len(trail[t])
    BY <2>1 DEF ChainIntact, Linked
  <2> QED
    BY <1>3, <2>2 DEF Newest
<1> QED
  BY <1>2, <1>3

\* The newest event is described by a number and a hash.
LEMMA NewestType ==
    ASSUME TypeOK, NEW t \in Tenants
    PROVE  Newest(t) \in [sequence : Nat, hash : Hashes \cup {None}]
<1>1. trail[t] \in Seq(Events)
  BY DEF TypeOK
<1>2. CASE trail[t] = <<>>
  BY <1>2 DEF Newest, NoEvent
<1>3. CASE trail[t] # <<>>
  <2> DEFINE e == trail[t][Len(trail[t])]
  <2>1. e \in Events
    BY <1>1, <1>3
  <2>2. Hash(e) \in Hashes
    BY <2>1 DEF Hash, Hashes, Events
  <2>3. e.sequence \in Nat
    BY <2>1 DEF Events
  <2> QED
    BY <1>3, <2>2, <2>3 DEF Newest
<1> QED
  BY <1>2, <1>3

\* An open transaction belongs to a tenant.
LEMMA Tenanted ==
    ASSUME Underway, NEW p \in Writers, pc[p] # "idle"
    PROVE  Tenant(p) \in Tenants
BY TenantsAssumption DEF Underway, Tenant

\* The event a transaction writes is one.
LEMMA NewEventType ==
    ASSUME TypeOK, Underway, NEW p \in Writers, pc[p] # "idle"
    PROVE  NewEvent(p) \in Events
<1>1. last[p] \in [sequence : Nat, hash : Hashes \cup {None}]
  BY DEF TypeOK
<1>2. row[p] \in Rows /\ action[p] \in Actions
  BY DEF Underway
<1> QED
  BY <1>1, <1>2 DEF NewEvent, Events

------------------------------------------------------------------------------
\* Nothing has been written yet.
LEMMA InitChain == Init => ChainInv
BY DEF Init, ChainInv, TypeOK, Underway, ChainHeld, Current, ChainIntact, Appending,
       Steps, NoEvent

\* A row is changed under its lock, which no open transaction of the same
\* database (SQLite) or row (PostgreSQL) has.
LEMMA ChangePreserves ==
    ASSUME ChainInv, NEW p \in Writers, NEW r \in Rows, Change(p, r)
    PROVE  ChainInv'
<1> USE DEF ChainInv
<1>1. RowLock(r) \in Locks
  BY DEF RowLock, Locks
<1>2. TypeOK'
  <2>1. \A x \in Rows : Possible(x) \subseteq Actions
    BY DEF Possible, Actions
  <2> QED
    BY <1>1, <2>1 DEF Change, TypeOK, Steps
<1>3. Underway'
  <2>1. Possible(r) \subseteq Actions /\ ("accepted" \in Possible(r) => r \in Documents)
    BY DEF Possible, Actions, Rows
  <2> QED
    BY <2>1 DEF Change, TypeOK, Underway
<1>4. ASSUME NEW q \in Writers, pc'[q] \in Appending
      PROVE  /\ q # p /\ pc[q] = pc'[q] /\ Tenant(q)' = Tenant(q)
             /\ ChainLock(Tenant(q))' = ChainLock(Tenant(q))
             /\ locks'[ChainLock(Tenant(q))] = q
  <2>1. q # p /\ pc[q] = pc'[q] /\ row'[q] = row[q] /\ postgres' = postgres
    BY <1>4 DEF Change, TypeOK, Appending
  <2>2. Tenant(q)' = Tenant(q) /\ ChainLock(Tenant(q))' = ChainLock(Tenant(q))
    BY <2>1 DEF Tenant, ChainLock
  <2>3. locks[ChainLock(Tenant(q))] = q
    BY <1>4, <2>1 DEF ChainHeld
  <2>4. ChainLock(Tenant(q)) # RowLock(r)
    BY <2>3, WritersAssumption DEF Change
  <2>5. locks'[ChainLock(Tenant(q))] = locks[ChainLock(Tenant(q))]
    <3>1. Tenant(q) \in Tenants
      BY <1>4, <2>1, Tenanted DEF Appending
    <3>2. ChainLock(Tenant(q)) \in Locks
      BY <3>1 DEF ChainLock, Locks
    <3> QED
      BY <3>2, <2>4 DEF Change, TypeOK
  <2> QED
    BY <2>1, <2>2, <2>3, <2>5
<1>5. ChainHeld'
  BY <1>4 DEF ChainHeld
<1>6. Current'
  <2> SUFFICES ASSUME NEW q \in Writers, pc'[q] \in {"read", "inserted"}
               PROVE  last'[q] = Newest(Tenant(q))'
    BY DEF Current
  <2>1. pc[q] = pc'[q] /\ Tenant(q)' = Tenant(q)
    BY <1>4 DEF Appending
  <2> QED
    BY <2>1 DEF Current, Newest, Change
<1>7. ChainIntact'
  BY DEF ChainIntact, Change
<1> QED
  BY <1>2, <1>3, <1>5, <1>6, <1>7

\* The chain is locked by nobody else.
LEMMA LockChainPreserves ==
    ASSUME ChainInv, NEW p \in Writers, LockChain(p)
    PROVE  ChainInv'
<1> USE DEF ChainInv
<1>1. Tenant(p) \in Tenants
  BY Tenanted DEF LockChain
<1>2. ChainLock(Tenant(p)) \in Locks
  BY <1>1 DEF ChainLock, Locks
<1>3. TypeOK'
  BY <1>2 DEF LockChain, TypeOK, Steps
<1>4. Underway'
  BY DEF LockChain, TypeOK, Underway
<1>5. \A q \in Writers : Tenant(q)' = Tenant(q) /\ ChainLock(Tenant(q))' = ChainLock(Tenant(q))
  BY DEF LockChain, Tenant, ChainLock
<1>6. ChainHeld'
  <2> SUFFICES ASSUME NEW q \in Writers, pc'[q] \in Appending
               PROVE  locks'[ChainLock(Tenant(q))] = q
    BY <1>5 DEF ChainHeld
  <2>1. CASE q = p
    BY <2>1, <1>2 DEF LockChain, TypeOK
  <2>2. CASE q # p
    <3>1. pc[q] \in Appending /\ locks[ChainLock(Tenant(q))] = q
      BY <2>2 DEF LockChain, TypeOK, ChainHeld
    <3>2. ChainLock(Tenant(q)) # ChainLock(Tenant(p))
      BY <3>1, <2>2, WritersAssumption DEF LockChain
    <3>3. locks'[ChainLock(Tenant(q))] = locks[ChainLock(Tenant(q))]
      <4>1. Tenant(q) \in Tenants
        BY <3>1, Tenanted DEF Appending
      <4>2. ChainLock(Tenant(q)) \in Locks
        BY <4>1 DEF ChainLock, Locks
      <4> QED
        BY <4>2, <3>2 DEF LockChain, TypeOK
    <3> QED
      BY <3>1, <3>3
  <2> QED
    BY <2>1, <2>2
<1>7. Current'
  BY <1>5 DEF Current, LockChain, TypeOK, Newest
<1>8. ChainIntact'
  BY DEF ChainIntact, LockChain
<1> QED
  BY <1>3, <1>4, <1>6, <1>7, <1>8

\* What was just read is the newest.
LEMMA ReadNewestPreserves ==
    ASSUME ChainInv, NEW p \in Writers, ReadNewest(p)
    PROVE  ChainInv'
<1> USE DEF ChainInv
<1>1. Tenant(p) \in Tenants
  BY Tenanted DEF ReadNewest
<1>2. Newest(Tenant(p)) \in [sequence : Nat, hash : Hashes \cup {None}]
  BY <1>1, NewestType
<1>3. TypeOK'
  BY <1>2 DEF ReadNewest, TypeOK, Steps
<1>4. Underway'
  BY DEF ReadNewest, TypeOK, Underway
<1>5. \A q \in Writers : /\ Tenant(q)' = Tenant(q)
                         /\ ChainLock(Tenant(q))' = ChainLock(Tenant(q))
                         /\ Newest(Tenant(q))' = Newest(Tenant(q))
  BY DEF ReadNewest, Tenant, ChainLock, Newest
<1>6. ChainHeld'
  BY <1>5 DEF ReadNewest, TypeOK, ChainHeld, Appending
<1>7. Current'
  BY <1>5 DEF Current, ReadNewest, TypeOK
<1>8. ChainIntact'
  BY DEF ChainIntact, ReadNewest
<1> QED
  BY <1>3, <1>4, <1>6, <1>7, <1>8

\* An event that is not committed is nobody else's newest.
LEMMA InsertEventPreserves ==
    ASSUME ChainInv, NEW p \in Writers, InsertEvent(p)
    PROVE  ChainInv'
<1> USE DEF ChainInv
<1>3. TypeOK'
  BY DEF InsertEvent, TypeOK, Steps
<1>4. Underway'
  BY DEF InsertEvent, TypeOK, Underway
<1>5. \A q \in Writers : /\ Tenant(q)' = Tenant(q)
                         /\ ChainLock(Tenant(q))' = ChainLock(Tenant(q))
                         /\ Newest(Tenant(q))' = Newest(Tenant(q))
  BY DEF InsertEvent, Tenant, ChainLock, Newest
<1>6. ChainHeld'
  BY <1>5 DEF InsertEvent, TypeOK, ChainHeld, Appending
<1>7. Current'
  BY <1>5 DEF Current, InsertEvent, TypeOK
<1>8. ChainIntact'
  BY DEF ChainIntact, InsertEvent
<1> QED
  BY <1>3, <1>4, <1>6, <1>7, <1>8

\* The end of a transaction leaves the others their locks and their rows.
LEMMA OthersUntouched ==
    ASSUME ChainInv, NEW p \in Writers, postgres' = postgres, locks' = Released(p), Forget(p)
    PROVE  /\ Underway'
           /\ ChainHeld'
           /\ pc'[p] = "idle"
           /\ \A q \in Writers : pc'[q] # "idle" =>
                 q # p /\ pc'[q] = pc[q] /\ last'[q] = last[q] /\ Tenant(q)' = Tenant(q)
<1> USE DEF ChainInv
<1>1. pc'[p] = "idle"
  BY DEF Forget, TypeOK
<1>2. \A q \in Writers : pc'[q] # "idle" =>
         /\ q # p /\ pc'[q] = pc[q] /\ last'[q] = last[q]
         /\ row'[q] = row[q] /\ action'[q] = action[q]
  BY DEF Forget, TypeOK
<1>3. \A q \in Writers : pc'[q] # "idle" => Tenant(q)' = Tenant(q)
  BY <1>2 DEF Tenant
<1>4. Underway'
  BY <1>2 DEF Underway
<1>5. ChainHeld'
  <2> SUFFICES ASSUME NEW q \in Writers, pc'[q] \in Appending
               PROVE  locks'[ChainLock(Tenant(q))'] = q
    BY DEF ChainHeld
  <2>1. q # p /\ pc[q] \in Appending /\ Tenant(q)' = Tenant(q)
    BY <1>2, <1>3 DEF Appending
  <2>2. ChainLock(Tenant(q))' = ChainLock(Tenant(q))
    BY <2>1 DEF ChainLock
  <2>3. locks[ChainLock(Tenant(q))] = q
    BY <2>1 DEF ChainHeld
  <2>4. ChainLock(Tenant(q)) \in Locks
    <3>1. Tenant(q) \in Tenants
      BY <2>1, Tenanted DEF Appending
    <3> QED
      BY <3>1 DEF ChainLock, Locks
  <2> QED
    BY <2>1, <2>2, <2>3, <2>4 DEF Released
<1> QED
  BY <1>1, <1>2, <1>3, <1>4, <1>5

\* The event is appended to the newest, which nobody has changed since it was
\* read, and no other transaction has read the same chain.
LEMMA CommitPreserves ==
    ASSUME ChainInv, NEW p \in Writers, Commit(p)
    PROVE  ChainInv'
<1> USE DEF ChainInv
<1>1. Tenant(p) \in Tenants
  BY Tenanted DEF Commit
<1>2. NewEvent(p) \in Events
  BY NewEventType DEF Commit
<1>3. /\ Underway' /\ ChainHeld'
      /\ \A q \in Writers : pc'[q] # "idle" =>
            q # p /\ pc'[q] = pc[q] /\ last'[q] = last[q] /\ Tenant(q)' = Tenant(q)
  BY OthersUntouched DEF Commit
<1>4. /\ trail' \in [Tenants -> Seq(Events)]
      /\ trail'[Tenant(p)] = Append(trail[Tenant(p)], NewEvent(p))
      /\ \A t \in Tenants \ {Tenant(p)} : trail'[t] = trail[t]
  BY <1>1, <1>2 DEF Commit, TypeOK
<1>5. TypeOK'
  <2>1. present' \subseteq Documents
    <3>1. action[p] = "accepted" => row[p] \in Documents
      BY DEF Underway, Commit
    <3> QED
      BY <3>1 DEF Commit, TypeOK
  <2>2. locks' \in [Locks -> Writers \cup {None}]
    BY DEF Commit, Released, TypeOK
  <2>3. /\ pc' \in [Writers -> Steps] /\ row' \in [Writers -> Rows \cup {None}]
        /\ action' \in [Writers -> Actions \cup {None}]
    BY DEF Commit, Forget, TypeOK, Steps
  <2>4. last' \in [Writers -> [sequence : Nat, hash : Hashes \cup {None}]]
    BY DEF Commit, Forget, TypeOK, NoEvent
  <2> QED
    BY <1>4, <2>1, <2>2, <2>3, <2>4 DEF Commit, TypeOK
<1>6. Current'
  <2> SUFFICES ASSUME NEW q \in Writers, pc'[q] \in {"read", "inserted"}
               PROVE  last'[q] = Newest(Tenant(q))'
    BY DEF Current
  <2>1. q # p /\ pc[q] = pc'[q] /\ last'[q] = last[q] /\ Tenant(q)' = Tenant(q)
    BY <1>3
  <2>2. Tenant(q) # Tenant(p)
    BY <2>1, ChainExcludes DEF Appending, Commit
  <2>3. Tenant(q) \in Tenants
    BY <2>1, Tenanted
  <2>4. Newest(Tenant(q))' = Newest(Tenant(q))
    BY <2>1, <2>2, <2>3, <1>4 DEF Newest
  <2> QED
    BY <2>1, <2>4 DEF Current
<1>7. ChainIntact'
  <2> SUFFICES ASSUME NEW t \in Tenants, NEW i \in 1..Len(trail'[t])
               PROVE  Linked(trail'[t], i)
    BY DEF ChainIntact, Linked, Hash
  <2>1. CASE t # Tenant(p)
    BY <2>1, <1>4 DEF ChainIntact
  <2>2. CASE t = Tenant(p)
    <3> DEFINE s == trail[t]
    <3>1. s \in Seq(Events) /\ trail'[t] = Append(s, NewEvent(p))
      BY <2>2, <1>4 DEF TypeOK
    <3>2. CASE i \in 1..Len(s)
      <4>1. Linked(s, i)
        BY <3>2 DEF ChainIntact
      <4>2. trail'[t][i] = s[i] /\ (i # 1 => trail'[t][i - 1] = s[i - 1])
        BY <3>1, <3>2
      <4> QED
        BY <4>1, <4>2 DEF Linked
    <3>3. CASE i = Len(s) + 1
      <4>1. last[p] = Newest(t)
        BY <2>2 DEF Current, Commit
      <4>2. trail'[t][i] = NewEvent(p)
        BY <3>1, <3>3
      <4>3. NewEvent(p).sequence = i
        BY <4>1, <3>3, NewestNumber DEF NewEvent
      <4>4. NewEvent(p).previous = IF i = 1 THEN None ELSE Hash(trail'[t][i - 1])
        <5>1. NewEvent(p).previous = Newest(t).hash
          BY <4>1 DEF NewEvent
        <5>2. CASE s = <<>>
          BY <5>1, <5>2, <3>3, NewestNumber DEF NoEvent
        <5>3. CASE s # <<>>
          <6>1. i # 1 /\ i - 1 = Len(s) /\ trail'[t][i - 1] = s[Len(s)]
            BY <5>3, <3>1, <3>3
          <6> QED
            BY <5>1, <5>3, <6>1, NewestNumber
        <5> QED
          BY <5>2, <5>3
      <4> QED
        BY <4>2, <4>3, <4>4 DEF Linked
    <3> QED
      BY <3>1, <3>2, <3>3
  <2> QED
    BY <2>1, <2>2
<1> QED
  BY <1>3, <1>5, <1>6, <1>7

\* A transaction that fails leaves the trail as it was.
LEMMA RollbackPreserves ==
    ASSUME ChainInv, NEW p \in Writers, Rollback(p)
    PROVE  ChainInv'
<1> USE DEF ChainInv
<1>1. /\ Underway' /\ ChainHeld'
      /\ \A q \in Writers : pc'[q] # "idle" =>
            q # p /\ pc'[q] = pc[q] /\ last'[q] = last[q] /\ Tenant(q)' = Tenant(q)
  BY OthersUntouched DEF Rollback
<1>2. TypeOK'
  <2>1. locks' \in [Locks -> Writers \cup {None}]
    BY DEF Rollback, Released, TypeOK
  <2>2. /\ pc' \in [Writers -> Steps] /\ row' \in [Writers -> Rows \cup {None}]
        /\ action' \in [Writers -> Actions \cup {None}]
    BY DEF Rollback, Forget, TypeOK, Steps
  <2>3. last' \in [Writers -> [sequence : Nat, hash : Hashes \cup {None}]]
    BY DEF Rollback, Forget, TypeOK, NoEvent
  <2> QED
    BY <2>1, <2>2, <2>3 DEF Rollback, TypeOK
<1>3. Current'
  BY <1>1 DEF Current, Rollback, Newest
<1>4. ChainIntact'
  BY DEF ChainIntact, Rollback
<1> QED
  BY <1>1, <1>2, <1>3, <1>4

------------------------------------------------------------------------------
\* The invariant is inductive.
LEMMA NextPreserves == ChainInv /\ [Next]_vars => ChainInv'
<1> SUFFICES ASSUME ChainInv, [Next]_vars
             PROVE  ChainInv'
  OBVIOUS
<1>1. ASSUME NEW p \in Writers, NEW r \in Rows, Change(p, r)
      PROVE  ChainInv'
  BY <1>1, ChangePreserves
<1>2. ASSUME NEW p \in Writers, Proceed(p)
      PROVE  ChainInv'
  BY <1>2, LockChainPreserves, ReadNewestPreserves, InsertEventPreserves, CommitPreserves
     DEF Proceed
<1>3. ASSUME NEW p \in Writers, Rollback(p)
      PROVE  ChainInv'
  BY <1>3, RollbackPreserves
<1>4. CASE UNCHANGED vars
  <2>1. TypeOK' /\ Underway' /\ ChainIntact'
    BY <1>4 DEF vars, ChainInv, TypeOK, Underway, ChainIntact
  <2>2. ChainHeld'
    BY <1>4 DEF vars, ChainInv, ChainHeld, Tenant, ChainLock
  <2>3. Current'
    BY <1>4 DEF vars, ChainInv, Current, Tenant, Newest
  <2> QED
    BY <2>1, <2>2, <2>3 DEF ChainInv
<1> QED
  BY <1>1, <1>2, <1>3, <1>4 DEF Next, Rest

\* The chain's invariant holds of every behaviour (app/database.py:765-838).
THEOREM ChainInvariant == Spec => []ChainInv
BY InitChain, NextPreserves, PTL DEF Spec

\* The variables of the audit trail and of its transactions have their types.
THEOREM TypeCorrect == Spec => []TypeOK
BY ChainInvariant, PTL DEF ChainInv

\* verify_audit_chain finds every tenant's trail valid at every moment,
\* however many requests append to it and whichever of them fail.
THEOREM TrailVerifies == Spec => []ChainIntact
BY ChainInvariant, PTL DEF ChainInv

\* No transaction ever runs into the unique index on (tenant_id, sequence).
THEOREM NumbersDistinct == Spec => []NumbersNeverClash
<1>1. ChainInv => NumbersNeverClash
  <2> SUFFICES ASSUME ChainInv, NEW p \in Writers, pc[p] = "read"
               PROVE  NumberFree(p)
    BY DEF NumbersNeverClash
  <2> USE DEF ChainInv
  <2>1. Tenant(p) \in Tenants
    BY Tenanted
  <2>2. NewEvent(p).sequence = Len(trail[Tenant(p)]) + 1
    BY <2>1, NewestNumber DEF Current, NewEvent
  <2>3. trail[Tenant(p)] \in Seq(Events)
    BY <2>1 DEF TypeOK
  <2>4. \A i \in 1..Len(trail[Tenant(p)]) :
           trail[Tenant(p)][i].sequence # NewEvent(p).sequence
    BY <2>1, <2>2, <2>3 DEF ChainIntact, Linked
  <2>5. \A q \in Writers \ {p} : ~(pc[q] = "inserted" /\ Tenant(q) = Tenant(p))
    BY ChainExcludes DEF Appending
  <2> QED
    BY <2>4, <2>5 DEF NumberFree
<1> QED
  BY <1>1, ChainInvariant, PTL

------------------------------------------------------------------------------
(***************************************************************************)
(* The trail and the tables tell the same.  Whoever is about to change a   *)
(* row has its lock (RowHeld), so what it found is still so when it        *)
(* commits (Fitting).                                                      *)
(***************************************************************************)

RowHeld == \A p \in Writers : pc[p] # "idle" => locks[RowLock(row[p])] = p

Fitting == \A p \in Writers : pc[p] # "idle" => action[p] \in Possible(row[p])

\* A tenant's trail is about its own rows.
Owned == \A t \in Tenants : \A i \in 1..Len(trail[t]) : TenantOf[trail[t][i].row] = t

\* A document nobody has been told of does not exist.
Announced ==
    \A d \in present : \E i \in 1..Len(trail[TenantOf[d]]) : trail[TenantOf[d]][i].row = d

HistoryInv ==
    ChainInv /\ RowHeld /\ Fitting /\ Owned /\ Announced /\ TrailTellsHistory

\* An empty trail tells of no document, and there is none.
LEMMA InitHistory == Init => HistoryInv
<1> SUFFICES ASSUME Init PROVE HistoryInv
  OBVIOUS
<1>1. ChainInv
  BY InitChain
<1>2. RowHeld /\ Fitting /\ Owned /\ Announced
  BY DEF Init, RowHeld, Fitting, Owned, Announced
<1>3. TrailTellsHistory
  BY DEF Init, TrailTellsHistory
<1> QED
  BY <1>1, <1>2, <1>3 DEF HistoryInv

\* A step that adds no event leaves what the trail tells as it was.
LEMMA SilentStep ==
    ASSUME HistoryInv, UNCHANGED <<trail, present>>
    PROVE  Owned' /\ Announced' /\ TrailTellsHistory'
BY DEF HistoryInv, Owned, Announced, TrailTellsHistory, NoneBetween, Follows

\* What a change finds fits it, and its lock keeps it so.
LEMMA ChangeTellsNothing ==
    ASSUME HistoryInv, NEW p \in Writers, NEW r \in Rows, Change(p, r)
    PROVE  HistoryInv'
<1> USE DEF HistoryInv
<1>1. ChainInv'
  BY ChangePreserves
<1>2. Owned' /\ Announced' /\ TrailTellsHistory'
  BY SilentStep DEF Change
<1>3. /\ locks'[RowLock(r)] = p /\ row'[p] = r /\ action'[p] \in Possible(r)
      /\ RowLock(r)' = RowLock(r) /\ Possible(r)' = Possible(r)
  <2>1. RowLock(r) \in Locks
    BY DEF RowLock, Locks
  <2> QED
    BY <2>1 DEF Change, ChainInv, TypeOK, RowLock, Possible
<1>4. ASSUME NEW q \in Writers, q # p, pc'[q] # "idle"
      PROVE  /\ row'[q] = row[q] /\ action'[q] = action[q] /\ pc[q] # "idle"
             /\ RowLock(row[q])' = RowLock(row[q])
             /\ locks'[RowLock(row[q])] = q
  <2>1. row'[q] = row[q] /\ action'[q] = action[q] /\ pc[q] # "idle"
    BY <1>4 DEF Change, ChainInv, TypeOK
  <2>2. RowLock(row[q])' = RowLock(row[q])
    BY <2>1 DEF RowLock, Change
  <2>3. locks[RowLock(row[q])] = q
    BY <2>1 DEF RowHeld
  <2>4. RowLock(row[q]) \in Locks
    BY <2>1 DEF ChainInv, Underway, RowLock, Locks
  <2> QED
    BY <2>1, <2>2, <2>3, <2>4, WritersAssumption DEF Change, ChainInv, TypeOK
<1>5. RowHeld'
  <2> SUFFICES ASSUME NEW q \in Writers, pc'[q] # "idle"
               PROVE  locks'[RowLock(row[q])'] = q
    BY DEF RowHeld
  <2>1. CASE q = p
    BY <2>1, <1>3 DEF RowLock, Change
  <2>2. CASE q # p
    BY <2>2, <1>4
  <2> QED
    BY <2>1, <2>2
<1>6. Fitting'
  BY <1>3, <1>4 DEF Fitting, Possible, Change
<1> QED
  BY <1>1, <1>2, <1>5, <1>6

\* The lock of a chain is no other transaction's row, nor is it the database's
\* unless the transaction has that already.
LEMMA LockTellsNothing ==
    ASSUME HistoryInv, NEW p \in Writers, LockChain(p)
    PROVE  HistoryInv'
<1> USE DEF HistoryInv
<1>1. ChainInv'
  BY LockChainPreserves
<1>2. Owned' /\ Announced' /\ TrailTellsHistory'
  BY SilentStep DEF LockChain
<1>3. ASSUME NEW q \in Writers, pc'[q] # "idle"
      PROVE  pc[q] # "idle" /\ locks'[RowLock(row[q])] = q
  <2>1. pc[q] # "idle" /\ row[q] \in Rows
    BY <1>3 DEF LockChain, ChainInv, TypeOK, Underway
  <2>2. locks[RowLock(row[q])] = q /\ RowLock(row[q]) \in Locks
    BY <2>1 DEF RowHeld, RowLock, Locks
  <2>3. CASE RowLock(row[q]) = ChainLock(Tenant(p))
    <3>1. q = p
      BY <2>2, <2>3, WritersAssumption DEF LockChain
    <3> QED
      BY <2>1, <2>2, <2>3, <3>1 DEF LockChain, ChainInv, TypeOK
  <2>4. CASE RowLock(row[q]) # ChainLock(Tenant(p))
    BY <2>1, <2>2, <2>4 DEF LockChain, ChainInv, TypeOK
  <2> QED
    BY <2>3, <2>4
<1>4. RowHeld'
  BY <1>3 DEF RowHeld, LockChain, RowLock
<1>5. Fitting'
  BY <1>3 DEF Fitting, Possible, LockChain
<1> QED
  BY <1>1, <1>2, <1>4, <1>5

\* Reading and inserting change neither rows nor trail.
LEMMA ReadTellsNothing ==
    ASSUME HistoryInv, NEW p \in Writers, ReadNewest(p) \/ InsertEvent(p)
    PROVE  HistoryInv'
<1> USE DEF HistoryInv
<1>1. ChainInv'
  BY ReadNewestPreserves, InsertEventPreserves
<1>2. UNCHANGED <<postgres, present, trail, locks, row, action>>
  BY DEF ReadNewest, InsertEvent
<1>3. \A q \in Writers : pc'[q] # "idle" => pc[q] # "idle"
  BY DEF ReadNewest, InsertEvent, ChainInv, TypeOK
<1>4. Owned' /\ Announced' /\ TrailTellsHistory'
  BY <1>2, SilentStep
<1>5. RowHeld'
  BY <1>2, <1>3 DEF RowHeld, RowLock
<1>6. Fitting'
  BY <1>2, <1>3 DEF Fitting, Possible
<1> QED
  BY <1>1, <1>4, <1>5, <1>6

\* The end of a transaction takes no row from another.
LEMMA OthersKeepRows ==
    ASSUME HistoryInv, NEW p \in Writers, postgres' = postgres, locks' = Released(p), Forget(p)
    PROVE  \A q \in Writers : pc'[q] # "idle" =>
              /\ q # p /\ pc[q] # "idle" /\ row'[q] = row[q] /\ action'[q] = action[q]
              /\ locks'[RowLock(row[q])] = q
              /\ RowLock(row[q])' = RowLock(row[q])
<1> USE DEF HistoryInv
<1> SUFFICES ASSUME NEW q \in Writers, pc'[q] # "idle"
             PROVE  /\ q # p /\ pc[q] # "idle" /\ row'[q] = row[q] /\ action'[q] = action[q]
                    /\ locks'[RowLock(row[q])] = q
                    /\ RowLock(row[q])' = RowLock(row[q])
  OBVIOUS
<1>1. q # p /\ pc[q] # "idle" /\ row'[q] = row[q] /\ action'[q] = action[q]
  BY DEF Forget, ChainInv, TypeOK
<1>2. locks[RowLock(row[q])] = q /\ RowLock(row[q]) \in Locks
  BY <1>1 DEF RowHeld, RowLock, Locks, ChainInv, Underway
<1>3. locks'[RowLock(row[q])] = q
  BY <1>1, <1>2 DEF Released
<1>4. RowLock(row[q])' = RowLock(row[q])
  BY <1>1 DEF RowLock
<1> QED
  BY <1>1, <1>3, <1>4

\* A transaction that fails has changed no row.
LEMMA RollbackTellsNothing ==
    ASSUME HistoryInv, NEW p \in Writers, Rollback(p)
    PROVE  HistoryInv'
<1> USE DEF HistoryInv
<1>1. ChainInv'
  BY RollbackPreserves
<1>2. Owned' /\ Announced' /\ TrailTellsHistory'
  BY SilentStep DEF Rollback
<1>3. RowHeld'
  BY OthersKeepRows DEF RowHeld, Rollback
<1>4. Fitting'
  BY OthersKeepRows DEF Fitting, Possible, Rollback
<1> QED
  BY <1>1, <1>2, <1>3, <1>4

\* The committed event follows from what the transaction found, which is what
\* the trail told before.
LEMMA CommitTells ==
    ASSUME HistoryInv, NEW p \in Writers, Commit(p)
    PROVE  HistoryInv'
<1> DEFINE t0 == Tenant(p)
           old == trail[t0]
           new == trail'[t0]
           e == NewEvent(p)
<1> USE DEF HistoryInv
<1>1. ChainInv'
  BY CommitPreserves
<1>2. /\ t0 \in Tenants /\ e \in Events
      /\ e.row = row[p] /\ e.action = action[p] /\ row[p] \in Rows /\ TenantOf[row[p]] = t0
      /\ action[p] \in Possible(row[p])
  BY Tenanted, NewEventType DEF Commit, ChainInv, Underway, NewEvent, Tenant, Fitting
<1>3. /\ old \in Seq(Events) /\ new = Append(old, e)
      /\ \A t \in Tenants \ {t0} : trail'[t] = trail[t]
  BY <1>2 DEF Commit, ChainInv, TypeOK
<1>4. /\ Len(new) = Len(old) + 1 /\ Len(old) \in Nat /\ new[Len(old) + 1] = e
      /\ \A i \in 1..Len(old) : new[i] = old[i]
  BY <1>2, <1>3
<1>5. \A d \in Documents : d # row[p] => (d \in present' <=> d \in present)
  BY DEF Commit
<1>6. \A i \in 1..Len(old), j \in 1..Len(old) + 1 :
         NoneBetween(new, i, j) <=> NoneBetween(old, i, j)
  <2> SUFFICES ASSUME NEW i \in 1..Len(old), NEW j \in 1..Len(old) + 1
               PROVE  NoneBetween(new, i, j) <=> NoneBetween(old, i, j)
    OBVIOUS
  <2>1. new[i] = old[i] /\ \A k \in (i + 1)..(j - 1) : new[k] = old[k]
    BY <1>4
  <2> QED
    BY <2>1 DEF NoneBetween
<1>7. ASSUME \A k \in 1..Len(old) : old[k].row # row[p]
      PROVE  e.action \in {"accepted", "rated"}
  <2>1. row[p] \notin present
    BY <1>2, <1>7 DEF Announced
  <2> QED
    BY <1>2, <2>1 DEF Possible
<1>8. ASSUME NEW i \in 1..Len(old), old[i].row = row[p], NoneBetween(old, i, Len(old) + 1)
      PROVE  Follows(old[i], e)
  <2>1. row[p] \in Documents => (row[p] \in present <=> old[i].action # "deleted")
    BY <1>2, <1>8 DEF TrailTellsHistory
  <2>2. CASE row[p] \in Conversations
    <3>1. row[p] \notin present
      BY <2>2, KeysAssumption DEF ChainInv, TypeOK
    <3>2. e.action = "rated"
      BY <1>2, <2>2, <3>1 DEF Possible
    <3> QED
      BY <3>2 DEF Follows
  <2>3. CASE row[p] \in Documents /\ row[p] \in present
    BY <1>2, <2>1, <2>3, KeysAssumption DEF Possible, Follows
  <2>4. CASE row[p] \in Documents /\ row[p] \notin present
    BY <1>2, <2>1, <2>4, KeysAssumption DEF Possible, Follows
  <2> QED
    BY <1>2, <2>2, <2>3, <2>4 DEF Rows
<1>9. row[p] \in Documents => (row[p] \in present' <=> e.action # "deleted")
  <2> HAVE row[p] \in Documents
  <2>1. row[p] \notin Conversations
    BY KeysAssumption
  <2>2. CASE row[p] \in present
    BY <1>2, <2>1, <2>2 DEF Possible, Commit
  <2>3. CASE row[p] \notin present
    BY <1>2, <2>1, <2>3 DEF Possible, Commit
  <2> QED
    BY <2>2, <2>3
<1>10. Owned'
  <2> SUFFICES ASSUME NEW t \in Tenants, NEW i \in 1..Len(trail'[t])
               PROVE  TenantOf[trail'[t][i].row] = t
    BY DEF Owned
  <2>1. CASE t # t0
    BY <2>1, <1>3 DEF Owned
  <2>2. CASE t = t0 /\ i \in 1..Len(old)
    BY <2>2, <1>4 DEF Owned
  <2>3. CASE t = t0 /\ i = Len(old) + 1
    BY <2>3, <1>2, <1>4
  <2> QED
    BY <2>1, <2>2, <2>3, <1>4
<1>11. Announced'
  <2> SUFFICES ASSUME NEW d \in present'
               PROVE  \E i \in 1..Len(trail'[TenantOf[d]]) : trail'[TenantOf[d]][i].row = d
    BY DEF Announced
  <2>1. CASE d = row[p]
    <3>1. Len(old) + 1 \in 1..Len(new) /\ new[Len(old) + 1].row = d
      BY <2>1, <1>2, <1>4
    <3> QED
      BY <2>1, <3>1, <1>2
  <2>2. CASE d # row[p]
    <3>1. d \in present
      BY <2>2 DEF Commit
    <3>2. PICK i \in 1..Len(trail[TenantOf[d]]) : trail[TenantOf[d]][i].row = d
      BY <3>1 DEF Announced
    <3>3. TenantOf[d] \in Tenants
      BY <3>1, TenantsAssumption DEF ChainInv, TypeOK, Rows
    <3>4. CASE TenantOf[d] = t0
      BY <3>2, <3>4, <1>4
    <3>5. CASE TenantOf[d] # t0
      BY <3>2, <3>3, <3>5, <1>3
    <3> QED
      BY <3>4, <3>5
  <2> QED
    BY <2>1, <2>2
<1>12. TrailTellsHistory'
  <2> DEFINE First(s, i) == (\A k \in 1..(i - 1) : s[k].row # s[i].row)
                               => s[i].action \in {"accepted", "rated"}
             Pair(s, i, j) == s[j].row = s[i].row /\ NoneBetween(s, i, j) => Follows(s[i], s[j])
             Stands(s, i, there) == s[i].row \in Documents /\ NoneBetween(s, i, Len(s) + 1)
                                       => (s[i].row \in there <=> s[i].action # "deleted")
  <2>1. \A t \in Tenants : \A i \in 1..Len(trail[t]) :
           /\ First(trail[t], i) /\ Stands(trail[t], i, present)
           /\ \A j \in (i + 1)..Len(trail[t]) : Pair(trail[t], i, j)
    BY DEF TrailTellsHistory
  <2> SUFFICES ASSUME NEW t \in Tenants, NEW i \in 1..Len(trail'[t])
               PROVE  /\ First(trail'[t], i) /\ Stands(trail'[t], i, present')
                      /\ \A j \in (i + 1)..Len(trail'[t]) : Pair(trail'[t], i, j)
    BY DEF TrailTellsHistory, NoneBetween, Follows
  <2>2. CASE t # t0
    <3>1. trail'[t] = trail[t] /\ TenantOf[trail[t][i].row] = t
      BY <2>2, <1>3 DEF Owned
    <3>2. trail[t][i].row # row[p]
      BY <3>1, <2>2, <1>2
    <3>3. Stands(trail[t], i, present')
      BY <2>1, <3>1, <3>2, <1>5
    <3> QED
      BY <2>1, <3>1, <3>3
  <2>3. CASE t = t0 /\ i = Len(old) + 1
    <3>1. First(new, i)
      <4> SUFFICES ASSUME \A k \in 1..(i - 1) : new[k].row # new[i].row
                   PROVE  new[i].action \in {"accepted", "rated"}
        OBVIOUS
      <4>1. \A k \in 1..Len(old) : old[k].row # row[p]
        BY <2>3, <1>2, <1>4
      <4> QED
        BY <4>1, <1>7, <2>3, <1>4
    <3>2. Stands(new, i, present')
      BY <2>3, <1>2, <1>4, <1>9
    <3>3. (i + 1)..Len(new) = {}
      BY <2>3, <1>4
    <3> QED
      BY <2>3, <3>1, <3>2, <3>3
  <2>4. CASE t = t0 /\ i \in 1..Len(old)
    <3>1. First(new, i)
      <4>1. First(old, i)
        BY <2>1, <2>4, <1>2
      <4>2. new[i] = old[i] /\ \A k \in 1..(i - 1) : new[k] = old[k]
        BY <2>4, <1>4
      <4> QED
        BY <4>1, <4>2
    <3>2. Stands(new, i, present')
      <4> SUFFICES ASSUME new[i].row \in Documents, NoneBetween(new, i, Len(new) + 1)
                   PROVE  new[i].row \in present' <=> new[i].action # "deleted"
        OBVIOUS
      <4>1. new[i] = old[i]
        BY <2>4, <1>4
      <4>2. new[i].row # row[p]
        BY <2>4, <1>2, <1>4 DEF NoneBetween
      <4>3. NoneBetween(new, i, Len(old) + 1)
        BY <2>4, <1>4 DEF NoneBetween
      <4>4. NoneBetween(old, i, Len(old) + 1)
        BY <2>4, <4>3, <1>4, <1>6
      <4>5. Stands(old, i, present)
        BY <2>1, <2>4, <1>2
      <4> QED
        BY <4>1, <4>2, <4>4, <4>5, <1>5
    <3>3. ASSUME NEW j \in (i + 1)..Len(new)
          PROVE  Pair(new, i, j)
      <4>1. CASE j = Len(old) + 1
        <5> SUFFICES ASSUME new[j].row = new[i].row, NoneBetween(new, i, j)
                     PROVE  Follows(new[i], new[j])
          OBVIOUS
        <5>1. old[i].row = row[p] /\ new[i] = old[i] /\ new[j] = e
          BY <4>1, <2>4, <1>2, <1>4
        <5>2. NoneBetween(old, i, Len(old) + 1)
          BY <4>1, <2>4, <1>4, <1>6
        <5> QED
          BY <2>4, <5>1, <5>2, <1>8
      <4>2. CASE j \in (i + 1)..Len(old)
        <5>1. Pair(old, i, j)
          BY <4>2, <2>1, <2>4, <1>2
        <5>2. new[i] = old[i] /\ new[j] = old[j]
          BY <4>2, <2>4, <1>4
        <5>3. NoneBetween(new, i, j) <=> NoneBetween(old, i, j)
          BY <4>2, <2>4, <1>4, <1>6
        <5> QED
          BY <5>1, <5>2, <5>3
      <4> QED
        BY <3>3, <4>1, <4>2, <2>4, <1>4
    <3> QED
      BY <2>4, <3>1, <3>2, <3>3
  <2> QED
    BY <2>2, <2>3, <2>4, <1>4
<1>13. RowHeld'
  BY OthersKeepRows DEF RowHeld, Commit
<1>14. Fitting'
  <2> SUFFICES ASSUME NEW q \in Writers, pc'[q] # "idle"
               PROVE  action'[q] \in Possible(row[q])'
    BY DEF Fitting
  <2>1. /\ q # p /\ pc[q] # "idle" /\ row'[q] = row[q] /\ action'[q] = action[q]
        /\ locks[RowLock(row[q])] = q /\ action[q] \in Possible(row[q])
    BY OthersKeepRows DEF Commit, RowHeld, Fitting
  <2>2. row[q] # row[p]
    BY <2>1 DEF RowHeld, Commit
  <2>3. row[q] \in present' <=> row[q] \in present
    BY <2>2 DEF Commit
  <2> QED
    BY <2>1, <2>3 DEF Possible
<1> QED
  BY <1>1, <1>10, <1>11, <1>12, <1>13, <1>14

\* The invariant of the history is inductive.
LEMMA NextTells == HistoryInv /\ [Next]_vars => HistoryInv'
<1> SUFFICES ASSUME HistoryInv, [Next]_vars
             PROVE  HistoryInv'
  OBVIOUS
<1>1. ASSUME NEW p \in Writers, NEW r \in Rows, Change(p, r)
      PROVE  HistoryInv'
  BY <1>1, ChangeTellsNothing
<1>2. ASSUME NEW p \in Writers, Proceed(p)
      PROVE  HistoryInv'
  BY <1>2, LockTellsNothing, ReadTellsNothing, CommitTells DEF Proceed
<1>3. ASSUME NEW p \in Writers, Rollback(p)
      PROVE  HistoryInv'
  BY <1>3, RollbackTellsNothing
<1>4. CASE UNCHANGED vars
  <2>1. ChainInv'
    BY <1>4, NextPreserves DEF HistoryInv
  <2>2. Owned' /\ Announced' /\ TrailTellsHistory'
    BY <1>4, SilentStep DEF vars
  <2>3. RowHeld' /\ Fitting'
    BY <1>4 DEF vars, HistoryInv, RowHeld, Fitting, RowLock, Possible
  <2> QED
    BY <2>1, <2>2, <2>3 DEF HistoryInv
<1> QED
  BY <1>1, <1>2, <1>3, <1>4 DEF Next, Rest

\* An auditor who reads the trail knows the documents: every life begins with
\* an acceptance, and the last event says whether the document is there, on
\* both databases and whatever fails between two statements.
THEOREM TrailIsHistory == Spec => []TrailTellsHistory
<1>1. Spec => []HistoryInv
  BY InitHistory, NextTells, PTL DEF Spec
<1> QED
  BY <1>1, PTL DEF HistoryInv
==============================================================================
