------------------------------ MODULE ChatProofs ------------------------------
(***************************************************************************)
(* Proofs about Chat, for any number of turns, users, documents and        *)
(* batches and any policy of what a text may be rewritten to.              *)
(***************************************************************************)
EXTENDS Chat, FiniteSetTheorems, WellFoundedInduction, TLAPS

\* The fields of a turn that the proofs look into; the others are as they are.
TurnShape(x) ==
    x \in [pc : Phases, user : {x.user}, session : {x.session}, question : {x.question},
           query : {x.query}, began : {x.began}, floor : [Documents -> Nat],
           rows : SUBSET Rows, hits : Seq(Rows), refs : SUBSET Nat]

Shape ==
    /\ last \in [Documents -> 1..MaxBatches]
    /\ shown \in [Documents -> Nat]
    /\ \A d \in Documents : shown[d] \in {0, last[d]}
    /\ DOMAIN turn = Turns /\ turn = [t \in Turns |-> turn[t]]
    /\ \A t \in Turns : TurnShape(turn[t])
    /\ reindex \in [pc : {"idle", "running", "finished", "failed"}, todo : SUBSET Rows,
                    met : SUBSET Documents]

\* What a document is served from never falls below what a turn has seen of it.
FloorInv(x) ==
    \A d \in Documents :
        /\ x.floor[d] <= last[d] + 1
        /\ shown[d] # 0 => x.floor[d] <= last[d]

\* A row that a turn may cite.
Citable(x, row) ==
    /\ row[2] \in x.floor[row[1]]..last[row[1]]
    /\ x.user \in Readers[row[1]]

CitedInv(x) ==
    /\ x.pc = "new" => x.rows = {}
    /\ x.pc \in {"new", "read", "search"} => x.hits = <<>> /\ x.refs = {}
    /\ \A row \in x.rows : Citable(x, row)
    /\ \A i \in DOMAIN x.hits : Citable(x, x.hits[i])
    /\ x.refs \subseteq DOMAIN x.hits

PolicyInv(x) ==
    /\ x.pc \in {"read", "search", "generate"} => ~Refused(x.question)
    /\ x.pc = "generate" => ~Refused(x.query)

\* What a running reindex has not indexed yet, it still has to do, but for the
\* documents on which jobs met since it began.
ReindexInv ==
    /\ meeting \subseteq reindex.met
    /\ \A d \in Documents :
        shown[d] # 0 /\ d \notin deleting \cup reindex.met =>
            /\ reindex.pc = "running" => <<d, shown[d]>> \in points \cup reindex.todo
            /\ reindex.pc = "finished" => <<d, shown[d]>> \in points

TurnInv(x) == FloorInv(x) /\ CitedInv(x) /\ PolicyInv(x)

ChatInv == Shape /\ ReindexInv /\ \A t \in Turns : TurnInv(turn[t])

------------------------------------------------------------------------------
\* A turn that is over is a new one but for its phase.
Over == [NewTurn EXCEPT !.pc = "over"]

LEMMA NewTurnType == TurnShape(NewTurn) /\ TurnShape(Over)
<1>1. <<>> \in Seq(Rows)
    OBVIOUS
<1>2. [d \in Documents |-> 0] \in [Documents -> Nat]
    OBVIOUS
<1>3. TurnShape(NewTurn)
    BY <1>1, <1>2 DEF TurnShape, NewTurn, Phases
<1> QED BY <1>3 DEF TurnShape, Over, Phases

LEMMA RowsFinite == IsFiniteSet(Rows)
<1>1. IsFiniteSet(1..MaxBatches)
    BY BatchesAssumption, FS_Interval
<1> QED BY <1>1, DocumentsAssumption, FS_Product DEF Rows

\* A turn that knows nothing cites nothing.
LEMMA EmptyTurn ==
    ASSUME Shape
    PROVE  TurnInv(NewTurn) /\ TurnInv(Over)
<1>1. SUFFICES ASSUME NEW x, x = NewTurn \/ x = Over PROVE TurnInv(x)
    OBVIOUS
<1>2. /\ x.pc \in {"new", "over"} /\ x.floor = [d \in Documents |-> 0]
      /\ x.rows = {} /\ x.hits = <<>> /\ x.refs = {}
    BY <1>1 DEF NewTurn, Over
<1>3. FloorInv(x)
    BY <1>2 DEF FloorInv, Shape
<1>4. CitedInv(x)
    BY <1>2 DEF CitedInv
<1>5. PolicyInv(x)
    BY <1>2 DEF PolicyInv
<1> QED BY <1>3, <1>4, <1>5 DEF TurnInv

\* A ranking is a sequence of rows of the set that is ranked.
LEMMA RankingsType ==
    ASSUME NEW rows \in SUBSET Rows, NEW s \in Rankings(rows)
    PROVE  s \in Seq(rows) /\ s \in Seq(Rows)
<1>1. IsFiniteSet(rows) /\ Cardinality(rows) \in Nat
    BY RowsFinite, FS_Subset, FS_CardinalityType
<1>2. PICK size \in Nat : s \in [1..size -> rows]
    BY <1>1, LimitsAssumption DEF Rankings
<1>3. s \in Seq(rows)
    BY <1>2
<1> QED BY <1>2, <1>3

LEMMA ChatInit == Init => ChatInv
<1> SUFFICES ASSUME Init PROVE ChatInv
    OBVIOUS
<1>1. Shape
    BY NewTurnType, BatchesAssumption DEF Init, Shape, Rows
<1>2. \A t \in Turns : TurnInv(turn[t])
    BY <1>1, EmptyTurn DEF Init
<1>3. ReindexInv
    BY DEF Init, ReindexInv
<1> QED BY <1>1, <1>2, <1>3 DEF ChatInv

------------------------------------------------------------------------------
\* Nothing but one turn changes: it is enough to look at that one.
LEMMA TurnFrame ==
    ASSUME ChatInv, NEW t \in Turns, NEW x,
           turn' = [turn EXCEPT ![t] = x], UNCHANGED <<library, points, reindex>>,
           TurnShape(x), TurnInv(x)
    PROVE  ChatInv'
<1>1. \A u \in Turns : turn'[u] = IF u = t THEN x ELSE turn[u]
    BY DEF ChatInv, Shape
<1>2. Shape'
    <2>1. DOMAIN turn' = Turns /\ turn' = [u \in Turns |-> turn'[u]]
        BY DEF ChatInv, Shape
    <2>2. \A u \in Turns : TurnShape(turn[u])'
        BY <1>1 DEF ChatInv, Shape, TurnShape
    <2> QED BY <2>1, <2>2 DEF ChatInv, Shape, library
<1>3. ReindexInv'
    BY DEF ChatInv, ReindexInv, library
<1>4. \A u \in Turns : TurnInv(turn[u])'
    BY <1>1 DEF ChatInv, TurnInv, FloorInv, CitedInv, Citable, PolicyInv, library
<1> QED BY <1>2, <1>3, <1>4 DEF ChatInv

\* What is served now or later is what a turn that begins now may cite.
LEMMA FloorType == ASSUME Shape PROVE Floor \in [Documents -> Nat]
BY BatchesAssumption DEF Shape, Floor

LEMMA AskStep == ASSUME ChatInv, NEW t \in Turns, Ask(t) PROVE ChatInv'
<1> DEFINE Session(id) == IF id = Blank THEN t ELSE id
           Query(user, id, question) ==
               IF Refused(question) THEN question
               ELSE Rewrite(question, History(user, Session(id)))
           Begun(user, id, question) ==
               [turn[t] EXCEPT !.pc = IF Refused(question) THEN "save" ELSE "read",
                               !.user = user, !.session = Session(id),
                               !.question = question, !.query = Query(user, id, question),
                               !.began = Len(conversations), !.floor = Floor]
<1>1. PICK user \in Askers[t], id \in Sessions \cup {Blank}, question \in Questions :
        /\ turn[t].pc = "new"
        /\ turn' = [turn EXCEPT ![t] = Begun(user, id, question)]
        /\ UNCHANGED <<library, points, conversations, reindex>>
    BY Zenon DEF Ask
<1> DEFINE x == Begun(user, id, question)
<1>2. TurnShape(turn[t]) /\ TurnInv(turn[t]) /\ Shape
    BY DEF ChatInv, Shape
<1>3. TurnShape(x)
    BY <1>2, FloorType DEF TurnShape, Phases
<1>4. /\ x.pc = IF Refused(question) THEN "save" ELSE "read"
      /\ x.question = question /\ x.floor = Floor
      /\ x.rows = {} /\ x.hits = <<>> /\ x.refs = {}
    BY <1>1, <1>2 DEF TurnShape, TurnInv, CitedInv
<1>5. FloorInv(x)
    BY <1>2, <1>4, BatchesAssumption DEF FloorInv, Floor, Shape
<1>6. CitedInv(x)
    BY <1>4 DEF CitedInv
<1>7. PolicyInv(x)
    BY <1>4 DEF PolicyInv
<1>8. TurnInv(x)
    BY <1>5, <1>6, <1>7 DEF TurnInv
<1> HIDE DEF x, Begun
<1> QED BY <1>1, <1>3, <1>8, TurnFrame DEF x

\* What becomes of a turn when the evidence is judged, whatever hits it has.
LEMMA JudgedStep ==
    ASSUME ChatInv, NEW t \in Turns, NEW hits \in Seq(Rows), Judged(t, hits),
           turn[t].pc \in {"read", "search"},
           \A i \in DOMAIN hits : Citable(turn[t], hits[i]),
           UNCHANGED <<library, points, reindex>>
    PROVE  ChatInv'
<1> DEFINE Then(pc) == [turn[t] EXCEPT !.pc = pc, !.rows = {},
                                       !.hits = IF pc = "generate" THEN hits ELSE <<>>]
<1>1. PICK pc \in {"generate", "save"} :
        /\ pc = "generate" => ~Refused(turn[t].query)
        /\ turn' = [turn EXCEPT ![t] = Then(pc)]
    BY Zenon DEF Judged
<1> DEFINE x == Then(pc)
<1>2. TurnShape(turn[t]) /\ TurnInv(turn[t]) /\ Shape
    BY DEF ChatInv, Shape
<1>3. <<>> \in Seq(Rows)
    OBVIOUS
<1>4. TurnShape(x)
    BY <1>2, <1>3 DEF TurnShape, Phases
<1>5. /\ x.pc = pc /\ x.question = turn[t].question /\ x.query = turn[t].query
      /\ x.floor = turn[t].floor /\ x.user = turn[t].user
      /\ x.rows = {} /\ x.hits = IF pc = "generate" THEN hits ELSE <<>>
      /\ x.refs = {}
    BY <1>2 DEF TurnShape, TurnInv, CitedInv
<1> HIDE DEF x
<1>6. FloorInv(x)
    BY <1>2, <1>5 DEF TurnInv, FloorInv
<1>7. CitedInv(x)
    BY <1>2, <1>5 DEF TurnInv, CitedInv, Citable
<1>8. PolicyInv(x)
    BY <1>1, <1>2, <1>5 DEF TurnInv, PolicyInv
<1>9. TurnInv(x)
    BY <1>6, <1>7, <1>8 DEF TurnInv
<1> QED BY <1>1, <1>4, <1>9, TurnFrame DEF x

\* What a reader may see now is no older than what the turn began with.
LEMMA AccessibleCitable ==
    ASSUME Shape, NEW x, FloorInv(x), NEW row \in Accessible(x.user)
    PROVE  row \in Rows /\ Citable(x, row)
<1>1. PICK d \in Documents : shown[d] # 0 /\ x.user \in Readers[d] /\ row = <<d, shown[d]>>
    BY DEF Accessible
<1>2. shown[d] = last[d] /\ last[d] \in 1..MaxBatches /\ x.floor[d] <= last[d]
    BY <1>1 DEF Shape, FloorInv
<1>3. row[1] = d /\ row[2] = last[d]
    BY <1>1, <1>2
<1> QED BY <1>1, <1>2, <1>3, BatchesAssumption DEF Rows, Citable

LEMMA ReadRowsStep == ASSUME ChatInv, NEW t \in Turns, ReadRows(t) PROVE ChatInv'
<1>1. CASE Accessible(turn[t].user) = {}
    <2>1. <<>> \in Seq(Rows) /\ DOMAIN <<>> = {}
        OBVIOUS
    <2>2. Judged(t, <<>>) /\ turn[t].pc = "read" /\ UNCHANGED <<library, points, reindex>>
        BY <1>1 DEF ReadRows
    <2> QED BY <2>1, <2>2, JudgedStep
<1>2. CASE Accessible(turn[t].user) # {}
    <2> DEFINE rows == Accessible(turn[t].user)
               x == [turn[t] EXCEPT !.pc = "search", !.rows = rows]
    <2>1. /\ turn[t].pc = "read"
          /\ turn' = [turn EXCEPT ![t] = x]
          /\ UNCHANGED <<library, points, reindex>>
        BY <1>2, Zenon DEF ReadRows
    <2>2. TurnShape(turn[t]) /\ TurnInv(turn[t]) /\ Shape
        BY DEF ChatInv, Shape
    <2>3. rows \subseteq Rows /\ \A row \in rows : Citable(turn[t], row)
        BY <2>2, AccessibleCitable DEF TurnInv
    <2> HIDE DEF rows
    <2>4. TurnShape(x)
        BY <2>2, <2>3 DEF TurnShape, Phases
    <2>5. /\ x.pc = "search" /\ x.rows = rows /\ x.hits = <<>> /\ x.refs = {}
          /\ x.question = turn[t].question /\ x.floor = turn[t].floor
          /\ x.user = turn[t].user
        BY <2>1, <2>2 DEF TurnShape, TurnInv, CitedInv
    <2> HIDE DEF x
    <2>6. FloorInv(x)
        BY <2>2, <2>5 DEF TurnInv, FloorInv
    <2>7. CitedInv(x)
        BY <2>3, <2>5 DEF CitedInv, Citable
    <2>8. PolicyInv(x)
        BY <2>1, <2>2, <2>5 DEF TurnInv, PolicyInv
    <2>9. TurnInv(x)
        BY <2>6, <2>7, <2>8 DEF TurnInv
    <2> QED BY <2>1, <2>4, <2>9, TurnFrame DEF x
<1> QED BY <1>1, <1>2

LEMMA SearchStep == ASSUME ChatInv, NEW t \in Turns, Search(t) PROVE ChatInv'
<1>1. PICK hits \in Rankings(turn[t].rows) : Judged(t, hits)
    BY DEF Search
<1>2. TurnShape(turn[t]) /\ TurnInv(turn[t])
    BY DEF ChatInv, Shape
<1>3. turn[t].rows \in SUBSET Rows
    BY <1>2 DEF TurnShape
<1>4. hits \in Seq(turn[t].rows) /\ hits \in Seq(Rows)
    BY <1>3, RankingsType
<1>5. \A i \in DOMAIN hits : Citable(turn[t], hits[i])
    BY <1>2, <1>4 DEF TurnInv, CitedInv
<1>6. turn[t].pc = "search" /\ UNCHANGED <<library, points, reindex>>
    BY DEF Search
<1> QED BY <1>1, <1>4, <1>5, <1>6, JudgedStep

LEMMA AnswerStep == ASSUME ChatInv, NEW t \in Turns, Answer(t) PROVE ChatInv'
<1> DEFINE Answered(refs) ==
        [turn[t] EXCEPT !.pc = "save", !.refs = refs \cap (1..Len(turn[t].hits))]
<1>1. PICK refs \in SUBSET (0..TopK + 1) :
        /\ turn' = [turn EXCEPT ![t] = Answered(refs)]
        /\ UNCHANGED <<library, points, reindex>>
    BY Zenon DEF Answer
<1> DEFINE x == Answered(refs)
<1>2. TurnShape(turn[t]) /\ TurnInv(turn[t])
    BY DEF ChatInv, Shape
<1>3. DOMAIN turn[t].hits = 1..Len(turn[t].hits) /\ Len(turn[t].hits) \in Nat
    BY <1>2 DEF TurnShape
<1>4. TurnShape(x)
    <2> DEFINE valid == refs \cap (1..Len(turn[t].hits))
    <2>1. valid \in SUBSET Nat
        BY <1>3
    <2> HIDE DEF valid
    <2>2. TurnShape([turn[t] EXCEPT !.pc = "save", !.refs = valid])
        BY <1>2, <2>1 DEF TurnShape, Phases
    <2> QED BY <2>2 DEF valid
<1>5. /\ x.pc = "save" /\ x.rows = turn[t].rows /\ x.hits = turn[t].hits
      /\ x.refs \subseteq DOMAIN turn[t].hits
      /\ x.floor = turn[t].floor /\ x.user = turn[t].user
    BY <1>2, <1>3 DEF TurnShape
<1> HIDE DEF x
<1>6. FloorInv(x)
    BY <1>2, <1>5 DEF TurnInv, FloorInv
<1>7. CitedInv(x)
    BY <1>2, <1>5 DEF TurnInv, CitedInv, Citable
<1>8. PolicyInv(x)
    BY <1>5 DEF PolicyInv
<1>9. TurnInv(x)
    BY <1>6, <1>7, <1>8 DEF TurnInv
<1> QED BY <1>1, <1>4, <1>9, TurnFrame DEF x

\* A turn that comes to its end, saved or not, forgets what it knew.
LEMMA OverStep == ASSUME ChatInv, NEW t \in Turns, Save(t) \/ Raises(t) PROVE ChatInv'
<1>1. turn' = [turn EXCEPT ![t] = Over] /\ UNCHANGED <<library, points, reindex>>
    BY DEF Save, Raises, Over
<1>2. TurnShape(Over) /\ TurnInv(Over)
    BY NewTurnType, EmptyTurn DEF ChatInv
<1> QED BY <1>1, <1>2, TurnFrame

------------------------------------------------------------------------------
\* The library changes and the turns do not: what they may cite they may still.
LEMMA LibraryFrame ==
    ASSUME ChatInv, UNCHANGED turn, Shape', ReindexInv',
           \A d \in Documents :
              /\ last'[d] \in Nat /\ last[d] <= last'[d]
              /\ shown'[d] # 0 => shown[d] # 0 \/ last[d] + 1 <= last'[d]
    PROVE  ChatInv'
<1> SUFFICES ASSUME NEW t \in Turns PROVE TurnInv(turn[t])'
    BY DEF ChatInv
<1>1. TurnShape(turn[t]) /\ TurnInv(turn[t]) /\ turn'[t] = turn[t] /\ Shape
    BY DEF ChatInv, Shape
<1>2. FloorInv(turn[t])'
    BY <1>1 DEF TurnInv, FloorInv, TurnShape, Shape
<1>3. \A row \in Rows : Citable(turn[t], row) => Citable(turn[t], row)'
    BY <1>1 DEF Citable, Rows, TurnShape, Shape
<1>4. CitedInv(turn[t])'
    BY <1>1, <1>3 DEF TurnInv, CitedInv, TurnShape
<1>5. PolicyInv(turn[t])'
    BY <1>1 DEF TurnInv, PolicyInv
<1> QED BY <1>2, <1>4, <1>5 DEF TurnInv

LEMMA LibraryStep == ASSUME ChatInv, NEW d \in Documents, LibraryNext(d) PROVE ChatInv'
<1> USE DEF ChatInv, library
<1>1. CASE Withdraw(d)
    <2>1. Shape' /\ ReindexInv'
        BY <1>1 DEF Withdraw, Shape, ReindexInv
    <2> QED BY <1>1, <2>1, LibraryFrame DEF Withdraw, Shape
<1>2. CASE Upsert(d)
    <2>1. Shape' /\ ReindexInv'
        BY <1>2 DEF Upsert, Shape, ReindexInv
    <2> QED BY <1>2, <2>1, LibraryFrame DEF Upsert, Shape
<1>3. CASE Serve(d)
    <2>1. /\ \A e \in Documents : last'[e] = IF e = d THEN last[d] + 1 ELSE last[e]
          /\ \A e \in Documents : shown'[e] = IF e = d THEN last[d] + 1 ELSE shown[e]
          /\ last[d] + 1 \in 1..MaxBatches
        BY <1>3, BatchesAssumption DEF Serve, Shape
    <2>2. Shape'
        BY <1>3, <2>1 DEF Serve, Shape
    <2>3. ReindexInv'
        BY <1>3, <2>1 DEF Serve, ReindexInv, Shape
    <2> QED BY <1>3, <2>1, <2>2, <2>3, LibraryFrame DEF Serve, Shape
<1>4. CASE DeletePoints(d)
    <2>1. Shape' /\ ReindexInv'
        BY <1>4 DEF DeletePoints, Shape, ReindexInv
    <2> QED BY <1>4, <2>1, LibraryFrame DEF DeletePoints, Shape
<1>5. CASE DeleteRow(d)
    <2>1. Shape' /\ ReindexInv'
        BY <1>5 DEF DeleteRow, Shape, ReindexInv
    <2> QED BY <1>5, <2>1, LibraryFrame DEF DeleteRow, Shape
<1>6. CASE Meet(d)
    <2>1. reindex'.met = reindex.met \cup {d} /\ reindex'.pc = reindex.pc
          /\ reindex'.todo = reindex.todo
        BY <1>6 DEF Meet, Shape
    <2>2. Shape'
        BY <1>6 DEF Meet, Shape
    <2>3. ReindexInv'
        BY <1>6, <2>1 DEF Meet, ReindexInv
    <2> QED BY <1>6, <2>2, <2>3, LibraryFrame DEF Meet, Shape
<1>7. CASE ReplaceServed(d)
    <2>1. /\ \A e \in Documents : last'[e] = IF e = d THEN last[d] + 1 ELSE last[e]
          /\ \A e \in Documents : shown'[e] = IF e = d THEN last[d] + 1 ELSE shown[e]
          /\ last[d] + 1 \in 1..MaxBatches
        BY <1>7, BatchesAssumption DEF ReplaceServed, Shape
    <2>2. Shape'
        BY <1>7, <2>1 DEF ReplaceServed, Shape
    <2>3. ReindexInv'
        BY <1>7, <2>1 DEF ReplaceServed, ReindexInv, Shape
    <2> QED BY <1>7, <2>1, <2>2, <2>3, LibraryFrame DEF ReplaceServed, Shape
<1>8. CASE Part(d)
    <2>1. Shape' /\ ReindexInv'
        BY <1>8 DEF Part, Shape, ReindexInv
    <2> QED BY <1>8, <2>1, LibraryFrame DEF Part, Shape
<1> QED BY <1>1, <1>2, <1>3, <1>4, <1>5, <1>6, <1>7, <1>8 DEF LibraryNext

\* The script changes nothing that a turn depends on.
LEMMA ReindexStep == ASSUME ChatInv, ReindexNext PROVE ChatInv'
<1>1. UNCHANGED <<library, turn>> /\ Shape'
    <2>1. ReadyRows \subseteq Rows
        BY BatchesAssumption DEF ReadyRows, Rows, ChatInv, Shape
    <2>2. UNCHANGED <<library, turn>>
        BY DEF ReindexNext, StartReindex, UpsertBatch, ReindexRaises
    <2>3. reindex' \in [pc : {"idle", "running", "finished", "failed"}, todo : SUBSET Rows,
                        met : SUBSET Documents]
        <3>1. CASE StartReindex
            BY <2>1, <3>1 DEF StartReindex, ChatInv, Shape, ReindexInv
        <3>2. CASE UpsertBatch
            <4>1. PICK rest \in SUBSET Rows, pc \in {"running", "finished"} :
                    reindex' = [reindex EXCEPT !.todo = rest, !.pc = pc]
                <5>1. PICK batch :
                        reindex' = [reindex EXCEPT !.todo = @ \ batch,
                            !.pc = IF reindex.todo = batch THEN "finished" ELSE "running"]
                    BY <3>2, Zenon DEF UpsertBatch
                <5>2. reindex.todo \ batch \in SUBSET Rows
                    BY DEF ChatInv, Shape
                <5> QED BY <5>1, <5>2
            <4> QED BY <4>1 DEF ChatInv, Shape
        <3>3. CASE ReindexRaises
            BY <3>3 DEF ReindexRaises, ChatInv, Shape
        <3> QED BY <3>1, <3>2, <3>3 DEF ReindexNext
    <2>4. \A t \in Turns : TurnShape(turn[t])'
        BY <2>2 DEF ChatInv, Shape, TurnShape
    <2> QED BY <2>2, <2>3, <2>4 DEF ChatInv, Shape, library
<1>2. ReindexInv'
    <2>1. CASE StartReindex
        BY <2>1 DEF StartReindex, ReadyRows, ReindexInv, library
    <2>2. CASE UpsertBatch
        BY <2>2 DEF UpsertBatch, ReindexInv, ChatInv, Shape, library
    <2>3. CASE ReindexRaises
        BY <2>3 DEF ReindexRaises, ReindexInv, ChatInv, Shape, library
    <2> QED BY <2>1, <2>2, <2>3 DEF ReindexNext
<1>3. \A t \in Turns : TurnInv(turn[t])'
    BY <1>1 DEF ChatInv, TurnInv, FloorInv, CitedInv, Citable, PolicyInv, library
<1> QED BY <1>1, <1>2, <1>3 DEF ChatInv

LEMMA ChatStep == ChatInv /\ [Next]_vars => ChatInv'
<1> SUFFICES ASSUME ChatInv, [Next]_vars PROVE ChatInv'
    OBVIOUS
<1>1. ASSUME NEW t \in Turns, TurnNext(t) PROVE ChatInv'
    BY <1>1, AskStep, ReadRowsStep, SearchStep, AnswerStep, OverStep DEF TurnNext
<1>2. CASE UNCHANGED vars
    <2>1. UNCHANGED <<last, shown, deleting, meeting, points, turn, reindex>>
        BY <1>2 DEF vars, library
    <2> QED BY <2>1 DEF ChatInv, Shape, ReindexInv, TurnInv, FloorInv, CitedInv, Citable,
                        PolicyInv, TurnShape
<1> QED BY <1>1, <1>2, LibraryStep, ReindexStep DEF Next

------------------------------------------------------------------------------
(* The context of a follow-up *)

LEMMA LeastExists ==
    ASSUME NEW T, T \subseteq Nat, T # {}
    PROVE  \E n \in T : \A m \in T : n <= m
<1>1. PICK n \in T : \A m \in T : ~ (<<m, n>> \in OpToRel(<, Nat))
    BY NatLessThanWellFounded, WFMin
<1>2. \A m \in T : ~ (m < n)
    BY <1>1 DEF OpToRel
<1> QED BY <1>2

\* The last of some positions.
LEMMA MaxProperties ==
    ASSUME NEW n \in Nat, NEW T, T \subseteq 1..n, T # {}
    PROVE  Max(T) \in T /\ \A j \in T : j <= Max(T)
<1> DEFINE U == {m \in Nat : n - m \in T}
<1>1. PICK k \in T : TRUE
    OBVIOUS
<1>2. n - k \in U /\ U \subseteq Nat
    BY <1>1
<1>3. PICK m \in U : \A l \in U : m <= l
    <2> HIDE DEF U
    <2> QED BY <1>2, LeastExists
<1>4. n - m \in T /\ \A j \in T : n - m >= j
    <2>1. ASSUME NEW j \in T PROVE n - m >= j
        <3>1. n - j \in U
            OBVIOUS
        <3> QED BY <3>1, <1>3, SMTT(30)
    <2> QED BY <2>1, <1>3
<1>5. Max(T) \in T /\ \A j \in T : Max(T) >= j
    BY <1>4 DEF Max
<1> QED BY <1>5

\* However few turns are read back, the newest is among them.
LEMMA NewestHasMax ==
    ASSUME NEW n \in Nat, NEW own, own \subseteq 1..n, own # {}
    PROVE  Newest(own) # {} /\ Max(Newest(own)) = Max(own)
<1>1. PICK a \in own : a = Max(own) /\ \A j \in own : j <= a
    BY MaxProperties
<1>2. a \in Nat /\ own \subseteq Nat
    OBVIOUS
<1>3. {j \in own : j > a} = {}
    <2>1. \A j \in own : ~(j > a)
        BY <1>1, <1>2
    <2> QED BY <2>1, Zenon
<1>4. a \in Newest(own) /\ Newest(own) \subseteq own
    <2>1. Cardinality({j \in own : j > a}) < HistoryLimit
        BY <1>3, FS_EmptySet, LimitsAssumption
    <2> QED BY <2>1 DEF Newest
<1>5. Newest(own) \subseteq 1..n /\ Newest(own) # {}
    BY <1>4
<1>6. PICK b \in Newest(own) : b = Max(Newest(own)) /\ \A j \in Newest(own) : j <= b
    BY <1>5, MaxProperties
<1>7. a <= b /\ b <= a /\ b \in Nat
    BY <1>1, <1>2, <1>4, <1>6
<1>8. a = b
    BY <1>2, <1>7
<1> QED BY <1>1, <1>5, <1>6, <1>8

\* What a turn becomes when it is rewritten by what it read.
LEMMA RewriteIsContext ==
    ASSUME conversations \in Seq(SavedTurns), NEW user, NEW session, session # Blank, NEW question
    PROVE  (IF Refused(question) THEN question ELSE Rewrite(question, History(user, session)))
             = Context(conversations, Len(conversations), user, session, question)
<1> DEFINE own == {i \in 1..Len(conversations) : /\ conversations[i].user = user
                                                 /\ conversations[i].session = session}
<1>1. Len(conversations) \in Nat /\ DOMAIN conversations = 1..Len(conversations)
    OBVIOUS
<1>2. History(user, session) = Newest(own)
    BY <1>1 DEF History
<1>3. own \subseteq 1..Len(conversations)
    OBVIOUS
<1> HIDE DEF own
<1>4. own = {} => Newest(own) = {}
    BY DEF Newest
<1>5. own # {} => Newest(own) # {} /\ Max(Newest(own)) = Max(own)
    BY <1>1, <1>3, NewestHasMax
<1>6. Context(conversations, Len(conversations), user, session, question)
        = IF Refused(question) \/ "refers" \notin question \/ own = {} THEN question
          ELSE question \cup conversations[Max(own)].question
    BY DEF Context, own
<1> QED BY <1>2, <1>4, <1>5, <1>6 DEF Rewrite

\* The context of a turn does not depend on what is saved after it began.
LEMMA ContextOfPrefix ==
    ASSUME NEW a, NEW b, NEW n \in Nat, \A i \in 1..n : a[i] = b[i],
           NEW user, NEW session, NEW question
    PROVE  Context(a, n, user, session, question) = Context(b, n, user, session, question)
<1> DEFINE before(saved) == {i \in 1..n : saved[i].user = user /\ saved[i].session = session}
<1>1. before(a) = before(b)
    OBVIOUS
<1>2. before(b) # {} => Max(before(b)) \in 1..n
    <2>1. before(b) \subseteq 1..n
        OBVIOUS
    <2> HIDE DEF before
    <2> QED BY <2>1, MaxProperties
<1>3. before(b) # {} => a[Max(before(b))].question = b[Max(before(b))].question
    BY <1>2
<1>4. \A saved : Context(saved, n, user, session, question)
        = IF Refused(question) \/ "refers" \notin question \/ before(saved) = {} THEN question
          ELSE question \cup saved[Max(before(saved))].question
    BY DEF Context
<1> HIDE DEF before
<1> QED BY <1>1, <1>3, <1>4

\* A query has no facets but those of a question and of a saved one.
LEMMA ContextType ==
    ASSUME NEW saved \in Seq(SavedTurns), NEW n \in 0..Len(saved), NEW user, NEW session,
           NEW question \in SUBSET Facets
    PROVE  Context(saved, n, user, session, question) \in SUBSET Facets
<1> DEFINE before == {i \in 1..n : saved[i].user = user /\ saved[i].session = session}
<1>1. before \subseteq 1..n /\ n \in Nat
    OBVIOUS
<1> HIDE DEF before
<1>2. ASSUME before # {} PROVE saved[Max(before)].question \in SUBSET Facets
    <2>1. PICK k \in before : k = Max(before)
        BY <1>1, <1>2, MaxProperties
    <2>2. k \in 1..Len(saved) /\ Len(saved) \in Nat
        BY <1>1
    <2>3. saved[k] \in SavedTurns
        BY <2>2
    <2> QED BY <2>1, <2>3 DEF SavedTurns
<1>3. Context(saved, n, user, session, question)
        = IF Refused(question) \/ "refers" \notin question \/ before = {} THEN question
          ELSE question \cup saved[Max(before)].question
    BY DEF Context, before
<1> QED BY <1>2, <1>3

\* A turn on its way knows whom it is for, and its query is the question in the
\* context that it began with.
Asking == {"read", "search", "generate", "save"}

Asked(x) ==
    x.pc \in Asking =>
        /\ x.user \in Users /\ x.session \in Sessions \cup Turns
        /\ x.question \in SUBSET Facets
        /\ x.began \in 0..Len(conversations)
        /\ x.query = Context(conversations, x.began, x.user, x.session, x.question)

SavedInv ==
    /\ conversations \in Seq(SavedTurns)
    /\ ContextsNewest(conversations)
    /\ \A k \in DOMAIN conversations : conversations[k].began < k

ContextInv == SavedInv /\ \A t \in Turns : Asked(turn[t])

LEMMA ContextInit == Init => ContextInv
BY EarlierAssumption DEF Init, ContextInv, SavedInv, Asked, Asking, NewTurn

\* The turns but one stay, and nothing is saved.
LEMMA AskedFrame ==
    ASSUME Shape, ContextInv, NEW t \in Turns, NEW x, turn' = [turn EXCEPT ![t] = x],
           UNCHANGED conversations, Asked(x)
    PROVE  ContextInv'
<1>1. \A u \in Turns : turn'[u] = IF u = t THEN x ELSE turn[u]
    BY DEF Shape
<1>2. \A u \in Turns : Asked(turn[u])'
    BY <1>1 DEF ContextInv, Asked
<1> QED BY <1>2 DEF ContextInv, SavedInv

\* A turn that goes on with its question has the same context.
LEMMA GoesOn ==
    ASSUME NEW x, NEW y, Asked(x), x.pc \in Asking,
           y.user = x.user, y.session = x.session, y.question = x.question,
           y.query = x.query, y.began = x.began
    PROVE  Asked(y)
BY DEF Asked

LEMMA AskContext == ASSUME Shape, ContextInv, NEW t \in Turns, Ask(t) PROVE ContextInv'
<1> DEFINE Session(id) == IF id = Blank THEN t ELSE id
           Query(user, id, question) ==
               IF Refused(question) THEN question
               ELSE Rewrite(question, History(user, Session(id)))
           Begun(user, id, question) ==
               [turn[t] EXCEPT !.pc = IF Refused(question) THEN "save" ELSE "read",
                               !.user = user, !.session = Session(id),
                               !.question = question, !.query = Query(user, id, question),
                               !.began = Len(conversations), !.floor = Floor]
<1>1. PICK user \in Askers[t], id \in Sessions \cup {Blank}, question \in Questions :
        /\ turn' = [turn EXCEPT ![t] = Begun(user, id, question)]
        /\ UNCHANGED conversations
    BY Zenon DEF Ask
<1> DEFINE session == Session(id)
           query == Query(user, id, question)
           x == Begun(user, id, question)
<1>2. session # Blank /\ session \in Sessions \cup Turns
    BY BlankAssumption
<1>3. user \in Users /\ question \in SUBSET Facets
    BY AskersAssumption, QuestionsAssumption
<1>4. conversations \in Seq(SavedTurns) /\ Len(conversations) \in 0..Len(conversations)
    BY DEF ContextInv, SavedInv
<1>5. query = Context(conversations, Len(conversations), user, session, question)
    <2> HIDE DEF session, Session
    <2> QED BY <1>2, <1>4, RewriteIsContext DEF session
<1>6. /\ x.user = user /\ x.session = session /\ x.question = question
      /\ x.query = query /\ x.began = Len(conversations)
    <2> HIDE DEF session, Session, query, Query
    <2> QED BY DEF Shape, TurnShape, session, query
<1>7. Asked(x)
    <2> HIDE DEF x, session, query
    <2> QED BY <1>2, <1>3, <1>4, <1>5, <1>6 DEF Asked
<1> HIDE DEF x, Begun
<1> QED BY <1>1, <1>7, AskedFrame DEF x

LEMMA JudgedContext ==
    ASSUME Shape, ContextInv, NEW t \in Turns, NEW hits, Judged(t, hits),
           turn[t].pc \in Asking, UNCHANGED conversations
    PROVE  ContextInv'
<1> DEFINE Then(pc) == [turn[t] EXCEPT !.pc = pc, !.rows = {},
                                       !.hits = IF pc = "generate" THEN hits ELSE <<>>]
<1>1. PICK pc \in {"generate", "save"} : turn' = [turn EXCEPT ![t] = Then(pc)]
    BY Zenon DEF Judged
<1> DEFINE x == Then(pc)
<1>2. /\ x.user = turn[t].user /\ x.session = turn[t].session /\ x.question = turn[t].question
      /\ x.query = turn[t].query /\ x.began = turn[t].began
    BY DEF Shape, TurnShape
<1>3. Asked(turn[t])
    BY DEF ContextInv
<1> HIDE DEF x, Then
<1>4. Asked(x)
    BY <1>2, <1>3, GoesOn
<1> QED BY <1>1, <1>4, AskedFrame DEF x

LEMMA ReadRowsContext == ASSUME Shape, ContextInv, NEW t \in Turns, ReadRows(t) PROVE ContextInv'
<1>1. CASE Accessible(turn[t].user) = {}
    <2>1. Judged(t, <<>>) /\ turn[t].pc \in Asking /\ UNCHANGED conversations
        BY <1>1 DEF ReadRows, Asking
    <2> QED BY <2>1, JudgedContext
<1>2. CASE Accessible(turn[t].user) # {}
    <2> DEFINE rows == Accessible(turn[t].user)
               x == [turn[t] EXCEPT !.pc = "search", !.rows = rows]
    <2>1. /\ turn[t].pc \in Asking
          /\ turn' = [turn EXCEPT ![t] = x]
          /\ UNCHANGED conversations
        BY <1>2, Zenon DEF ReadRows, Asking
    <2> HIDE DEF rows
    <2>2. /\ x.user = turn[t].user /\ x.session = turn[t].session
          /\ x.question = turn[t].question /\ x.query = turn[t].query /\ x.began = turn[t].began
        BY DEF Shape, TurnShape
    <2>3. Asked(turn[t])
        BY DEF ContextInv
    <2> HIDE DEF x
    <2>4. Asked(x)
        BY <2>1, <2>2, <2>3, GoesOn
    <2> QED BY <2>1, <2>4, AskedFrame
<1> QED BY <1>1, <1>2

LEMMA AnswerContext == ASSUME Shape, ContextInv, NEW t \in Turns, Answer(t) PROVE ContextInv'
<1> DEFINE Answered(refs) ==
        [turn[t] EXCEPT !.pc = "save", !.refs = refs \cap (1..Len(turn[t].hits))]
<1>1. PICK refs \in SUBSET (0..TopK + 1) :
        /\ turn' = [turn EXCEPT ![t] = Answered(refs)]
        /\ UNCHANGED conversations
    BY Zenon DEF Answer
<1> DEFINE x == Answered(refs)
<1>2. /\ x.user = turn[t].user /\ x.session = turn[t].session /\ x.question = turn[t].question
      /\ x.query = turn[t].query /\ x.began = turn[t].began
    BY DEF Shape, TurnShape
<1>3. Asked(turn[t]) /\ turn[t].pc \in Asking
    BY DEF ContextInv, Answer, Asking
<1> HIDE DEF x, Answered
<1>4. Asked(x)
    BY <1>2, <1>3, GoesOn
<1> QED BY <1>1, <1>4, AskedFrame DEF x

LEMMA RaisesContext == ASSUME Shape, ContextInv, NEW t \in Turns, Raises(t) PROVE ContextInv'
<1>1. turn' = [turn EXCEPT ![t] = Over] /\ UNCHANGED conversations
    BY DEF Raises, Over
<1>2. Asked(Over)
    BY DEF Asked, Asking, Over, NewTurn
<1> QED BY <1>1, <1>2, AskedFrame

\* What is saved was asked: the saved turn carries its context along.
LEMMA SaveContext == ASSUME Shape, ContextInv, NEW t \in Turns, Save(t) PROVE ContextInv'
<1> DEFINE c == Saved(turn[t].user, turn[t].session, turn[t].question, turn[t].query,
                      turn[t].refs # {}, turn[t].began)
           n == Len(conversations)
<1>1. /\ turn[t].pc = "save" /\ conversations' = Append(conversations, c)
      /\ turn' = [turn EXCEPT ![t] = Over]
    BY Zenon DEF Save, Over
<1>2. /\ conversations \in Seq(SavedTurns) /\ n \in Nat /\ DOMAIN conversations = 1..n
      /\ \A k \in 1..n : conversations[k].began < k /\ conversations[k].began \in Nat
    <2>1. /\ conversations \in Seq(SavedTurns) /\ n \in Nat /\ DOMAIN conversations = 1..n
          /\ \A k \in DOMAIN conversations : conversations[k].began < k
        BY DEF ContextInv, SavedInv
    <2>2. \A k \in 1..n : conversations[k] \in SavedTurns
        BY <2>1
    <2>3. \A k \in 1..n : conversations[k].began \in Nat
        BY <2>2 DEF SavedTurns
    <2> QED BY <2>1, <2>3
<1>3. /\ turn[t].user \in Users /\ turn[t].session \in Sessions \cup Turns
      /\ turn[t].question \in SUBSET Facets /\ turn[t].began \in 0..n
      /\ turn[t].query = Context(conversations, turn[t].began, turn[t].user, turn[t].session,
                                 turn[t].question)
    BY <1>1 DEF ContextInv, Asked, Asking
<1>4. turn[t].query \in SUBSET Facets
    BY <1>2, <1>3, ContextType
<1>5. c \in SavedTurns
    BY <1>2, <1>3, <1>4 DEF Saved, SavedTurns
<1>6. /\ c.user = turn[t].user /\ c.session = turn[t].session /\ c.question = turn[t].question
      /\ c.query = turn[t].query /\ c.began = turn[t].began
    BY DEF Saved
<1> HIDE DEF c, n
<1>7. /\ conversations' \in Seq(SavedTurns) /\ Len(conversations') = n + 1
      /\ conversations'[n + 1] = c /\ \A i \in 1..n : conversations'[i] = conversations[i]
      /\ \A k \in DOMAIN conversations' : k \in 1..n \/ k = n + 1
    BY <1>1, <1>2, <1>5 DEF n
<1>8. ASSUME NEW m \in 0..n, NEW user, NEW session, NEW question
      PROVE  Context(conversations', m, user, session, question)
               = Context(conversations, m, user, session, question)
    <2>1. PICK a, b : a = conversations' /\ b = conversations
        OBVIOUS
    <2>2. m \in Nat /\ \A i \in 1..m : a[i] = b[i]
        BY <1>2, <1>7, <2>1
    <2> QED BY <2>1, <2>2, ContextOfPrefix
<1>9. SavedInv'
    <2>1. ASSUME NEW k \in DOMAIN conversations'
          PROVE  /\ conversations'[k].began < k
                 /\ conversations'[k].query =
                        Context(conversations', conversations'[k].began, conversations'[k].user,
                                conversations'[k].session, conversations'[k].question)
        <3>1. CASE k \in 1..n
            <4>1. conversations'[k] = conversations[k] /\ conversations[k].began < k
                  /\ conversations[k].began \in 0..n
                BY <1>2, <1>7, <3>1
            <4>2. conversations[k].query =
                    Context(conversations, conversations[k].began, conversations[k].user,
                            conversations[k].session, conversations[k].question)
                BY <1>2, <3>1 DEF ContextInv, SavedInv, ContextsNewest
            <4> QED BY <1>8, <4>1, <4>2
        <3>2. CASE k = n + 1
            <4>1. conversations'[k] = c /\ c.began \in 0..n /\ c.began < k
                BY <1>2, <1>3, <1>6, <1>7, <3>2
            <4> QED BY <1>3, <1>6, <1>8, <4>1
        <3> QED BY <1>7, <3>1, <3>2
    <2> QED BY <1>7, <2>1 DEF SavedInv, ContextsNewest, Context
<1>10. ASSUME NEW u \in Turns PROVE Asked(turn[u])'
    <2>1. turn'[u] = IF u = t THEN Over ELSE turn[u]
        BY <1>1 DEF Shape
    <2>2. CASE u = t
        BY <2>1, <2>2 DEF Asked, Asking, Over, NewTurn
    <2>3. CASE u # t
        <3>1. turn'[u] = turn[u] /\ Asked(turn[u])
            BY <2>1, <2>3 DEF ContextInv
        <3>2. ASSUME turn[u].pc \in Asking
              PROVE  /\ turn[u].began \in 0..n /\ turn[u].began \in 0..n + 1
                     /\ turn[u].query =
                            Context(conversations', turn[u].began, turn[u].user, turn[u].session,
                                    turn[u].question)
            BY <1>2, <1>8, <3>1, <3>2 DEF Asked, n
        <3> QED BY <1>7, <3>1, <3>2 DEF Asked, Context
    <2> QED BY <2>2, <2>3
<1> QED BY <1>9, <1>10 DEF ContextInv

LEMMA ContextStep == ChatInv /\ ContextInv /\ [Next]_vars => ContextInv'
<1> SUFFICES ASSUME ChatInv, ContextInv, [Next]_vars PROVE ContextInv'
    OBVIOUS
<1>1. Shape
    BY DEF ChatInv
<1>2. ASSUME NEW t \in Turns, TurnNext(t) PROVE ContextInv'
    <2>1. CASE Search(t)
        <3>1. PICK hits \in Rankings(turn[t].rows) : Judged(t, hits)
            BY <2>1, Zenon DEF Search
        <3> QED BY <1>1, <2>1, <3>1, JudgedContext DEF Search, Asking
    <2> QED BY <1>1, <1>2, <2>1, AskContext, ReadRowsContext, AnswerContext, SaveContext,
               RaisesContext DEF TurnNext
<1>3. CASE UNCHANGED <<turn, conversations>>
    <2>1. turn' = turn /\ conversations' = conversations
        BY <1>3
    <2>2. SavedInv'
        BY <2>1 DEF ContextInv, SavedInv
    <2>3. ASSUME NEW t \in Turns PROVE Asked(turn[t])'
        BY <2>1, Zenon DEF ContextInv, Asked, Context
    <2> QED BY <2>2, <2>3 DEF ContextInv
<1>4. ASSUME NEW d \in Documents, LibraryNext(d) PROVE UNCHANGED <<turn, conversations>>
    BY <1>4 DEF LibraryNext, Withdraw, Upsert, Serve, Meet, ReplaceServed, Part,
          DeletePoints, DeleteRow
<1>5. ReindexNext \/ UNCHANGED vars => UNCHANGED <<turn, conversations>>
    BY DEF ReindexNext, StartReindex, UpsertBatch, ReindexRaises, vars
<1> QED BY <1>2, <1>3, <1>4, <1>5 DEF Next

------------------------------------------------------------------------------
(* Types *)

\* A turn that is not on its way asks nothing.
Quiet(x) == x.pc \notin Asking => x.query = {}

TypeInv ==
    /\ removed \subseteq deleting /\ deleting \subseteq Documents
    /\ meeting \subseteq Documents
    /\ points \subseteq Rows
    /\ \A t \in Turns : Quiet(turn[t])

LEMMA TypeInit == Init => TypeInv
BY DEF Init, TypeInv, Quiet, NewTurn

\* Every step of a turn sends it on its way or ends it.
LEMMA OnItsWay ==
    ASSUME Shape, NEW t \in Turns, TurnNext(t)
    PROVE  \E x : turn' = [turn EXCEPT ![t] = x] /\ Quiet(x)
<1>1. TurnShape(turn[t])
    BY DEF Shape
<1>2. ASSUME NEW hits, Judged(t, hits)
      PROVE  \E x : turn' = [turn EXCEPT ![t] = x] /\ Quiet(x)
    <2> DEFINE Then(pc) == [turn[t] EXCEPT !.pc = pc, !.rows = {},
                                           !.hits = IF pc = "generate" THEN hits ELSE <<>>]
    <2>1. PICK pc \in {"generate", "save"} : turn' = [turn EXCEPT ![t] = Then(pc)]
        BY <1>2, Zenon DEF Judged
    <2>2. Then(pc).pc = pc
        BY <1>1 DEF TurnShape
    <2> HIDE DEF Then
    <2> QED BY <2>1, <2>2 DEF Quiet, Asking
<1>3. CASE Ask(t)
    <2> DEFINE Session(id) == IF id = Blank THEN t ELSE id
               Query(user, id, question) ==
                   IF Refused(question) THEN question
                   ELSE Rewrite(question, History(user, Session(id)))
               Begun(user, id, question) ==
                   [turn[t] EXCEPT !.pc = IF Refused(question) THEN "save" ELSE "read",
                                   !.user = user, !.session = Session(id),
                                   !.question = question, !.query = Query(user, id, question),
                                   !.began = Len(conversations), !.floor = Floor]
    <2>1. PICK user \in Askers[t], id \in Sessions \cup {Blank}, question \in Questions :
            turn' = [turn EXCEPT ![t] = Begun(user, id, question)]
        BY <1>3, Zenon DEF Ask
    <2> HIDE DEF Session, Query
    <2>2. Begun(user, id, question).pc \in {"save", "read"}
        BY <1>1 DEF TurnShape
    <2> HIDE DEF Begun
    <2> QED BY <2>1, <2>2 DEF Quiet, Asking
<1>4. CASE ReadRows(t)
    <2> DEFINE rows == Accessible(turn[t].user)
               x == [turn[t] EXCEPT !.pc = "search", !.rows = rows]
    <2>1. Judged(t, <<>>) \/ turn' = [turn EXCEPT ![t] = x]
        BY <1>4, Zenon DEF ReadRows
    <2> HIDE DEF rows
    <2>2. x.pc = "search"
        BY <1>1 DEF TurnShape
    <2> HIDE DEF x
    <2> QED BY <1>2, <2>1, <2>2 DEF Quiet, Asking
<1>5. CASE Search(t)
    <2>1. PICK hits \in Rankings(turn[t].rows) : Judged(t, hits)
        BY <1>5, Zenon DEF Search
    <2> QED BY <1>2, <2>1
<1>6. CASE Answer(t)
    <2> DEFINE Answered(refs) ==
            [turn[t] EXCEPT !.pc = "save", !.refs = refs \cap (1..Len(turn[t].hits))]
    <2>1. PICK refs \in SUBSET (0..TopK + 1) : turn' = [turn EXCEPT ![t] = Answered(refs)]
        BY <1>6, Zenon DEF Answer
    <2>2. Answered(refs).pc = "save"
        BY <1>1 DEF TurnShape
    <2> HIDE DEF Answered
    <2> QED BY <2>1, <2>2 DEF Quiet, Asking
<1>7. CASE Save(t) \/ Raises(t)
    <2>1. turn' = [turn EXCEPT ![t] = Over]
        BY <1>7 DEF Save, Raises, Over
    <2>2. Quiet(Over)
        BY DEF Quiet, Over, NewTurn
    <2> QED BY <2>1, <2>2
<1> QED BY <1>3, <1>4, <1>5, <1>6, <1>7 DEF TurnNext

LEMMA TypeStep == ChatInv /\ TypeInv /\ [Next]_vars => TypeInv'
<1> SUFFICES ASSUME ChatInv, TypeInv, [Next]_vars PROVE TypeInv'
    OBVIOUS
<1>1. Shape
    BY DEF ChatInv
<1>2. ASSUME NEW t \in Turns, TurnNext(t) PROVE TypeInv'
    <2>1. PICK x : turn' = [turn EXCEPT ![t] = x] /\ Quiet(x)
        BY <1>1, <1>2, OnItsWay
    <2>2. \A u \in Turns : turn'[u] = IF u = t THEN x ELSE turn[u]
        BY <1>1, <2>1 DEF Shape
    <2>3. \A u \in Turns : Quiet(turn[u])'
        BY <2>1, <2>2 DEF TypeInv, Quiet
    <2>4. UNCHANGED <<library, points>>
        BY <1>2 DEF TurnNext, Ask, ReadRows, Search, Answer, Save, Raises
    <2> QED BY <2>3, <2>4 DEF TypeInv, library
<1>3. ASSUME NEW d \in Documents, LibraryNext(d) PROVE TypeInv'
    <2>1. turn' = turn
        BY <1>3 DEF LibraryNext, Withdraw, Upsert, Serve, Meet, ReplaceServed, Part,
          DeletePoints, DeleteRow
    <2>2. \A u \in Turns : Quiet(turn[u])'
        BY <2>1 DEF TypeInv, Quiet
    <2>3. CASE Withdraw(d)
        BY <2>2, <2>3 DEF Withdraw, TypeInv
    <2>4. CASE Upsert(d)
        <3>1. PICK b \in 1..last[d] + 1 : b <= MaxBatches /\ points' = points \cup {<<d, b>>}
            BY <2>4, Zenon DEF Upsert
        <3>2. <<d, b>> \in Rows
            BY <1>1, <3>1, BatchesAssumption DEF Rows, Shape
        <3> QED BY <2>2, <2>4, <3>1, <3>2 DEF Upsert, TypeInv, library
    <2>5. CASE Serve(d)
        BY <2>2, <2>5 DEF Serve, TypeInv
    <2>6. CASE DeletePoints(d)
        BY <2>2, <2>6 DEF DeletePoints, TypeInv
    <2>7. CASE DeleteRow(d)
        BY <2>2, <2>7 DEF DeleteRow, TypeInv
    <2>8. CASE Meet(d) \/ ReplaceServed(d) \/ Part(d)
        BY <2>2, <2>8 DEF Meet, ReplaceServed, Part, TypeInv
    <2> QED BY <1>3, <2>3, <2>4, <2>5, <2>6, <2>7, <2>8 DEF LibraryNext
<1>4. ASSUME ReindexNext PROVE TypeInv'
    <2>1. UNCHANGED <<library, turn>>
        BY <1>4 DEF ReindexNext, StartReindex, UpsertBatch, ReindexRaises
    <2>2. points' \subseteq Rows
        <3>1. CASE UpsertBatch
            <4>1. PICK batch \in SUBSET reindex.todo \ {{}} : points' = points \cup batch
                BY <3>1, Zenon DEF UpsertBatch
            <4>2. reindex.todo \subseteq Rows
                BY <1>1 DEF Shape
            <4> QED BY <4>1, <4>2 DEF TypeInv
        <3>2. CASE StartReindex \/ ReindexRaises
            BY <3>2 DEF StartReindex, ReindexRaises, TypeInv
        <3> QED BY <1>4, <3>1, <3>2 DEF ReindexNext
    <2>3. \A u \in Turns : Quiet(turn[u])'
        BY <2>1 DEF TypeInv, Quiet
    <2> QED BY <2>1, <2>2, <2>3 DEF TypeInv, library, Rows
<1>5. CASE UNCHANGED vars
    BY <1>5 DEF vars, library, TypeInv, Quiet, Rows
<1> QED BY <1>2, <1>3, <1>4, <1>5 DEF Next

LEMMA InvariantTypes == ChatInv /\ ContextInv /\ TypeInv => TypeOK
<1> SUFFICES ASSUME ChatInv, ContextInv, TypeInv PROVE TypeOK
    OBVIOUS
<1>1. Shape
    BY DEF ChatInv
<1>2. last \in [Documents -> 0..MaxBatches] /\ \A d \in Documents : shown[d] \in {0, last[d]}
    BY <1>1, BatchesAssumption DEF Shape
<1>3. ASSUME NEW t \in Turns
      PROVE  /\ turn[t].pc \in Phases
             /\ turn[t].rows \subseteq Rows /\ turn[t].hits \in Seq(Rows)
             /\ turn[t].refs \subseteq DOMAIN turn[t].hits
             /\ turn[t].query \in SUBSET Facets
    <2>1. TurnShape(turn[t]) /\ CitedInv(turn[t]) /\ Asked(turn[t]) /\ Quiet(turn[t])
        BY <1>1 DEF Shape, ChatInv, TurnInv, ContextInv, TypeInv
    <2>2. /\ turn[t].pc \in Phases
          /\ turn[t].rows \subseteq Rows /\ turn[t].hits \in Seq(Rows)
        BY <2>1 DEF TurnShape
    <2>3. ASSUME turn[t].pc \in Asking PROVE turn[t].query \in SUBSET Facets
        BY <2>1, <2>3, ContextType DEF Asked, ContextInv, SavedInv
    <2>4. ASSUME turn[t].pc \notin Asking PROVE turn[t].query \in SUBSET Facets
        BY <2>1, <2>4 DEF Quiet
    <2> QED BY <2>1, <2>2, <2>3, <2>4 DEF CitedInv
<1>4. /\ reindex.pc \in {"idle", "running", "finished", "failed"}
      /\ reindex.todo \subseteq Rows /\ reindex.met \subseteq Documents
    BY <1>1 DEF Shape
<1> QED BY <1>2, <1>3, <1>4 DEF TypeInv, TypeOK

------------------------------------------------------------------------------
\* Every step keeps the types, and a turn's references are numbers of its hits.
THEOREM TypeCorrect == Spec => []TypeOK
BY InvariantTypes, ChatInit, ChatStep, ContextInit, ContextStep, TypeInit, TypeStep, PTL DEF Spec

\* The context of a follow-up is the newest turn of its user and session that
\* had been saved when it began, whatever turns overlap and however few of them
\* are read back.
THEOREM FollowUpsInContext == Spec => []ContextIsNewest
<1>1. ContextInv => ContextIsNewest
    BY DEF ContextInv, SavedInv, ContextIsNewest
<1> QED BY <1>1, ChatInit, ChatStep, ContextInit, ContextStep, PTL DEF Spec

\* What a turn cites was served since it began, and to its user: withdrawn,
\* replaced and deleted text stays away from answers although its points may
\* stay in the index.
THEOREM WithdrawnNotCited == Spec => []NothingWithdrawnIsCited
<1>1. ChatInv => NothingWithdrawnIsCited
    <2> SUFFICES ASSUME ChatInv, NEW t \in Turns, NEW i \in turn[t].refs
                 PROVE  Citable(turn[t], turn[t].hits[i])
        BY DEF NothingWithdrawnIsCited, Citable
    <2> QED BY DEF ChatInv, TurnInv, CitedInv
<1> QED BY <1>1, ChatInit, ChatStep, PTL DEF Spec

\* The generator is asked no text that the policy refuses, rewritten or not.
THEOREM PolicyKept == Spec => []PolicyHolds
<1>1. ChatInv => PolicyHolds
    BY DEF ChatInv, TurnInv, PolicyInv, PolicyHolds
<1> QED BY <1>1, ChatInit, ChatStep, PTL DEF Spec

\* A reindex that came to its end left no ready document out, one that overlapping
\* jobs had served without points before included; only delete requests and jobs
\* that overlap after it began may take one out again.
THEOREM ReindexComplete == Spec => []IndexRestored
<1>1. ChatInv => IndexRestored
    BY DEF ChatInv, ReindexInv, IndexRestored
<1> QED BY <1>1, ChatInit, ChatStep, PTL DEF Spec
==============================================================================
