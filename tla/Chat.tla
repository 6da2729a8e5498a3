-------------------------------- MODULE Chat --------------------------------
(***************************************************************************)
(* A chat turn (agent/service.py, agent/workflow.py): read the session,    *)
(* refuse what the policy refuses, rewrite a follow-up, search, judge the  *)
(* evidence, let the generator answer, check its citations, save.  Between *)
(* its steps other turns run, documents are ingested anew or deleted, and  *)
(* the reindex script fills the index.                                     *)
(*                                                                         *)
(* A text is the set of its facets that the policy and the rewriter look   *)
(* for.  A batch of chunks is one row <<document, batch>>: the chunk rows  *)
(* that a document has and serves at one time, all with ids of their own.  *)
(* A user stands for a tenant, a name and departments, and Readers for the *)
(* visibility of a document.                                               *)
(***************************************************************************)
EXTENDS Integers, Sequences, FiniteSets, SequencesExt

CONSTANTS
    Turns,         \* chat requests
    Earlier,       \* what may have been saved before them
    Users,         \* the users who make them
    Askers,        \* the users from whom each may come
    Sessions,      \* the session ids that clients name
    Blank,         \* a request without a session id
    Questions,     \* the questions that are asked
    Documents,
    Readers,       \* the users who may read each document
    MaxBatches,    \* bound on the batches of a document
    TopK,          \* top_k
    HistoryLimit   \* how many turns are read back, 6 in the code

Facets == {"secret", "asks", "override", "refers"}

\* A saved turn: its row, and what was already saved when it began.
Saved(user, session, question, query, answered, began) ==
    [user |-> user, session |-> session, question |-> question, query |-> query,
     answered |-> answered, began |-> began]

SavedTurns ==
    [user : Users, session : Sessions \cup Turns, question : SUBSET Facets,
     query : SUBSET Facets, answered : BOOLEAN, began : Nat]

ASSUME DocumentsAssumption == IsFiniteSet(Documents)
ASSUME QuestionsAssumption == Questions \subseteq SUBSET Facets
ASSUME AskersAssumption == Askers \in [Turns -> SUBSET Users]
ASSUME ReadersAssumption == Readers \in [Documents -> SUBSET Users]
ASSUME BatchesAssumption == MaxBatches \in Nat \ {0}
ASSUME LimitsAssumption == TopK \in Nat \ {0} /\ HistoryLimit \in Nat \ {0}
ASSUME BlankAssumption == Blank \notin Sessions \cup Turns /\ Turns \cap Sessions = {}

VARIABLES
    last,           \* the newest batch of each document
    shown,          \* the batch it is served from, 0 when it is not ready
    deleting,       \* documents that somebody asked to delete
    removed,        \* deleted documents
    meeting,        \* documents on which attempts of two jobs overlap
    points,         \* the rows that the vector index knows
    turn,           \* the turns
    conversations,  \* the saved turns, in the order of created_at
    reindex         \* the reindex script, and who has met since it began

library == <<last, shown, deleting, removed, meeting>>
vars == <<library, points, turn, conversations, reindex>>

Rows == Documents \X (1..MaxBatches)
Phases == {"new", "read", "search", "generate", "save", "over"}
NewTurn == [pc |-> "new", user |-> Blank, session |-> Blank, question |-> {}, query |-> {},
            began |-> 0, floor |-> [d \in Documents |-> 0],
            rows |-> {}, hits |-> <<>>, refs |-> {}]

\* The documents are older than the index: RETRIEVAL_BACKEND was local before.
Init ==
    /\ shown = [d \in Documents |-> 1]
    /\ last = shown
    /\ deleting = {} /\ removed = {} /\ meeting = {}
    /\ points = {}
    /\ turn = [t \in Turns |-> NewTurn]
    /\ conversations \in Earlier
    /\ reindex = [pc |-> "idle", todo |-> {}, met |-> {}]

------------------------------------------------------------------------------
(* What a turn is made of *)

\* EvidenceGate.precheck: an instruction to ignore the rules, or a secret value
\* together with the wish to see it.
Refused(text) == "override" \in text \/ {"secret", "asks"} \subseteq text

\* The positions of the newest of some saved turns.
Newest(own) == {i \in own : Cardinality({j \in own : j > i}) < HistoryLimit}

\* Any session will do for a request without one: a mistake in ask.
HistoryUnscoped(user, session) ==
    Newest({i \in DOMAIN conversations : conversations[i].user = user})

\* list_conversations: the newest turns; a blank session id is no condition on
\* the session.
History(user, session) ==
    Newest({i \in DOMAIN conversations :
                /\ conversations[i].user = user
                /\ session = Blank \/ conversations[i].session = session})

\* ContextualQueryRewriter.rewrite: a follow-up is put after the last question.
Rewrite(question, history) ==
    IF history # {} /\ "refers" \in question
    THEN question \cup conversations[Max(history)].question
    ELSE question

\* The rows that the index knows, if it is asked instead: a mistake.
AccessibleIndexed(user) == {row \in points : user \in Readers[row[1]]}

\* list_accessible_chunks: rows of ready documents that the user may read.
Accessible(user) ==
    {<<d, shown[d]>> : d \in {d \in Documents : shown[d] # 0 /\ user \in Readers[d]}}

\* HybridRetriever: any order of the best of the rows.  The index only scores
\* them, and what it does not know gets 0: it neither adds nor removes a row.
Rankings(rows) ==
    LET size == IF Cardinality(rows) < TopK THEN Cardinality(rows) ELSE TopK
    IN  {s \in [1..size -> rows] : \A i, j \in 1..size : s[i] = s[j] => i = j}

------------------------------------------------------------------------------
(* The steps of a turn *)

\* What is served now or later of each document.
Floor == [d \in Documents |-> IF shown[d] # 0 THEN shown[d] ELSE last[d] + 1]

\* ask reads the session and guard checks the question before anything else.
Ask(t) ==
    /\ turn[t].pc = "new"
    /\ \E user \in Askers[t], id \in Sessions \cup {Blank}, question \in Questions :
        LET session == IF id = Blank THEN t ELSE id
            query == IF Refused(question) THEN question
                     ELSE Rewrite(question, History(user, session))
        IN  turn' = [turn EXCEPT ![t] =
                [@ EXCEPT !.pc = IF Refused(question) THEN "save" ELSE "read",
                          !.user = user, !.session = session, !.question = question,
                          !.query = query,
                          !.began = Len(conversations), !.floor = Floor]]
    /\ UNCHANGED <<library, points, conversations, reindex>>

\* The policy looks at the question alone: a mistake in evaluate.
JudgedAlone(t, hits) ==
    \E pc \in {"generate", "save"} :
        /\ pc = "generate" => hits # <<>> /\ ~Refused(turn[t].question)
        /\ turn' = [turn EXCEPT ![t] = [@ EXCEPT !.pc = pc, !.rows = {},
                        !.hits = IF pc = "generate" THEN hits ELSE <<>>]]

\* EvidenceGate.evaluate looks at the query as it was searched for; whether the
\* evidence covers it is a matter of scores and words.
Judged(t, hits) ==
    \E pc \in {"generate", "save"} :
        /\ pc = "generate" => hits # <<>> /\ ~Refused(turn[t].query)
        /\ turn' = [turn EXCEPT ![t] = [@ EXCEPT !.pc = pc, !.rows = {},
                        !.hits = IF pc = "generate" THEN hits ELSE <<>>]]

\* search reads the rows first, and without any it does not ask the index.
ReadRows(t) ==
    /\ turn[t].pc = "read"
    /\ LET rows == Accessible(turn[t].user)
       IN  IF rows = {} THEN Judged(t, <<>>)
           ELSE turn' = [turn EXCEPT ![t] = [@ EXCEPT !.pc = "search", !.rows = rows]]
    /\ UNCHANGED <<library, points, conversations, reindex>>

\* The index answers, the rows are ranked, the evidence is judged.
Search(t) ==
    /\ turn[t].pc = "search"
    /\ \E hits \in Rankings(turn[t].rows) : Judged(t, hits)
    /\ UNCHANGED <<library, points, conversations, reindex>>

\* A reference is valid that is not too large: a mistake.
AnswerFromZero(t) ==
    /\ turn[t].pc = "generate"
    /\ \E refs \in SUBSET (0..TopK + 1) :
        turn' = [turn EXCEPT ![t] =
            [@ EXCEPT !.pc = "save", !.refs = {i \in refs : i <= Len(turn[t].hits)}]]
    /\ UNCHANGED <<library, points, conversations, reindex>>

\* Whatever the generator writes, only references to hits count; an answer
\* without one is replaced by a refusal.
Answer(t) ==
    /\ turn[t].pc = "generate"
    /\ \E refs \in SUBSET (0..TopK + 1) :
        turn' = [turn EXCEPT ![t] =
            [@ EXCEPT !.pc = "save", !.refs = refs \cap (1..Len(turn[t].hits))]]
    /\ UNCHANGED <<library, points, conversations, reindex>>

\* save_conversation, whether the turn was answered or refused.
Save(t) ==
    /\ turn[t].pc = "save"
    /\ conversations' = Append(conversations,
            Saved(turn[t].user, turn[t].session, turn[t].question, turn[t].query,
                  turn[t].refs # {}, turn[t].began))
    /\ turn' = [turn EXCEPT ![t] = [NewTurn EXCEPT !.pc = "over"]]
    /\ UNCHANGED <<library, points, reindex>>

\* The database, the index, the reranker or the generator raises: the request
\* ends with an error and the turn is not saved.
Raises(t) ==
    /\ turn[t].pc # "over"
    /\ turn' = [turn EXCEPT ![t] = [NewTurn EXCEPT !.pc = "over"]]
    /\ UNCHANGED <<library, points, conversations, reindex>>

TurnNext(t) == Ask(t) \/ ReadRows(t) \/ Search(t) \/ Answer(t) \/ Save(t) \/ Raises(t)

------------------------------------------------------------------------------
(* What goes on around them: ingestion, deletion, the reindex script *)

\* A worker begins a new attempt: the document is processing.
Withdraw(d) ==
    /\ shown[d] # 0
    /\ shown' = [shown EXCEPT ![d] = 0]
    /\ UNCHANGED <<last, deleting, removed, meeting, points, turn, conversations, reindex>>

\* A worker that read its rows, however long ago, upserts them; so it also
\* indexes the batch that is served next.
Upsert(d) ==
    /\ \E b \in 1..last[d] + 1 :
        b <= MaxBatches /\ points' = points \cup {<<d, b>>}
    /\ UNCHANGED <<library, turn, conversations, reindex>>

\* The lock is that of the job: the retry of a job begins an attempt while the
\* job of another upload of the document is in the middle of one.
Meet(d) ==
    /\ d \notin meeting
    /\ meeting' = meeting \cup {d}
    /\ reindex' = [reindex EXCEPT !.met = @ \cup {d}]
    /\ UNCHANGED <<last, shown, deleting, removed, points, turn, conversations>>

\* The attempts that overlapped have all ended.
Part(d) ==
    /\ d \in meeting
    /\ meeting' = meeting \ {d}
    /\ UNCHANGED <<last, shown, deleting, removed, points, turn, conversations, reindex>>

\* One attempt has served the document when the other replaces its rows.
ReplaceServed(d) ==
    /\ d \in meeting /\ shown[d] # 0
    /\ last[d] < MaxBatches
    /\ last' = [last EXCEPT ![d] = @ + 1]
    /\ shown' = [shown EXCEPT ![d] = last'[d]]
    /\ UNCHANGED <<deleting, removed, meeting, points, turn, conversations, reindex>>

\* A worker marks the document ready after it replaced the rows and indexed the
\* new batch; a delete request may have removed the points meanwhile, or an
\* overlapping attempt may have put rows in its place that are not indexed.
Serve(d) ==
    /\ shown[d] = 0 /\ d \notin removed
    /\ last[d] < MaxBatches
    /\ <<d, last[d] + 1>> \in points \/ d \in deleting \/ d \in meeting
    /\ last' = [last EXCEPT ![d] = @ + 1]
    /\ shown' = [shown EXCEPT ![d] = last'[d]]
    /\ UNCHANGED <<deleting, removed, meeting, points, turn, conversations, reindex>>

\* A delete request removes the points first ...
DeletePoints(d) ==
    /\ d \notin removed
    /\ points' = {row \in points : row[1] # d}
    /\ deleting' = deleting \cup {d}
    /\ UNCHANGED <<last, shown, removed, meeting, turn, conversations, reindex>>

\* ... and then the document, unless that fails.
DeleteRow(d) ==
    /\ d \in deleting \ removed
    /\ removed' = removed \cup {d}
    /\ shown' = [shown EXCEPT ![d] = 0]
    /\ UNCHANGED <<last, deleting, meeting, points, turn, conversations, reindex>>

LibraryNext(d) ==
    \/ Withdraw(d) \/ Upsert(d) \/ Serve(d)
    \/ Meet(d) \/ ReplaceServed(d) \/ Part(d)
    \/ DeletePoints(d) \/ DeleteRow(d)

\* list_ready_chunks
ReadyRows == {<<d, shown[d]>> : d \in {d \in Documents : shown[d] # 0}}

\* The script reads the rows of all ready documents once ...
StartReindex ==
    /\ reindex.pc = "idle"
    /\ reindex' = [pc |-> IF ReadyRows = {} THEN "finished" ELSE "running", todo |-> ReadyRows,
                   met |-> meeting]
    /\ UNCHANGED <<library, points, turn, conversations>>

\* ... and upserts them batch by batch.
UpsertBatch ==
    /\ reindex.pc = "running"
    /\ \E batch \in SUBSET reindex.todo \ {{}} :
        /\ points' = points \cup batch
        /\ reindex' = [reindex EXCEPT !.todo = @ \ batch,
                !.pc = IF reindex.todo = batch THEN "finished" ELSE "running"]
    /\ UNCHANGED <<library, turn, conversations>>

\* A failure is taken for the end of the work: a mistake.
ReindexRaisesSwallowed ==
    /\ reindex.pc = "running"
    /\ reindex' = [reindex EXCEPT !.pc = "finished", !.todo = {}]
    /\ UNCHANGED <<library, points, turn, conversations>>

\* The index or the embedder raises and the script ends.
ReindexRaises ==
    /\ reindex.pc = "running"
    /\ reindex' = [reindex EXCEPT !.pc = "failed", !.todo = {}]
    /\ UNCHANGED <<library, points, turn, conversations>>

ReindexNext == StartReindex \/ UpsertBatch \/ ReindexRaises

Next ==
    \/ \E t \in Turns : TurnNext(t)
    \/ \E d \in Documents : LibraryNext(d)
    \/ ReindexNext

Spec == Init /\ [][Next]_vars

------------------------------------------------------------------------------
(* Properties *)

\* Types; the references of a turn are numbers of its hits
\* (agent/workflow.py:97-101, agent/service.py:45-46).
TypeOK ==
    /\ last \in [Documents -> 0..MaxBatches]
    /\ \A d \in Documents : shown[d] \in {0, last[d]}
    /\ removed \subseteq deleting /\ deleting \subseteq Documents
    /\ meeting \subseteq Documents /\ reindex.met \subseteq Documents
    /\ points \subseteq Rows
    /\ \A t \in Turns :
        /\ turn[t].pc \in Phases
        /\ turn[t].rows \subseteq Rows /\ turn[t].hits \in Seq(Rows)
        /\ turn[t].refs \subseteq DOMAIN turn[t].hits
        /\ turn[t].query \in SUBSET Facets
    /\ reindex.pc \in {"idle", "running", "finished", "failed"}
    /\ reindex.todo \subseteq Rows

\* What a turn cites was served at some time since the turn began, to readers
\* of the document only.  A document that was withdrawn, replaced or deleted
\* before is not cited, although late upserts and the reindex script bring its
\* points back (retrieval/hybrid.py:37, 99-100, scripts/reindex.py:18-24).
NothingWithdrawnIsCited ==
    \A t \in Turns : \A i \in turn[t].refs :
        LET row == turn[t].hits[i]
        IN  /\ row[2] \in turn[t].floor[row[1]]..last[row[1]]
            /\ turn[t].user \in Readers[row[1]]

\* The generator is never asked a text that the policy refuses, be it the
\* question or what the question became together with the one before it: a
\* secret named in one turn is not given away by a follow-up that only asks
\* for "it" (agent/workflow.py:81-86, retrieval/evidence.py:55-57).
PolicyHolds ==
    \A t \in Turns : turn[t].pc = "generate" =>
        ~Refused(turn[t].question) /\ ~Refused(turn[t].query)

\* The query that a question becomes by the newest of the first n saved turns.
Context(saved, n, user, session, question) ==
    LET before == {i \in 1..n : saved[i].user = user /\ saved[i].session = session}
    IN  IF Refused(question) \/ "refers" \notin question \/ before = {}
        THEN question
        ELSE question \cup saved[Max(before)].question

ContextsNewest(saved) ==
    \A k \in DOMAIN saved :
        LET c == saved[k]
        IN  c.query = Context(saved, c.began, c.user, c.session, c.question)

\* What was saved before was saved by turns like these.
ASSUME EarlierAssumption ==
    \A saved \in Earlier :
        /\ saved \in Seq(SavedTurns) /\ ContextsNewest(saved)
        /\ \A k \in DOMAIN saved : saved[k].began < k

\* The context of a follow-up is the newest turn of the same user and session
\* that had been saved when the follow-up began, answered or refused; turns
\* that overlap do not see each other, and no request without a session id has
\* any context (agent/service.py:27-41, app/database.py:669-682).
ContextIsNewest == ContextsNewest(conversations)

\* When the reindex script has come to its end, every document that is ready is
\* in the index with the batch it is served from: one that was ingested anew
\* meanwhile, and one that overlapping jobs had left ready and not indexed before
\* the script began.  Only a delete request that came to nothing, or jobs of the
\* document that overlap after it began, may leave it out
\* (scripts/reindex.py:18-26, app/database.py:616-623).
IndexRestored ==
    reindex.pc = "finished" =>
        \A d \in Documents : shown[d] # 0 /\ d \notin deleting \cup reindex.met =>
            <<d, shown[d]>> \in points
==============================================================================
