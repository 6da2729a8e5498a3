-------------------------- MODULE IngestionServing --------------------------
(***************************************************************************)
(* What is served is right.  As long as no two jobs replace the chunks of  *)
(* one document at the same time, ingestion implements KnowledgeBase: a    *)
(* content has one owner, a document is served from one batch, withdrawn   *)
(* before the batch changes and gone for good once it is removed; and what *)
(* is served is in the vector index.                                       *)
(*                                                                         *)
(* The condition is OneAttempt.  It holds of every behaviour in which no   *)
(* upload finds a document of its content, whatever is redelivered,        *)
(* retried, swept, deleted or killed (FirstUploadsOneAttempt); with other  *)
(* uploads it is an assumption about the load, because the lock of a job   *)
(* does not exclude the job that a new upload of a failed document gets.   *)
(***************************************************************************)
EXTENDS IngestionProofs

------------------------------------------------------------------------------
(* Who writes the status of a document, its chunks and its points *)

LEMMA UploadWrites ==
  ASSUME NEW r \in Requests, UploadNext(r)
  PROVE  \/ UNCHANGED <<docStatus, content>>
         \/ \E c \in Contents : ClaimNew(r, c)
         \/ Reingest(r)
BY DEF UploadNext, RequestStep, ClaimExisting, ReuseJob, RecordDuplicate, ClaimRejected,
   Reread, HealList, HealUpsert, Promote, MarkQueued, SendTask, MarkDispatchFailed, DropSpool,
   SendRaises, RequestAborts, documents

LEMMA WorkerWrites ==
  ASSUME NEW w \in Workers, WorkerNext(w)
  PROVE  \/ UNCHANGED <<docStatus, chunks>>
         \/ MarkDocProcessing(w) \/ InsertChunks(w) \/ MarkDocReady(w) \/ MarkDocFailed(w)
BY DEF WorkerNext, WorkerStep, Start, DropDelivery, CheckJob, ReadSpool, MarkJobProcessing,
   InsertRejected, ListChunks, UpsertVectors, MarkJobCompleted, MarkJobFailed, MarkRetrying,
   GiveUp, PublishRetry, RetryRefused, UnlinkSpool, ReleaseLock, Acknowledge, StepRaises, Raises, WorkerDies,
   TimeLimitKills, Abandon, documents, stores

LEMMA DeleteWrites ==
  ASSUME NEW d \in Requests, DeleteNext(d)
  PROVE  DeleteRows(d) \/ UNCHANGED <<docStatus, chunks>>
BY DEF DeleteNext, DeleteStep, DeleteBegins, DeleteVectors, DeleteAborts, documents, stores

\* A worker in the middle of an attempt has a document.
LEMMA WorkerHasDoc ==
  ASSUME CoreInv
  PROVE  \A w \in Workers : wpc[w] # "idle" => /\ Job(w) \in Requests /\ Doc(w) \in Requests
                                               /\ jobStatus[Job(w)] # "unused"
BY DEF CoreInv, ReferencesValid, HasJob, Job, Doc, Messages

\* The documents of the workers stay when the jobs and the workers do.
LEMMA DocsStay ==
  ASSUME CoreInv, UNCHANGED wmsg,
         \A j \in Requests : jobStatus[j] # "unused" => jobDoc'[j] = jobDoc[j]
  PROVE  \A w \in Workers : wpc[w] # "idle" => Doc(w)' = Doc(w)
BY WorkerHasDoc DEF Doc, Job

\* A job that exists keeps its document.
LEMMA UploadKeepsJobDocs ==
  ASSUME TypeOK, CoreInv, NEW r \in Requests, UploadNext(r)
  PROVE  \A j \in Requests : jobStatus[j] # "unused" => jobDoc'[j] = jobDoc[j]
<1>1. CASE (\E c \in Contents : ClaimNew(r, c)) \/ RecordDuplicate(r) \/ Reingest(r)
  BY <1>1 DEF ClaimNew, Arrives, RecordDuplicate, Reingest, InsertJob, CoreInv, IdsAreFresh, TypeOK
<1>2. CASE ~((\E c \in Contents : ClaimNew(r, c)) \/ RecordDuplicate(r) \/ Reingest(r))
  BY <1>2 DEF UploadNext, RequestStep, ClaimExisting, ReuseJob, ClaimRejected, Reread, HealList,
     HealUpsert, Promote, MarkQueued, SendTask, MarkDispatchFailed, DropSpool, SendRaises,
     RequestAborts, jobs
<1>3. QED
  BY <1>1, <1>2

------------------------------------------------------------------------------
(* A document is withdrawn while its chunks are replaced *)

LEMMA ContentKnownStep ==
  ASSUME TypeOK, CoreInv, ContentKnown, [Next]_vars
  PROVE  ContentKnown'
<1>1. ASSUME NEW r \in Requests, UploadNext(r) PROVE ContentKnown'
  <2>1. CASE UNCHANGED <<docStatus, content>>
    BY <2>1 DEF ContentKnown
  <2>2. ASSUME NEW c \in Contents, ClaimNew(r, c) PROVE ContentKnown'
    BY <2>2, ContentsAssumption DEF ClaimNew, ContentKnown, TypeOK
  <2>3. CASE Reingest(r)
    BY <2>3 DEF Reingest, UpdateDoc, DocRow, ContentKnown, TypeOK
  <2>4. QED
    BY <1>1, <2>1, <2>2, <2>3, UploadWrites
<1>2. ASSUME NEW d \in Requests, DeleteNext(d) PROVE ContentKnown'
  <2>1. CASE DeleteRows(d)
    BY <2>1 DEF DeleteRows, ContentKnown, TypeOK, CoreInv, ReferencesValid
  <2>2. CASE UNCHANGED <<docStatus, chunks>>
    BY <1>2, <2>2, DeleteFrame DEF ContentKnown
  <2>3. QED
    BY <1>2, <2>1, <2>2, DeleteWrites
<1>3. ASSUME NEW j \in Requests, LockExpires(j) PROVE ContentKnown'
  BY <1>3, ExpiryFrame DEF ContentKnown
<1>4. ASSUME NEW w \in Workers, WorkerNext(w) PROVE ContentKnown'
  BY <1>4, WorkerFrame DEF ContentKnown, RowsKept
<1>5. CASE SweepNext
  BY <1>5, SweepFrame DEF ContentKnown, documents
<1>6. CASE UNCHANGED vars
  BY <1>6 DEF vars, documents, ContentKnown
<1>7. QED
  BY <1>1, <1>2, <1>3, <1>4, <1>5, <1>6 DEF Next, Rest

LEMMA WithdrawnWorker ==
  ASSUME TypeOK, CoreInv, OneAttempt, Withdrawn, NEW w \in Workers, WorkerNext(w)
  PROVE  Withdrawn'
<1> USE DEF TypeOK, CoreInv, ReferencesValid, HasJob, Withdrawn, OneAttempt, Replacing, Doc, Job,
        Messages, WorkerPcs, Holding, documents, jobs, stores
<1>1. ASSUME NEW m \in Messages, Start(w, m) PROVE Withdrawn'
  BY <1>1, SMTT(30) DEF Start, WGoto
<1>2. ASSUME NEW m \in Messages, DropDelivery(w, m) PROVE Withdrawn'
  BY <1>2, SMTT(30) DEF DropDelivery, wVars
<1>3. CASE CheckJob(w)
  BY <1>3, SMTT(30) DEF CheckJob, WGoto
<1>4. CASE ReadSpool(w)
  BY <1>4, SMTT(30) DEF ReadSpool, WGoto
<1>5. CASE MarkJobProcessing(w)
  BY <1>5, SMTT(30) DEF MarkJobProcessing, WGoto
<1>6. CASE MarkDocProcessing(w)
  BY <1>6, SMTT(30) DEF MarkDocProcessing, WGoto, UpdateDoc, DocRow
<1>7. CASE InsertChunks(w)
  BY <1>7, SMTT(30) DEF InsertChunks, WGoto
<1>8. CASE InsertRejected(w)
  BY <1>8, SMTT(30) DEF InsertRejected, WGoto
<1>9. CASE ListChunks(w)
  BY <1>9, SMTT(30) DEF ListChunks, WGoto
<1>10. CASE UpsertVectors(w)
  BY <1>10, SMTT(30) DEF UpsertVectors, WGoto
<1>11. CASE MarkDocReady(w)
  <2>1. \A v \in Workers \ {w} : wpc[v] \in Replacing => Doc(v) # Doc(w)
    BY <1>11 DEF MarkDocReady
  <2>2. QED
    BY <1>11, <2>1, SMTT(30) DEF MarkDocReady, WGoto, UpdateDoc, DocRow
<1>12. CASE MarkJobCompleted(w)
  BY <1>12, SMTT(30) DEF MarkJobCompleted, WGoto
<1>13. CASE MarkDocFailed(w)
  BY <1>13, SMTT(30) DEF MarkDocFailed, WGoto, UpdateDoc, DocRow
<1>14. CASE MarkJobFailed(w)
  BY <1>14, SMTT(30) DEF MarkJobFailed, WGoto
<1>15. CASE MarkRetrying(w)
  BY <1>15, SMTT(30) DEF MarkRetrying, WGoto
<1>16. CASE GiveUp(w)
  BY <1>16, SMTT(30) DEF GiveUp, WGoto
<1>17. CASE PublishRetry(w)
  BY <1>17, SMTT(30) DEF PublishRetry, WGoto
<1>17a. CASE RetryRefused(w)
  BY <1>17a, SMTT(30) DEF RetryRefused, WGoto
<1>18. CASE UnlinkSpool(w)
  BY <1>18, SMTT(30) DEF UnlinkSpool, WGoto
<1>19. CASE ReleaseLock(w)
  BY <1>19, SMTT(30) DEF ReleaseLock, WGoto
<1>20. CASE Acknowledge(w)
  BY <1>20, SMTT(30) DEF Acknowledge, WGoto
<1>21. CASE StepRaises(w)
  BY <1>21, SMTT(30) DEF StepRaises, Raises, WGoto
<1>22. CASE WorkerDies(w)
  BY <1>22, SMTT(30) DEF WorkerDies, Abandon, WGoto
<1>23. CASE TimeLimitKills(w)
  BY <1>23, SMTT(30) DEF TimeLimitKills, Abandon, WGoto
<1>24. QED
  BY <1>1, <1>2, <1>3, <1>4, <1>5, <1>6, <1>7, <1>8, <1>9, <1>10, <1>11, <1>12,
     <1>13, <1>14, <1>15, <1>16, <1>17, <1>17a, <1>18, <1>19, <1>20, <1>21, <1>22, <1>23
  DEF WorkerNext, WorkerStep

LEMMA ServingStep ==
  ASSUME TypeOK, CoreInv, OneAttempt, ServingInv, [Next]_vars
  PROVE  ServingInv'
<1> USE DEF ServingInv
<1>0. ContentKnown'
  BY ContentKnownStep
<1>1. ASSUME NEW r \in Requests, UploadNext(r) PROVE Withdrawn'
  <2>1. UNCHANGED <<wpc, wmsg>>
    BY <1>1, UploadFrame DEF wVars
  <2>2. \A w \in Workers : wpc[w] # "idle" => Doc(w)' = Doc(w) /\ Doc(w) \in Requests
    BY <1>1, <2>1, DocsStay, UploadKeepsJobDocs, WorkerHasDoc
  <2>3. \A d \in Requests : docStatus'[d] \in {docStatus[d], "pending"}
    <3>1. CASE UNCHANGED <<docStatus, content>>
      BY <3>1
    <3>2. CASE (\E c \in Contents : ClaimNew(r, c)) \/ Reingest(r)
      BY <3>2 DEF ClaimNew, Reingest, UpdateDoc, TypeOK
    <3>3. QED
      BY <1>1, <3>1, <3>2, UploadWrites
  <2>4. QED
    BY <2>1, <2>2, <2>3 DEF Withdrawn, Replacing
<1>2. ASSUME NEW d \in Requests, DeleteNext(d) PROVE Withdrawn'
  <2>1. UNCHANGED <<wpc, wmsg, jobDoc>>
    BY <1>2, DeleteFrame DEF wVars
  <2>2. \A e \in Requests : docStatus'[e] \in {docStatus[e], "deleted"}
    BY <1>2, DeleteWrites DEF DeleteRows, TypeOK
  <2>3. \A w \in Workers : wpc[w] # "idle" => Doc(w)' = Doc(w) /\ Doc(w) \in Requests
    BY <2>1, DocsStay, WorkerHasDoc
  <2>4. QED
    BY <2>1, <2>2, <2>3 DEF Withdrawn, Replacing
<1>3. ASSUME NEW j \in Requests, LockExpires(j) PROVE Withdrawn'
  BY <1>3, ExpiryFrame DEF Withdrawn, Doc, Job, wVars
<1>4. ASSUME NEW w \in Workers, WorkerNext(w) PROVE Withdrawn'
  BY <1>4, WithdrawnWorker
<1>5. ASSUME SweepNext PROVE Withdrawn'
  BY <1>5, SweepFrame DEF Withdrawn, Doc, Job, wVars, documents
<1>6. ASSUME UNCHANGED vars PROVE Withdrawn'
  BY <1>6 DEF vars, documents, jobs, wVars, Withdrawn, Doc, Job
<1>7. Withdrawn'
  BY <1>1, <1>2, <1>3, <1>4, <1>5, <1>6 DEF Next, Rest
<1>8. QED
  BY <1>0, <1>7

LEMMA ServingInit == Init => ServingInv
BY DEF Init, ServingInv, Withdrawn, ContentKnown, Replacing

------------------------------------------------------------------------------
(* The refinement: what list_accessible_chunks selects *)

\* KnowledgeBase's shown and removed, and its Live, in terms of the tables.
Shown == [d \in Requests |-> IF docStatus[d] = "ready" THEN chunks[d] ELSE 0]
Removed == {d \in Requests : docStatus[d] = "deleted"}

LEMMA ServesInit == Init => KB!Init
BY DEF Init, KB!Init

\* A row of documents is a live document of KnowledgeBase.
LEMMA RowsLive ==
  ASSUME TypeOK, ContentKnown, NEW d \in Requests
  PROVE  DocRow(d) <=> KB!Live(d)
BY DEF DocRow, ContentKnown, KB!Live

\* A step that leaves the three alone is a stutter.
LEMMA ServesStutter ==
  ASSUME UNCHANGED content,
         \A d \in Requests : (docStatus[d] = "ready") <=> (docStatus'[d] = "ready"),
         \A d \in Requests : docStatus[d] = "ready" => chunks'[d] = chunks[d],
         \A d \in Requests : (docStatus[d] = "deleted") <=> (docStatus'[d] = "deleted")
  PROVE  UNCHANGED KB!vars
<1>1. Shown' = Shown /\ Removed' = Removed
  BY DEF Shown, Removed
<1>2. QED
  BY <1>1 DEF KB!vars, Shown, Removed

\* A step that ends or begins no service but that of document d.
LEMMA ServesWithdraw ==
  ASSUME TypeOK, ContentKnown, NEW d \in Requests, DocRow(d), UNCHANGED <<content, chunks>>,
         NEW status \in DocStatuses \ {"ready", "deleted"},
         docStatus' = [docStatus EXCEPT ![d] = status]
  PROVE  KB!Next
<1>1. Removed' = Removed
  BY DEF Removed, DocRow, TypeOK
<1>2. Shown' = [Shown EXCEPT ![d] = 0]
  BY DEF Shown, TypeOK
<1>3. KB!Withdraw(d)
  BY <1>1, <1>2, RowsLive DEF KB!Withdraw, Shown, Removed
<1>4. QED
  BY <1>3 DEF KB!Next

LEMMA ServesUpload ==
  ASSUME TypeOK, CoreInv, ContentKnown, NEW r \in Requests, UploadNext(r)
  PROVE  [KB!Next]_KB!vars
<1>0. UNCHANGED chunks
  BY UploadFrame
<1>1. CASE UNCHANGED <<docStatus, content>>
  BY <1>0, <1>1, ServesStutter
<1>2. ASSUME NEW c \in Contents, ClaimNew(r, c) PROVE KB!Next
  <2>1. content[r] = None /\ docStatus[r] = "unused" /\ content' = [content EXCEPT ![r] = c]
        /\ docStatus' = [docStatus EXCEPT ![r] = "pending"] /\ OwnerOf(c) = {}
    BY <1>2 DEF ClaimNew, Arrives, CoreInv, IdsAreFresh
  <2>2. Shown' = Shown /\ Removed' = Removed
    BY <1>0, <2>1 DEF Shown, Removed, TypeOK
  <2>3. \A e \in Requests : KB!Live(e) => content[e] # c
    BY <2>1, RowsLive DEF OwnerOf
  <2>4. KB!Accept(r, c)
    BY <2>1, <2>2, <2>3 DEF KB!Accept, Shown, Removed
  <2>5. QED
    BY <2>4 DEF KB!Next
<1>3. CASE Reingest(r)
  <2>1. udoc[r] \in Requests /\ DocRow(udoc[r]) /\ UNCHANGED content
        /\ docStatus' = [docStatus EXCEPT ![udoc[r]] = "pending"]
    BY <1>3 DEF Reingest, UpdateDoc, CoreInv, ReferencesValid
  <2>2. QED
    BY <1>0, <2>1, ServesWithdraw DEF DocStatuses
<1>4. QED
  BY <1>1, <1>2, <1>3, UploadWrites

\* What a worker does to the row of its document.
LEMMA ServesUpdate ==
  ASSUME TypeOK, CoreInv, ContentKnown, NEW w \in Workers, wpc[w] # "idle",
         UNCHANGED <<content, chunks>>, NEW status \in {"processing", "failed"},
         UpdateDoc(Doc(w), status)
  PROVE  [KB!Next]_KB!vars
<1>1. Doc(w) \in Requests
  BY WorkerHasDoc
<1>2. CASE DocRow(Doc(w))
  BY <1>1, <1>2, ServesWithdraw DEF UpdateDoc, DocStatuses
<1>3. CASE ~DocRow(Doc(w))
  <2>1. UNCHANGED docStatus
    BY <1>1, <1>3 DEF UpdateDoc, TypeOK
  <2>2. QED
    BY <2>1, ServesStutter
<1>4. QED
  BY <1>2, <1>3

LEMMA ServesReady ==
  ASSUME TypeOK, ContentKnown, NEW d \in Requests, DocRow(d), docStatus[d] # "ready",
         chunks[d] # 0, UNCHANGED <<content, chunks>>,
         docStatus' = [docStatus EXCEPT ![d] = "ready"]
  PROVE  KB!Next
<1>1. Removed' = Removed
  BY DEF Removed, DocRow, TypeOK
<1>2. Shown[d] = 0 /\ Shown' = [Shown EXCEPT ![d] = chunks[d]]
  BY DEF Shown, TypeOK
<1>3. Shown'[d] = chunks[d] /\ Shown' = [Shown EXCEPT ![d] = Shown'[d]]
  BY <1>2 DEF Shown
<1>4. chunks[d] \in Nat \ {0} /\ KB!Live(d)
  BY RowsLive DEF TypeOK
<1>5. KB!Serve(d)
  BY <1>1, <1>2, <1>3, <1>4 DEF KB!Serve, Shown, Removed
<1>6. QED
  BY <1>5 DEF KB!Next

LEMMA ServesWorker ==
  ASSUME TypeOK, CoreInv, ServingInv, NEW w \in Workers, WorkerNext(w)
  PROVE  [KB!Next]_KB!vars
<1>0. UNCHANGED content
  BY WorkerFrame
<1>1. CASE UNCHANGED <<docStatus, chunks>>
  BY <1>0, <1>1, ServesStutter
<1>2. CASE MarkDocProcessing(w)
  BY <1>0, <1>2, ServesUpdate DEF MarkDocProcessing, ServingInv, stores
<1>3. CASE InsertChunks(w)
  <2>1. UNCHANGED docStatus /\ docStatus[Doc(w)] # "ready"
        /\ \A d \in Requests \ {Doc(w)} : chunks'[d] = chunks[d]
    BY <1>3 DEF InsertChunks, documents, ServingInv, Withdrawn, Replacing, TypeOK
  <2>2. QED
    BY <1>0, <2>1, ServesStutter
<1>4. CASE MarkDocReady(w)
  <2>1. Doc(w) \in Requests /\ wpc[w] = "ready" /\ UNCHANGED <<content, chunks>>
    BY <1>0, <1>4, WorkerHasDoc DEF MarkDocReady, stores
  <2>2. CASE DocRow(Doc(w))
    <3>1. docStatus[Doc(w)] # "ready" /\ chunks[Doc(w)] # 0
      BY <2>1, <2>2 DEF ServingInv, Withdrawn, Replacing, CoreInv, ChunksInserted, DocRow
    <3>2. docStatus' = [docStatus EXCEPT ![Doc(w)] = "ready"]
      BY <1>4, <2>2 DEF MarkDocReady, UpdateDoc
    <3>3. QED
      BY <2>1, <2>2, <3>1, <3>2, ServesReady DEF ServingInv
  <2>3. CASE ~DocRow(Doc(w))
    <3>1. UNCHANGED docStatus
      BY <1>4, <2>1, <2>3 DEF MarkDocReady, UpdateDoc, TypeOK
    <3>2. QED
      BY <2>1, <3>1, ServesStutter
  <2>4. QED
    BY <2>2, <2>3
<1>5. CASE MarkDocFailed(w)
  BY <1>0, <1>5, ServesUpdate DEF MarkDocFailed, ServingInv, stores
<1>6. QED
  BY <1>1, <1>2, <1>3, <1>4, <1>5, WorkerWrites

LEMMA ServesDelete ==
  ASSUME TypeOK, CoreInv, ContentKnown, NEW d \in Requests, DeleteNext(d)
  PROVE  [KB!Next]_KB!vars
<1>0. UNCHANGED content
  BY DeleteFrame
<1>1. CASE UNCHANGED <<docStatus, chunks>>
  BY <1>0, <1>1, ServesStutter
<1>2. CASE DeleteRows(d)
  <2>1. /\ docStatus' = [docStatus EXCEPT ![d] = "deleted"] /\ docStatus[d] # "unused"
        /\ chunks' = [chunks EXCEPT ![d] = 0]
    BY <1>2 DEF DeleteRows, CoreInv, ReferencesValid
  <2>2. Removed' = Removed \cup {d} /\ Shown' = [Shown EXCEPT ![d] = 0]
    BY <2>1 DEF Removed, Shown, TypeOK
  <2>3. CASE DocRow(d)
    <3>1. KB!Remove(d)
      BY <1>0, <2>2, <2>3, RowsLive DEF KB!Remove, Shown, Removed
    <3>2. QED
      BY <3>1 DEF KB!Next
  <2>4. CASE ~DocRow(d)
    BY <1>0, <2>1, <2>4, ServesStutter DEF DocRow, TypeOK
  <2>5. QED
    BY <2>3, <2>4
<1>3. QED
  BY <1>1, <1>2, DeleteWrites

LEMMA ServesStep ==
  ASSUME TypeOK, CoreInv, ServingInv, [Next]_vars
  PROVE  [KB!Next]_KB!vars
<1>1. ASSUME NEW r \in Requests, UploadNext(r) PROVE [KB!Next]_KB!vars
  BY <1>1, ServesUpload DEF ServingInv
<1>2. ASSUME NEW d \in Requests, DeleteNext(d) PROVE [KB!Next]_KB!vars
  BY <1>2, ServesDelete DEF ServingInv
<1>3. ASSUME NEW j \in Requests, LockExpires(j) PROVE [KB!Next]_KB!vars
  BY <1>3, ExpiryFrame, ServesStutter
<1>4. ASSUME NEW w \in Workers, WorkerNext(w) PROVE [KB!Next]_KB!vars
  BY <1>4, ServesWorker
<1>5. CASE SweepNext
  BY <1>5, SweepFrame, ServesStutter DEF documents, stores
<1>6. CASE UNCHANGED vars
  BY <1>6, ServesStutter DEF vars, documents, stores
<1>7. QED
  BY <1>1, <1>2, <1>3, <1>4, <1>5, <1>6 DEF Next, Rest

\* While no two jobs of a document replace its chunks at the same time, the document
\* is withdrawn during the replacement (ingestion/service.py:109-125).
THEOREM WithdrawnWhileReplaced == Spec /\ []OneAttempt => []ServingInv
<1>1. Init => ServingInv
  BY ServingInit
<1>2. TypeOK /\ CoreInv /\ OneAttempt /\ ServingInv /\ [Next]_vars => ServingInv'
  BY ServingStep
<1>3. QED
  BY <1>1, <1>2, CoreInvariant, PTL DEF Spec

\* Under the same condition the tables implement KnowledgeBase: of any number of
\* uploads, workers, crashes and deletions, what list_accessible_chunks selects is a
\* consistent batch of a live document that owns its content alone
\* (ingestion/service.py:109-138, app/database.py:317-418, 522-572).
THEOREM ImplementsKnowledgeBase == Spec /\ []OneAttempt => ServesConsistently
<1>1. Init => KB!Init
  BY ServesInit
<1>2. TypeOK /\ CoreInv /\ ServingInv /\ [Next]_vars => [KB!Next]_KB!vars
  BY ServesStep
<1>3. Spec /\ []OneAttempt => KB!Spec
  BY <1>1, <1>2, CoreInvariant, WithdrawnWhileReplaced, PTL DEF Spec, KB!Spec
<1>4. QED
  BY <1>3 DEF ServesConsistently

------------------------------------------------------------------------------
(* What is served is indexed *)

LEMMA ListedWorker ==
  ASSUME TypeOK, CoreInv, OneAttempt, NothingRemoved, ListedIndexed,
         NEW w \in Workers, WorkerNext(w)
  PROVE  ListedIndexed'
<1> USE DEF TypeOK, CoreInv, ReferencesValid, HasJob, ListedIndexed, OneAttempt, Replacing,
        Doc, Job, Messages, WorkerPcs, Holding, documents, jobs, stores
<1>1. ASSUME NEW m \in Messages, Start(w, m) PROVE ListedIndexed'
  BY <1>1, SMTT(30) DEF Start, WGoto
<1>2. ASSUME NEW m \in Messages, DropDelivery(w, m) PROVE ListedIndexed'
  BY <1>2, SMTT(30) DEF DropDelivery, wVars
<1>3. CASE CheckJob(w)
  BY <1>3, SMTT(30) DEF CheckJob, WGoto
<1>4. CASE ReadSpool(w)
  BY <1>4, SMTT(30) DEF ReadSpool, WGoto
<1>5. CASE MarkJobProcessing(w)
  BY <1>5, SMTT(30) DEF MarkJobProcessing, WGoto
<1>6. CASE MarkDocProcessing(w)
  BY <1>6, SMTT(30) DEF MarkDocProcessing, WGoto, UpdateDoc
<1>7. CASE InsertChunks(w)
  <2>1. /\ wpc[w] = "insert" /\ wpc' = [wpc EXCEPT ![w] = "list"]
        /\ chunks' = [chunks EXCEPT ![Doc(w)] = chunks[Doc(w)] + 1]
        /\ UNCHANGED <<wmsg, wlist, vectors, jobDoc>>
    BY <1>7 DEF InsertChunks, WGoto
  <2>2. \A v \in Workers : wpc[v] \in {"upsert", "ready"} => Doc(v) \in Requests /\ Doc(v) # Doc(w)
    BY <2>1
  <2>3. \A v \in Workers : wpc[v] \in {"upsert", "ready"} => chunks'[Doc(v)] = chunks[Doc(v)]
    BY <2>1, <2>2
  <2>4. \A v \in Workers : /\ wpc'[v] \in {"upsert", "ready"} => wpc'[v] = wpc[v]
                           /\ Doc(v)' = Doc(v)
    BY <2>1
  <2>5. QED
    BY <2>1, <2>3, <2>4
<1>8. CASE InsertRejected(w)
  BY <1>8, SMTT(30) DEF InsertRejected, WGoto
<1>9. CASE ListChunks(w)
  BY <1>9, SMTT(30) DEF ListChunks, WGoto
<1>10. CASE UpsertVectors(w)
  <2>1. /\ wpc[w] = "upsert" /\ wpc' = [wpc EXCEPT ![w] = "ready"]
        /\ wlist[w] = chunks[Doc(w)] /\ Doc(w) \in Requests
        /\ UNCHANGED <<wmsg, wlist, chunks, jobDoc>>
    BY <1>10 DEF UpsertVectors, WGoto
  <2>2. chunks[Doc(w)] # 0
    BY <2>1 DEF ChunksInserted, NothingRemoved
  <2>3. vectors' = [vectors EXCEPT ![Doc(w)] = vectors[Doc(w)] \cup {chunks[Doc(w)]}]
    BY <1>10, <2>1, <2>2 DEF UpsertVectors, Upsert
  <2>4. chunks[Doc(w)] \in vectors'[Doc(w)] /\ \A d \in Requests : vectors[d] \subseteq vectors'[d]
    BY <2>1, <2>3
  <2>5. \A v \in Workers \ {w} : wpc[v] = "ready" => Doc(v) \in Requests
    OBVIOUS
  <2>6. QED
    BY <2>1, <2>4, <2>5
<1>11. CASE MarkDocReady(w)
  BY <1>11, SMTT(30) DEF MarkDocReady, WGoto, UpdateDoc
<1>12. CASE MarkJobCompleted(w)
  BY <1>12, SMTT(30) DEF MarkJobCompleted, WGoto
<1>13. CASE MarkDocFailed(w)
  BY <1>13, SMTT(30) DEF MarkDocFailed, WGoto, UpdateDoc
<1>14. CASE MarkJobFailed(w)
  BY <1>14, SMTT(30) DEF MarkJobFailed, WGoto
<1>15. CASE MarkRetrying(w)
  BY <1>15, SMTT(30) DEF MarkRetrying, WGoto
<1>16. CASE GiveUp(w)
  BY <1>16, SMTT(30) DEF GiveUp, WGoto
<1>17. CASE PublishRetry(w)
  BY <1>17, SMTT(30) DEF PublishRetry, WGoto
<1>17a. CASE RetryRefused(w)
  BY <1>17a, SMTT(30) DEF RetryRefused, WGoto
<1>18. CASE UnlinkSpool(w)
  BY <1>18, SMTT(30) DEF UnlinkSpool, WGoto
<1>19. CASE ReleaseLock(w)
  BY <1>19, SMTT(30) DEF ReleaseLock, WGoto
<1>20. CASE Acknowledge(w)
  BY <1>20, SMTT(30) DEF Acknowledge, WGoto
<1>21. CASE StepRaises(w)
  BY <1>21, SMTT(30) DEF StepRaises, Raises, WGoto
<1>22. CASE WorkerDies(w)
  BY <1>22, SMTT(30) DEF WorkerDies, Abandon, WGoto
<1>23. CASE TimeLimitKills(w)
  BY <1>23, SMTT(30) DEF TimeLimitKills, Abandon, WGoto
<1>24. QED
  BY <1>1, <1>2, <1>3, <1>4, <1>5, <1>6, <1>7, <1>8, <1>9, <1>10, <1>11, <1>12,
     <1>13, <1>14, <1>15, <1>16, <1>17, <1>17a, <1>18, <1>19, <1>20, <1>21, <1>22, <1>23
  DEF WorkerNext, WorkerStep

LEMMA ReadyWorker ==
  ASSUME TypeOK, CoreInv, Withdrawn, ListedIndexed, ReadyIndexed, NEW w \in Workers, WorkerNext(w)
  PROVE  ReadyIndexed'
<1>1. \A d \in Requests : vectors[d] \subseteq vectors'[d]
  <2>1. CASE UpsertVectors(w)
    BY <2>1 DEF UpsertVectors, Upsert, TypeOK
  <2>2. CASE ~UpsertVectors(w)
    BY <2>2 DEF WorkerNext, WorkerStep, Start, DropDelivery, CheckJob, ReadSpool, MarkJobProcessing,
       MarkDocProcessing, InsertChunks, InsertRejected, ListChunks, MarkDocReady, MarkJobCompleted,
       MarkDocFailed, MarkJobFailed, MarkRetrying, GiveUp, PublishRetry, RetryRefused, UnlinkSpool, ReleaseLock,
       Acknowledge, StepRaises, Raises, WorkerDies, TimeLimitKills, Abandon, stores
  <2>3. QED
    BY <2>1, <2>2
<1>2. CASE UNCHANGED <<docStatus, chunks>>
  BY <1>1, <1>2 DEF ReadyIndexed
<1>3. CASE MarkDocProcessing(w)
  BY <1>1, <1>3 DEF MarkDocProcessing, UpdateDoc, ReadyIndexed, TypeOK, stores
<1>4. CASE InsertChunks(w)
  BY <1>1, <1>4 DEF InsertChunks, Withdrawn, Replacing, ReadyIndexed, TypeOK, documents
<1>5. CASE MarkDocReady(w)
  BY <1>1, <1>5 DEF MarkDocReady, UpdateDoc, ListedIndexed, ReadyIndexed, TypeOK, stores
<1>6. CASE MarkDocFailed(w)
  BY <1>1, <1>6 DEF MarkDocFailed, UpdateDoc, ReadyIndexed, TypeOK, stores
<1>7. QED
  BY <1>2, <1>3, <1>4, <1>5, <1>6, WorkerWrites

LEMMA IndexedUpload ==
  ASSUME TypeOK, CoreInv, ListedIndexed, ReadyIndexed, NEW r \in Requests, UploadNext(r)
  PROVE  ListedIndexed' /\ ReadyIndexed'
<1>1. UNCHANGED <<chunks, wpc, wmsg, wlist>>
  BY UploadFrame DEF wVars
<1>2. \A d \in Requests : vectors[d] \subseteq vectors'[d]
  <2>1. CASE HealUpsert(r)
    BY <2>1 DEF HealUpsert, Upsert, TypeOK
  <2>2. CASE ~HealUpsert(r)
    BY <2>2 DEF UploadNext, RequestStep, ClaimNew, ClaimExisting, ReuseJob, RecordDuplicate,
       Reingest, ClaimRejected, Reread, HealList, Promote, MarkQueued, SendTask,
       MarkDispatchFailed, DropSpool, SendRaises, RequestAborts, stores
  <2>3. QED
    BY <2>1, <2>2
<1>3. \A w \in Workers : wpc[w] # "idle" => Doc(w)' = Doc(w) /\ Doc(w) \in Requests
  BY <1>1, DocsStay, UploadKeepsJobDocs, WorkerHasDoc
<1>4. \A d \in Requests : docStatus'[d] = "ready" => docStatus[d] = "ready"
  <2>1. CASE UNCHANGED <<docStatus, content>>
    BY <2>1
  <2>2. CASE (\E c \in Contents : ClaimNew(r, c)) \/ Reingest(r)
    BY <2>2 DEF ClaimNew, Reingest, UpdateDoc, TypeOK
  <2>3. QED
    BY <2>1, <2>2, UploadWrites
<1>5. QED
  BY <1>1, <1>2, <1>3, <1>4 DEF ListedIndexed, ReadyIndexed

LEMMA IndexedStep ==
  ASSUME Deleting = FALSE, TypeOK, CoreInv, OneAttempt, IndexedInv, [Next]_vars
  PROVE  IndexedInv'
<1> USE DEF IndexedInv
<1> DEFINE Indexed == ListedIndexed /\ ReadyIndexed
<1>0. ServingInv' /\ NothingRemoved'
  BY ServingStep, NothingRemovedStep
<1>1. ASSUME NEW r \in Requests, UploadNext(r) PROVE Indexed'
  BY <1>1, IndexedUpload
<1>2. ASSUME NEW d \in Requests PROVE ~DeleteNext(d)
  BY DEF NothingRemoved, DeleteNext, DeleteStep, DeleteBegins, DeleteVectors, DeleteRows,
     DeleteAborts
<1>3. ASSUME NEW j \in Requests, LockExpires(j) PROVE Indexed'
  BY <1>3, ExpiryFrame DEF ListedIndexed, ReadyIndexed, Doc, Job, wVars
<1>4. ASSUME NEW w \in Workers, WorkerNext(w) PROVE Indexed'
  BY <1>4, ListedWorker, ReadyWorker DEF ServingInv
<1>5. ASSUME SweepNext PROVE Indexed'
  BY <1>5, SweepFrame DEF ListedIndexed, ReadyIndexed, Doc, Job, wVars, documents, stores
<1>6. ASSUME UNCHANGED vars PROVE Indexed'
  BY <1>6 DEF vars, documents, jobs, stores, wVars, ListedIndexed, ReadyIndexed, Doc, Job
<1> HIDE DEF Indexed
<1>7. Indexed'
  BY <1>1, <1>2, <1>3, <1>4, <1>5, <1>6 DEF Next, Rest
<1>8. QED
  BY <1>0, <1>7 DEF Indexed

LEMMA IndexedInit == Init => IndexedInv
<1>1. Init => NothingRemoved /\ ListedIndexed /\ ReadyIndexed
  BY DEF Init, NothingRemoved, ListedIndexed, ReadyIndexed
<1>2. QED
  BY <1>1, ServingInit DEF IndexedInv

\* In a system without delete requests, and while no two jobs of a document replace
\* its chunks at the same time, the chunk rows of every ready document are all in the
\* vector index (ingestion/service.py:122-125), whatever the vector index raised,
\* whoever died and whatever the recovery script sent again.
THEOREM ReadyDocumentsAreIndexed ==
  ASSUME Deleting = FALSE
  PROVE  Spec /\ []OneAttempt => []ReadyIndexed
<1>1. Init => IndexedInv
  BY IndexedInit
<1>2. TypeOK /\ CoreInv /\ OneAttempt /\ IndexedInv /\ [Next]_vars => IndexedInv'
  BY IndexedStep
<1>3. IndexedInv => ReadyIndexed
  BY DEF IndexedInv
<1>4. QED
  BY <1>1, <1>2, <1>3, CoreInvariant, PTL DEF Spec

------------------------------------------------------------------------------
(* Uploads of different contents *)

\* As long as no upload finds a row of its content, the lock of a job makes all the
\* attempts on its document exclude each other (ingestion/tasks.py:51-83).
THEOREM FirstUploadsOneAttempt == Spec /\ []FirstUploads => []OneAttempt
<1>1. CoreInv /\ OwnJobs => OneAttempt
  <2>1. SUFFICES ASSUME CoreInv, OwnJobs, NEW v \in Workers, NEW w \in Workers,
                        wpc[v] \in Replacing, wpc[w] \in Replacing, Doc(v) = Doc(w)
                 PROVE  v = w
    BY DEF OneAttempt
  <2>2. wpc[v] \in Holding /\ wpc[w] \in Holding /\ Job(v) = Job(w)
    BY <2>1, OwnJobOfWorker DEF Replacing, Holding
  <2>3. lock[Job(v)] = v /\ lock[Job(w)] = w
    BY <2>1, <2>2 DEF CoreInv, LockOwned
  <2>4. QED
    BY <2>2, <2>3
<1>2. QED
  BY <1>1, CoreInvariant, JobsStayApart, PTL

\* So uploads of different contents, with any number of workers, retries, crashes,
\* deletions and runs of the recovery script, are served as KnowledgeBase promises.
THEOREM FirstUploadsServed == Spec /\ []FirstUploads => ServesConsistently
BY FirstUploadsOneAttempt, ImplementsKnowledgeBase, PTL

\* And as long as nothing is deleted, what is served of them is indexed.
THEOREM FirstUploadsIndexed ==
  ASSUME Deleting = FALSE
  PROVE  Spec /\ []FirstUploads => []ReadyIndexed
BY FirstUploadsOneAttempt, ReadyDocumentsAreIndexed, PTL

\* With a single upload nothing has to be assumed.
THEOREM OneUploadServed ==
  ASSUME \A q, r \in Requests : q = r
  PROVE  Spec => ServesConsistently
BY OneUploadFirst, FirstUploadsServed

\* And its chunk rows are in the index, if it is never deleted.
THEOREM OneUploadIndexed ==
  ASSUME Deleting = FALSE, \A q, r \in Requests : q = r
  PROVE  Spec => []ReadyIndexed
BY OneUploadFirst, FirstUploadsIndexed

=============================================================================
