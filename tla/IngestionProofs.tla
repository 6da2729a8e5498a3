-------------------------- MODULE IngestionProofs --------------------------
(***************************************************************************)
(* Proofs about Ingestion, for any set of requests, contents and workers   *)
(* and any number of retries, faults and crashes: type correctness, the    *)
(* exclusion of two deliveries of one job, and that a ready document has   *)
(* chunks.  CoreInv is inductive; its parts are proved one by one, each    *)
(* for the steps of requests, workers, deletions and the recovery script.  *)
(***************************************************************************)
EXTENDS IngestionInvariants, TLAPS

------------------------------------------------------------------------------
(* Types *)

LEMMA TypeInit == Init => TypeOK
BY NoneAssumption
DEF Init, TypeOK, DocStatuses, JobStatuses, Messages, WorkerPcs, UploadPcs

LEMMA SendType ==
  ASSUME queue \in [Messages -> Nat], NEW m, Send(m)
  PROVE  queue' \in [Messages -> Nat]
<1>1. queue' = [x \in Messages |-> IF x = m THEN queue[x] + 1 ELSE queue[x]]
  BY DEF Send
<1>2. QED
  BY <1>1

LEMMA UpdateJobType ==
  ASSUME jobStatus \in [Requests -> JobStatuses], NEW j, NEW status \in JobStatuses,
         UpdateJob(j, status)
  PROVE  jobStatus' \in [Requests -> JobStatuses]
<1>1. jobStatus' = [k \in Requests |->
                      IF k = j /\ JobRow(j) THEN status ELSE jobStatus[k]]
  BY DEF UpdateJob
<1>2. QED
  BY <1>1

LEMMA UpdateDocType ==
  ASSUME docStatus \in [Requests -> DocStatuses], NEW d, NEW status \in DocStatuses,
         UpdateDoc(d, status)
  PROVE  docStatus' \in [Requests -> DocStatuses]
<1>1. docStatus' = [e \in Requests |->
                      IF e = d /\ DocRow(d) THEN status ELSE docStatus[e]]
  BY DEF UpdateDoc
<1>2. QED
  BY <1>1

LEMMA TakeType ==
  ASSUME queue \in [Messages -> Nat], NEW m \in Messages, Deliverable(m), Take(m)
  PROVE  queue' \in [Messages -> Nat]
BY DEF Take, Deliverable

LEMMA TypeUpload ==
  ASSUME TypeOK, ReferencesValid, NEW r \in Requests, UploadNext(r)
  PROVE  TypeOK'
<1> USE DEF TypeOK, documents, jobs, stores, wVars, uVars, sVars, budgets,
        DocStatuses, JobStatuses, Recoverable, WorkerPcs, Holding, UploadPcs
<1>1. ASSUME NEW c \in Contents, ClaimNew(r, c) PROVE TypeOK'
  BY <1>1, SMTT(30) DEF ClaimNew, UGoto, InsertJob, Arrives
<1>2. ASSUME NEW c \in Contents, ClaimExisting(r, c) PROVE TypeOK'
  BY <1>2, SMTT(30) DEF ClaimExisting, UGoto, OwnerOf
<1>3. CASE ReuseJob(r)
  BY <1>3, SMTT(30) DEF ReuseJob, UGoto, LatestJobs, JobsOf
<1>4. CASE RecordDuplicate(r)
  BY <1>4, SMTT(30) DEF RecordDuplicate, UGoto, InsertJob
<1>5. CASE Reingest(r)
  BY <1>5, SMTT(30), UpdateDocType DEF Reingest, UGoto, InsertJob
<1>6. CASE ClaimRejected(r)
  BY <1>6, SMTT(30) DEF ClaimRejected, UGoto
<1>7. CASE Reread(r)
  BY <1>7, SMTT(30) DEF Reread, UGoto
<1>8. CASE HealList(r)
  BY <1>8, SMTT(30) DEF HealList, UGoto, ReferencesValid, HasJob
<1>9. CASE HealUpsert(r)
  BY <1>9, SMTT(30) DEF HealUpsert, UGoto, Upsert, ReferencesValid, HasJob
<1>10. CASE Promote(r)
  BY <1>10, SMTT(30) DEF Promote, UGoto, ReferencesValid, HasJob
<1>11. CASE MarkQueued(r)
  BY <1>11, SMTT(30), UpdateJobType DEF MarkQueued, UGoto
<1>12. CASE SendTask(r)
  BY <1>12, SendType DEF SendTask, UGoto
<1>13. CASE MarkDispatchFailed(r)
  BY <1>13, SMTT(30), UpdateJobType DEF MarkDispatchFailed, UGoto
<1>14. CASE DropSpool(r)
  BY <1>14, SMTT(30) DEF DropSpool, UGoto, ReferencesValid, HasJob
<1>15. CASE SendRaises(r)
  BY <1>15, SMTT(30) DEF SendRaises, UGoto
<1>16. CASE RequestAborts(r)
  BY <1>16, SMTT(30) DEF RequestAborts, UGoto
<1>17. QED
  BY <1>1, <1>2, <1>3, <1>4, <1>5, <1>6, <1>7, <1>8, <1>9, <1>10, <1>11, <1>12,
     <1>13, <1>14, <1>15, <1>16
  DEF UploadNext, RequestStep

LEMMA TypeWorker ==
  ASSUME TypeOK, ReferencesValid, NEW w \in Workers, WorkerNext(w)
  PROVE  TypeOK'
<1> USE DEF TypeOK, documents, jobs, stores, wVars, uVars, sVars, budgets,
        DocStatuses, JobStatuses, Recoverable, WorkerPcs, Holding, UploadPcs
<1>1. ASSUME NEW m \in Messages, Start(w, m) PROVE TypeOK'
  BY <1>1, TakeType DEF Start, WGoto
<1>2. ASSUME NEW m \in Messages, DropDelivery(w, m) PROVE TypeOK'
  BY <1>2, TakeType DEF DropDelivery
<1>3. CASE CheckJob(w)
  BY <1>3, SMTT(30) DEF CheckJob, WGoto
<1>4. CASE ReadSpool(w)
  BY <1>4, SMTT(30) DEF ReadSpool, WGoto
<1>5. CASE MarkJobProcessing(w)
  BY <1>5, SMTT(30), UpdateJobType DEF MarkJobProcessing, WGoto
<1>6. CASE MarkDocProcessing(w)
  BY <1>6, SMTT(30), UpdateDocType DEF MarkDocProcessing, WGoto
<1>7. CASE InsertChunks(w)
  BY <1>7, SMTT(30) DEF InsertChunks, WGoto, ReferencesValid, HasJob, Doc, Job
<1>8. CASE InsertRejected(w)
  BY <1>8, SMTT(30) DEF InsertRejected, WGoto
<1>9. CASE ListChunks(w)
  BY <1>9, SMTT(30) DEF ListChunks, WGoto, ReferencesValid, HasJob, Doc, Job
<1>10. CASE UpsertVectors(w)
  BY <1>10, SMTT(30) DEF UpsertVectors, WGoto, Upsert, ReferencesValid, HasJob, Doc, Job
<1>11. CASE MarkDocReady(w)
  BY <1>11, SMTT(30), UpdateDocType DEF MarkDocReady, WGoto
<1>12. CASE MarkJobCompleted(w)
  BY <1>12, SMTT(30), UpdateJobType DEF MarkJobCompleted, WGoto
<1>13. CASE MarkDocFailed(w)
  BY <1>13, SMTT(30), UpdateDocType DEF MarkDocFailed, WGoto
<1>14. CASE MarkJobFailed(w)
  BY <1>14, SMTT(30), UpdateJobType DEF MarkJobFailed, WGoto
<1>15. CASE MarkRetrying(w)
  BY <1>15, SMTT(30), UpdateJobType DEF MarkRetrying, WGoto
<1>16. CASE GiveUp(w)
  BY <1>16, SMTT(30) DEF GiveUp, WGoto
<1>17. CASE PublishRetry(w)
  BY <1>17, SendType DEF PublishRetry, WGoto
<1>17a. CASE RetryRefused(w)
  BY <1>17a, SMTT(30) DEF RetryRefused, WGoto
<1>18. CASE UnlinkSpool(w)
  BY <1>18, SMTT(30) DEF UnlinkSpool, WGoto, ReferencesValid, HasJob, Job
<1>19. CASE ReleaseLock(w)
  <2>1. lock' = [j \in Requests |-> IF j = Job(w) THEN None ELSE lock[j]]
    BY <1>19 DEF ReleaseLock
  <2>2. QED
    BY <1>19, <2>1 DEF ReleaseLock, WGoto
<1>20. CASE Acknowledge(w)
  BY <1>20, SMTT(30) DEF Acknowledge, WGoto
<1>21. CASE StepRaises(w)
  BY <1>21, SMTT(30) DEF StepRaises, Raises, WGoto
<1>22. CASE WorkerDies(w)
  BY <1>22, SendType DEF WorkerDies, Abandon, WGoto
<1>23. CASE TimeLimitKills(w)
  BY <1>23, SMTT(30) DEF TimeLimitKills, Abandon, WGoto
<1>24. QED
  BY <1>1, <1>2, <1>3, <1>4, <1>5, <1>6, <1>7, <1>8, <1>9, <1>10, <1>11, <1>12,
     <1>13, <1>14, <1>15, <1>16, <1>17, <1>17a, <1>18, <1>19, <1>20, <1>21, <1>22,
     <1>23
  DEF WorkerNext, WorkerStep

LEMMA TypeDelete ==
  ASSUME TypeOK, ReferencesValid, NEW d \in Requests, DeleteNext(d)
  PROVE  TypeOK'
<1> USE DEF TypeOK, documents, jobs, stores, wVars, uVars, sVars, budgets,
        DocStatuses, JobStatuses, Recoverable, WorkerPcs, Holding, UploadPcs
<1>1. CASE DeleteBegins(d)
  BY <1>1, SMTT(30) DEF DeleteBegins, DGoto
<1>2. CASE DeleteVectors(d)
  BY <1>2, SMTT(30) DEF DeleteVectors, DGoto
<1>3. CASE DeleteRows(d)
  BY <1>3, SMTT(30) DEF DeleteRows, DGoto
<1>4. CASE DeleteAborts(d)
  BY <1>4, SMTT(30) DEF DeleteAborts, DGoto
<1>5. QED
  BY <1>1, <1>2, <1>3, <1>4
  DEF DeleteNext, DeleteStep

LEMMA TypeSweep ==
  ASSUME TypeOK, ReferencesValid, SweepNext
  PROVE  TypeOK'
<1> USE DEF TypeOK, documents, jobs, stores, wVars, uVars, sVars, budgets,
        DocStatuses, JobStatuses, Recoverable, WorkerPcs, Holding, UploadPcs
<1>1. CASE SweepLists
  BY <1>1, SMTT(30) DEF SweepLists
<1>2. ASSUME NEW j \in Requests, SweepFindsNoFile(j) PROVE TypeOK'
  BY <1>2, SMTT(30), UpdateJobType DEF SweepFindsNoFile
<1>3. ASSUME NEW j \in Requests, SweepFindsFile(j) PROVE TypeOK'
  BY <1>3, SMTT(30) DEF SweepFindsFile, ReferencesValid, HasJob
<1>4. CASE SweepMarksQueued
  BY <1>4, SMTT(30), UpdateJobType DEF SweepMarksQueued
<1>5. CASE SweepSends
  BY <1>5, SendType DEF SweepSends
<1>6. CASE SweepMarksFailed
  BY <1>6, SMTT(30), UpdateJobType DEF SweepMarksFailed
<1>7. CASE SweepDropsSpool
  BY <1>7, SMTT(30) DEF SweepDropsSpool, ReferencesValid, HasJob
<1>8. CASE SweepEnds
  BY <1>8, SMTT(30) DEF SweepEnds
<1>9. CASE SweepSendRaises
  BY <1>9, SMTT(30) DEF SweepSendRaises
<1>10. CASE SweepAborts
  BY <1>10, SMTT(30) DEF SweepAborts
<1>11. QED
  BY <1>1, <1>2, <1>3, <1>4, <1>5, <1>6, <1>7, <1>8, <1>9, <1>10
  DEF SweepNext, SweepStep

------------------------------------------------------------------------------
(* What is referred to exists *)

LEMMA ReferencesUpload ==
  ASSUME TypeOK, ReferencesValid, NEW r \in Requests, UploadNext(r)
  PROVE  ReferencesValid'
<1> USE DEF TypeOK, ReferencesValid, HasJob, Job, JobRow, DocRow, documents, jobs, stores, wVars, uVars, sVars, budgets,
        DocStatuses, JobStatuses, Recoverable, WorkerPcs, Holding, UploadPcs
<1>1. ASSUME NEW c \in Contents, ClaimNew(r, c) PROVE ReferencesValid'
  BY <1>1, SMTT(30) DEF ClaimNew, UGoto, InsertJob, Arrives
<1>2. ASSUME NEW c \in Contents, ClaimExisting(r, c) PROVE ReferencesValid'
  BY <1>2, SMTT(30) DEF ClaimExisting, UGoto, Arrives, OwnerOf
<1>3. CASE ReuseJob(r)
  BY <1>3, SMTT(30) DEF ReuseJob, UGoto, LatestJobs, JobsOf
<1>4. CASE RecordDuplicate(r)
  BY <1>4, SMTT(30) DEF RecordDuplicate, UGoto, InsertJob
<1>5. CASE Reingest(r)
  BY <1>5, SMTT(30) DEF Reingest, UGoto, InsertJob, UpdateDoc
<1>6. CASE ClaimRejected(r)
  BY <1>6, SMTT(30) DEF ClaimRejected, UGoto
<1>7. CASE Reread(r)
  BY <1>7, SMTT(30) DEF Reread, UGoto
<1>8. CASE HealList(r)
  BY <1>8, SMTT(30) DEF HealList, UGoto
<1>9. CASE HealUpsert(r)
  BY <1>9, SMTT(30) DEF HealUpsert, UGoto, Upsert
<1>10. CASE Promote(r)
  BY <1>10, SMTT(30) DEF Promote, UGoto
<1>11. CASE MarkQueued(r)
  BY <1>11, SMTT(30) DEF MarkQueued, UGoto, UpdateJob
<1>12. CASE SendTask(r)
  BY <1>12, SMTT(30) DEF SendTask, UGoto, Send, Message, Messages
<1>13. CASE MarkDispatchFailed(r)
  BY <1>13, SMTT(30) DEF MarkDispatchFailed, UGoto, UpdateJob
<1>14. CASE DropSpool(r)
  BY <1>14, SMTT(30) DEF DropSpool, UGoto
<1>15. CASE SendRaises(r)
  BY <1>15, SMTT(30) DEF SendRaises, UGoto
<1>16. CASE RequestAborts(r)
  BY <1>16, SMTT(30) DEF RequestAborts, UGoto, InFlight
<1>17. QED
  BY <1>1, <1>2, <1>3, <1>4, <1>5, <1>6, <1>7, <1>8, <1>9, <1>10, <1>11, <1>12,
     <1>13, <1>14, <1>15, <1>16
  DEF UploadNext, RequestStep

LEMMA ReferencesWorker ==
  ASSUME TypeOK, ReferencesValid, NEW w \in Workers, WorkerNext(w)
  PROVE  ReferencesValid'
<1> USE DEF TypeOK, ReferencesValid, HasJob, Job, JobRow, DocRow, documents, jobs, stores, wVars, uVars, sVars, budgets,
        DocStatuses, JobStatuses, Recoverable, WorkerPcs, Holding, UploadPcs
<1>1. ASSUME NEW m \in Messages, Start(w, m) PROVE ReferencesValid'
  BY <1>1, SMTT(30) DEF Start, WGoto, Take, Deliverable
<1>2. ASSUME NEW m \in Messages, DropDelivery(w, m) PROVE ReferencesValid'
  BY <1>2, SMTT(30) DEF DropDelivery, Take, Deliverable
<1>3. CASE CheckJob(w)
  BY <1>3, SMTT(30) DEF CheckJob, WGoto
<1>4. CASE ReadSpool(w)
  BY <1>4, SMTT(30) DEF ReadSpool, WGoto
<1>5. CASE MarkJobProcessing(w)
  BY <1>5, SMTT(30) DEF MarkJobProcessing, WGoto, UpdateJob
<1>6. CASE MarkDocProcessing(w)
  BY <1>6, SMTT(30) DEF MarkDocProcessing, WGoto, UpdateDoc
<1>7. CASE InsertChunks(w)
  BY <1>7, SMTT(30) DEF InsertChunks, WGoto
<1>8. CASE InsertRejected(w)
  BY <1>8, SMTT(30) DEF InsertRejected, WGoto
<1>9. CASE ListChunks(w)
  BY <1>9, SMTT(30) DEF ListChunks, WGoto
<1>10. CASE UpsertVectors(w)
  BY <1>10, SMTT(30) DEF UpsertVectors, WGoto, Upsert
<1>11. CASE MarkDocReady(w)
  BY <1>11, SMTT(30) DEF MarkDocReady, WGoto, UpdateDoc
<1>12. CASE MarkJobCompleted(w)
  BY <1>12, SMTT(30) DEF MarkJobCompleted, WGoto, UpdateJob
<1>13. CASE MarkDocFailed(w)
  BY <1>13, SMTT(30) DEF MarkDocFailed, WGoto, UpdateDoc
<1>14. CASE MarkJobFailed(w)
  BY <1>14, SMTT(30) DEF MarkJobFailed, WGoto, UpdateJob
<1>15. CASE MarkRetrying(w)
  BY <1>15, SMTT(30) DEF MarkRetrying, WGoto, UpdateJob
<1>16. CASE GiveUp(w)
  BY <1>16, SMTT(30) DEF GiveUp, WGoto
<1>17. CASE PublishRetry(w)
  BY <1>17, SMTT(30) DEF PublishRetry, WGoto, Send, Message, Messages
<1>17a. CASE RetryRefused(w)
  BY <1>17a, SMTT(30) DEF RetryRefused, WGoto
<1>18. CASE UnlinkSpool(w)
  BY <1>18, SMTT(30) DEF UnlinkSpool, WGoto
<1>19. CASE ReleaseLock(w)
  BY <1>19, SMTT(30) DEF ReleaseLock, WGoto
<1>20. CASE Acknowledge(w)
  BY <1>20, SMTT(30) DEF Acknowledge, WGoto
<1>21. CASE StepRaises(w)
  BY <1>21, SMTT(30) DEF StepRaises, Raises, WGoto
<1>22. CASE WorkerDies(w)
  BY <1>22, SMTT(30) DEF WorkerDies, Abandon, WGoto, Send, Messages
<1>23. CASE TimeLimitKills(w)
  BY <1>23, SMTT(30) DEF TimeLimitKills, Abandon, WGoto
<1>24. QED
  BY <1>1, <1>2, <1>3, <1>4, <1>5, <1>6, <1>7, <1>8, <1>9, <1>10, <1>11, <1>12,
     <1>13, <1>14, <1>15, <1>16, <1>17, <1>17a, <1>18, <1>19, <1>20, <1>21, <1>22,
     <1>23
  DEF WorkerNext, WorkerStep

LEMMA ReferencesDelete ==
  ASSUME TypeOK, ReferencesValid, NEW d \in Requests, DeleteNext(d)
  PROVE  ReferencesValid'
<1> USE DEF TypeOK, ReferencesValid, HasJob, Job, JobRow, DocRow, documents, jobs, stores, wVars, uVars, sVars, budgets,
        DocStatuses, JobStatuses, Recoverable, WorkerPcs, Holding, UploadPcs
<1>1. CASE DeleteBegins(d)
  BY <1>1, SMTT(30) DEF DeleteBegins, DGoto
<1>2. CASE DeleteVectors(d)
  BY <1>2, SMTT(30) DEF DeleteVectors, DGoto
<1>3. CASE DeleteRows(d)
  <2>1. \A j \in Requests : jobStatus'[j] # "unused" <=> jobStatus[j] # "unused"
    BY <1>3 DEF DeleteRows, JobsOf
  <2>2. UNCHANGED <<jobDoc, queue, wVars, uVars, sVars>>
    BY <1>3 DEF DeleteRows
  <2>3. docStatus'[d] # "unused" /\ \A e \in Requests \ {d} : docStatus'[e] = docStatus[e]
    BY <1>3 DEF DeleteRows
  <2>4. deleting' = [deleting EXCEPT ![d] = "no"]
    BY <1>3 DEF DeleteRows, DGoto
  <2>5. QED
    BY <2>1, <2>2, <2>3, <2>4, SMTT(30) DEF Messages
<1>4. CASE DeleteAborts(d)
  BY <1>4, SMTT(30) DEF DeleteAborts, DGoto
<1>5. QED
  BY <1>1, <1>2, <1>3, <1>4
  DEF DeleteNext, DeleteStep

LEMMA ReferencesSweep ==
  ASSUME TypeOK, ReferencesValid, SweepNext
  PROVE  ReferencesValid'
<1> USE DEF TypeOK, ReferencesValid, HasJob, Job, JobRow, DocRow, documents, jobs, stores, wVars, uVars, sVars, budgets,
        DocStatuses, JobStatuses, Recoverable, WorkerPcs, Holding, UploadPcs
<1>1. CASE SweepLists
  BY <1>1, SMTT(30) DEF SweepLists, Stale
<1>2. ASSUME NEW j \in Requests, SweepFindsNoFile(j) PROVE ReferencesValid'
  BY <1>2, SMTT(30) DEF SweepFindsNoFile, UpdateJob
<1>3. ASSUME NEW j \in Requests, SweepFindsFile(j) PROVE ReferencesValid'
  BY <1>3, SMTT(30) DEF SweepFindsFile
<1>4. CASE SweepMarksQueued
  BY <1>4, SMTT(30) DEF SweepMarksQueued, UpdateJob
<1>5. CASE SweepSends
  BY <1>5, SMTT(30) DEF SweepSends, Send, Message, Messages
<1>6. CASE SweepMarksFailed
  BY <1>6, SMTT(30) DEF SweepMarksFailed, UpdateJob
<1>7. CASE SweepDropsSpool
  BY <1>7, SMTT(30) DEF SweepDropsSpool
<1>8. CASE SweepEnds
  BY <1>8, SMTT(30) DEF SweepEnds
<1>9. CASE SweepSendRaises
  BY <1>9, SMTT(30) DEF SweepSendRaises
<1>10. CASE SweepAborts
  BY <1>10, SMTT(30) DEF SweepAborts
<1>11. QED
  BY <1>1, <1>2, <1>3, <1>4, <1>5, <1>6, <1>7, <1>8, <1>9, <1>10
  DEF SweepNext, SweepStep

------------------------------------------------------------------------------
(* What the steps of the others leave alone *)

\* Rows do not come from nowhere, and what is deleted stays deleted.
RowsKept ==
    \A x \in Requests :
        /\ docStatus'[x] = "unused" <=> docStatus[x] = "unused"
        /\ docStatus[x] = "deleted" => docStatus'[x] = "deleted"
        /\ jobStatus'[x] = "unused" <=> jobStatus[x] = "unused"
        /\ jobStatus[x] = "deleted" => jobStatus'[x] = "deleted"

\* Nothing is deleted that was not deleted.
NothingDeleted ==
    \A x \in Requests : jobStatus'[x] = "deleted" => jobStatus[x] = "deleted"

LEMMA UpdateJobKeepsRows ==
  ASSUME TypeOK, NEW j, NEW status \in JobStatuses \ {"unused", "deleted"},
         UpdateJob(j, status), UNCHANGED docStatus
  PROVE  RowsKept /\ NothingDeleted
<1>1. jobStatus' = [k \in Requests |->
                      IF k = j /\ JobRow(j) THEN status ELSE jobStatus[k]]
  BY DEF UpdateJob, TypeOK
<1>2. QED
  BY <1>1 DEF RowsKept, NothingDeleted, JobRow

LEMMA UpdateDocKeepsRows ==
  ASSUME TypeOK, NEW d, NEW status \in DocStatuses \ {"unused", "deleted"},
         UpdateDoc(d, status), UNCHANGED jobStatus
  PROVE  RowsKept /\ NothingDeleted
<1>1. docStatus' = [e \in Requests |->
                      IF e = d /\ DocRow(d) THEN status ELSE docStatus[e]]
  BY DEF UpdateDoc, TypeOK
<1>2. QED
  BY <1>1 DEF RowsKept, NothingDeleted, DocRow

LEMMA WorkerFrame ==
  ASSUME TypeOK, NEW w \in Workers, WorkerNext(w)
  PROVE  RowsKept /\ NothingDeleted
         /\ UNCHANGED <<content, jobDoc, uVars, deleting, sVars>>
<1> DEFINE Kept ==
       RowsKept /\ NothingDeleted
       /\ UNCHANGED <<content, jobDoc, uVars, deleting, sVars>>
<1> USE DEF documents, jobs, stores, wVars, uVars, sVars, budgets, JobStatuses, DocStatuses, Recoverable
<1>1. ASSUME NEW m \in Messages, Start(w, m) PROVE Kept
  BY <1>1 DEF Start, RowsKept, NothingDeleted
<1>2. ASSUME NEW m \in Messages, DropDelivery(w, m) PROVE Kept
  BY <1>2 DEF DropDelivery, RowsKept, NothingDeleted
<1>3. CASE CheckJob(w)
  BY <1>3 DEF CheckJob, RowsKept, NothingDeleted
<1>4. CASE ReadSpool(w)
  BY <1>4 DEF ReadSpool, RowsKept, NothingDeleted
<1>5. CASE MarkJobProcessing(w)
  BY <1>5, UpdateJobKeepsRows DEF MarkJobProcessing
<1>6. CASE MarkDocProcessing(w)
  BY <1>6, UpdateDocKeepsRows DEF MarkDocProcessing
<1>7. CASE InsertChunks(w)
  BY <1>7 DEF InsertChunks, RowsKept, NothingDeleted
<1>8. CASE InsertRejected(w)
  BY <1>8 DEF InsertRejected, RowsKept, NothingDeleted
<1>9. CASE ListChunks(w)
  BY <1>9 DEF ListChunks, RowsKept, NothingDeleted
<1>10. CASE UpsertVectors(w)
  BY <1>10 DEF UpsertVectors, RowsKept, NothingDeleted
<1>11. CASE MarkDocReady(w)
  BY <1>11, UpdateDocKeepsRows DEF MarkDocReady
<1>12. CASE MarkJobCompleted(w)
  BY <1>12, UpdateJobKeepsRows DEF MarkJobCompleted
<1>13. CASE MarkDocFailed(w)
  BY <1>13, UpdateDocKeepsRows DEF MarkDocFailed
<1>14. CASE MarkJobFailed(w)
  BY <1>14, UpdateJobKeepsRows DEF MarkJobFailed
<1>15. CASE MarkRetrying(w)
  BY <1>15, UpdateJobKeepsRows DEF MarkRetrying
<1>16. CASE GiveUp(w)
  BY <1>16 DEF GiveUp, RowsKept, NothingDeleted
<1>17. CASE PublishRetry(w)
  BY <1>17 DEF PublishRetry, RowsKept, NothingDeleted
<1>17a. CASE RetryRefused(w)
  BY <1>17a DEF RetryRefused, RowsKept, NothingDeleted
<1>18. CASE UnlinkSpool(w)
  BY <1>18 DEF UnlinkSpool, RowsKept, NothingDeleted
<1>19. CASE ReleaseLock(w)
  BY <1>19 DEF ReleaseLock, RowsKept, NothingDeleted
<1>20. CASE Acknowledge(w)
  BY <1>20 DEF Acknowledge, RowsKept, NothingDeleted
<1>21. CASE StepRaises(w)
  BY <1>21 DEF StepRaises, Raises, WGoto, RowsKept, NothingDeleted
<1>22. CASE WorkerDies(w)
  BY <1>22 DEF WorkerDies, Abandon, RowsKept, NothingDeleted
<1>23. CASE TimeLimitKills(w)
  BY <1>23 DEF TimeLimitKills, Abandon, RowsKept, NothingDeleted
<1>24. QED
  BY <1>1, <1>2, <1>3, <1>4, <1>5, <1>6, <1>7, <1>8, <1>9, <1>10, <1>11, <1>12,
     <1>13, <1>14, <1>15, <1>16, <1>17, <1>17a, <1>18, <1>19, <1>20, <1>21, <1>22,
     <1>23
  DEF WorkerNext, WorkerStep

LEMMA SweepFrame ==
  ASSUME TypeOK, SweepNext
  PROVE  RowsKept /\ NothingDeleted
         /\ UNCHANGED <<documents, jobDoc, stores, lock, wVars, uVars, deleting>>
<1> DEFINE Kept ==
       RowsKept /\ NothingDeleted
       /\ UNCHANGED <<documents, jobDoc, stores, lock, wVars, uVars, deleting>>
<1> USE DEF documents, jobs, stores, wVars, uVars, sVars, budgets, JobStatuses, DocStatuses, Recoverable
<1>1. CASE SweepLists
  BY <1>1 DEF SweepLists, RowsKept, NothingDeleted
<1>2. ASSUME NEW j \in Requests, SweepFindsNoFile(j) PROVE Kept
  BY <1>2, UpdateJobKeepsRows DEF SweepFindsNoFile
<1>3. ASSUME NEW j \in Requests, SweepFindsFile(j) PROVE Kept
  BY <1>3 DEF SweepFindsFile, RowsKept, NothingDeleted
<1>4. CASE SweepMarksQueued
  BY <1>4, UpdateJobKeepsRows DEF SweepMarksQueued
<1>5. CASE SweepSends
  BY <1>5 DEF SweepSends, RowsKept, NothingDeleted
<1>6. CASE SweepMarksFailed
  BY <1>6, UpdateJobKeepsRows DEF SweepMarksFailed
<1>7. CASE SweepDropsSpool
  BY <1>7 DEF SweepDropsSpool, RowsKept, NothingDeleted
<1>8. CASE SweepEnds
  BY <1>8 DEF SweepEnds, RowsKept, NothingDeleted
<1>9. CASE SweepSendRaises
  BY <1>9 DEF SweepSendRaises, RowsKept, NothingDeleted
<1>10. CASE SweepAborts
  BY <1>10 DEF SweepAborts, RowsKept, NothingDeleted
<1>11. QED
  BY <1>1, <1>2, <1>3, <1>4, <1>5, <1>6, <1>7, <1>8, <1>9, <1>10
  DEF SweepNext, SweepStep

LEMMA UploadFrame ==
  ASSUME NEW r \in Requests, UploadNext(r)
  PROVE  UNCHANGED <<chunks, lock, wVars, deleting, sVars>>
<1> DEFINE Kept == UNCHANGED <<chunks, lock, wVars, deleting, sVars>>
<1> USE DEF documents, jobs, stores, wVars, uVars, sVars, budgets
<1>1. ASSUME NEW c \in Contents, ClaimNew(r, c) PROVE Kept
  BY <1>1 DEF ClaimNew
<1>2. ASSUME NEW c \in Contents, ClaimExisting(r, c) PROVE Kept
  BY <1>2 DEF ClaimExisting
<1>3. CASE ReuseJob(r)
  BY <1>3 DEF ReuseJob
<1>4. CASE RecordDuplicate(r)
  BY <1>4 DEF RecordDuplicate
<1>5. CASE Reingest(r)
  BY <1>5 DEF Reingest
<1>6. CASE ClaimRejected(r)
  BY <1>6 DEF ClaimRejected
<1>7. CASE Reread(r)
  BY <1>7 DEF Reread
<1>8. CASE HealList(r)
  BY <1>8 DEF HealList
<1>9. CASE HealUpsert(r)
  BY <1>9 DEF HealUpsert
<1>10. CASE Promote(r)
  BY <1>10 DEF Promote
<1>11. CASE MarkQueued(r)
  BY <1>11 DEF MarkQueued
<1>12. CASE SendTask(r)
  BY <1>12 DEF SendTask
<1>13. CASE MarkDispatchFailed(r)
  BY <1>13 DEF MarkDispatchFailed
<1>14. CASE DropSpool(r)
  BY <1>14 DEF DropSpool
<1>15. CASE SendRaises(r)
  BY <1>15 DEF SendRaises
<1>16. CASE RequestAborts(r)
  BY <1>16 DEF RequestAborts
<1>17. QED
  BY <1>1, <1>2, <1>3, <1>4, <1>5, <1>6, <1>7, <1>8, <1>9, <1>10, <1>11, <1>12,
     <1>13, <1>14, <1>15, <1>16
  DEF UploadNext, RequestStep

LEMMA DeleteFrame ==
  ASSUME NEW d \in Requests, DeleteNext(d)
  PROVE  UNCHANGED <<content, jobDoc, spool, queue, lock, wVars, uVars, sVars>>
BY DEF DeleteNext, DeleteStep, DeleteBegins, DeleteVectors, DeleteRows, DeleteAborts,
       documents, jobs, stores, budgets

LEMMA ExpiryFrame ==
  ASSUME NEW j \in Requests, LockExpires(j)
  PROVE  UNCHANGED <<docStatus, content, jobStatus, jobDoc, chunks, vectors, spool,
                     queue, wVars, uVars, deleting, sVars, faults, crashes>>
BY DEF LockExpires, documents, jobs, stores, budgets

------------------------------------------------------------------------------
(* The lock *)

LEMMA LockWorker ==
  ASSUME TypeOK, ReferencesValid, LockOwned, NEW w \in Workers, WorkerNext(w)
  PROVE  LockOwned'
<1> USE OwnersAssumption
    DEF TypeOK, ReferencesValid, LockOwned, Job, Messages, wVars, Holding, WorkerPcs
<1>1. ASSUME NEW m \in Messages, Start(w, m) PROVE LockOwned'
  BY <1>1, SMTT(30) DEF Start, WGoto
<1>2. ASSUME NEW m \in Messages, DropDelivery(w, m) PROVE LockOwned'
  BY <1>2, SMTT(30) DEF DropDelivery
<1>3. CASE CheckJob(w)
  BY <1>3, SMTT(30) DEF CheckJob, WGoto
<1>4. CASE ReadSpool(w)
  BY <1>4, SMTT(30) DEF ReadSpool, WGoto
<1>5. CASE MarkJobProcessing(w)
  BY <1>5, SMTT(30) DEF MarkJobProcessing, WGoto
<1>6. CASE MarkDocProcessing(w)
  BY <1>6, SMTT(30) DEF MarkDocProcessing, WGoto
<1>7. CASE InsertChunks(w)
  BY <1>7, SMTT(30) DEF InsertChunks, WGoto
<1>8. CASE InsertRejected(w)
  BY <1>8, SMTT(30) DEF InsertRejected, WGoto
<1>9. CASE ListChunks(w)
  BY <1>9, SMTT(30) DEF ListChunks, WGoto
<1>10. CASE UpsertVectors(w)
  BY <1>10, SMTT(30) DEF UpsertVectors, WGoto
<1>11. CASE MarkDocReady(w)
  BY <1>11, SMTT(30) DEF MarkDocReady, WGoto
<1>12. CASE MarkJobCompleted(w)
  BY <1>12, SMTT(30) DEF MarkJobCompleted, WGoto
<1>13. CASE MarkDocFailed(w)
  BY <1>13, SMTT(30) DEF MarkDocFailed, WGoto
<1>14. CASE MarkJobFailed(w)
  BY <1>14, SMTT(30) DEF MarkJobFailed, WGoto
<1>15. CASE MarkRetrying(w)
  BY <1>15, SMTT(30) DEF MarkRetrying, WGoto
<1>16. CASE GiveUp(w)
  BY <1>16, SMTT(30) DEF GiveUp, WGoto
<1>17. CASE PublishRetry(w)
  BY <1>17, SMTT(30) DEF PublishRetry, WGoto
<1>17a. CASE RetryRefused(w)
  BY <1>17a, SMTT(30) DEF RetryRefused, WGoto
<1>18. CASE UnlinkSpool(w)
  BY <1>18, SMTT(30) DEF UnlinkSpool, WGoto
<1>19. CASE ReleaseLock(w)
  BY <1>19, SMTT(30) DEF ReleaseLock, WGoto
<1>20. CASE Acknowledge(w)
  BY <1>20, SMTT(30) DEF Acknowledge, WGoto
<1>21. CASE StepRaises(w)
  BY <1>21, SMTT(30) DEF StepRaises, Raises, WGoto
<1>22. CASE WorkerDies(w)
  BY <1>22, SMTT(30) DEF WorkerDies, Abandon, WGoto
<1>23. CASE TimeLimitKills(w)
  BY <1>23, SMTT(30) DEF TimeLimitKills, Abandon, WGoto
<1>24. QED
  BY <1>1, <1>2, <1>3, <1>4, <1>5, <1>6, <1>7, <1>8, <1>9, <1>10, <1>11, <1>12,
     <1>13, <1>14, <1>15, <1>16, <1>17, <1>17a, <1>18, <1>19, <1>20, <1>21, <1>22,
     <1>23
  DEF WorkerNext, WorkerStep

LEMMA LockStep ==
  ASSUME TypeOK, ReferencesValid, LockOwned, [Next]_vars
  PROVE  LockOwned'
<1> USE DEF LockOwned, Job, wVars
<1>1. ASSUME NEW r \in Requests, UploadNext(r) PROVE LockOwned'
  BY <1>1, UploadFrame
<1>2. ASSUME NEW d \in Requests, DeleteNext(d) PROVE LockOwned'
  BY <1>2, DeleteFrame
<1>3. ASSUME NEW j \in Requests, LockExpires(j) PROVE LockOwned'
  BY <1>3, ExpiryFrame, OwnersAssumption, SMTT(30)
  DEF LockExpires, TypeOK, ReferencesValid, Messages, Holding
<1>4. ASSUME NEW w \in Workers, WorkerNext(w) PROVE LockOwned'
  BY <1>4, LockWorker
<1>5. CASE SweepNext
  BY <1>5, SweepFrame
<1>6. CASE UNCHANGED vars
  BY <1>6 DEF vars
<1>7. QED
  BY <1>1, <1>2, <1>3, <1>4, <1>5, <1>6 DEF Next, Rest

------------------------------------------------------------------------------
(* Fresh ids *)

LEMMA FreshUpload ==
  ASSUME TypeOK, ReferencesValid, IdsAreFresh, NEW r \in Requests, UploadNext(r)
  PROVE  IdsAreFresh'
<1> USE DEF TypeOK, ReferencesValid, IdsAreFresh, HasJob, documents, jobs, stores, wVars, uVars, sVars, budgets
<1>1. ASSUME NEW c \in Contents, ClaimNew(r, c) PROVE IdsAreFresh'
  BY <1>1, SMTT(30) DEF ClaimNew, UGoto, InsertJob, Arrives, DocRow
<1>2. ASSUME NEW c \in Contents, ClaimExisting(r, c) PROVE IdsAreFresh'
  BY <1>2, SMTT(30) DEF ClaimExisting, UGoto, Arrives, OwnerOf, DocRow
<1>3. CASE ReuseJob(r)
  BY <1>3, SMTT(30) DEF ReuseJob, UGoto
<1>4. CASE RecordDuplicate(r)
  BY <1>4, SMTT(30) DEF RecordDuplicate, UGoto, InsertJob, DocRow
<1>5. CASE Reingest(r)
  BY <1>5, SMTT(30) DEF Reingest, UGoto, InsertJob, UpdateDoc, DocRow
<1>6. CASE ClaimRejected(r)
  BY <1>6, SMTT(30) DEF ClaimRejected, UGoto
<1>7. CASE Reread(r)
  BY <1>7, SMTT(30) DEF Reread, UGoto
<1>8. CASE HealList(r)
  BY <1>8, SMTT(30) DEF HealList, UGoto
<1>9. CASE HealUpsert(r)
  BY <1>9, SMTT(30) DEF HealUpsert, UGoto
<1>10. CASE Promote(r)
  BY <1>10, SMTT(30) DEF Promote, UGoto
<1>11. CASE MarkQueued(r)
  BY <1>11, SMTT(30) DEF MarkQueued, UGoto, UpdateJob, JobRow
<1>12. CASE SendTask(r)
  BY <1>12, SMTT(30) DEF SendTask, UGoto
<1>13. CASE MarkDispatchFailed(r)
  BY <1>13, SMTT(30) DEF MarkDispatchFailed, UGoto, UpdateJob, JobRow
<1>14. CASE DropSpool(r)
  BY <1>14, SMTT(30) DEF DropSpool, UGoto
<1>15. CASE SendRaises(r)
  BY <1>15, SMTT(30) DEF SendRaises, UGoto
<1>16. CASE RequestAborts(r)
  BY <1>16, SMTT(30) DEF RequestAborts, UGoto, InFlight
<1>17. QED
  BY <1>1, <1>2, <1>3, <1>4, <1>5, <1>6, <1>7, <1>8, <1>9, <1>10, <1>11, <1>12,
     <1>13, <1>14, <1>15, <1>16
  DEF UploadNext, RequestStep

LEMMA FreshStep ==
  ASSUME TypeOK, ReferencesValid, IdsAreFresh, [Next]_vars
  PROVE  IdsAreFresh'
<1> USE DEF IdsAreFresh, uVars
<1>1. ASSUME NEW r \in Requests, UploadNext(r) PROVE IdsAreFresh'
  BY <1>1, FreshUpload
<1>2. ASSUME NEW d \in Requests, DeleteNext(d) PROVE IdsAreFresh'
  <2>1. CASE DeleteRows(d)
    <3>1. \A j \in Requests : jobStatus[j] = "unused" => jobStatus'[j] = "unused"
      BY <2>1 DEF DeleteRows, JobsOf, JobRow
    <3>2. docStatus[d] # "unused" /\ \A e \in Requests \ {d} : docStatus'[e] = docStatus[e]
      BY <2>1 DEF DeleteRows, ReferencesValid, TypeOK
    <3>3. QED
      BY <1>2, DeleteFrame, <3>1, <3>2
  <2>2. CASE ~DeleteRows(d)
    <3>1. UNCHANGED <<docStatus, jobStatus>>
      BY <1>2, <2>2 DEF DeleteNext, DeleteStep, DeleteBegins, DeleteVectors,
         DeleteAborts, documents, jobs
    <3>2. QED
      BY <1>2, DeleteFrame, <3>1
  <2>3. QED
    BY <2>1, <2>2
<1>3. ASSUME NEW j \in Requests, LockExpires(j) PROVE IdsAreFresh'
  BY <1>3, ExpiryFrame
<1>4. ASSUME NEW w \in Workers, WorkerNext(w) PROVE IdsAreFresh'
  BY <1>4, WorkerFrame DEF RowsKept
<1>5. CASE SweepNext
  BY <1>5, SweepFrame DEF RowsKept, documents
<1>6. CASE UNCHANGED vars
  BY <1>6 DEF vars, documents, jobs
<1>7. QED
  BY <1>1, <1>2, <1>3, <1>4, <1>5, <1>6 DEF Next, Rest

------------------------------------------------------------------------------
(* Jobs are removed only with their documents *)

LEMMA CascadeUpload ==
  ASSUME TypeOK, ReferencesValid, IdsAreFresh, CascadeOnly, NEW r \in Requests, UploadNext(r)
  PROVE  CascadeOnly'
<1> USE NoneAssumption DEF TypeOK, ReferencesValid, IdsAreFresh, CascadeOnly, HasJob, documents, jobs, stores, wVars, uVars, sVars, budgets
<1>1. ASSUME NEW c \in Contents, ClaimNew(r, c) PROVE CascadeOnly'
  BY <1>1, SMTT(30) DEF ClaimNew, InsertJob, Arrives
<1>2. ASSUME NEW c \in Contents, ClaimExisting(r, c) PROVE CascadeOnly'
  BY <1>2, SMTT(30) DEF ClaimExisting
<1>3. CASE ReuseJob(r)
  BY <1>3, SMTT(30) DEF ReuseJob
<1>4. CASE RecordDuplicate(r)
  BY <1>4, SMTT(30) DEF RecordDuplicate, InsertJob
<1>5. CASE Reingest(r)
  BY <1>5, SMTT(30) DEF Reingest, InsertJob, UpdateDoc, DocRow
<1>6. CASE ClaimRejected(r)
  BY <1>6, SMTT(30) DEF ClaimRejected
<1>7. CASE Reread(r)
  BY <1>7, SMTT(30) DEF Reread
<1>8. CASE HealList(r)
  BY <1>8, SMTT(30) DEF HealList
<1>9. CASE HealUpsert(r)
  BY <1>9, SMTT(30) DEF HealUpsert
<1>10. CASE Promote(r)
  BY <1>10, SMTT(30) DEF Promote
<1>11. CASE MarkQueued(r)
  BY <1>11, SMTT(30) DEF MarkQueued, UpdateJob, JobRow
<1>12. CASE SendTask(r)
  BY <1>12, SMTT(30) DEF SendTask
<1>13. CASE MarkDispatchFailed(r)
  BY <1>13, SMTT(30) DEF MarkDispatchFailed, UpdateJob, JobRow
<1>14. CASE DropSpool(r)
  BY <1>14, SMTT(30) DEF DropSpool
<1>15. CASE SendRaises(r)
  BY <1>15, SMTT(30) DEF SendRaises
<1>16. CASE RequestAborts(r)
  BY <1>16, SMTT(30) DEF RequestAborts
<1>17. QED
  BY <1>1, <1>2, <1>3, <1>4, <1>5, <1>6, <1>7, <1>8, <1>9, <1>10, <1>11, <1>12,
     <1>13, <1>14, <1>15, <1>16
  DEF UploadNext, RequestStep

LEMMA CascadeStep ==
  ASSUME TypeOK, ReferencesValid, IdsAreFresh, CascadeOnly, [Next]_vars
  PROVE  CascadeOnly'
<1>1. ASSUME NEW r \in Requests, UploadNext(r) PROVE CascadeOnly'
  BY <1>1, CascadeUpload
<1>2. ASSUME NEW d \in Requests, DeleteNext(d) PROVE CascadeOnly'
  <2>1. CASE DeleteRows(d)
    BY <2>1, SMTT(30) DEF DeleteRows, JobsOf, JobRow, CascadeOnly, ReferencesValid, TypeOK
  <2>2. CASE ~DeleteRows(d)
    <3>1. UNCHANGED <<docStatus, jobStatus>>
      BY <1>2, <2>2 DEF DeleteNext, DeleteStep, DeleteBegins, DeleteVectors,
         DeleteAborts, documents, jobs
    <3>2. QED
      BY <1>2, DeleteFrame, <3>1 DEF CascadeOnly
  <2>3. QED
    BY <2>1, <2>2
<1>3. ASSUME NEW j \in Requests, LockExpires(j) PROVE CascadeOnly'
  BY <1>3, ExpiryFrame DEF CascadeOnly
<1>4. ASSUME NEW w \in Workers, WorkerNext(w) PROVE CascadeOnly'
  BY <1>4, WorkerFrame DEF RowsKept, NothingDeleted, CascadeOnly, ReferencesValid
<1>5. CASE SweepNext
  BY <1>5, SweepFrame DEF NothingDeleted, CascadeOnly, documents
<1>6. CASE UNCHANGED vars
  BY <1>6 DEF vars, documents, jobs, CascadeOnly
<1>7. QED
  BY <1>1, <1>2, <1>3, <1>4, <1>5, <1>6 DEF Next, Rest

------------------------------------------------------------------------------
(* Chunks and verdicts *)

\* Both invariants about chunks, which are proved together.
ChunksInv == ChunksInserted /\ ReadyHasChunks

LEMMA ChunksUpload ==
  ASSUME TypeOK, ReferencesValid, IdsAreFresh, ChunksInv, NEW r \in Requests, UploadNext(r)
  PROVE  ChunksInv'
<1> USE DEF wVars
<1>1. ASSUME NEW w \in Workers, wpc[w] # "idle" PROVE jobDoc'[Job(w)] = jobDoc[Job(w)]
  <2>1. ASSUME NEW j \in Requests, jobStatus[j] # "unused" PROVE jobDoc'[j] = jobDoc[j]
    BY <2>1, SMTT(30)
    DEF UploadNext, RequestStep, ClaimNew, ClaimExisting, ReuseJob, RecordDuplicate,
        Reingest, ClaimRejected, Reread, HealList, HealUpsert, Promote, MarkQueued,
        SendTask, MarkDispatchFailed, DropSpool, SendRaises, RequestAborts, jobs,
        InsertJob, IdsAreFresh, Arrives, TypeOK
  <2>2. QED
    BY <1>1, <2>1 DEF ReferencesValid, HasJob, Job, Messages
<1>2. ASSUME NEW d \in Requests
      PROVE /\ docStatus[d] = "deleted" => docStatus'[d] = "deleted"
            /\ docStatus'[d] = "ready" => docStatus[d] = "ready"
  BY SMTT(30)
  DEF UploadNext, RequestStep, ClaimNew, ClaimExisting, ReuseJob, RecordDuplicate,
      Reingest, ClaimRejected, Reread, HealList, HealUpsert, Promote, MarkQueued,
      SendTask, MarkDispatchFailed, DropSpool, SendRaises, RequestAborts, documents,
      UpdateDoc, DocRow, IdsAreFresh, Arrives, TypeOK
<1>3. UNCHANGED <<chunks, wpc, wmsg>>
  BY UploadFrame
<1>4. ReadyHasChunks'
  BY <1>2, <1>3 DEF ReadyHasChunks, ChunksInv
<1>5. ASSUME NEW w \in Workers, wpc'[w] \in {"list", "upsert", "ready"}
      PROVE chunks'[Doc(w)'] # 0 \/ docStatus'[Doc(w)'] = "deleted"
  <2>1. wpc[w] \in {"list", "upsert", "ready"} /\ Doc(w)' = Doc(w)
    BY <1>1, <1>3, <1>5 DEF Doc, Job
  <2>2. Doc(w) \in Requests
    BY <2>1 DEF ReferencesValid, HasJob, Doc
  <2>3. QED
    BY <1>2, <1>3, <2>1, <2>2 DEF ChunksInserted, ChunksInv
<1>6. QED
  BY <1>4, <1>5 DEF ChunksInserted, ChunksInv

LEMMA ChunksWorker ==
  ASSUME TypeOK, ReferencesValid, ChunksInv, NEW w \in Workers, WorkerNext(w)
  PROVE  ChunksInv'
<1> USE DEF TypeOK, ReferencesValid, HasJob, ChunksInv, ChunksInserted, ReadyHasChunks,
        Doc, Job, Messages, WorkerPcs, Holding, documents, jobs, stores, wVars, uVars, sVars, budgets
<1>1. ASSUME NEW m \in Messages, Start(w, m) PROVE ChunksInv'
  BY <1>1, SMTT(30) DEF Start, WGoto
<1>2. ASSUME NEW m \in Messages, DropDelivery(w, m) PROVE ChunksInv'
  BY <1>2, SMTT(30) DEF DropDelivery
<1>3. CASE CheckJob(w)
  BY <1>3, SMTT(30) DEF CheckJob, WGoto
<1>4. CASE ReadSpool(w)
  BY <1>4, SMTT(30) DEF ReadSpool, WGoto
<1>5. CASE MarkJobProcessing(w)
  BY <1>5, SMTT(30) DEF MarkJobProcessing, WGoto
<1>6. CASE MarkDocProcessing(w)
  BY <1>6, SMTT(30) DEF MarkDocProcessing, WGoto, UpdateDoc, DocRow
<1>7. CASE InsertChunks(w)
  BY <1>7, SMTT(30) DEF InsertChunks, WGoto, DocRow
<1>8. CASE InsertRejected(w)
  BY <1>8, SMTT(30) DEF InsertRejected, WGoto
<1>9. CASE ListChunks(w)
  BY <1>9, SMTT(30) DEF ListChunks, WGoto
<1>10. CASE UpsertVectors(w)
  BY <1>10, SMTT(30) DEF UpsertVectors, WGoto
<1>11. CASE MarkDocReady(w)
  BY <1>11, SMTT(30) DEF MarkDocReady, WGoto, UpdateDoc, DocRow
<1>12. CASE MarkJobCompleted(w)
  BY <1>12, SMTT(30) DEF MarkJobCompleted, WGoto
<1>13. CASE MarkDocFailed(w)
  BY <1>13, SMTT(30) DEF MarkDocFailed, WGoto, UpdateDoc, DocRow
<1>14. CASE MarkJobFailed(w)
  BY <1>14, SMTT(30) DEF MarkJobFailed, WGoto
<1>15. CASE MarkRetrying(w)
  BY <1>15, SMTT(30) DEF MarkRetrying, WGoto
<1>16. CASE GiveUp(w)
  BY <1>16, SMTT(30) DEF GiveUp, WGoto
<1>17. CASE PublishRetry(w)
  BY <1>17, SMTT(30) DEF PublishRetry, WGoto
<1>17a. CASE RetryRefused(w)
  BY <1>17a, SMTT(30) DEF RetryRefused, WGoto
<1>18. CASE UnlinkSpool(w)
  BY <1>18, SMTT(30) DEF UnlinkSpool, WGoto
<1>19. CASE ReleaseLock(w)
  BY <1>19, SMTT(30) DEF ReleaseLock, WGoto
<1>20. CASE Acknowledge(w)
  BY <1>20, SMTT(30) DEF Acknowledge, WGoto
<1>21. CASE StepRaises(w)
  BY <1>21, SMTT(30) DEF StepRaises, Raises, WGoto
<1>22. CASE WorkerDies(w)
  BY <1>22, SMTT(30) DEF WorkerDies, Abandon, WGoto
<1>23. CASE TimeLimitKills(w)
  BY <1>23, SMTT(30) DEF TimeLimitKills, Abandon, WGoto
<1>24. QED
  BY <1>1, <1>2, <1>3, <1>4, <1>5, <1>6, <1>7, <1>8, <1>9, <1>10, <1>11, <1>12,
     <1>13, <1>14, <1>15, <1>16, <1>17, <1>17a, <1>18, <1>19, <1>20, <1>21, <1>22,
     <1>23
  DEF WorkerNext, WorkerStep

LEMMA ChunksStep ==
  ASSUME TypeOK, ReferencesValid, IdsAreFresh, ChunksInv, [Next]_vars
  PROVE  ChunksInv'
<1> USE DEF ChunksInv, ChunksInserted, ReadyHasChunks, Doc, Job, wVars
<1>1. ASSUME NEW r \in Requests, UploadNext(r) PROVE ChunksInv'
  BY <1>1, ChunksUpload
<1>2. ASSUME NEW d \in Requests, DeleteNext(d) PROVE ChunksInv'
  <2>1. CASE DeleteRows(d)
    BY <1>2, DeleteFrame, <2>1, SMTT(30) DEF DeleteRows, TypeOK, ReferencesValid, HasJob
  <2>2. CASE ~DeleteRows(d)
    <3>1. UNCHANGED <<docStatus, chunks>>
      BY <1>2, <2>2 DEF DeleteNext, DeleteStep, DeleteBegins, DeleteVectors,
         DeleteAborts, documents, stores
    <3>2. QED
      BY <1>2, DeleteFrame, <3>1
  <2>3. QED
    BY <2>1, <2>2
<1>3. ASSUME NEW j \in Requests, LockExpires(j) PROVE ChunksInv'
  BY <1>3, ExpiryFrame
<1>4. ASSUME NEW w \in Workers, WorkerNext(w) PROVE ChunksInv'
  BY <1>4, ChunksWorker
<1>5. CASE SweepNext
  BY <1>5, SweepFrame DEF documents, stores
<1>6. CASE UNCHANGED vars
  BY <1>6 DEF vars, documents, jobs, stores
<1>7. QED
  BY <1>1, <1>2, <1>3, <1>4, <1>5, <1>6 DEF Next, Rest

------------------------------------------------------------------------------
(* The inductive invariant and what follows from it *)

LEMMA TypeStep ==
  ASSUME TypeOK, ReferencesValid, [Next]_vars
  PROVE  TypeOK'
<1>1. ASSUME NEW j \in Requests, LockExpires(j) PROVE TypeOK'
  <2>1. lock' \in [Requests -> Workers \cup {None, Ghost}]
    BY <1>1 DEF LockExpires, TypeOK
  <2>2. QED
    BY <1>1, ExpiryFrame, <2>1 DEF TypeOK, wVars, uVars, sVars
<1>2. CASE UNCHANGED vars
  BY <1>2 DEF vars, TypeOK, documents, jobs, stores, wVars, uVars, sVars, budgets
<1>3. QED
  BY <1>1, <1>2, TypeUpload, TypeWorker, TypeDelete, TypeSweep DEF Next, Rest

LEMMA ReferencesStep ==
  ASSUME TypeOK, ReferencesValid, [Next]_vars
  PROVE  ReferencesValid'
<1>1. ASSUME NEW j \in Requests, LockExpires(j) PROVE ReferencesValid'
  BY <1>1, ExpiryFrame DEF ReferencesValid, HasJob, Job, wVars, uVars, sVars
<1>2. CASE UNCHANGED vars
  BY <1>2 DEF vars, ReferencesValid, HasJob, Job, documents, jobs, stores, wVars,
     uVars, sVars, budgets
<1>3. QED
  BY <1>1, <1>2, ReferencesUpload, ReferencesWorker, ReferencesDelete,
     ReferencesSweep DEF Next, Rest

LEMMA CoreInit == Init => CoreInv
BY DEF Init, CoreInv, ReferencesValid, IdsAreFresh, LockOwned, CascadeOnly,
   ChunksInserted, ReadyHasChunks, Holding, Messages

LEMMA CoreStep ==
  ASSUME TypeOK, CoreInv, [Next]_vars
  PROVE  TypeOK' /\ CoreInv'
<1> USE DEF CoreInv
<1>1. TypeOK' /\ ReferencesValid'
  BY TypeStep, ReferencesStep
<1>2. IdsAreFresh' /\ LockOwned' /\ CascadeOnly'
  BY FreshStep, LockStep, CascadeStep
<1>3. ChunksInserted' /\ ReadyHasChunks'
  BY ChunksStep DEF ChunksInv
<1>4. QED
  BY <1>1, <1>2, <1>3

\* CoreInv, with the types, holds in every reachable state: what is referred to
\* exists, ids are fresh, locks are owned, rows are removed by cascade only, and
\* ready documents have chunks.
THEOREM CoreInvariant == Spec => [](TypeOK /\ CoreInv)
<1>1. Init => TypeOK /\ CoreInv
  BY TypeInit, CoreInit
<1>2. TypeOK /\ CoreInv /\ [Next]_vars => (TypeOK /\ CoreInv)'
  BY CoreStep
<1>3. QED
  BY <1>1, <1>2, PTL DEF Spec

\* Every variable keeps its type: in particular a status is always one the
\* schema's readers know, and no queue count goes below zero.
THEOREM TypeCorrect == Spec => []TypeOK
BY CoreInvariant, PTL

\* However messages are duplicated, workers die and locks run out, no two live
\* workers ever run the same job (ingestion/tasks.py:51-83).
THEOREM JobsExcluded == Spec => []JobExclusion
<1>1. CoreInv => JobExclusion
  <2>1. SUFFICES ASSUME LockOwned, NEW v \in Workers, NEW w \in Workers,
                        wpc[v] \in Holding, wpc[w] \in Holding, Job(v) = Job(w)
                 PROVE  v = w
    BY DEF CoreInv, JobExclusion
  <2>2. lock[Job(v)] = v /\ lock[Job(w)] = w
    BY <2>1 DEF LockOwned
  <2>3. QED
    BY <2>1, <2>2
<1>2. QED
  BY <1>1, CoreInvariant, PTL

\* However attempts are retried, repeated, cut short or overtaken by a deletion,
\* a document is never ready without chunk rows (ingestion/service.py:122-125).
THEOREM ReadyDocumentsHaveChunks == Spec => []ReadyHasChunks
<1>1. CoreInv => ReadyHasChunks
  BY DEF CoreInv
<1>2. QED
  BY <1>1, CoreInvariant, PTL

------------------------------------------------------------------------------
(* Deleted documents stay without rows *)

LEMMA NoRowsUpload ==
  ASSUME TypeOK, ReferencesValid, IdsAreFresh, NoRowsWithoutDocument, NEW r \in Requests, UploadNext(r)
  PROVE  NoRowsWithoutDocument'
<1> USE NoneAssumption DEF TypeOK, ReferencesValid, IdsAreFresh, NoRowsWithoutDocument, HasJob, JobsOf, JobRow, DocRow,
        Job, Doc, documents, jobs, stores, wVars, uVars, sVars, budgets
<1>1. ASSUME NEW c \in Contents, ClaimNew(r, c) PROVE NoRowsWithoutDocument'
  BY <1>1, SMTT(30) DEF ClaimNew, InsertJob, Arrives
<1>2. ASSUME NEW c \in Contents, ClaimExisting(r, c) PROVE NoRowsWithoutDocument'
  BY <1>2, SMTT(30) DEF ClaimExisting
<1>3. CASE ReuseJob(r)
  BY <1>3, SMTT(30) DEF ReuseJob
<1>4. CASE RecordDuplicate(r)
  BY <1>4, SMTT(30) DEF RecordDuplicate, InsertJob
<1>5. CASE Reingest(r)
  BY <1>5, SMTT(30) DEF Reingest, InsertJob, UpdateDoc
<1>6. CASE ClaimRejected(r)
  BY <1>6, SMTT(30) DEF ClaimRejected
<1>7. CASE Reread(r)
  BY <1>7, SMTT(30) DEF Reread
<1>8. CASE HealList(r)
  BY <1>8, SMTT(30) DEF HealList
<1>9. CASE HealUpsert(r)
  BY <1>9, SMTT(30) DEF HealUpsert
<1>10. CASE Promote(r)
  BY <1>10, SMTT(30) DEF Promote
<1>11. CASE MarkQueued(r)
  BY <1>11, SMTT(30) DEF MarkQueued, UpdateJob
<1>12. CASE SendTask(r)
  BY <1>12, SMTT(30) DEF SendTask
<1>13. CASE MarkDispatchFailed(r)
  BY <1>13, SMTT(30) DEF MarkDispatchFailed, UpdateJob
<1>14. CASE DropSpool(r)
  BY <1>14, SMTT(30) DEF DropSpool
<1>15. CASE SendRaises(r)
  BY <1>15, SMTT(30) DEF SendRaises
<1>16. CASE RequestAborts(r)
  BY <1>16, SMTT(30) DEF RequestAborts
<1>17. QED
  BY <1>1, <1>2, <1>3, <1>4, <1>5, <1>6, <1>7, <1>8, <1>9, <1>10, <1>11, <1>12,
     <1>13, <1>14, <1>15, <1>16
  DEF UploadNext, RequestStep

LEMMA NoRowsWorker ==
  ASSUME TypeOK, ReferencesValid, IdsAreFresh, NoRowsWithoutDocument, NEW w \in Workers, WorkerNext(w)
  PROVE  NoRowsWithoutDocument'
<1> USE NoneAssumption DEF TypeOK, ReferencesValid, IdsAreFresh, NoRowsWithoutDocument, HasJob, JobsOf, JobRow, DocRow,
        Job, Doc, documents, jobs, stores, wVars, uVars, sVars, budgets
<1>1. ASSUME NEW m \in Messages, Start(w, m) PROVE NoRowsWithoutDocument'
  BY <1>1, SMTT(30) DEF Start
<1>2. ASSUME NEW m \in Messages, DropDelivery(w, m) PROVE NoRowsWithoutDocument'
  BY <1>2, SMTT(30) DEF DropDelivery
<1>3. CASE CheckJob(w)
  BY <1>3, SMTT(30) DEF CheckJob
<1>4. CASE ReadSpool(w)
  BY <1>4, SMTT(30) DEF ReadSpool
<1>5. CASE MarkJobProcessing(w)
  BY <1>5, SMTT(30) DEF MarkJobProcessing, UpdateJob
<1>6. CASE MarkDocProcessing(w)
  BY <1>6, SMTT(30) DEF MarkDocProcessing, UpdateDoc
<1>7. CASE InsertChunks(w)
  BY <1>7, SMTT(30) DEF InsertChunks
<1>8. CASE InsertRejected(w)
  BY <1>8, SMTT(30) DEF InsertRejected
<1>9. CASE ListChunks(w)
  BY <1>9, SMTT(30) DEF ListChunks
<1>10. CASE UpsertVectors(w)
  BY <1>10, SMTT(30) DEF UpsertVectors
<1>11. CASE MarkDocReady(w)
  BY <1>11, SMTT(30) DEF MarkDocReady, UpdateDoc
<1>12. CASE MarkJobCompleted(w)
  BY <1>12, SMTT(30) DEF MarkJobCompleted, UpdateJob
<1>13. CASE MarkDocFailed(w)
  BY <1>13, SMTT(30) DEF MarkDocFailed, UpdateDoc
<1>14. CASE MarkJobFailed(w)
  BY <1>14, SMTT(30) DEF MarkJobFailed, UpdateJob
<1>15. CASE MarkRetrying(w)
  BY <1>15, SMTT(30) DEF MarkRetrying, UpdateJob
<1>16. CASE GiveUp(w)
  BY <1>16, SMTT(30) DEF GiveUp
<1>17. CASE PublishRetry(w)
  BY <1>17, SMTT(30) DEF PublishRetry
<1>17a. CASE RetryRefused(w)
  BY <1>17a, SMTT(30) DEF RetryRefused
<1>18. CASE UnlinkSpool(w)
  BY <1>18, SMTT(30) DEF UnlinkSpool
<1>19. CASE ReleaseLock(w)
  BY <1>19, SMTT(30) DEF ReleaseLock
<1>20. CASE Acknowledge(w)
  BY <1>20, SMTT(30) DEF Acknowledge
<1>21. CASE StepRaises(w)
  BY <1>21, SMTT(30) DEF StepRaises, Raises
<1>22. CASE WorkerDies(w)
  BY <1>22, SMTT(30) DEF WorkerDies, Abandon
<1>23. CASE TimeLimitKills(w)
  BY <1>23, SMTT(30) DEF TimeLimitKills, Abandon
<1>24. QED
  BY <1>1, <1>2, <1>3, <1>4, <1>5, <1>6, <1>7, <1>8, <1>9, <1>10, <1>11, <1>12,
     <1>13, <1>14, <1>15, <1>16, <1>17, <1>17a, <1>18, <1>19, <1>20, <1>21, <1>22,
     <1>23
  DEF WorkerNext, WorkerStep

LEMMA NoRowsStep ==
  ASSUME TypeOK, CoreInv, NoRowsWithoutDocument, [Next]_vars
  PROVE  NoRowsWithoutDocument'
<1> USE DEF CoreInv
<1>1. ASSUME NEW r \in Requests, UploadNext(r) PROVE NoRowsWithoutDocument'
  BY <1>1, NoRowsUpload
<1>2. ASSUME NEW d \in Requests, DeleteNext(d) PROVE NoRowsWithoutDocument'
  <2>1. CASE DeleteRows(d)
    BY <2>1, SMTT(30)
    DEF DeleteRows, NoRowsWithoutDocument, JobsOf, JobRow, TypeOK
  <2>2. CASE ~DeleteRows(d)
    <3>1. UNCHANGED <<docStatus, jobStatus, chunks>>
      BY <1>2, <2>2 DEF DeleteNext, DeleteStep, DeleteBegins, DeleteVectors,
         DeleteAborts, documents, jobs, stores
    <3>2. QED
      BY <1>2, DeleteFrame, <3>1 DEF NoRowsWithoutDocument, JobsOf, JobRow
  <2>3. QED
    BY <2>1, <2>2
<1>3. ASSUME NEW j \in Requests, LockExpires(j) PROVE NoRowsWithoutDocument'
  BY <1>3, ExpiryFrame DEF NoRowsWithoutDocument, JobsOf, JobRow
<1>4. ASSUME NEW w \in Workers, WorkerNext(w) PROVE NoRowsWithoutDocument'
  BY <1>4, NoRowsWorker
<1>5. CASE SweepNext
  BY <1>5, SweepFrame
  DEF RowsKept, NoRowsWithoutDocument, JobsOf, JobRow, documents, stores
<1>6. CASE UNCHANGED vars
  BY <1>6 DEF vars, documents, jobs, stores, NoRowsWithoutDocument, JobsOf, JobRow
<1>7. QED
  BY <1>1, <1>2, <1>3, <1>4, <1>5, <1>6 DEF Next, Rest

\* No worker, retry, upload or script brings back a chunk or a job of a document
\* that was deleted (app/database.py:522-572).
THEOREM DeletedStaysDeleted == Spec => []NoRowsWithoutDocument
<1>1. Init => NoRowsWithoutDocument
  BY DEF Init, NoRowsWithoutDocument
<1>2. TypeOK /\ CoreInv /\ NoRowsWithoutDocument /\ [Next]_vars => NoRowsWithoutDocument'
  BY NoRowsStep
<1>3. QED
  BY <1>1, <1>2, CoreInvariant, PTL DEF Spec

------------------------------------------------------------------------------
(* A system in which nothing is deleted *)

LEMMA NothingRemovedStep ==
  ASSUME Deleting = FALSE, TypeOK, NothingRemoved, [Next]_vars
  PROVE  NothingRemoved'
<1> DEFINE NoRowGone == \A x \in Requests : docStatus'[x] # "deleted" /\ jobStatus'[x] # "deleted"
<1>1. ASSUME NEW r \in Requests, UploadNext(r) PROVE NothingRemoved'
  <2> USE DEF NothingRemoved, TypeOK
  <2>1. CASE (\E c \in Contents : ClaimNew(r, c)) \/ RecordDuplicate(r) \/ Reingest(r)
             \/ MarkQueued(r) \/ MarkDispatchFailed(r)
    <3>1. NoRowGone
      BY <2>1, SMTT(30) DEF ClaimNew, RecordDuplicate, Reingest, MarkQueued, MarkDispatchFailed,
         InsertJob, UpdateDoc, UpdateJob, documents
    <3>2. QED
      BY <1>1, <3>1, UploadFrame
  <2>2. CASE ~((\E c \in Contents : ClaimNew(r, c)) \/ RecordDuplicate(r) \/ Reingest(r)
               \/ MarkQueued(r) \/ MarkDispatchFailed(r))
    <3>1. UNCHANGED <<docStatus, jobStatus>>
      BY <1>1, <2>2 DEF UploadNext, RequestStep, ClaimExisting, ReuseJob, ClaimRejected, Reread,
         HealList, HealUpsert, Promote, SendTask, DropSpool, SendRaises, RequestAborts,
         documents, jobs
    <3>2. QED
      BY <1>1, <3>1, UploadFrame
  <2>3. QED
    BY <2>1, <2>2
<1>2. ASSUME NEW d \in Requests PROVE ~DeleteNext(d)
  BY DEF NothingRemoved, DeleteNext, DeleteStep, DeleteBegins, DeleteVectors, DeleteRows,
     DeleteAborts
<1>3. ASSUME NEW j \in Requests, LockExpires(j) PROVE NothingRemoved'
  BY <1>3, ExpiryFrame DEF NothingRemoved
<1>4. ASSUME NEW w \in Workers, WorkerNext(w) PROVE NothingRemoved'
  <2>1. \A x \in Requests : docStatus'[x] # "deleted"
    <3>1. CASE MarkDocProcessing(w) \/ MarkDocReady(w) \/ MarkDocFailed(w)
      BY <3>1 DEF MarkDocProcessing, MarkDocReady, MarkDocFailed, UpdateDoc, NothingRemoved, TypeOK
    <3>2. CASE ~(MarkDocProcessing(w) \/ MarkDocReady(w) \/ MarkDocFailed(w))
      <4>1. UNCHANGED docStatus
        BY <1>4, <3>2 DEF WorkerNext, WorkerStep, Start, DropDelivery, CheckJob, ReadSpool,
           MarkJobProcessing, InsertChunks, InsertRejected, ListChunks, UpsertVectors,
           MarkJobCompleted, MarkJobFailed, MarkRetrying, GiveUp, PublishRetry, RetryRefused, UnlinkSpool,
           ReleaseLock, Acknowledge, StepRaises, Raises, WorkerDies, TimeLimitKills, Abandon,
           documents
      <4>2. QED
        BY <4>1 DEF NothingRemoved
    <3>3. QED
      BY <3>1, <3>2
  <2>2. QED
    BY <1>4, <2>1, WorkerFrame DEF NothingDeleted, NothingRemoved
<1>5. CASE SweepNext
  BY <1>5, SweepFrame DEF NothingDeleted, NothingRemoved, documents
<1>6. CASE UNCHANGED vars
  BY <1>6 DEF vars, documents, jobs, NothingRemoved
<1>7. QED
  BY <1>1, <1>2, <1>3, <1>4, <1>5, <1>6 DEF Next, Rest

\* Without delete requests no document and no job is ever deleted: only DELETE FROM
\* documents and its cascade remove rows (app/database.py:522-572).
THEOREM NothingIsRemoved ==
  ASSUME Deleting = FALSE
  PROVE  Spec => []NothingRemoved
<1>1. Init => NothingRemoved
  BY DEF Init, NothingRemoved
<1>2. TypeOK /\ NothingRemoved /\ [Next]_vars => NothingRemoved'
  BY NothingRemovedStep
<1>3. QED
  BY <1>1, <1>2, TypeCorrect, PTL DEF Spec

------------------------------------------------------------------------------
(* Uploads of different contents *)

LEMMA FirstUploadsStep ==
  ASSUME \A q, r \in Requests : q = r, TypeOK, CoreInv, FirstUploads, [Next]_vars
  PROVE  FirstUploads'
<1>1. ASSUME NEW r \in Requests, UploadNext(r) PROVE upc'[r] # "resolve"
  <2>1. ASSUME NEW c \in Contents, ClaimExisting(r, c) PROVE FALSE
    <3>1. docStatus[r] = "unused" /\ OwnerOf(c) # {}
      BY <2>1 DEF ClaimExisting, Arrives, CoreInv, IdsAreFresh
    <3>2. QED
      BY <3>1 DEF OwnerOf, DocRow
  <2>2. CASE (\E c \in Contents : ClaimNew(r, c)) \/ RequestStep(r)
    BY <2>2 DEF ClaimNew, RequestStep, ReuseJob, RecordDuplicate, Reingest, ClaimRejected, Reread,
       HealList, HealUpsert, Promote, MarkQueued, SendTask, MarkDispatchFailed, DropSpool, UGoto,
       TypeOK
  <2>3. CASE SendRaises(r) \/ RequestAborts(r)
    BY <2>3 DEF SendRaises, RequestAborts, UGoto, TypeOK
  <2>4. QED
    BY <1>1, <2>1, <2>2, <2>3 DEF UploadNext
<1>2. ASSUME NEW d \in Requests, DeleteNext(d) PROVE UNCHANGED upc
  BY <1>2, DeleteFrame DEF uVars
<1>3. ASSUME NEW j \in Requests, LockExpires(j) PROVE UNCHANGED upc
  BY <1>3, ExpiryFrame DEF uVars
<1>4. ASSUME NEW w \in Workers, WorkerNext(w) PROVE UNCHANGED upc
  BY <1>4, WorkerFrame DEF uVars
<1>5. ASSUME SweepNext PROVE UNCHANGED upc
  BY <1>5, SweepFrame DEF uVars
<1>6. ASSUME UNCHANGED vars PROVE UNCHANGED upc
  BY <1>6 DEF vars, uVars
<1>7. QED
  BY <1>1, <1>2, <1>3, <1>4, <1>5, <1>6 DEF Next, Rest, FirstUploads

LEMMA OwnJobsStep ==
  ASSUME TypeOK, CoreInv, FirstUploads, OwnJobs, [Next]_vars
  PROVE  OwnJobs'
<1> DEFINE Same == \A j \in Requests : /\ jobDoc'[j] = jobDoc[j]
                                       /\ jobStatus[j] = "unused" => jobStatus'[j] = "unused"
<1>1. ASSUME NEW r \in Requests, UploadNext(r) PROVE OwnJobs'
  <2>1. ASSUME NEW c \in Contents, ClaimNew(r, c) PROVE OwnJobs'
    BY <2>1 DEF ClaimNew, InsertJob, OwnJobs, TypeOK
  <2>2. CASE RequestStep(r)
    <3>1. Same
      BY <2>2 DEF FirstUploads, RequestStep, ReuseJob, RecordDuplicate, Reingest, ClaimRejected,
         Reread, HealList, HealUpsert, Promote, MarkQueued, SendTask, MarkDispatchFailed, DropSpool,
         UpdateJob, JobRow, jobs, TypeOK
    <3>2. QED
      BY <3>1 DEF OwnJobs
  <2>3. CASE (\E c \in Contents : ClaimExisting(r, c)) \/ SendRaises(r) \/ RequestAborts(r)
    BY <2>3 DEF ClaimExisting, SendRaises, RequestAborts, jobs, OwnJobs
  <2>4. QED
    BY <1>1, <2>1, <2>2, <2>3 DEF UploadNext
<1>2. ASSUME NEW d \in Requests, DeleteNext(d) PROVE Same
  BY <1>2, DeleteFrame DEF DeleteNext, DeleteStep, DeleteBegins, DeleteVectors, DeleteRows,
     DeleteAborts, JobsOf, JobRow, jobs, TypeOK
<1>3. ASSUME NEW j \in Requests, LockExpires(j) PROVE Same
  BY <1>3, ExpiryFrame
<1>4. ASSUME NEW w \in Workers, WorkerNext(w) PROVE Same
  BY <1>4, WorkerFrame DEF RowsKept
<1>5. ASSUME SweepNext PROVE Same
  BY <1>5, SweepFrame DEF RowsKept
<1>6. ASSUME UNCHANGED vars PROVE Same
  BY <1>6 DEF vars, jobs
<1>7. ASSUME Same PROVE OwnJobs'
  BY <1>7 DEF OwnJobs
<1>8. QED
  BY <1>1, <1>2, <1>3, <1>4, <1>5, <1>6, <1>7 DEF Next, Rest

LEMMA OwnJobOfWorker ==
  ASSUME CoreInv, OwnJobs
  PROVE  \A w \in Workers : wpc[w] # "idle" =>
             /\ Job(w) \in Requests /\ Doc(w) = Job(w) /\ jobStatus[Job(w)] # "unused"
BY DEF OwnJobs, CoreInv, ReferencesValid, HasJob, Job, Doc, Messages

\* As long as no upload finds a row of its content, every job stays the only one of
\* its document (app/database.py:329-397).
THEOREM JobsStayApart == Spec /\ []FirstUploads => []OwnJobs
<1>1. Init => OwnJobs
  BY DEF Init, OwnJobs
<1>2. TypeOK /\ CoreInv /\ FirstUploads /\ OwnJobs /\ [Next]_vars => OwnJobs'
  BY OwnJobsStep
<1>3. QED
  BY <1>1, <1>2, CoreInvariant, PTL DEF Spec

\* A single upload finds none.
THEOREM OneUploadFirst ==
  ASSUME \A q, r \in Requests : q = r
  PROVE  Spec => []FirstUploads
<1>1. Init => FirstUploads
  BY DEF Init, FirstUploads
<1>2. TypeOK /\ CoreInv /\ FirstUploads /\ [Next]_vars => FirstUploads'
  BY FirstUploadsStep
<1>3. QED
  BY <1>1, <1>2, CoreInvariant, PTL DEF Spec

=============================================================================
