-------------------------- MODULE IngestionPursuit --------------------------
(***************************************************************************)
(* Nobody is stranded.                                                     *)
(*   - Documents: when every dispatch reaches the broker and the recovery  *)
(*     script is not run, a document that is pending or processing always  *)
(*     has a job that can still be picked up, however many uploads,        *)
(*     workers, retries, crashes and deletions interleave.  (A failed      *)
(*     dispatch breaks this: see the run DispatchFailure.)                 *)
(*   - Jobs: a completed job stays completed; and as long as no process    *)
(*     dies, no database call raises and every retry reaches the broker,   *)
(*     an open job is in somebody's hands and a spool file has an owner.   *)
(*   - Verdicts: as long as no upload finds its content there already, a   *)
(*     job that has a verdict and its document agree about it.             *)
(***************************************************************************)
EXTENDS IngestionProofs

------------------------------------------------------------------------------
(* Nobody but a worker writes a verdict *)

LEMMA NoOutsideVerdictStep ==
  ASSUME "send" \notin FaultSites, Sweeping = FALSE, TypeOK, NoOutsideVerdict, [Next]_vars
  PROVE  NoOutsideVerdict'
<1> USE DEF NoOutsideVerdict, uVars, sVars
<1>1. ASSUME NEW r \in Requests, UploadNext(r) PROVE NoOutsideVerdict'
  <2>1. upc' = [upc EXCEPT ![r] = upc'[r]] /\ upc'[r] \notin {"send_failed", "drop"}
    BY <1>1, SMTT(30)
    DEF UploadNext, RequestStep, ClaimNew, ClaimExisting, ReuseJob, RecordDuplicate,
        Reingest, ClaimRejected, Reread, HealList, HealUpsert, Promote, MarkQueued,
        SendTask, MarkDispatchFailed, DropSpool, SendRaises, RequestAborts, UGoto, TypeOK
  <2>2. QED
    BY <1>1, UploadFrame, <2>1 DEF TypeOK
<1>2. ASSUME NEW d \in Requests, DeleteNext(d) PROVE NoOutsideVerdict'
  BY <1>2, DeleteFrame
<1>3. ASSUME NEW j \in Requests, LockExpires(j) PROVE NoOutsideVerdict'
  BY <1>3, ExpiryFrame
<1>4. ASSUME NEW w \in Workers, WorkerNext(w) PROVE NoOutsideVerdict'
  BY <1>4, WorkerFrame
<1>5. ~SweepNext
  BY DEF SweepNext, SweepStep, SweepLists, SweepFindsNoFile, SweepFindsFile,
     SweepMarksQueued, SweepSends, SweepMarksFailed, SweepDropsSpool, SweepEnds,
     SweepSendRaises, SweepAborts
<1>6. CASE UNCHANGED vars
  BY <1>6 DEF vars
<1>7. QED
  BY <1>1, <1>2, <1>3, <1>4, <1>5, <1>6 DEF Next, Rest

------------------------------------------------------------------------------
(* The job of an attempt *)

\* What an upload step does to jobs, when no dispatch fails.
JobsGrow ==
    \A j \in Requests : jobStatus[j] # "unused" =>
        /\ jobDoc'[j] = jobDoc[j]
        /\ jobStatus[j] \in Recoverable => jobStatus'[j] \in Recoverable
        /\ jobStatus[j] = "deleted" => jobStatus'[j] = "deleted"

LEMMA UploadJobsGrow ==
  ASSUME TypeOK, IdsAreFresh, NoOutsideVerdict, NEW r \in Requests, UploadNext(r)
  PROVE  JobsGrow
<1> USE DEF TypeOK, IdsAreFresh, Recoverable, documents, jobs, stores, wVars, uVars, sVars,
        budgets
<1>1. ASSUME NEW c \in Contents, ClaimNew(r, c) PROVE JobsGrow
  BY <1>1, SMTT(30) DEF ClaimNew, InsertJob, Arrives, JobsGrow
<1>2. ASSUME NEW c \in Contents, ClaimExisting(r, c) PROVE JobsGrow
  BY <1>2, SMTT(30) DEF ClaimExisting, JobsGrow
<1>3. CASE ReuseJob(r)
  BY <1>3, SMTT(30) DEF ReuseJob, JobsGrow
<1>4. CASE RecordDuplicate(r)
  BY <1>4, SMTT(30) DEF RecordDuplicate, InsertJob, JobsGrow
<1>5. CASE Reingest(r)
  BY <1>5, SMTT(30) DEF Reingest, InsertJob, JobsGrow
<1>6. CASE ClaimRejected(r)
  BY <1>6, SMTT(30) DEF ClaimRejected, JobsGrow
<1>7. CASE Reread(r)
  BY <1>7, SMTT(30) DEF Reread, JobsGrow
<1>8. CASE HealList(r)
  BY <1>8, SMTT(30) DEF HealList, JobsGrow
<1>9. CASE HealUpsert(r)
  BY <1>9, SMTT(30) DEF HealUpsert, JobsGrow
<1>10. CASE Promote(r)
  BY <1>10, SMTT(30) DEF Promote, JobsGrow
<1>11. CASE MarkQueued(r)
  BY <1>11, SMTT(30) DEF MarkQueued, UpdateJob, JobsGrow, JobRow
<1>12. CASE SendTask(r)
  BY <1>12, SMTT(30) DEF SendTask, JobsGrow
<1>13. CASE MarkDispatchFailed(r)
  BY <1>13, SMTT(30) DEF MarkDispatchFailed, UpdateJob, JobsGrow, NoOutsideVerdict
<1>14. CASE DropSpool(r)
  BY <1>14, SMTT(30) DEF DropSpool, JobsGrow
<1>15. CASE SendRaises(r)
  BY <1>15, SMTT(30) DEF SendRaises, JobsGrow
<1>16. CASE RequestAborts(r)
  BY <1>16, SMTT(30) DEF RequestAborts, JobsGrow
<1>17. QED
  BY <1>1, <1>2, <1>3, <1>4, <1>5, <1>6, <1>7, <1>8, <1>9, <1>10, <1>11, <1>12,
     <1>13, <1>14, <1>15, <1>16
  DEF UploadNext, RequestStep

LEMMA AttemptWorker ==
  ASSUME TypeOK, ReferencesValid, LockOwned, AttemptOpen, NEW w \in Workers, WorkerNext(w)
  PROVE  AttemptOpen'
<1> USE DEF TypeOK, ReferencesValid, HasJob, LockOwned, AttemptOpen, Job, Messages,
        Holding, WorkerPcs, JobStatuses, Recoverable, documents, jobs, stores, wVars, uVars,
            sVars, budgets
<1>1. ASSUME NEW m \in Messages, Start(w, m) PROVE AttemptOpen'
  BY <1>1, SMTT(30) DEF Start, WGoto
<1>2. ASSUME NEW m \in Messages, DropDelivery(w, m) PROVE AttemptOpen'
  BY <1>2, SMTT(30) DEF DropDelivery
<1>3. CASE CheckJob(w)
  BY <1>3, SMTT(30) DEF CheckJob, WGoto
<1>4. CASE ReadSpool(w)
  BY <1>4, SMTT(30) DEF ReadSpool, WGoto
<1>5. CASE MarkJobProcessing(w)
  BY <1>5, SMTT(30) DEF MarkJobProcessing, WGoto, UpdateJob, JobRow
<1>6. CASE MarkDocProcessing(w)
  BY <1>6, SMTT(30) DEF MarkDocProcessing, WGoto
<1>7. CASE InsertChunks(w)
  BY <1>7, SMTT(30) DEF InsertChunks, WGoto
<1>8. CASE InsertRejected(w)
  BY <1>8, SMTT(30) DEF InsertRejected, WGoto
<1>9. CASE ListChunks(w)
  BY <1>9, SMTT(30) DEF ListChunks, WGoto
<1>10. CASE UpsertVectors(w)
  BY <1>10, SMTT(30) DEF UpsertVectors, WGoto
<1>11. CASE MarkDocReady(w)
  BY <1>11, SMTT(30) DEF MarkDocReady, WGoto
<1>12. CASE MarkJobCompleted(w)
  BY <1>12, SMTT(30) DEF MarkJobCompleted, WGoto, UpdateJob, JobRow
<1>13. CASE MarkDocFailed(w)
  BY <1>13, SMTT(30) DEF MarkDocFailed, WGoto
<1>14. CASE MarkJobFailed(w)
  BY <1>14, SMTT(30) DEF MarkJobFailed, WGoto, UpdateJob, JobRow
<1>15. CASE MarkRetrying(w)
  BY <1>15, SMTT(30) DEF MarkRetrying, WGoto, UpdateJob, JobRow
<1>16. CASE GiveUp(w)
  BY <1>16, SMTT(30) DEF GiveUp, WGoto
<1>17. CASE PublishRetry(w)
  BY <1>17, SMTT(30) DEF PublishRetry, WGoto
<1>17a. CASE RetryRefused(w)
  BY <1>17a, SMTT(30) DEF RetryRefused, WGoto
<1>18. CASE UnlinkSpool(w)
  BY <1>18, SMTT(30) DEF UnlinkSpool, WGoto
<1>19. CASE ReleaseLock(w)
  BY <1>19, SMTT(30) DEF ReleaseLock, WGoto
<1>20. CASE Acknowledge(w)
  BY <1>20, SMTT(30) DEF Acknowledge, WGoto
<1>21. CASE StepRaises(w)
  BY <1>21, SMTT(30) DEF StepRaises, Raises, WGoto
<1>22. CASE WorkerDies(w)
  BY <1>22, SMTT(30) DEF WorkerDies, Abandon, WGoto
<1>23. CASE TimeLimitKills(w)
  BY <1>23, SMTT(30) DEF TimeLimitKills, Abandon, WGoto
<1>24. QED
  BY <1>1, <1>2, <1>3, <1>4, <1>5, <1>6, <1>7, <1>8, <1>9, <1>10, <1>11, <1>12,
     <1>13, <1>14, <1>15, <1>16, <1>17, <1>17a, <1>18, <1>19, <1>20, <1>21, <1>22,
     <1>23
  DEF WorkerNext, WorkerStep

LEMMA AttemptStep ==
  ASSUME "send" \notin FaultSites, Sweeping = FALSE, TypeOK, CoreInv, AttemptOpen,
         NoOutsideVerdict, [Next]_vars
  PROVE  AttemptOpen'
<1> USE DEF AttemptOpen, CoreInv, Job, wVars
<1>1. ASSUME NEW r \in Requests, UploadNext(r) PROVE AttemptOpen'
  BY <1>1, UploadFrame, UploadJobsGrow DEF JobsGrow, ReferencesValid, HasJob, Messages
<1>2. ASSUME NEW d \in Requests, DeleteNext(d) PROVE AttemptOpen'
  <2>1. \A j \in Requests : jobStatus'[j] \in {jobStatus[j], "deleted"}
    BY <1>2, SMTT(30)
    DEF DeleteNext, DeleteStep, DeleteBegins, DeleteVectors, DeleteRows, DeleteAborts,
        jobs, TypeOK
  <2>2. QED
    BY <1>2, DeleteFrame, <2>1 DEF ReferencesValid, HasJob, Messages
<1>3. ASSUME NEW j \in Requests, LockExpires(j) PROVE AttemptOpen'
  BY <1>3, ExpiryFrame
<1>4. ASSUME NEW w \in Workers, WorkerNext(w) PROVE AttemptOpen'
  BY <1>4, AttemptWorker
<1>5. ~SweepNext
  BY DEF SweepNext, SweepStep, SweepLists, SweepFindsNoFile, SweepFindsFile,
     SweepMarksQueued, SweepSends, SweepMarksFailed, SweepDropsSpool, SweepEnds,
     SweepSendRaises, SweepAborts, NoOutsideVerdict
<1>6. CASE UNCHANGED vars
  BY <1>6 DEF vars, jobs
<1>7. QED
  BY <1>1, <1>2, <1>3, <1>4, <1>5, <1>6 DEF Next, Rest

------------------------------------------------------------------------------
(* Documents are pursued *)

\* A step keeps every document pursued when it opens no document, ends no
\* recoverable job and brings no job to its end.
LEMMA PursuedKept ==
  ASSUME Pursued,
         \A d \in Requests : docStatus'[d] \in {"pending", "processing"} =>
             docStatus[d] \in {"pending", "processing"},
         \A j \in Requests : jobStatus[j] \in Recoverable =>
             jobStatus'[j] \in Recoverable /\ jobDoc'[j] = jobDoc[j],
         \A j \in Requests : Finishing(j)' => Finishing(j)
  PROVE  Pursued'
BY DEF Pursued

LEMMA PursuedUpload ==
  ASSUME TypeOK, CoreInv, NoOutsideVerdict, Pursued, NEW r \in Requests, UploadNext(r)
  PROVE  Pursued'
<1> USE DEF CoreInv
<1>1. ASSUME NEW j \in Requests, jobStatus[j] # "unused"
      PROVE  /\ jobDoc'[j] = jobDoc[j]
             /\ jobStatus[j] \in Recoverable => jobStatus'[j] \in Recoverable
             /\ Finishing(j)' => Finishing(j)
  BY <1>1, UploadJobsGrow, UploadFrame DEF JobsGrow, Finishing, Job, wVars
<1>2. ASSUME NEW d \in Requests, docStatus'[d] \in {"pending", "processing"},
             docStatus[d] \notin {"pending", "processing"}
      PROVE  jobStatus[r] = "unused" /\ jobStatus'[r] = "pending" /\ jobDoc'[r] = d
  BY <1>2, SMTT(30)
  DEF UploadNext, RequestStep, ClaimNew, ClaimExisting, ReuseJob, RecordDuplicate,
      Reingest, ClaimRejected, Reread, HealList, HealUpsert, Promote, MarkQueued,
      SendTask, MarkDispatchFailed, DropSpool, SendRaises, RequestAborts, documents,
      InsertJob, UpdateDoc, IdsAreFresh, Arrives, TypeOK
<1>3. ASSUME jobStatus[r] = "unused" PROVE ~Finishing(r)'
  BY <1>3, UploadFrame DEF Finishing, Job, wVars, ReferencesValid, HasJob
<1>4. SUFFICES ASSUME NEW d \in Requests, docStatus'[d] \in {"pending", "processing"}
               PROVE  \E j \in Requests : jobDoc'[j] = d /\ jobStatus'[j] \in Recoverable
                                            /\ ~Finishing(j)'
  BY DEF Pursued
<1>5. CASE docStatus[d] \in {"pending", "processing"}
  <2>1. PICK j \in Requests : jobDoc[j] = d /\ jobStatus[j] \in Recoverable /\ ~Finishing(j)
    BY <1>5 DEF Pursued
  <2>2. QED
    BY <1>1, <2>1 DEF Recoverable
<1>6. CASE docStatus[d] \notin {"pending", "processing"}
  BY <1>2, <1>3, <1>4, <1>6 DEF Recoverable
<1>7. QED
  BY <1>5, <1>6

\* Only worker w itself is past lock.acquire with its job.
LEMMA OnlyOneFinishes ==
  ASSUME LockOwned, NEW v \in Workers, NEW w \in Workers, wpc[v] \in Holding,
         wpc[w] \in Holding, Job(v) = Job(w)
  PROVE  v = w
BY DEF LockOwned

\* Marking the document of a worker done leaves every other document pursued.
LEMMA VerdictKeepsPursued ==
  ASSUME TypeOK, Pursued, NEW w \in Workers, NEW status \in {"ready", "failed"},
         UpdateDoc(Doc(w), status), wpc' = [wpc EXCEPT ![w] = wpc'[w]],
         UNCHANGED <<jobStatus, jobDoc, wmsg>>
  PROVE  Pursued'
<1>1. ASSUME NEW j \in Requests, Finishing(j)', ~Finishing(j) PROVE jobDoc[j] = Doc(w)
  BY <1>1 DEF Finishing, Job, Doc, TypeOK
<1>2. ASSUME NEW d \in Requests, docStatus'[d] \in {"pending", "processing"}
      PROVE docStatus[d] \in {"pending", "processing"} /\ d # Doc(w)
  BY <1>2 DEF UpdateDoc, DocRow, TypeOK
<1>3. QED
  BY <1>1, <1>2 DEF Pursued

LEMMA PursuedWorker ==
  ASSUME TypeOK, CoreInv, AttemptOpen, Pursued, NEW w \in Workers, WorkerNext(w)
  PROVE  Pursued'
<1> USE DEF TypeOK, CoreInv, Job, Messages, Recoverable, WorkerPcs, documents, jobs, stores,
        wVars, uVars, sVars, budgets
<1>1. ASSUME NEW m \in Messages, Start(w, m) PROVE Pursued'
  BY <1>1, PursuedKept, SMTT(30) DEF Start, WGoto, Finishing
<1>2. ASSUME NEW m \in Messages, DropDelivery(w, m) PROVE Pursued'
  BY <1>2, PursuedKept, SMTT(30) DEF DropDelivery, Finishing
<1>3. CASE CheckJob(w)
  BY <1>3, PursuedKept, SMTT(30) DEF CheckJob, WGoto, Finishing
<1>4. CASE ReadSpool(w)
  BY <1>4, PursuedKept, SMTT(30) DEF ReadSpool, WGoto, Finishing
<1>5. CASE MarkJobProcessing(w)
  BY <1>5, PursuedKept, SMTT(30) DEF MarkJobProcessing, WGoto, UpdateJob, JobRow, Finishing
<1>6. CASE MarkDocProcessing(w)
  <2>1. CASE DocRow(Doc(w)) /\ docStatus[Doc(w)] \notin {"pending", "processing"}
    <3>1. Job(w) \in Requests /\ Doc(w) \in Requests /\ jobStatus[Job(w)] # "unused"
      BY <1>6 DEF MarkDocProcessing, ReferencesValid, HasJob, Doc
    <3>2. jobStatus[Job(w)] \in Recoverable
      BY <1>6, <2>1, <3>1 DEF MarkDocProcessing, AttemptOpen, CascadeOnly, Doc, DocRow
    <3>3. \A j \in Requests : Finishing(j)' => Finishing(j)
      BY <1>6 DEF MarkDocProcessing, WGoto, Finishing
    <3>4. ~Finishing(Job(w))'
      BY <1>6, OnlyOneFinishes DEF MarkDocProcessing, WGoto, Finishing, Holding
    <3>5. \A d \in Requests \ {Doc(w)} : docStatus'[d] = docStatus[d]
      BY <1>6 DEF MarkDocProcessing, UpdateDoc
    <3>6. UNCHANGED <<jobStatus, jobDoc, wmsg>>
      BY <1>6 DEF MarkDocProcessing
    <3>7. ASSUME NEW d \in Requests \ {Doc(w)}, docStatus'[d] \in {"pending", "processing"}
          PROVE  \E j \in Requests : jobDoc'[j] = d /\ jobStatus'[j] \in Recoverable
                                     /\ ~Finishing(j)'
      <4>1. PICK j \in Requests : jobDoc[j] = d /\ jobStatus[j] \in Recoverable /\
          ~Finishing(j)
        BY <3>5, <3>7 DEF Pursued
      <4>2. QED
        BY <3>3, <3>6, <4>1
    <3>8. jobDoc'[Job(w)] = Doc(w) /\ jobStatus'[Job(w)] \in Recoverable
      BY <3>2, <3>6 DEF Doc
    <3>9. QED
      BY <3>1, <3>4, <3>6, <3>7, <3>8 DEF Pursued
  <2>2. CASE ~(DocRow(Doc(w)) /\ docStatus[Doc(w)] \notin {"pending", "processing"})
    BY <1>6, <2>2, PursuedKept, SMTT(30) DEF MarkDocProcessing, WGoto, Finishing, UpdateDoc
  <2>3. QED
    BY <2>1, <2>2
<1>7. CASE InsertChunks(w)
  BY <1>7, PursuedKept, SMTT(30) DEF InsertChunks, WGoto, Finishing
<1>8. CASE InsertRejected(w)
  BY <1>8, PursuedKept, SMTT(30) DEF InsertRejected, WGoto, Finishing
<1>9. CASE ListChunks(w)
  BY <1>9, PursuedKept, SMTT(30) DEF ListChunks, WGoto, Finishing
<1>10. CASE UpsertVectors(w)
  BY <1>10, PursuedKept, SMTT(30) DEF UpsertVectors, WGoto, Finishing
<1>11. CASE MarkDocReady(w)
  BY <1>11, VerdictKeepsPursued DEF MarkDocReady, WGoto
<1>12. CASE MarkJobCompleted(w)
  <2>1. Finishing(Job(w)) /\ \A j \in Requests : Finishing(j)' => Finishing(j)
    BY <1>12 DEF MarkJobCompleted, WGoto, Finishing
  <2>2. \A j \in Requests \ {Job(w)} : jobStatus'[j] = jobStatus[j]
    BY <1>12 DEF MarkJobCompleted, UpdateJob
  <2>3. UNCHANGED <<docStatus, jobDoc>>
    BY <1>12 DEF MarkJobCompleted
  <2>4. QED
    BY <2>1, <2>2, <2>3, SMTT(30) DEF Pursued
<1>13. CASE MarkDocFailed(w)
  BY <1>13, VerdictKeepsPursued DEF MarkDocFailed, WGoto
<1>14. CASE MarkJobFailed(w)
  <2>1. Finishing(Job(w)) /\ \A j \in Requests : Finishing(j)' => Finishing(j)
    BY <1>14 DEF MarkJobFailed, WGoto, Finishing
  <2>2. \A j \in Requests \ {Job(w)} : jobStatus'[j] = jobStatus[j]
    BY <1>14 DEF MarkJobFailed, UpdateJob
  <2>3. UNCHANGED <<docStatus, jobDoc>>
    BY <1>14 DEF MarkJobFailed
  <2>4. QED
    BY <2>1, <2>2, <2>3, SMTT(30) DEF Pursued
<1>15. CASE MarkRetrying(w)
  BY <1>15, PursuedKept, SMTT(30) DEF MarkRetrying, WGoto, UpdateJob, JobRow, Finishing
<1>16. CASE GiveUp(w)
  BY <1>16, PursuedKept, SMTT(30) DEF GiveUp, WGoto, Finishing
<1>17. CASE PublishRetry(w)
  BY <1>17, PursuedKept, SMTT(30) DEF PublishRetry, WGoto, Finishing
<1>17a. CASE RetryRefused(w)
  BY <1>17a, PursuedKept, SMTT(30) DEF RetryRefused, WGoto, Finishing
<1>18. CASE UnlinkSpool(w)
  BY <1>18, PursuedKept, SMTT(30) DEF UnlinkSpool, WGoto, Finishing
<1>19. CASE ReleaseLock(w)
  BY <1>19, PursuedKept, SMTT(30) DEF ReleaseLock, WGoto, Finishing
<1>20. CASE Acknowledge(w)
  BY <1>20, PursuedKept, SMTT(30) DEF Acknowledge, WGoto, Finishing
<1>21. CASE StepRaises(w)
  BY <1>21, PursuedKept, SMTT(30) DEF StepRaises, Raises, WGoto, Finishing
<1>22. CASE WorkerDies(w)
  BY <1>22, PursuedKept, SMTT(30) DEF WorkerDies, Abandon, WGoto, Finishing
<1>23. CASE TimeLimitKills(w)
  BY <1>23, PursuedKept, SMTT(30) DEF TimeLimitKills, Abandon, WGoto, Finishing
<1>24. QED
  BY <1>1, <1>2, <1>3, <1>4, <1>5, <1>6, <1>7, <1>8, <1>9, <1>10, <1>11, <1>12,
     <1>13, <1>14, <1>15, <1>16, <1>17, <1>17a, <1>18, <1>19, <1>20, <1>21, <1>22,
     <1>23
  DEF WorkerNext, WorkerStep

LEMMA PursuedStep ==
  ASSUME "send" \notin FaultSites, Sweeping = FALSE, TypeOK, PursuitInv, [Next]_vars
  PROVE  Pursued'
<1> USE DEF PursuitInv
<1>1. ASSUME NEW r \in Requests, UploadNext(r) PROVE Pursued'
  BY <1>1, PursuedUpload
<1>2. ASSUME NEW d \in Requests, DeleteNext(d) PROVE Pursued'
  <2>1. \A j \in Requests : Finishing(j)' = Finishing(j)
    BY <1>2, DeleteFrame DEF Finishing, Job, wVars
  <2>2. CASE DeleteRows(d)
    BY <1>2, DeleteFrame, <2>1, <2>2, SMTT(30) DEF DeleteRows, JobsOf, Pursued, TypeOK
  <2>3. CASE ~DeleteRows(d)
    <3>1. UNCHANGED <<docStatus, jobStatus>>
      BY <1>2, <2>3 DEF DeleteNext, DeleteStep, DeleteBegins, DeleteVectors,
         DeleteAborts, documents, jobs
    <3>2. QED
      BY <1>2, DeleteFrame, <2>1, <3>1 DEF Pursued
  <2>4. QED
    BY <2>2, <2>3
<1>3. ASSUME NEW j \in Requests, LockExpires(j) PROVE Pursued'
  BY <1>3, ExpiryFrame, PursuedKept DEF Finishing, Job, wVars
<1>4. ASSUME NEW w \in Workers, WorkerNext(w) PROVE Pursued'
  BY <1>4, PursuedWorker
<1>5. ~SweepNext
  BY DEF SweepNext, SweepStep, SweepLists, SweepFindsNoFile, SweepFindsFile,
     SweepMarksQueued, SweepSends, SweepMarksFailed, SweepDropsSpool, SweepEnds,
     SweepSendRaises, SweepAborts, NoOutsideVerdict
<1>6. CASE UNCHANGED vars
  BY <1>6, PursuedKept DEF vars, documents, jobs, Finishing, Job, wVars
<1>7. QED
  BY <1>1, <1>2, <1>3, <1>4, <1>5, <1>6 DEF Next, Rest

------------------------------------------------------------------------------
(* The theorem *)

LEMMA PursuitInit == Init => PursuitInv
BY CoreInit DEF Init, PursuitInv, AttemptOpen, Pursued, NoOutsideVerdict

\* When dispatching does not fail and the recovery script does not run, the
\* inductive invariant of the pursuit holds: every attempt is open, every
\* unfinished document has a job nobody is about to finish, and only workers write
\* verdicts (ingestion/service.py:109-138, app/database.py:317-418).
THEOREM PursuitInvariant ==
  ASSUME "send" \notin FaultSites, Sweeping = FALSE
  PROVE  Spec => []PursuitInv
<1>1. Init => TypeOK /\ PursuitInv
  BY TypeInit, PursuitInit
<1>2. TypeOK /\ PursuitInv /\ [Next]_vars => (TypeOK /\ PursuitInv)'
  <2>1. SUFFICES ASSUME TypeOK, PursuitInv, [Next]_vars
                 PROVE  TypeOK' /\ PursuitInv'
    OBVIOUS
  <2>2. TypeOK' /\ CoreInv'
    BY <2>1, CoreStep DEF PursuitInv
  <2>3. AttemptOpen' /\ NoOutsideVerdict'
    BY <2>1, AttemptStep, NoOutsideVerdictStep DEF PursuitInv
  <2>4. Pursued'
    BY <2>1, PursuedStep
  <2>5. QED
    BY <2>2, <2>3, <2>4 DEF PursuitInv
<1>3. QED
  BY <1>1, <1>2, PTL DEF Spec

LEMMA PursuitImpliesNotWedged == TypeOK /\ PursuitInv => NotWedged
BY DEF PursuitInv, Pursued, NotWedged, JobsOf, JobRow, Recoverable

\* When dispatching does not fail and the recovery script does not run, a document
\* that is pending or processing has a recoverable job (ingestion/service.py:109-138,
\* app/database.py:317-418), for any number of uploads, workers and crashes.
THEOREM DocumentsNotWedged ==
  ASSUME "send" \notin FaultSites, Sweeping = FALSE
  PROVE  Spec => []NotWedged
BY TypeCorrect, PursuitInvariant, PursuitImpliesNotWedged, PTL

------------------------------------------------------------------------------
(* A job that a request creates is in nobody else's hands until it is sent  *)

\* While the script is not used it takes no step.
LEMMA ScriptRests ==
  ASSUME Sweeping = FALSE, swpc = "idle"
  PROVE  ~SweepNext
BY DEF SweepNext, SweepStep, SweepLists, SweepFindsNoFile, SweepFindsFile,
   SweepMarksQueued, SweepSends, SweepMarksFailed, SweepDropsSpool, SweepEnds,
   SweepSendRaises, SweepAborts

\* All that a delete request does to the statuses.
LEMMA DeleteMarks ==
  ASSUME TypeOK, NEW d \in Requests, DeleteNext(d)
  PROVE  \A x \in Requests : /\ docStatus'[x] \in {docStatus[x], "deleted"}
                             /\ jobStatus'[x] \in {jobStatus[x], "deleted"}
BY SMTT(30)
DEF DeleteNext, DeleteStep, DeleteBegins, DeleteVectors, DeleteRows, DeleteAborts,
    documents, jobs, TypeOK

\* The invariant holds after every step of an upload ...
LEMMA DispatchUpload ==
  ASSUME TypeOK, CoreInv, DispatchAlone, NEW r \in Requests, UploadNext(r)
  PROVE  DispatchAlone'
<1> USE NoneAssumption DEF CoreInv, TypeOK, ReferencesValid, IdsAreFresh, HasJob,
        DispatchAlone,
        Dispatching, IsDuplicate, Job, JobRow, DocRow, Messages, Recoverable, JobStatuses,
            DocStatuses, UploadPcs,
        documents, jobs, stores, wVars, uVars, sVars, budgets
<1>1. ASSUME NEW c \in Contents, ClaimNew(r, c) PROVE DispatchAlone'
  BY <1>1, SMTT(30) DEF ClaimNew, UGoto, InsertJob, Arrives
<1>2. ASSUME NEW c \in Contents, ClaimExisting(r, c) PROVE DispatchAlone'
  BY <1>2, SMTT(30) DEF ClaimExisting, UGoto, OwnerOf, Arrives
<1>3. CASE ReuseJob(r)
  BY <1>3, SMTT(30) DEF ReuseJob, UGoto, LatestJobs, JobsOf
<1>4. CASE RecordDuplicate(r)
  BY <1>4, SMTT(30) DEF RecordDuplicate, UGoto, InsertJob
<1>5. CASE Reingest(r)
  BY <1>5, SMTT(30) DEF Reingest, UGoto, InsertJob, UpdateDoc
<1>6. CASE ClaimRejected(r)
  BY <1>6, SMTT(30) DEF ClaimRejected, UGoto
<1>7. CASE Reread(r)
  BY <1>7, SMTT(30) DEF Reread, UGoto
<1>8. CASE HealList(r)
  BY <1>8, SMTT(30) DEF HealList, UGoto
<1>9. CASE HealUpsert(r)
  BY <1>9, SMTT(30) DEF HealUpsert, UGoto, Upsert
<1>10. CASE Promote(r)
  BY <1>10, SMTT(30) DEF Promote, UGoto
<1>11. CASE MarkQueued(r)
  BY <1>11, SMTT(30) DEF MarkQueued, UGoto, UpdateJob
<1>12. CASE SendTask(r)
  BY <1>12, SMTT(30) DEF SendTask, UGoto, Send, Message
<1>13. CASE MarkDispatchFailed(r)
  BY <1>13, SMTT(30) DEF MarkDispatchFailed, UGoto, UpdateJob
<1>14. CASE DropSpool(r)
  BY <1>14, SMTT(30) DEF DropSpool, UGoto
<1>15. CASE SendRaises(r)
  BY <1>15, SMTT(30) DEF SendRaises, UGoto
<1>16. CASE RequestAborts(r)
  BY <1>16, SMTT(30) DEF RequestAborts, UGoto, InFlight
<1>17. QED
  BY <1>1, <1>2, <1>3, <1>4, <1>5, <1>6, <1>7, <1>8, <1>9, <1>10, <1>11, <1>12,
     <1>13, <1>14, <1>15, <1>16
  DEF UploadNext, RequestStep

\* ... and of a worker.
LEMMA DispatchWorker ==
  ASSUME TypeOK, CoreInv, DispatchAlone, NEW w \in Workers, WorkerNext(w)
  PROVE  DispatchAlone'
<1> USE NoneAssumption DEF CoreInv, TypeOK, ReferencesValid, HasJob, DispatchAlone,
        Dispatching, IsDuplicate, Job, Doc, JobRow, DocRow, Messages, Holding, WorkerPcs,
        documents, jobs, stores, wVars, uVars, sVars, budgets
<1>1. ASSUME NEW m \in Messages, Start(w, m) PROVE DispatchAlone'
  BY <1>1, SMTT(30) DEF Start, WGoto, Take, Deliverable
<1>2. ASSUME NEW m \in Messages, DropDelivery(w, m) PROVE DispatchAlone'
  BY <1>2, SMTT(30) DEF DropDelivery, Take, Deliverable
<1>3. CASE CheckJob(w)
  BY <1>3, SMTT(30) DEF CheckJob, WGoto
<1>4. CASE ReadSpool(w)
  BY <1>4, SMTT(30) DEF ReadSpool, WGoto
<1>5. CASE MarkJobProcessing(w)
  BY <1>5, SMTT(30) DEF MarkJobProcessing, WGoto, UpdateJob
<1>6. CASE MarkDocProcessing(w)
  BY <1>6, SMTT(30) DEF MarkDocProcessing, WGoto, UpdateDoc
<1>7. CASE InsertChunks(w)
  BY <1>7, SMTT(30) DEF InsertChunks, WGoto
<1>8. CASE InsertRejected(w)
  BY <1>8, SMTT(30) DEF InsertRejected, WGoto
<1>9. CASE ListChunks(w)
  BY <1>9, SMTT(30) DEF ListChunks, WGoto
<1>10. CASE UpsertVectors(w)
  BY <1>10, SMTT(30) DEF UpsertVectors, WGoto, Upsert
<1>11. CASE MarkDocReady(w)
  BY <1>11, SMTT(30) DEF MarkDocReady, WGoto, UpdateDoc
<1>12. CASE MarkJobCompleted(w)
  BY <1>12, SMTT(30) DEF MarkJobCompleted, WGoto, UpdateJob
<1>13. CASE MarkDocFailed(w)
  BY <1>13, SMTT(30) DEF MarkDocFailed, WGoto, UpdateDoc
<1>14. CASE MarkJobFailed(w)
  BY <1>14, SMTT(30) DEF MarkJobFailed, WGoto, UpdateJob
<1>15. CASE MarkRetrying(w)
  BY <1>15, SMTT(30) DEF MarkRetrying, WGoto, UpdateJob
<1>16. CASE GiveUp(w)
  BY <1>16, SMTT(30) DEF GiveUp, WGoto
<1>17. CASE PublishRetry(w)
  BY <1>17, SMTT(30) DEF PublishRetry, WGoto, Send, Message
<1>17a. CASE RetryRefused(w)
  BY <1>17a, SMTT(30) DEF RetryRefused, WGoto
<1>18. CASE UnlinkSpool(w)
  BY <1>18, SMTT(30) DEF UnlinkSpool, WGoto
<1>19. CASE ReleaseLock(w)
  BY <1>19, SMTT(30) DEF ReleaseLock, WGoto
<1>20. CASE Acknowledge(w)
  BY <1>20, SMTT(30) DEF Acknowledge, WGoto
<1>21. CASE StepRaises(w)
  BY <1>21, SMTT(30) DEF StepRaises, Raises, WGoto
<1>22. CASE WorkerDies(w)
  BY <1>22, SMTT(30) DEF WorkerDies, Abandon, WGoto, Send
<1>23. CASE TimeLimitKills(w)
  BY <1>23, SMTT(30) DEF TimeLimitKills, Abandon, WGoto
<1>24. QED
  BY <1>1, <1>2, <1>3, <1>4, <1>5, <1>6, <1>7, <1>8, <1>9, <1>10, <1>11, <1>12,
     <1>13, <1>14, <1>15, <1>16, <1>17, <1>17a, <1>18, <1>19, <1>20, <1>21, <1>22, <1>23
  DEF WorkerNext, WorkerStep

LEMMA DispatchStep ==
  ASSUME Sweeping = FALSE, TypeOK, CoreInv, DispatchAlone, [Next]_vars
  PROVE  DispatchAlone'
<1>1. ASSUME NEW r \in Requests, UploadNext(r) PROVE DispatchAlone'
  BY <1>1, DispatchUpload
<1>2. ASSUME NEW d \in Requests, DeleteNext(d) PROVE DispatchAlone'
  <2>1. UNCHANGED <<jobDoc, queue, upc, udoc, ujob, usaw, wpc, wmsg, swpc>>
    BY <1>2, DeleteFrame DEF uVars, wVars, sVars
  <2>2. \A r \in Requests : Dispatching(r)' = Dispatching(r)
    BY <2>1 DEF Dispatching, IsDuplicate
  <2>3. \A w \in Workers : Job(w)' = Job(w)
    BY <2>1 DEF Job
  <2>4. \A r \in Requests : Dispatching(r) => udoc[r] \in Requests
    BY DEF Dispatching, CoreInv, ReferencesValid
  <2>5. QED
    BY <1>2, <2>1, <2>2, <2>3, <2>4, DeleteMarks DEF DispatchAlone, Recoverable
<1>3. ASSUME NEW j \in Requests, LockExpires(j) PROVE DispatchAlone'
  BY <1>3, ExpiryFrame DEF DispatchAlone, Dispatching, IsDuplicate, Job, wVars, uVars, sVars
<1>4. ASSUME NEW w \in Workers, WorkerNext(w) PROVE DispatchAlone'
  BY <1>4, DispatchWorker
<1>5. ~SweepNext
  BY ScriptRests DEF DispatchAlone
<1>6. CASE UNCHANGED vars
  BY <1>6 DEF vars, documents, jobs, DispatchAlone, Dispatching, IsDuplicate, Job, wVars,
      uVars, sVars
<1>7. QED
  BY <1>1, <1>2, <1>3, <1>4, <1>5, <1>6 DEF Next, Rest

------------------------------------------------------------------------------
(* A completed job stays completed *)

\* Only the job that request r itself creates or dispatches changes.
OwnOnly(r) ==
    \A j \in Requests :
        \/ jobStatus'[j] = jobStatus[j]
        \/ j = r /\ (jobStatus[j] = "unused" \/ Dispatching(r))

LEMMA UploadTouchesOwn ==
  ASSUME TypeOK, CoreInv, DispatchAlone, NEW r \in Requests, UploadNext(r)
  PROVE  OwnOnly(r)
<1>1. CASE \E c \in Contents : ClaimNew(r, c)
  <2>1. jobStatus[r] = "unused" /\ jobStatus' = [jobStatus EXCEPT ![r] = "pending"]
    BY <1>1 DEF ClaimNew, Arrives, InsertJob, CoreInv, IdsAreFresh
  <2>2. QED
    BY <2>1 DEF OwnOnly, TypeOK
<1>2. CASE RecordDuplicate(r)
  <2>1. jobStatus[r] = "unused" /\ jobStatus' = [jobStatus EXCEPT ![r] = "completed"]
    BY <1>2 DEF RecordDuplicate, InsertJob, CoreInv, IdsAreFresh
  <2>2. QED
    BY <2>1 DEF OwnOnly, TypeOK
<1>3. CASE Reingest(r)
  <2>1. jobStatus[r] = "unused" /\ jobStatus' = [jobStatus EXCEPT ![r] = "pending"]
    BY <1>3 DEF Reingest, InsertJob, CoreInv, IdsAreFresh
  <2>2. QED
    BY <2>1 DEF OwnOnly, TypeOK
<1>4. CASE MarkQueued(r)
  <2>1. Dispatching(r) /\ ujob[r] = r
    BY <1>4 DEF MarkQueued, DispatchAlone, Dispatching
  <2>2. \A j \in Requests \ {r} : jobStatus'[j] = jobStatus[j]
    BY <1>4, <2>1 DEF MarkQueued, UpdateJob, TypeOK
  <2>3. QED
    BY <2>1, <2>2 DEF OwnOnly
<1>5. CASE MarkDispatchFailed(r)
  <2>1. Dispatching(r) /\ ujob[r] = r
    BY <1>5 DEF MarkDispatchFailed, DispatchAlone, Dispatching
  <2>2. \A j \in Requests \ {r} : jobStatus'[j] = jobStatus[j]
    BY <1>5, <2>1 DEF MarkDispatchFailed, UpdateJob, TypeOK
  <2>3. QED
    BY <2>1, <2>2 DEF OwnOnly
<1>6. CASE /\ ~\E c \in Contents : ClaimNew(r, c)
           /\ ~RecordDuplicate(r) /\ ~Reingest(r) /\ ~MarkQueued(r) /\
               ~MarkDispatchFailed(r)
  <2>1. UNCHANGED jobStatus
    BY <1>6 DEF UploadNext, RequestStep, ClaimExisting, ReuseJob, ClaimRejected, Reread,
       HealList, HealUpsert, Promote, SendTask, DropSpool, SendRaises, RequestAborts, jobs
  <2>2. QED
    BY <2>1 DEF OwnOnly
<1>7. QED
  BY <1>1, <1>2, <1>3, <1>4, <1>5, <1>6

\* An upload request touches no job that a worker has.
LEMMA UploadLeavesWorkers ==
  ASSUME TypeOK, CoreInv, DispatchAlone, NEW r \in Requests, UploadNext(r)
  PROVE  \A w \in Workers : wpc[w] # "idle" => jobStatus'[Job(w)] = jobStatus[Job(w)]
<1>1. \A w \in Workers : wpc[w] # "idle" => Job(w) \in Requests /\ jobStatus[Job(w)] #
    "unused"
  BY DEF CoreInv, ReferencesValid, HasJob, Job, Messages
<1>2. QED
  BY <1>1, UploadTouchesOwn DEF OwnOnly, DispatchAlone

LEMMA UncompletedWorker ==
  ASSUME TypeOK, CoreInv, Uncompleted, NEW w \in Workers, WorkerNext(w)
  PROVE  Uncompleted'
<1> USE NoneAssumption, OwnersAssumption DEF CoreInv, TypeOK, ReferencesValid, HasJob,
        LockOwned, Uncompleted,
        Job, Doc, JobRow, DocRow, Messages, Recoverable, Holding, Attempting, WorkerPcs,
        documents, jobs, stores, wVars, uVars, sVars, budgets
<1>1. ASSUME NEW m \in Messages, Start(w, m) PROVE Uncompleted'
  BY <1>1, SMTT(30) DEF Start, WGoto, Take, Deliverable
<1>2. ASSUME NEW m \in Messages, DropDelivery(w, m) PROVE Uncompleted'
  BY <1>2, SMTT(30) DEF DropDelivery, Take, Deliverable
<1>3. CASE CheckJob(w)
  BY <1>3, SMTT(30) DEF CheckJob, WGoto
<1>4. CASE ReadSpool(w)
  BY <1>4, SMTT(30) DEF ReadSpool, WGoto
<1>5. CASE MarkJobProcessing(w)
  BY <1>5, SMTT(30) DEF MarkJobProcessing, WGoto, UpdateJob
<1>6. CASE MarkDocProcessing(w)
  BY <1>6, SMTT(30) DEF MarkDocProcessing, WGoto, UpdateDoc
<1>7. CASE InsertChunks(w)
  BY <1>7, SMTT(30) DEF InsertChunks, WGoto
<1>8. CASE InsertRejected(w)
  BY <1>8, SMTT(30) DEF InsertRejected, WGoto
<1>9. CASE ListChunks(w)
  BY <1>9, SMTT(30) DEF ListChunks, WGoto
<1>10. CASE UpsertVectors(w)
  BY <1>10, SMTT(30) DEF UpsertVectors, WGoto, Upsert
<1>11. CASE MarkDocReady(w)
  BY <1>11, SMTT(30) DEF MarkDocReady, WGoto, UpdateDoc
<1>12. CASE MarkJobCompleted(w)
  BY <1>12, SMTT(30) DEF MarkJobCompleted, WGoto, UpdateJob
<1>13. CASE MarkDocFailed(w)
  BY <1>13, SMTT(30) DEF MarkDocFailed, WGoto, UpdateDoc
<1>14. CASE MarkJobFailed(w)
  BY <1>14, SMTT(30) DEF MarkJobFailed, WGoto, UpdateJob
<1>15. CASE MarkRetrying(w)
  BY <1>15, SMTT(30) DEF MarkRetrying, WGoto, UpdateJob
<1>16. CASE GiveUp(w)
  BY <1>16, SMTT(30) DEF GiveUp, WGoto
<1>17. CASE PublishRetry(w)
  BY <1>17, SMTT(30) DEF PublishRetry, WGoto, Send, Message
<1>17a. CASE RetryRefused(w)
  BY <1>17a, SMTT(30) DEF RetryRefused, WGoto
<1>18. CASE UnlinkSpool(w)
  BY <1>18, SMTT(30) DEF UnlinkSpool, WGoto
<1>19. CASE ReleaseLock(w)
  BY <1>19, SMTT(30) DEF ReleaseLock, WGoto
<1>20. CASE Acknowledge(w)
  BY <1>20, SMTT(30) DEF Acknowledge, WGoto
<1>21. CASE StepRaises(w)
  BY <1>21, SMTT(30) DEF StepRaises, Raises, WGoto
<1>22. CASE WorkerDies(w)
  BY <1>22, SMTT(30) DEF WorkerDies, Abandon, WGoto, Send
<1>23. CASE TimeLimitKills(w)
  BY <1>23, SMTT(30) DEF TimeLimitKills, Abandon, WGoto
<1>24. QED
  BY <1>1, <1>2, <1>3, <1>4, <1>5, <1>6, <1>7, <1>8, <1>9, <1>10, <1>11, <1>12,
     <1>13, <1>14, <1>15, <1>16, <1>17, <1>17a, <1>18, <1>19, <1>20, <1>21, <1>22, <1>23
  DEF WorkerNext, WorkerStep

LEMMA UncompletedStep ==
  ASSUME Sweeping = FALSE, TypeOK, CoreInv, DispatchAlone, Uncompleted, [Next]_vars
  PROVE  Uncompleted'
<1> USE DEF Uncompleted, Job, wVars
<1>1. ASSUME NEW r \in Requests, UploadNext(r) PROVE Uncompleted'
  BY <1>1, UploadFrame, UploadLeavesWorkers DEF Attempting
<1>2. ASSUME NEW d \in Requests, DeleteNext(d) PROVE Uncompleted'
  BY <1>2, DeleteFrame, DeleteMarks DEF Attempting, CoreInv, ReferencesValid, HasJob,
      Messages
<1>3. ASSUME NEW j \in Requests, LockExpires(j) PROVE Uncompleted'
  BY <1>3, ExpiryFrame
<1>4. ASSUME NEW w \in Workers, WorkerNext(w) PROVE Uncompleted'
  BY <1>4, UncompletedWorker
<1>5. ~SweepNext
  BY ScriptRests DEF DispatchAlone
<1>6. CASE UNCHANGED vars
  BY <1>6 DEF vars, jobs
<1>7. QED
  BY <1>1, <1>2, <1>3, <1>4, <1>5, <1>6 DEF Next, Rest

\* A worker writes the status of a job only in the middle of an attempt.
LEMMA WorkerWritesOwn ==
  ASSUME TypeOK, NEW w \in Workers, WorkerNext(w)
  PROVE  \A j \in Requests : \/ jobStatus'[j] = jobStatus[j]
                             \/ wpc[w] \in Attempting /\ j = Job(w)
<1>1. CASE MarkJobProcessing(w) \/ MarkJobCompleted(w) \/ MarkJobFailed(w) \/
    MarkRetrying(w)
  BY <1>1 DEF MarkJobProcessing, MarkJobCompleted, MarkJobFailed, MarkRetrying, UpdateJob,
     Attempting, TypeOK
<1>2. CASE ~(MarkJobProcessing(w) \/ MarkJobCompleted(w) \/ MarkJobFailed(w) \/
    MarkRetrying(w))
  <2>1. UNCHANGED jobStatus
    BY <1>2 DEF WorkerNext, WorkerStep, Start, DropDelivery, CheckJob, ReadSpool,
       MarkDocProcessing, InsertChunks, InsertRejected, ListChunks, UpsertVectors,
       MarkDocReady, MarkDocFailed, GiveUp, PublishRetry, RetryRefused, UnlinkSpool, ReleaseLock,
       Acknowledge, StepRaises, Raises, WorkerDies, TimeLimitKills, Abandon, jobs
  <2>2. QED
    BY <2>1
<1>3. QED
  BY <1>1, <1>2

LEMMA CompletedStep ==
  ASSUME Sweeping = FALSE, TypeOK, CoreInv, DispatchAlone, Uncompleted, [Next]_vars,
         NEW j \in Requests, jobStatus[j] = "completed"
  PROVE  jobStatus'[j] \in {"completed", "deleted"}
<1>1. ASSUME NEW r \in Requests, UploadNext(r) PROVE jobStatus'[j] = "completed"
  BY <1>1, UploadTouchesOwn DEF OwnOnly, DispatchAlone, Recoverable
<1>2. ASSUME NEW d \in Requests, DeleteNext(d) PROVE jobStatus'[j] \in {"completed",
    "deleted"}
  BY <1>2, DeleteMarks
<1>3. ASSUME NEW i \in Requests, LockExpires(i) PROVE jobStatus'[j] = "completed"
  BY <1>3, ExpiryFrame
<1>4. ASSUME NEW w \in Workers, WorkerNext(w) PROVE jobStatus'[j] = "completed"
  BY <1>4, WorkerWritesOwn DEF Uncompleted
<1>5. ~SweepNext
  BY ScriptRests DEF DispatchAlone
<1>6. CASE UNCHANGED vars
  BY <1>6 DEF vars, jobs
<1>7. QED
  BY <1>1, <1>2, <1>3, <1>4, <1>5, <1>6 DEF Next, Rest

LEMMA DispatchInit == Init => DispatchAlone /\ Uncompleted
BY DEF Init, DispatchAlone, Dispatching, IsDuplicate, Uncompleted, Attempting

\* While the recovery script does not run, the job a request has created has no
\* message and no worker before the request sends it, and no job in the middle of an
\* attempt is completed (ingestion/dispatcher.py:43-57, ingestion/tasks.py:56-83).
THEOREM DispatchedAlone ==
  ASSUME Sweeping = FALSE
  PROVE  Spec => [](DispatchAlone /\ Uncompleted)
<1>1. Init => DispatchAlone /\ Uncompleted
  BY DispatchInit
<1>2. /\ TypeOK /\ CoreInv /\ DispatchAlone /\ Uncompleted /\ [Next]_vars
      => (DispatchAlone /\ Uncompleted)'
  BY DispatchStep, UncompletedStep
<1>3. QED
  BY <1>1, <1>2, CoreInvariant, PTL DEF Spec

\* A late copy of its message, a retry or a crash never takes a completed job back,
\* for any number of jobs and workers (ingestion/tasks.py:59-62).
THEOREM JobsStayCompleted ==
  ASSUME Sweeping = FALSE
  PROVE  Spec => CompletedStays
<1>1. TypeOK /\ CoreInv /\ DispatchAlone /\ Uncompleted /\ [Next]_vars
      => [\A j \in Requests : jobStatus[j] = "completed" =>
              jobStatus'[j] \in {"completed", "deleted"}]_vars
  BY CompletedStep
<1>2. QED
  BY <1>1, DispatchedAlone, CoreInvariant, PTL DEF Spec, CompletedStays

------------------------------------------------------------------------------
(* An open job is in somebody's hands *)

\* Once its message is taken there is none for a job.
LEMMA OnlyMessageTaken ==
  ASSUME queue \in [Messages -> Nat], OneMessage, NEW m \in Messages, queue[m] > 0, Take(m)
  PROVE  \A n \in Messages : /\ queue'[n] \in {0, 1}
                             /\ queue'[n] > 0 => queue[n] > 0 /\ n.job # m.job
<1>1. queue' = [n \in Messages |-> IF n = m THEN queue[m] - 1 ELSE queue[n]]
  BY DEF Take
<1>2. queue[m] - 1 = 0 /\ \A n \in Messages : queue[n] \in {0, 1}
  BY DEF OneMessage
<1>3. QED
  BY <1>1, <1>2 DEF OneMessage

\* The lock of a job that has a message is free, or the message may not be
\* delivered yet.
LEMMA NothingDropped ==
  ASSUME OneMessage, LockHeld, NEW m \in Messages, Deliverable(m)
  PROVE  lock[m.job] = None
<1>1. SUFFICES ASSUME lock[m.job] # None PROVE FALSE
  OBVIOUS
<1>2. m.job \in Requests /\ m.retries \in Int /\ queue[m] > 0
  BY RetriesAssumption DEF Messages, Deliverable
<1>3. PICK v \in Workers : wpc[v] \in Holding /\ Job(v) = m.job
  BY <1>1, <1>2 DEF LockHeld
<1>4. wpc[v] = "release" /\ m.retries > 0
  BY <1>2, <1>3 DEF OneMessage
<1>5. QED
  BY <1>2, <1>3, <1>4 DEF Deliverable

LEMMA NeverDropped ==
  ASSUME OneMessage, LockHeld, NEW w \in Workers, NEW m \in Messages, DropDelivery(w, m)
  PROVE  FALSE
BY NothingDropped DEF DropDelivery

LEMMA OneMessageStart ==
  ASSUME TypeOK, OneMessage, LockHeld, NEW w \in Workers, NEW m \in Messages, Start(w, m)
  PROVE  OneMessage' /\ LockHeld'
<1>1. queue[m] > 0 /\ Take(m)
  BY DEF Start, Deliverable
<1>2. \A n \in Messages : /\ queue'[n] \in {0, 1}
                          /\ queue'[n] > 0 => queue[n] > 0 /\ n.job # m.job
  BY <1>1, OnlyMessageTaken DEF TypeOK
<1>3. /\ wpc[w] = "idle" /\ wpc' = [wpc EXCEPT ![w] = "check"]
      /\ wmsg' = [wmsg EXCEPT ![w] = m] /\ lock' = [lock EXCEPT ![m.job] = w]
      /\ lock[m.job] = None
  BY DEF Start, WGoto
<1>4. \A v \in Workers : /\ wpc'[v] = IF v = w THEN "check" ELSE wpc[v]
                         /\ wmsg'[v] = IF v = w THEN m ELSE wmsg[v]
  BY <1>3 DEF TypeOK
<1>5. OneMessage'
  BY <1>2, <1>4, SMTT(30) DEF OneMessage, Job
<1>6. LockHeld'
  BY <1>3, <1>4, SMTT(30) DEF LockHeld, Job, TypeOK, Holding
<1>7. QED
  BY <1>5, <1>6

LEMMA OneMessageWorker ==
  ASSUME TypeOK, CoreInv, OneMessage, LockHeld, MaxCrashes = 0, "publish" \notin FaultSites,
         "db" \notin FaultSites, NEW w \in Workers, WorkerNext(w)
  PROVE  OneMessage' /\ LockHeld'
<1> USE NoneAssumption, OwnersAssumption DEF CoreInv, TypeOK, ReferencesValid, HasJob,
        LockOwned, OneMessage, LockHeld,
        Job, Doc, JobRow, DocRow, Messages, Recoverable, Holding, Attempting, WorkerPcs,
        documents, jobs, stores, wVars, uVars, sVars, budgets
<1>1. ASSUME NEW m \in Messages, Start(w, m) PROVE OneMessage' /\ LockHeld'
  BY <1>1, OneMessageStart
<1>2. ASSUME NEW m \in Messages, DropDelivery(w, m) PROVE OneMessage' /\ LockHeld'
  BY <1>2, NeverDropped
<1>3. CASE CheckJob(w)
  <2>1. PICK pc \in {"release", "unlink", "read"} :
          wpc[w] = "check" /\ wpc' = [wpc EXCEPT ![w] = pc] /\ UNCHANGED <<queue, lock,
              wmsg>>
    BY <1>3 DEF CheckJob, WGoto
  <2>2. QED
    BY <2>1, SMTT(30)
<1>4. CASE ReadSpool(w)
  BY <1>4, SMTT(30) DEF ReadSpool, WGoto
<1>5. CASE MarkJobProcessing(w)
  BY <1>5, SMTT(30) DEF MarkJobProcessing, WGoto, UpdateJob
<1>6. CASE MarkDocProcessing(w)
  BY <1>6, SMTT(30) DEF MarkDocProcessing, WGoto, UpdateDoc
<1>7. CASE InsertChunks(w)
  BY <1>7, SMTT(30) DEF InsertChunks, WGoto
<1>8. CASE InsertRejected(w)
  BY <1>8, SMTT(30) DEF InsertRejected, WGoto
<1>9. CASE ListChunks(w)
  BY <1>9, SMTT(30) DEF ListChunks, WGoto
<1>10. CASE UpsertVectors(w)
  BY <1>10, SMTT(30) DEF UpsertVectors, WGoto, Upsert
<1>11. CASE MarkDocReady(w)
  BY <1>11, SMTT(30) DEF MarkDocReady, WGoto, UpdateDoc
<1>12. CASE MarkJobCompleted(w)
  BY <1>12, SMTT(30) DEF MarkJobCompleted, WGoto, UpdateJob
<1>13. CASE MarkDocFailed(w)
  BY <1>13, SMTT(30) DEF MarkDocFailed, WGoto, UpdateDoc
<1>14. CASE MarkJobFailed(w)
  BY <1>14, SMTT(30) DEF MarkJobFailed, WGoto, UpdateJob
<1>15. CASE MarkRetrying(w)
  BY <1>15, SMTT(30) DEF MarkRetrying, WGoto, UpdateJob
<1>16. CASE GiveUp(w)
  BY <1>16, SMTT(30) DEF GiveUp, WGoto
<1>17. CASE PublishRetry(w)
  BY <1>17, SMTT(30) DEF PublishRetry, WGoto, Send, Message
<1>17a. CASE RetryRefused(w)
  BY <1>17a, SMTT(30) DEF RetryRefused, WGoto
<1>18. CASE UnlinkSpool(w)
  BY <1>18, SMTT(30) DEF UnlinkSpool, WGoto
<1>19. CASE ReleaseLock(w)
  BY <1>19, SMTT(30) DEF ReleaseLock, WGoto
<1>20. CASE Acknowledge(w)
  BY <1>20, SMTT(30) DEF Acknowledge, WGoto
<1>21. CASE StepRaises(w)
  BY <1>21, SMTT(30) DEF StepRaises, Raises, WGoto
<1>22. CASE WorkerDies(w)
  BY <1>22, SMTT(30) DEF WorkerDies, Abandon, WGoto, Send
<1>23. CASE TimeLimitKills(w)
  BY <1>23, SMTT(30) DEF TimeLimitKills, Abandon, WGoto
<1>24. QED
  BY <1>1, <1>2, <1>3, <1>4, <1>5, <1>6, <1>7, <1>8, <1>9, <1>10, <1>11, <1>12,
     <1>13, <1>14, <1>15, <1>16, <1>17, <1>17a, <1>18, <1>19, <1>20, <1>21, <1>22, <1>23
  DEF WorkerNext, WorkerStep

\* The message that a dispatch sends is the first of its job.
LEMMA DispatchSends ==
  ASSUME TypeOK, DispatchAlone, NEW r \in Requests, SendTask(r)
  PROVE  \E m \in Messages : m.job = r /\ queue' = [queue EXCEPT ![m] = 1]
<1> DEFINE m == Message(ujob[r], 0)
<1>1. m \in Messages /\ m.job = r /\ ujob[r] = r
  BY RetriesAssumption DEF SendTask, DispatchAlone, Dispatching, Message, Messages
<1>2. queue[m] = 0 /\ queue' = [queue EXCEPT ![m] = queue[m] + 1]
  BY <1>1 DEF SendTask, Send, DispatchAlone, Dispatching, TypeOK
<1> HIDE DEF m
<1>3. queue' = [queue EXCEPT ![m] = 1]
  BY <1>2
<1>4. QED
  BY <1>1, <1>3

LEMMA OneMessageUpload ==
  ASSUME TypeOK, CoreInv, DispatchAlone, OneMessage, NEW r \in Requests, UploadNext(r)
  PROVE  OneMessage'
<1> USE DEF wVars
<1>1. CASE SendTask(r)
  <2>1. PICK m \in Messages : m.job = r /\ queue' = [queue EXCEPT ![m] = 1]
    BY <1>1, DispatchSends
  <2>2. \A w \in Workers : wpc[w] # "idle" => Job(w) # r
    BY <1>1 DEF SendTask, DispatchAlone, Dispatching
  <2>3. \A n \in Messages : queue[n] > 0 => n.job # r
    BY <1>1 DEF SendTask, DispatchAlone, Dispatching
  <2>4. \A n \in Messages : queue'[n] = IF n = m THEN 1 ELSE queue[n]
    BY <2>1 DEF TypeOK
  <2>5. UNCHANGED <<wpc, wmsg>>
    BY <1>1 DEF SendTask
  <2>6. QED
    BY <2>1, <2>2, <2>3, <2>4, <2>5 DEF OneMessage, Job, Holding
<1>2. CASE ~SendTask(r)
  <2>1. UNCHANGED queue
    BY <1>2 DEF UploadNext, RequestStep, ClaimNew, ClaimExisting, ReuseJob, RecordDuplicate,
       Reingest, ClaimRejected, Reread, HealList, HealUpsert, Promote, MarkQueued,
       MarkDispatchFailed, DropSpool, SendRaises, RequestAborts
  <2>2. QED
    BY <2>1, UploadFrame DEF OneMessage, Job
<1>3. QED
  BY <1>1, <1>2

\* The files that somebody is going to need stay, whatever a request does ...
LEMMA FileKeptUpload ==
  ASSUME TypeOK, CoreInv, DispatchAlone, FileKept, NEW r \in Requests, UploadNext(r)
  PROVE  FileKept'
<1> USE NoneAssumption DEF CoreInv, TypeOK, ReferencesValid, IdsAreFresh, HasJob,
        DispatchAlone,
        Dispatching, IsDuplicate, FileKept, Attempting, Holding, Job, JobRow, DocRow,
            Messages, Recoverable, JobStatuses, DocStatuses, UploadPcs,
        documents, jobs, stores, wVars, uVars, sVars, budgets
<1>1. ASSUME NEW c \in Contents, ClaimNew(r, c) PROVE FileKept'
  BY <1>1, SMTT(30) DEF ClaimNew, UGoto, InsertJob, Arrives
<1>2. ASSUME NEW c \in Contents, ClaimExisting(r, c) PROVE FileKept'
  BY <1>2, SMTT(30) DEF ClaimExisting, UGoto, OwnerOf, Arrives
<1>3. CASE ReuseJob(r)
  BY <1>3, SMTT(30) DEF ReuseJob, UGoto, LatestJobs, JobsOf
<1>4. CASE RecordDuplicate(r)
  BY <1>4, SMTT(30) DEF RecordDuplicate, UGoto, InsertJob
<1>5. CASE Reingest(r)
  BY <1>5, SMTT(30) DEF Reingest, UGoto, InsertJob, UpdateDoc
<1>6. CASE ClaimRejected(r)
  BY <1>6, SMTT(30) DEF ClaimRejected, UGoto
<1>7. CASE Reread(r)
  BY <1>7, SMTT(30) DEF Reread, UGoto
<1>8. CASE HealList(r)
  BY <1>8, SMTT(30) DEF HealList, UGoto
<1>9. CASE HealUpsert(r)
  BY <1>9, SMTT(30) DEF HealUpsert, UGoto, Upsert
<1>10. CASE Promote(r)
  BY <1>10, SMTT(30) DEF Promote, UGoto
<1>11. CASE MarkQueued(r)
  BY <1>11, SMTT(30) DEF MarkQueued, UGoto, UpdateJob
<1>12. CASE SendTask(r)
  BY <1>12, SMTT(30) DEF SendTask, UGoto, Send, Message
<1>13. CASE MarkDispatchFailed(r)
  BY <1>13, SMTT(30) DEF MarkDispatchFailed, UGoto, UpdateJob
<1>14. CASE DropSpool(r)
  <2>1. ujob[r] = r /\ spool' = spool \ {r} /\ upc' = [upc EXCEPT ![r] = "done"]
    BY <1>14 DEF DropSpool, UGoto
  <2>2. UNCHANGED <<queue, wpc, wmsg>>
    BY <1>14 DEF DropSpool
  <2>3. QED
    BY <1>14, <2>1, <2>2 DEF DropSpool
<1>15. CASE SendRaises(r)
  BY <1>15, SMTT(30) DEF SendRaises, UGoto
<1>16. CASE RequestAborts(r)
  BY <1>16, SMTT(30) DEF RequestAborts, UGoto, InFlight
<1>17. QED
  BY <1>1, <1>2, <1>3, <1>4, <1>5, <1>6, <1>7, <1>8, <1>9, <1>10, <1>11, <1>12,
     <1>13, <1>14, <1>15, <1>16
  DEF UploadNext, RequestStep

\* ... and whatever a worker does: only the one that settled a job unlinks its file.
LEMMA FileKeptWorker ==
  ASSUME TypeOK, CoreInv, MaxCrashes = 0, "db" \notin FaultSites, "publish" \notin
         FaultSites, DispatchAlone, OneMessage, FileKept, NEW w \in Workers, WorkerNext(w)
  PROVE  FileKept'
<1> USE NoneAssumption, OwnersAssumption DEF CoreInv, TypeOK, ReferencesValid, HasJob,
        LockOwned, OneMessage, DispatchAlone, Dispatching, FileKept,
        Job, Doc, JobRow, DocRow, Messages, Recoverable, Holding, Attempting, WorkerPcs,
        documents, jobs, stores, wVars, uVars, sVars, budgets
<1>1. ASSUME NEW m \in Messages, Start(w, m) PROVE FileKept'
  BY <1>1, SMTT(30) DEF Start, WGoto, Take, Deliverable
<1>2. ASSUME NEW m \in Messages, DropDelivery(w, m) PROVE FileKept'
  BY <1>2, SMTT(30) DEF DropDelivery, Take, Deliverable
<1>3. CASE CheckJob(w)
  BY <1>3, SMTT(30) DEF CheckJob, WGoto
<1>4. CASE ReadSpool(w)
  BY <1>4, SMTT(30) DEF ReadSpool, WGoto
<1>5. CASE MarkJobProcessing(w)
  BY <1>5, SMTT(30) DEF MarkJobProcessing, WGoto, UpdateJob
<1>6. CASE MarkDocProcessing(w)
  BY <1>6, SMTT(30) DEF MarkDocProcessing, WGoto, UpdateDoc
<1>7. CASE InsertChunks(w)
  BY <1>7, SMTT(30) DEF InsertChunks, WGoto
<1>8. CASE InsertRejected(w)
  BY <1>8, SMTT(30) DEF InsertRejected, WGoto
<1>9. CASE ListChunks(w)
  BY <1>9, SMTT(30) DEF ListChunks, WGoto
<1>10. CASE UpsertVectors(w)
  BY <1>10, SMTT(30) DEF UpsertVectors, WGoto, Upsert
<1>11. CASE MarkDocReady(w)
  BY <1>11, SMTT(30) DEF MarkDocReady, WGoto, UpdateDoc
<1>12. CASE MarkJobCompleted(w)
  BY <1>12, SMTT(30) DEF MarkJobCompleted, WGoto, UpdateJob
<1>13. CASE MarkDocFailed(w)
  BY <1>13, SMTT(30) DEF MarkDocFailed, WGoto, UpdateDoc
<1>14. CASE MarkJobFailed(w)
  BY <1>14, SMTT(30) DEF MarkJobFailed, WGoto, UpdateJob
<1>15. CASE MarkRetrying(w)
  BY <1>15, SMTT(30) DEF MarkRetrying, WGoto, UpdateJob
<1>16. CASE GiveUp(w)
  BY <1>16, SMTT(30) DEF GiveUp, WGoto
<1>17. CASE PublishRetry(w)
  BY <1>17, SMTT(30) DEF PublishRetry, WGoto, Send, Message
<1>17a. CASE RetryRefused(w)
  BY <1>17a, SMTT(30) DEF RetryRefused, WGoto
<1>18. CASE UnlinkSpool(w)
  <2>1. /\ wpc[w] = "unlink" /\ wpc' = [wpc EXCEPT ![w] = "release"]
        /\ spool' = spool \ {Job(w)} /\ UNCHANGED <<queue, wmsg, upc>>
    BY <1>18 DEF UnlinkSpool, WGoto
  <2>2. \A m \in Messages : queue[m] > 0 => m.job # Job(w)
    BY <2>1
  <2>3. \A v \in Workers \ {w} : wpc[v] \in Holding => Job(v) # Job(w)
    BY <2>1
  <2>4. \A r \in Requests : upc[r] \in {"mark", "send", "send_failed", "drop"} => r # Job(w)
    BY <2>1
  <2>5. QED
    BY <2>1, <2>2, <2>3, <2>4
<1>19. CASE ReleaseLock(w)
  BY <1>19, SMTT(30) DEF ReleaseLock, WGoto
<1>20. CASE Acknowledge(w)
  BY <1>20, SMTT(30) DEF Acknowledge, WGoto
<1>21. CASE StepRaises(w)
  BY <1>21, SMTT(30) DEF StepRaises, Raises, WGoto
<1>22. CASE WorkerDies(w)
  BY <1>22, SMTT(30) DEF WorkerDies, Abandon, WGoto, Send
<1>23. CASE TimeLimitKills(w)
  BY <1>23, SMTT(30) DEF TimeLimitKills, Abandon, WGoto
<1>24. QED
  BY <1>1, <1>2, <1>3, <1>4, <1>5, <1>6, <1>7, <1>8, <1>9, <1>10, <1>11, <1>12,
     <1>13, <1>14, <1>15, <1>16, <1>17, <1>17a, <1>18, <1>19, <1>20, <1>21, <1>22, <1>23
  DEF WorkerNext, WorkerStep

LEMMA VerdictWorker ==
  ASSUME TypeOK, CoreInv, MaxCrashes = 0, "db" \notin FaultSites, "publish" \notin
         FaultSites, FileKept, AttemptOpen, VerdictWritten, NEW w \in Workers, WorkerNext(w)
  PROVE  VerdictWritten'
<1> USE NoneAssumption, OwnersAssumption DEF CoreInv, TypeOK, ReferencesValid, HasJob,
        LockOwned, FileKept, AttemptOpen, JobStatuses, VerdictWritten,
        Job, Doc, JobRow, DocRow, Messages, Recoverable, Holding, Attempting, WorkerPcs,
        documents, jobs, stores, wVars, uVars, sVars, budgets
<1>1. ASSUME NEW m \in Messages, Start(w, m) PROVE VerdictWritten'
  BY <1>1, SMTT(30) DEF Start, WGoto, Take, Deliverable
<1>2. ASSUME NEW m \in Messages, DropDelivery(w, m) PROVE VerdictWritten'
  BY <1>2, SMTT(30) DEF DropDelivery, Take, Deliverable
<1>3. CASE CheckJob(w)
  BY <1>3, SMTT(30) DEF CheckJob, WGoto
<1>4. CASE ReadSpool(w)
  BY <1>4, SMTT(30) DEF ReadSpool, WGoto
<1>5. CASE MarkJobProcessing(w)
  BY <1>5, SMTT(30) DEF MarkJobProcessing, WGoto, UpdateJob
<1>6. CASE MarkDocProcessing(w)
  BY <1>6, SMTT(30) DEF MarkDocProcessing, WGoto, UpdateDoc
<1>7. CASE InsertChunks(w)
  BY <1>7, SMTT(30) DEF InsertChunks, WGoto
<1>8. CASE InsertRejected(w)
  BY <1>8, SMTT(30) DEF InsertRejected, WGoto
<1>9. CASE ListChunks(w)
  BY <1>9, SMTT(30) DEF ListChunks, WGoto
<1>10. CASE UpsertVectors(w)
  BY <1>10, SMTT(30) DEF UpsertVectors, WGoto, Upsert
<1>11. CASE MarkDocReady(w)
  BY <1>11, SMTT(30) DEF MarkDocReady, WGoto, UpdateDoc
<1>12. CASE MarkJobCompleted(w)
  BY <1>12, SMTT(30) DEF MarkJobCompleted, WGoto, UpdateJob
<1>13. CASE MarkDocFailed(w)
  BY <1>13, SMTT(30) DEF MarkDocFailed, WGoto, UpdateDoc
<1>14. CASE MarkJobFailed(w)
  BY <1>14, SMTT(30) DEF MarkJobFailed, WGoto, UpdateJob
<1>15. CASE MarkRetrying(w)
  BY <1>15, SMTT(30) DEF MarkRetrying, WGoto, UpdateJob
<1>16. CASE GiveUp(w)
  BY <1>16, SMTT(30) DEF GiveUp, WGoto
<1>17. CASE PublishRetry(w)
  BY <1>17, SMTT(30) DEF PublishRetry, WGoto, Send, Message
<1>17a. CASE RetryRefused(w)
  BY <1>17a, SMTT(30) DEF RetryRefused, WGoto
<1>18. CASE UnlinkSpool(w)
  BY <1>18, SMTT(30) DEF UnlinkSpool, WGoto
<1>19. CASE ReleaseLock(w)
  BY <1>19, SMTT(30) DEF ReleaseLock, WGoto
<1>20. CASE Acknowledge(w)
  BY <1>20, SMTT(30) DEF Acknowledge, WGoto
<1>21. CASE StepRaises(w)
  BY <1>21, SMTT(30) DEF StepRaises, Raises, WGoto
<1>22. CASE WorkerDies(w)
  BY <1>22, SMTT(30) DEF WorkerDies, Abandon, WGoto, Send
<1>23. CASE TimeLimitKills(w)
  BY <1>23, SMTT(30) DEF TimeLimitKills, Abandon, WGoto
<1>24. QED
  BY <1>1, <1>2, <1>3, <1>4, <1>5, <1>6, <1>7, <1>8, <1>9, <1>10, <1>11, <1>12,
     <1>13, <1>14, <1>15, <1>16, <1>17, <1>17a, <1>18, <1>19, <1>20, <1>21, <1>22, <1>23
  DEF WorkerNext, WorkerStep

\* Work goes from worker w to its next step, or to a message, or is over.
LEMMA CarriedOn ==
  ASSUME Carried, wpc \in [Workers -> WorkerPcs], NEW w \in Workers,
         wpc' = [wpc EXCEPT ![w] = wpc'[w]], UNCHANGED <<uVars, wmsg>>,
         \A m \in Messages : queue[m] > 0 => queue'[m] > 0,
         \A j \in Requests : jobStatus'[j] \in Recoverable =>
             \/ jobStatus[j] \in Recoverable
             \/ j = Job(w) /\ wpc'[w] \in Holding \ {"unlink", "release"},
         wpc[w] \in Holding \ {"unlink", "release"} =>
             \/ wpc'[w] \in Holding \ {"unlink", "release"}
             \/ jobStatus'[Job(w)] \notin Recoverable
             \/ \E m \in Messages : queue'[m] > 0 /\ m.job = Job(w)
  PROVE  Carried'
<1> SUFFICES ASSUME NEW j \in Requests, jobStatus'[j] \in Recoverable PROVE CarriedBy(j)'
  BY DEF Carried
<1>1. Job(w)' = Job(w) /\ \A v \in Workers : Job(v)' = Job(v)
  BY DEF Job
<1>2. CASE j = Job(w) /\ wpc'[w] \in Holding \ {"unlink", "release"}
  BY <1>1, <1>2 DEF CarriedBy
<1>3. CASE jobStatus[j] \in Recoverable /\ ~(j = Job(w) /\ wpc'[w] \in Holding \ {"unlink",
    "release"})
  <2>1. CASE \E m \in Messages : queue[m] > 0 /\ m.job = j
    BY <2>1 DEF CarriedBy
  <2>2. CASE Dispatching(j) /\ upc[j] # "drop"
    BY <2>2 DEF CarriedBy, Dispatching, IsDuplicate, uVars
  <2>3. ASSUME NEW v \in Workers, wpc[v] \in Holding \ {"unlink", "release"}, Job(v) = j
        PROVE  CarriedBy(j)'
    <3>1. CASE v = w
      BY <1>3, <2>3, <3>1 DEF CarriedBy
    <3>2. CASE v # w
      BY <1>1, <2>3, <3>2 DEF CarriedBy
    <3>3. QED
      BY <3>1, <3>2
  <2>4. QED
    BY <1>3, <2>1, <2>2, <2>3 DEF Carried, CarriedBy
<1>4. QED
  BY <1>2, <1>3

\* Worker w moves on with its job in hands.
LEMMA CarriedMove ==
  ASSUME Carried, wpc \in [Workers -> WorkerPcs], NEW w \in Workers,
         wpc' = [wpc EXCEPT ![w] = wpc'[w]], UNCHANGED <<uVars, wmsg, queue>>,
         wpc'[w] \in Holding \ {"unlink", "release"},
         \A j \in Requests : jobStatus'[j] \in Recoverable => jobStatus[j] \in Recoverable
             \/ j = Job(w)
  PROVE  Carried'
BY CarriedOn

\* Worker w moves on without a job in hands, or its job is settled.
LEMMA CarriedOver ==
  ASSUME Carried, wpc \in [Workers -> WorkerPcs], NEW w \in Workers,
         wpc' = [wpc EXCEPT ![w] = wpc'[w]], UNCHANGED <<uVars, wmsg, queue>>,
         \A j \in Requests : jobStatus'[j] \in Recoverable => jobStatus[j] \in Recoverable,
         wpc[w] \in {"unlink", "release"} \/ jobStatus'[Job(w)] \notin Recoverable
  PROVE  Carried'
BY CarriedOn

LEMMA CarriedWorker ==
  ASSUME TypeOK, CoreInv, MaxCrashes = 0, "db" \notin FaultSites,
         "publish" \notin FaultSites, MaxRetries <= TaskMaxRetries,
         OneMessage, LockHeld, VerdictWritten, Carried, NEW w \in Workers, WorkerNext(w)
  PROVE  Carried'
<1> USE DEF documents, jobs, stores, wVars
<1>0. wpc \in [Workers -> WorkerPcs] /\ jobStatus \in [Requests -> JobStatuses]
  BY DEF TypeOK
<1> DEFINE Moves(from, pcs) == /\ wpc[w] \in from /\ wpc'[w] \in pcs
                             /\ wpc' = [wpc EXCEPT ![w] = wpc'[w]]
                             /\ UNCHANGED <<uVars, wmsg>>
<1>1. ASSUME NEW m \in Messages, Start(w, m) PROVE Carried'
  <2>1. /\ Job(w)' = m.job /\ wpc'[w] = "check" /\ wpc[w] = "idle"
        /\ \A v \in Workers \ {w} : wpc'[v] = wpc[v] /\ Job(v)' = Job(v)
        /\ \A n \in Messages \ {m} : queue'[n] = queue[n]
        /\ UNCHANGED <<jobStatus, upc, usaw>>
    BY <1>1, <1>0 DEF Start, WGoto, Take, Job, TypeOK, uVars
  <2>2. ASSUME NEW j \in Requests, CarriedBy(j), j # m.job PROVE CarriedBy(j)'
    BY <2>1, <2>2 DEF CarriedBy, Dispatching, IsDuplicate, Holding
  <2>3. CarriedBy(m.job)'
    BY <2>1 DEF CarriedBy, Holding
  <2>4. QED
    BY <2>1, <2>2, <2>3 DEF Carried
<1>2. ASSUME NEW m \in Messages, DropDelivery(w, m) PROVE Carried'
  BY <1>2, NeverDropped
<1>3. CASE CheckJob(w)
  <2>1. Moves({"check"}, {"read", "release", "unlink"}) /\ UNCHANGED <<queue, jobStatus>>
    BY <1>3, <1>0 DEF CheckJob, WGoto, WorkerPcs
  <2>2. wpc'[w] = "read" \/ jobStatus[Job(w)] \notin Recoverable
    BY <1>3, <1>0 DEF CheckJob, WGoto, JobRow, Recoverable
  <2>3. CASE wpc'[w] = "read"
    BY <1>0, <2>1, <2>3, CarriedMove DEF Holding
  <2>4. CASE jobStatus[Job(w)] \notin Recoverable
    BY <1>0, <2>1, <2>4, CarriedOver
  <2>5. QED
    BY <2>2, <2>3, <2>4
<1>4. CASE ReadSpool(w)
  <2>1. Moves({"read"}, {"mark_job", "handler"}) /\ UNCHANGED <<queue, jobStatus>>
    BY <1>4, <1>0 DEF ReadSpool, WGoto, WorkerPcs
  <2>2. QED
    BY <1>0, <2>1, CarriedMove DEF Holding
<1>5. CASE MarkJobProcessing(w)
  <2>1. Moves({"mark_job"}, {"mark_doc"}) /\ UNCHANGED queue
    BY <1>5, <1>0 DEF MarkJobProcessing, WGoto, WorkerPcs
  <2>2. jobStatus' = [j \in Requests |-> IF j = Job(w) /\ JobRow(j) THEN "processing" ELSE
      jobStatus[j]]
    BY <1>5, <1>0 DEF MarkJobProcessing, UpdateJob
  <2>3. wpc'[w] \in Holding \ {"unlink", "release"} /\ \A j \in Requests : jobStatus'[j] \in
      Recoverable => jobStatus[j] \in Recoverable \/ j = Job(w)
    BY <2>1, <2>2 DEF Holding
  <2>4. QED
    BY <1>0, <2>1, <2>3, CarriedMove
<1>6. CASE MarkDocProcessing(w)
  <2>1. Moves({"mark_doc"}, {"insert"}) /\ UNCHANGED <<queue, jobStatus>>
    BY <1>6, <1>0 DEF MarkDocProcessing, WGoto, WorkerPcs
  <2>2. QED
    BY <1>0, <2>1, CarriedMove DEF Holding
<1>7. CASE InsertChunks(w)
  <2>1. Moves({"insert"}, {"list"}) /\ UNCHANGED <<queue, jobStatus>>
    BY <1>7, <1>0 DEF InsertChunks, WGoto, WorkerPcs
  <2>2. QED
    BY <1>0, <2>1, CarriedMove DEF Holding
<1>8. CASE InsertRejected(w)
  <2>1. Moves({"insert"}, {"fail_doc"}) /\ UNCHANGED <<queue, jobStatus>>
    BY <1>8, <1>0 DEF InsertRejected, WGoto, WorkerPcs
  <2>2. QED
    BY <1>0, <2>1, CarriedMove DEF Holding
<1>9. CASE ListChunks(w)
  <2>1. Moves({"list"}, {"upsert"}) /\ UNCHANGED <<queue, jobStatus>>
    BY <1>9, <1>0 DEF ListChunks, WGoto, WorkerPcs
  <2>2. QED
    BY <1>0, <2>1, CarriedMove DEF Holding
<1>10. CASE UpsertVectors(w)
  <2>1. Moves({"upsert"}, {"ready"}) /\ UNCHANGED <<queue, jobStatus>>
    BY <1>10, <1>0 DEF UpsertVectors, WGoto, WorkerPcs
  <2>2. QED
    BY <1>0, <2>1, CarriedMove DEF Holding
<1>11. CASE MarkDocReady(w)
  <2>1. Moves({"ready"}, {"completed"}) /\ UNCHANGED <<queue, jobStatus>>
    BY <1>11, <1>0 DEF MarkDocReady, WGoto, WorkerPcs
  <2>2. QED
    BY <1>0, <2>1, CarriedMove DEF Holding
<1>12. CASE MarkJobCompleted(w)
  <2>1. Moves({"completed"}, {"unlink"}) /\ UNCHANGED queue
    BY <1>12, <1>0 DEF MarkJobCompleted, WGoto, WorkerPcs
  <2>2. jobStatus' = [j \in Requests |-> IF j = Job(w) /\ JobRow(j) THEN "completed" ELSE
      jobStatus[j]]
    BY <1>12, <1>0 DEF MarkJobCompleted, UpdateJob
  <2>3. \A j \in Requests : jobStatus'[j] \in Recoverable => jobStatus[j] \in Recoverable /\
      j # Job(w)
    BY <1>0, <2>2 DEF JobRow, Recoverable
  <2>4. Job(w) \in Requests
    BY <2>1 DEF CoreInv, ReferencesValid, HasJob, Job, Messages
  <2>5. jobStatus'[Job(w)] \notin Recoverable
    BY <2>3, <2>4
  <2>6. QED
    BY <1>0, <2>1, <2>3, <2>5, CarriedOver
<1>13. CASE MarkDocFailed(w)
  <2>1. Moves({"fail_doc"}, {"fail_job"}) /\ UNCHANGED <<queue, jobStatus>>
    BY <1>13, <1>0 DEF MarkDocFailed, WGoto, WorkerPcs
  <2>2. QED
    BY <1>0, <2>1, CarriedMove DEF Holding
<1>14. CASE MarkJobFailed(w)
  <2>1. Moves({"fail_job"}, {"handler"}) /\ UNCHANGED queue
    BY <1>14, <1>0 DEF MarkJobFailed, WGoto, WorkerPcs
  <2>2. jobStatus' = [j \in Requests |-> IF j = Job(w) /\ JobRow(j) THEN "failed" ELSE
      jobStatus[j]]
    BY <1>14, <1>0 DEF MarkJobFailed, UpdateJob
  <2>3. \A j \in Requests : jobStatus'[j] \in Recoverable => jobStatus[j] \in Recoverable /\
      j # Job(w)
    BY <1>0, <2>2 DEF JobRow, Recoverable
  <2>4. Job(w) \in Requests
    BY <2>1 DEF CoreInv, ReferencesValid, HasJob, Job, Messages
  <2>5. jobStatus'[Job(w)] \notin Recoverable
    BY <2>3, <2>4
  <2>6. QED
    BY <1>0, <2>1, <2>3, <2>5, CarriedOver
<1>15. CASE MarkRetrying(w)
  <2>1. Moves({"handler"}, {"publish"}) /\ UNCHANGED queue
    BY <1>15, <1>0 DEF MarkRetrying, WGoto, WorkerPcs
  <2>2. jobStatus' = [j \in Requests |-> IF j = Job(w) /\ JobRow(j) THEN "retrying" ELSE
      jobStatus[j]]
    BY <1>15, <1>0 DEF MarkRetrying, UpdateJob
  <2>3. wpc'[w] \in Holding \ {"unlink", "release"} /\ \A j \in Requests : jobStatus'[j] \in
      Recoverable => jobStatus[j] \in Recoverable \/ j = Job(w)
    BY <2>1, <2>2 DEF Holding
  <2>4. QED
    BY <1>0, <2>1, <2>3, CarriedMove
<1>16. CASE GiveUp(w)
  <2>1. Moves({"handler"}, {"unlink"}) /\ UNCHANGED <<queue, jobStatus>>
    BY <1>16, <1>0 DEF GiveUp, WGoto, WorkerPcs
  <2>2. jobStatus[Job(w)] \notin Recoverable
    BY <2>1 DEF VerdictWritten, Recoverable
  <2>3. QED
    BY <1>0, <2>1, <2>2, CarriedOver
<1>17. CASE PublishRetry(w)
  <2>1. Moves({"publish"}, {"release"}) /\ UNCHANGED jobStatus
    BY <1>17, <1>0 DEF PublishRetry, WGoto, WorkerPcs
  <2>2. wmsg[w] \in Messages /\ wmsg[w].retries < MaxRetries
    BY <2>1 DEF CoreInv, ReferencesValid, OneMessage
  <2>3. Message(Job(w), wmsg[w].retries + 1) \in Messages
    BY <2>2, RetriesAssumption DEF Message, Messages, Job
  <2>4. queue \in [Messages -> Nat] /\ Send(Message(Job(w), wmsg[w].retries + 1))
    BY <1>17 DEF PublishRetry, TypeOK
  <2>5. /\ \A n \in Messages : queue[n] > 0 => queue'[n] > 0
        /\ \E n \in Messages : queue'[n] > 0 /\ n.job = Job(w)
    BY <2>3, <2>4 DEF Send, Message
  <2>6. QED
    BY <1>0, <2>1, <2>5, CarriedOn
<1>17a. CASE RetryRefused(w)
  <2>1. wpc[w] = "publish" /\ wmsg[w] \in Messages /\ wmsg[w].retries >= TaskMaxRetries
    BY <1>17a DEF RetryRefused, CoreInv, ReferencesValid
  <2>2. wmsg[w].retries < MaxRetries /\ wmsg[w].retries \in Nat
    BY <2>1, RetriesAssumption DEF OneMessage, Messages
  <2>3. QED
    BY <2>1, <2>2, RetriesAssumption, TaskRetriesAssumption
<1>18. CASE UnlinkSpool(w)
  <2>1. Moves({"unlink"}, {"release"}) /\ UNCHANGED <<queue, jobStatus>>
    BY <1>18, <1>0 DEF UnlinkSpool, WGoto, WorkerPcs
  <2>2. QED
    BY <1>0, <2>1, CarriedOver
<1>19. CASE ReleaseLock(w)
  <2>1. Moves({"release"}, {"ack"}) /\ UNCHANGED <<queue, jobStatus>>
    BY <1>19, <1>0 DEF ReleaseLock, WGoto, WorkerPcs
  <2>2. QED
    BY <1>0, <2>1, CarriedOver
<1>20. CASE Acknowledge(w)
  <2>1. /\ wpc[w] = "ack" /\ wpc'[w] = "idle"
        /\ \A v \in Workers \ {w} : wpc'[v] = wpc[v] /\ Job(v)' = Job(v)
        /\ UNCHANGED <<queue, jobStatus, upc, usaw>>
    BY <1>20, <1>0 DEF Acknowledge, WGoto, Job, uVars
  <2>2. ASSUME NEW j \in Requests, CarriedBy(j) PROVE CarriedBy(j)'
    BY <2>1, <2>2 DEF CarriedBy, Dispatching, IsDuplicate, Holding
  <2>3. QED
    BY <2>1, <2>2 DEF Carried
<1>21. CASE StepRaises(w)
  <2>1. Moves({"upsert"}, {"fail_doc"}) /\ UNCHANGED <<queue, jobStatus>>
    BY <1>21, <1>0 DEF StepRaises, Raises, WGoto, WorkerPcs
  <2>2. QED
    BY <1>0, <2>1, CarriedMove DEF Holding
<1>22. CASE WorkerDies(w)
  <2>1. crashes < 0 /\ crashes \in Nat
    BY <1>22 DEF WorkerDies, Abandon, TypeOK
  <2>2. QED
    BY <2>1
<1>23. CASE TimeLimitKills(w)
  <2>1. crashes < 0 /\ crashes \in Nat
    BY <1>23 DEF TimeLimitKills, Abandon, TypeOK
  <2>2. QED
    BY <2>1
<1>24. QED
  BY <1>1, <1>2, <1>3, <1>4, <1>5, <1>6, <1>7, <1>8, <1>9, <1>10, <1>11, <1>12,
     <1>13, <1>14, <1>15, <1>16, <1>17, <1>17a, <1>18, <1>19, <1>20, <1>21, <1>22, <1>23
  DEF WorkerNext, WorkerStep

\* Request r carries the job it created until the message does, or it is over.
LEMMA CarriedByRequest ==
  ASSUME Carried, NEW r \in Requests, UNCHANGED wVars,
         \A q \in Requests \ {r} : upc'[q] = upc[q] /\ usaw'[q] = usaw[q],
         \A m \in Messages : queue[m] > 0 => queue'[m] > 0,
         \A j \in Requests \ {r} : jobStatus'[j] \in Recoverable => jobStatus[j] \in
             Recoverable,
         jobStatus'[r] \in Recoverable =>
             \/ (Dispatching(r) /\ upc[r] # "drop")'
             \/ jobStatus[r] \in Recoverable /\ ~(Dispatching(r) /\ upc[r] # "drop")
             \/ \E m \in Messages : queue'[m] > 0 /\ m.job = r
  PROVE  Carried'
<1> SUFFICES ASSUME NEW j \in Requests, jobStatus'[j] \in Recoverable PROVE CarriedBy(j)'
  BY DEF Carried
<1>1. \A v \in Workers : Job(v)' = Job(v) /\ wpc'[v] = wpc[v]
  BY DEF Job, wVars
<1>2. CASE (\E m \in Messages : queue[m] > 0 /\ m.job = j) \/ (\E m \in Messages : queue'[m]
    > 0 /\ m.job = j)
  BY <1>2 DEF CarriedBy
<1>3. CASE \E w \in Workers : wpc[w] \in Holding \ {"unlink", "release"} /\ Job(w) = j
  BY <1>1, <1>3 DEF CarriedBy
<1>4. CASE j # r /\ Dispatching(j) /\ upc[j] # "drop"
  BY <1>4 DEF CarriedBy, Dispatching, IsDuplicate
<1>5. CASE (Dispatching(j) /\ upc[j] # "drop")'
  BY <1>5 DEF CarriedBy
<1>6. QED
  BY <1>2, <1>3, <1>4, <1>5 DEF Carried, CarriedBy

\* The reread goes on to the spool with the job, or finds the job over.
LEMMA RereadCarries ==
  ASSUME TypeOK, CoreInv, NoRowsWithoutDocument, DispatchAlone, NEW r \in Requests,
         Reread(r),
         jobStatus'[r] \in Recoverable
  PROVE  \/ (Dispatching(r) /\ upc[r] # "drop")'
         \/ jobStatus[r] \in Recoverable /\ ~(Dispatching(r) /\ upc[r] # "drop")
<1>1. upc[r] = "reread" /\ UNCHANGED <<jobStatus, usaw, docStatus>>
  BY DEF Reread, jobs, documents
<1>2. CASE IsDuplicate(r)
  BY <1>1, <1>2 DEF Dispatching
<1>3. CASE ~IsDuplicate(r) /\ DocRow(udoc[r])
  <2>1. upc'[r] = "promote"
    BY <1>1, <1>3 DEF Reread, UGoto, NeedsHealing, TypeOK
  <2>2. QED
    BY <2>1 DEF Dispatching
<1>4. CASE ~IsDuplicate(r) /\ ~DocRow(udoc[r])
  <2>1. Dispatching(r)
    BY <1>1, <1>4 DEF Dispatching
  <2>2. jobDoc[r] = udoc[r] /\ docStatus[udoc[r]] # "unused" /\ udoc[r] \in Requests
    BY <1>1, <2>1 DEF DispatchAlone, CoreInv, ReferencesValid
  <2>3. docStatus[udoc[r]] = "deleted"
    BY <1>4, <2>2 DEF DocRow
  <2>4. ~JobRow(r)
    BY <2>2, <2>3 DEF NoRowsWithoutDocument, JobsOf
  <2>5. QED
    BY <1>1, <2>4 DEF JobRow, Recoverable
<1>5. QED
  BY <1>2, <1>3, <1>4

LEMMA CarriedUpload ==
  ASSUME TypeOK, CoreInv, NoRowsWithoutDocument, DispatchAlone, MaxCrashes = 0, Carried,
         NEW r \in Requests, UploadNext(r)
  PROVE  Carried'
<1>1. \A q \in Requests \ {r} : upc'[q] = upc[q] /\ usaw'[q] = usaw[q]
  BY SMTT(30)
  DEF UploadNext, RequestStep, ClaimNew, ClaimExisting, ReuseJob, RecordDuplicate,
      Reingest, ClaimRejected, Reread, HealList, HealUpsert, Promote, MarkQueued,
      SendTask, MarkDispatchFailed, DropSpool, SendRaises, RequestAborts, UGoto, TypeOK
<1>2. \A m \in Messages : queue[m] > 0 => queue'[m] > 0
  <2>1. CASE SendTask(r)
    BY <2>1, DispatchSends DEF TypeOK
  <2>2. CASE ~SendTask(r)
    BY <2>2 DEF UploadNext, RequestStep, ClaimNew, ClaimExisting, ReuseJob, RecordDuplicate,
       Reingest, ClaimRejected, Reread, HealList, HealUpsert, Promote, MarkQueued,
       MarkDispatchFailed, DropSpool, SendRaises, RequestAborts
  <2>3. QED
    BY <2>1, <2>2
<1>3. \A j \in Requests \ {r} : jobStatus'[j] \in Recoverable => jobStatus[j] \in
    Recoverable
  BY UploadTouchesOwn DEF OwnOnly
<1>4. UNCHANGED wVars
  BY UploadFrame
<1> DEFINE Handed ==
       jobStatus'[r] \in Recoverable =>
         \/ (Dispatching(r) /\ upc[r] # "drop")'
         \/ jobStatus[r] \in Recoverable /\ ~(Dispatching(r) /\ upc[r] # "drop")
         \/ \E m \in Messages : queue'[m] > 0 /\ m.job = r
<1>5. Handed
  <2>7. CASE Reread(r)
    BY <2>7, RereadCarries
  <2> USE DEF TypeOK, CoreInv, ReferencesValid, IdsAreFresh, DispatchAlone, Dispatching,
      IsDuplicate, UploadPcs,
          Recoverable, documents, jobs, stores, uVars, budgets
  <2>1. ASSUME NEW c \in Contents, ClaimNew(r, c) PROVE Handed
    BY <2>1, SMTT(30) DEF ClaimNew, UGoto, InsertJob, Arrives
  <2>2. ASSUME NEW c \in Contents, ClaimExisting(r, c) PROVE Handed
    BY <2>2, SMTT(30) DEF ClaimExisting, UGoto, OwnerOf, Arrives
  <2>3. CASE ReuseJob(r)
    BY <2>3, SMTT(30) DEF ReuseJob, UGoto, LatestJobs, JobsOf
  <2>4. CASE RecordDuplicate(r)
    BY <2>4, SMTT(30) DEF RecordDuplicate, UGoto, InsertJob
  <2>5. CASE Reingest(r)
    BY <2>5, SMTT(30) DEF Reingest, UGoto, InsertJob, UpdateDoc
  <2>6. CASE ClaimRejected(r)
    BY <2>6, SMTT(30) DEF ClaimRejected, UGoto
  <2>8. CASE HealList(r)
    BY <2>8, SMTT(30) DEF HealList, UGoto
  <2>9. CASE HealUpsert(r)
    BY <2>9, SMTT(30) DEF HealUpsert, UGoto, Upsert
  <2>10. CASE Promote(r)
    BY <2>10, SMTT(30) DEF Promote, UGoto
  <2>11. CASE MarkQueued(r)
    BY <2>11, SMTT(30) DEF MarkQueued, UGoto, UpdateJob, JobRow
  <2>12. CASE SendTask(r)
    BY <2>12, DispatchSends DEF TypeOK
  <2>13. CASE MarkDispatchFailed(r)
    BY <2>13, SMTT(30) DEF MarkDispatchFailed, UGoto, UpdateJob, JobRow
  <2>14. CASE DropSpool(r)
    BY <2>14, SMTT(30) DEF DropSpool, UGoto
  <2>15. CASE SendRaises(r)
    BY <2>15, SMTT(30) DEF SendRaises, UGoto
  <2>16. CASE RequestAborts(r)
    BY <2>16 DEF RequestAborts
  <2>17. QED
    BY <2>1, <2>2, <2>3, <2>4, <2>5, <2>6, <2>7, <2>8, <2>9, <2>10, <2>11, <2>12,
       <2>13, <2>14, <2>15, <2>16
    DEF UploadNext, RequestStep
<1>6. QED
  BY <1>1, <1>2, <1>3, <1>4, <1>5, CarriedByRequest

\* The parts of CarriedInv that only workers can disturb, after an upload's step.
LEMMA CarriedInvUpload ==
  ASSUME TypeOK, CoreInv, NoRowsWithoutDocument, MaxCrashes = 0, CarriedInv,
         NEW r \in Requests, UploadNext(r)
  PROVE  OneMessage' /\ LockHeld' /\ FileKept' /\ AttemptOpen' /\ VerdictWritten' /\
      Carried'
<1>1. OneMessage' /\ FileKept' /\ Carried'
  BY OneMessageUpload, FileKeptUpload, CarriedUpload DEF CarriedInv
<1>2. UNCHANGED <<lock, wpc, wmsg>>
  BY UploadFrame DEF wVars
<1>3. \A w \in Workers : Job(w)' = Job(w)
  BY <1>2 DEF Job
<1>4. \A w \in Workers : wpc[w] # "idle" => jobStatus'[Job(w)] = jobStatus[Job(w)]
  BY UploadLeavesWorkers DEF CarriedInv
<1>5. LockHeld'
  BY <1>2, <1>3 DEF CarriedInv, LockHeld, Job
<1>6. AttemptOpen' /\ VerdictWritten'
  BY <1>2, <1>3, <1>4 DEF CarriedInv, AttemptOpen, VerdictWritten
<1>7. QED
  BY <1>1, <1>5, <1>6

LEMMA CarriedInvDelete ==
  ASSUME TypeOK, CoreInv, CarriedInv, NEW d \in Requests, DeleteNext(d)
  PROVE  OneMessage' /\ LockHeld' /\ FileKept' /\ AttemptOpen' /\ VerdictWritten' /\
      Carried'
<1>1. UNCHANGED <<spool, queue, lock, wpc, wmsg, upc, usaw>>
  BY DeleteFrame DEF wVars, uVars
<1>2. \A w \in Workers : Job(w)' = Job(w)
  BY <1>1 DEF Job
<1>3. \A r \in Requests : Dispatching(r)' = Dispatching(r)
  BY <1>1 DEF Dispatching, IsDuplicate
<1>4. \A j \in Requests : jobStatus'[j] \in {jobStatus[j], "deleted"}
  BY DeleteMarks
<1>5. \A w \in Workers : wpc[w] # "idle" => Job(w) \in Requests
  BY DEF CoreInv, ReferencesValid, HasJob, Job, Messages
<1>6. OneMessage' /\ FileKept'
  BY <1>1, <1>2 DEF CarriedInv, OneMessage, FileKept
<1>7. LockHeld'
  BY <1>1, <1>2 DEF CarriedInv, LockHeld, Job
<1>8. AttemptOpen' /\ VerdictWritten'
  BY <1>1, <1>2, <1>4, <1>5 DEF CarriedInv, AttemptOpen, VerdictWritten
<1>9. \A j \in Requests : CarriedBy(j) => CarriedBy(j)'
  BY <1>1, <1>2, <1>3 DEF CarriedBy
<1>10. Carried'
  BY <1>4, <1>9 DEF CarriedInv, Carried, Recoverable
<1>11. QED
  BY <1>6, <1>7, <1>8, <1>10

LEMMA CarriedStep ==
  ASSUME Sweeping = FALSE, MaxCrashes = 0, "db" \notin FaultSites,
         "publish" \notin FaultSites, MaxRetries <= TaskMaxRetries,
         TypeOK, CoreInv, NoRowsWithoutDocument, CarriedInv, [Next]_vars
  PROVE  CarriedInv'
<1> DEFINE ButDispatch == OneMessage /\ LockHeld /\ FileKept /\ AttemptOpen /\
    VerdictWritten /\ Carried
<1>0. DispatchAlone'
  BY DispatchStep DEF CarriedInv
<1>1. ASSUME NEW r \in Requests, UploadNext(r) PROVE ButDispatch'
  BY <1>1, CarriedInvUpload
<1>2. ASSUME NEW d \in Requests, DeleteNext(d) PROVE ButDispatch'
  BY <1>2, CarriedInvDelete
<1>3. ASSUME NEW j \in Requests PROVE ~LockExpires(j)
  BY OwnersAssumption DEF LockExpires, CarriedInv, LockHeld
<1>4. ASSUME NEW w \in Workers, WorkerNext(w) PROVE ButDispatch'
  <2>1. OneMessage' /\ LockHeld' /\ FileKept'
    BY <1>4, OneMessageWorker, FileKeptWorker DEF CarriedInv
  <2>2. AttemptOpen'
    BY <1>4, AttemptWorker DEF CarriedInv, CoreInv
  <2>3. VerdictWritten' /\ Carried'
    BY <1>4, VerdictWorker, CarriedWorker DEF CarriedInv
  <2>4. QED
    BY <2>1, <2>2, <2>3
<1>5. ~SweepNext
  BY ScriptRests DEF CarriedInv, DispatchAlone
<1>6. ASSUME UNCHANGED vars PROVE ButDispatch'
  <2>1. UNCHANGED <<spool, queue, lock, wpc, wmsg, upc, usaw, jobStatus>>
    BY <1>6 DEF vars, wVars, uVars, jobs
  <2>2. \A w \in Workers : Job(w)' = Job(w)
    BY <2>1 DEF Job
  <2>3. \A j \in Requests : CarriedBy(j)' = CarriedBy(j)
    BY <2>1, <2>2 DEF CarriedBy, Dispatching, IsDuplicate
  <2>4. LockHeld'
    BY <2>1 DEF CarriedInv, LockHeld, Job
  <2>5. OneMessage' /\ FileKept'
    BY <2>1, <2>2 DEF CarriedInv, OneMessage, FileKept
  <2>6. AttemptOpen' /\ VerdictWritten'
    BY <2>1, <2>2 DEF CarriedInv, AttemptOpen, VerdictWritten
  <2>7. Carried'
    BY <2>1, <2>3 DEF CarriedInv, Carried
  <2>8. QED
    BY <2>4, <2>5, <2>6, <2>7
<1> HIDE DEF ButDispatch
<1>7. ButDispatch'
  BY <1>1, <1>2, <1>3, <1>4, <1>5, <1>6 DEF Next, Rest
<1>8. QED
  BY <1>0, <1>7 DEF CarriedInv, ButDispatch

LEMMA CarriedInit == Init => CarriedInv
<1>1. SUFFICES ASSUME Init PROVE CarriedInv
  OBVIOUS
<1>2. DispatchAlone
  BY <1>1, DispatchInit
<1>3. OneMessage /\ LockHeld /\ FileKept /\ AttemptOpen /\ VerdictWritten /\ Carried
  BY <1>1 DEF Init, OneMessage, LockHeld, FileKept, AttemptOpen, VerdictWritten, Carried,
     Recoverable, Holding, Attempting
<1>4. QED
  BY <1>2, <1>3 DEF CarriedInv

LEMMA CarriedImpliesBusy ==
  ASSUME DispatchAlone, Carried
  PROVE  ActiveJobCarried
<1>1. ASSUME NEW j \in Requests, CarriedBy(j) PROVE Busy(j)
  <2>1. CASE \E m \in Messages : queue[m] > 0 /\ m.job = j
    BY <2>1 DEF Busy
  <2>2. CASE \E w \in Workers : wpc[w] \in Holding /\ Job(w) = j
    BY <2>2 DEF Busy, Holding
  <2>3. CASE Dispatching(j)
    BY <2>3 DEF Busy, Dispatching, DispatchAlone, InFlight
  <2>4. QED
    BY <1>1, <2>1, <2>2, <2>3 DEF CarriedBy
<1>2. QED
  BY <1>1 DEF Carried, ActiveJobCarried

\* As long as no process dies, no database call raises, every retry reaches the
\* broker, CELERY_MAX_RETRIES does not exceed Celery's own limit for the task, which
\* would refuse the retry of a job marked retrying, and the script is not run: a job has one message or one holder, its lock is
\* held by a live worker, its file is there, and while it is open somebody carries it.
THEOREM CarriedInvariant ==
  ASSUME Sweeping = FALSE, MaxCrashes = 0, "db" \notin FaultSites,
         "publish" \notin FaultSites, MaxRetries <= TaskMaxRetries
  PROVE  Spec => []CarriedInv
<1>1. Init => CarriedInv
  BY CarriedInit
<1>2. TypeOK /\ CoreInv /\ NoRowsWithoutDocument /\ CarriedInv /\ [Next]_vars => CarriedInv'
  BY CarriedStep
<1>3. QED
  BY <1>1, <1>2, CoreInvariant, DeletedStaysDeleted, PTL DEF Spec

\* Under the same conditions, for any number of jobs and workers, any number of
\* retries within Celery's limit and whatever is deleted, a job that is not settled is in the hands of a message, a
\* worker or a request (ingestion/tasks.py:56-83, dispatcher.py:43-57).
THEOREM JobsAreCarried ==
  ASSUME Sweeping = FALSE, MaxCrashes = 0, "db" \notin FaultSites,
         "publish" \notin FaultSites, MaxRetries <= TaskMaxRetries
  PROVE  Spec => []ActiveJobCarried
<1>1. CarriedInv => ActiveJobCarried
  BY CarriedImpliesBusy DEF CarriedInv
<1>2. QED
  BY <1>1, CarriedInvariant, PTL

------------------------------------------------------------------------------
(* A spool file has an owner *)

LEMMA RetryOpenWorker ==
  ASSUME TypeOK, CoreInv, RetryOpen, NothingRemoved, NEW w \in Workers, WorkerNext(w)
  PROVE  RetryOpen'
<1> USE DEF CoreInv, TypeOK, ReferencesValid, HasJob, LockOwned, RetryOpen, NothingRemoved,
        Job, JobRow, Messages, Recoverable, Holding, WorkerPcs, documents, jobs
<1>1. ASSUME NEW m \in Messages, Start(w, m) PROVE RetryOpen'
  BY <1>1, SMTT(30) DEF Start, WGoto
<1>2. ASSUME NEW m \in Messages, DropDelivery(w, m) PROVE RetryOpen'
  BY <1>2, SMTT(30) DEF DropDelivery, wVars
<1>3. CASE CheckJob(w)
  BY <1>3, SMTT(30) DEF CheckJob, WGoto
<1>4. CASE ReadSpool(w)
  BY <1>4, SMTT(30) DEF ReadSpool, WGoto
<1>5. CASE MarkJobProcessing(w)
  BY <1>5, SMTT(30) DEF MarkJobProcessing, WGoto, UpdateJob
<1>6. CASE MarkDocProcessing(w)
  BY <1>6, SMTT(30) DEF MarkDocProcessing, WGoto
<1>7. CASE InsertChunks(w)
  BY <1>7, SMTT(30) DEF InsertChunks, WGoto
<1>8. CASE InsertRejected(w)
  BY <1>8, SMTT(30) DEF InsertRejected, WGoto
<1>9. CASE ListChunks(w)
  BY <1>9, SMTT(30) DEF ListChunks, WGoto
<1>10. CASE UpsertVectors(w)
  BY <1>10, SMTT(30) DEF UpsertVectors, WGoto
<1>11. CASE MarkDocReady(w)
  BY <1>11, SMTT(30) DEF MarkDocReady, WGoto
<1>12. CASE MarkJobCompleted(w)
  BY <1>12, SMTT(30) DEF MarkJobCompleted, WGoto, UpdateJob
<1>13. CASE MarkDocFailed(w)
  BY <1>13, SMTT(30) DEF MarkDocFailed, WGoto
<1>14. CASE MarkJobFailed(w)
  BY <1>14, SMTT(30) DEF MarkJobFailed, WGoto, UpdateJob
<1>15. CASE MarkRetrying(w)
  BY <1>15, SMTT(30) DEF MarkRetrying, WGoto, UpdateJob
<1>16. CASE GiveUp(w)
  BY <1>16, SMTT(30) DEF GiveUp, WGoto
<1>17. CASE PublishRetry(w)
  BY <1>17, SMTT(30) DEF PublishRetry, WGoto
<1>17a. CASE RetryRefused(w)
  BY <1>17a, SMTT(30) DEF RetryRefused, WGoto
<1>18. CASE UnlinkSpool(w)
  BY <1>18, SMTT(30) DEF UnlinkSpool, WGoto
<1>19. CASE ReleaseLock(w)
  BY <1>19, SMTT(30) DEF ReleaseLock, WGoto
<1>20. CASE Acknowledge(w)
  BY <1>20, SMTT(30) DEF Acknowledge, WGoto
<1>21. CASE StepRaises(w)
  BY <1>21, SMTT(30) DEF StepRaises, Raises, WGoto
<1>22. CASE WorkerDies(w)
  BY <1>22, SMTT(30) DEF WorkerDies, Abandon, WGoto
<1>23. CASE TimeLimitKills(w)
  BY <1>23, SMTT(30) DEF TimeLimitKills, Abandon, WGoto
<1>24. QED
  BY <1>1, <1>2, <1>3, <1>4, <1>5, <1>6, <1>7, <1>8, <1>9, <1>10, <1>11, <1>12,
     <1>13, <1>14, <1>15, <1>16, <1>17, <1>17a, <1>18, <1>19, <1>20, <1>21, <1>22, <1>23
  DEF WorkerNext, WorkerStep

\* A step of worker w takes no file's owner away.
LEMMA OwnedOn ==
  ASSUME FileOwned, wpc \in [Workers -> WorkerPcs], NEW w \in Workers,
         wpc' = [wpc EXCEPT ![w] = wpc'[w]], UNCHANGED <<upc, wmsg>>, spool' \subseteq
             spool,
         \A j \in Requests : jobStatus[j] \in Recoverable =>
             \/ jobStatus'[j] \in Recoverable
             \/ j = Job(w) /\ wpc'[w] \in Holding \ {"release"},
         wpc[w] \in Holding \ {"release"} =>
             \/ wpc'[w] \in Holding \ {"release"}
             \/ jobStatus'[Job(w)] \in Recoverable
             \/ Job(w) \notin spool',
         spool \subseteq Requests
  PROVE  FileOwned'
<1> SUFFICES ASSUME NEW j \in spool'
             PROVE  \/ jobStatus'[j] \in Recoverable
                    \/ \E v \in Workers : wpc'[v] \in Holding \ {"release"} /\ Job(v)' = j
                    \/ upc'[j] = "drop"
  BY DEF FileOwned
<1>1. j \in spool /\ j \in Requests /\ \A v \in Workers : Job(v)' = Job(v)
  BY DEF Job
<1>2. CASE jobStatus[j] \in Recoverable
  BY <1>1, <1>2
<1>3. ASSUME NEW v \in Workers, wpc[v] \in Holding \ {"release"}, Job(v) = j
      PROVE  \/ jobStatus'[j] \in Recoverable
             \/ \E u \in Workers : wpc'[u] \in Holding \ {"release"} /\ Job(u)' = j
  <2>1. CASE v = w
    BY <1>1, <1>3, <2>1
  <2>2. CASE v # w
    BY <1>1, <1>3, <2>2
  <2>3. QED
    BY <2>1, <2>2
<1>4. CASE upc[j] = "drop"
  BY <1>4
<1>5. QED
  BY <1>1, <1>2, <1>3, <1>4 DEF FileOwned

\* Worker w keeps its job in hands.
LEMMA OwnedMove ==
  ASSUME FileOwned, wpc \in [Workers -> WorkerPcs], NEW w \in Workers,
         wpc' = [wpc EXCEPT ![w] = wpc'[w]], UNCHANGED <<upc, wmsg, spool>>, spool \subseteq
             Requests,
         wpc'[w] \in Holding \ {"release"},
         \A j \in Requests : jobStatus[j] \in Recoverable => jobStatus'[j] \in Recoverable
             \/ j = Job(w)
  PROVE  FileOwned'
BY OwnedOn

LEMMA OwnedWorker ==
  ASSUME TypeOK, CoreInv, MaxCrashes = 0, "db" \notin FaultSites, "publish" \notin
         FaultSites,
         OneMessage, LockHeld, NothingRemoved, RetryOpen, FileOwned, NEW w \in Workers,
             WorkerNext(w)
  PROVE  FileOwned'
<1> USE DEF documents, jobs, stores, wVars
<1>0. /\ wpc \in [Workers -> WorkerPcs] /\ jobStatus \in [Requests -> JobStatuses]
      /\ spool \subseteq Requests
  BY DEF TypeOK
<1> DEFINE Moves(from, pcs) == /\ wpc[w] \in from /\ wpc'[w] \in pcs
                               /\ wpc' = [wpc EXCEPT ![w] = wpc'[w]]
                               /\ UNCHANGED <<upc, wmsg>>
<1>1. ASSUME NEW m \in Messages, Start(w, m) PROVE FileOwned'
  <2>1. /\ wpc[w] = "idle" /\ UNCHANGED <<upc, spool, jobStatus>>
        /\ \A v \in Workers \ {w} : wpc'[v] = wpc[v] /\ Job(v)' = Job(v)
    BY <1>1, <1>0 DEF Start, WGoto, Job, TypeOK, uVars
  <2>2. QED
    BY <2>1 DEF FileOwned, Holding
<1>2. ASSUME NEW m \in Messages, DropDelivery(w, m) PROVE FileOwned'
  BY <1>2, NeverDropped
<1>3. CASE CheckJob(w)
  <2>1. Moves({"check"}, {"read", "unlink"}) /\ UNCHANGED <<spool, jobStatus>>
    <3>1. Job(w) \in Requests /\ JobRow(Job(w))
      BY <1>3 DEF CheckJob, CoreInv, ReferencesValid, HasJob, Job, JobRow, Messages,
          NothingRemoved
    <3>2. QED
      BY <1>3, <1>0, <3>1 DEF CheckJob, WGoto, WorkerPcs, uVars
  <2>2. QED
    BY <1>0, <2>1, OwnedMove DEF Holding
<1>4. CASE ReadSpool(w)
  <2>1. Moves({"read"}, {"mark_job", "handler"}) /\ UNCHANGED <<spool, jobStatus>>
    BY <1>4, <1>0 DEF ReadSpool, WGoto, WorkerPcs, uVars
  <2>2. QED
    BY <1>0, <2>1, OwnedMove DEF Holding
<1>5. CASE MarkJobProcessing(w)
  <2>1. Moves({"mark_job"}, {"mark_doc"}) /\ UNCHANGED spool
    BY <1>5, <1>0 DEF MarkJobProcessing, WGoto, WorkerPcs, uVars
  <2>2. \A j \in Requests : jobStatus'[j] = jobStatus[j] \/ j = Job(w)
    BY <1>5, <1>0 DEF MarkJobProcessing, UpdateJob
  <2>3. QED
    BY <1>0, <2>1, <2>2, OwnedMove DEF Holding
<1>6. CASE MarkDocProcessing(w)
  <2>1. Moves({"mark_doc"}, {"insert"}) /\ UNCHANGED <<spool, jobStatus>>
    BY <1>6, <1>0 DEF MarkDocProcessing, WGoto, WorkerPcs, uVars
  <2>2. QED
    BY <1>0, <2>1, OwnedMove DEF Holding
<1>7. CASE InsertChunks(w)
  <2>1. Moves({"insert"}, {"list"}) /\ UNCHANGED <<spool, jobStatus>>
    BY <1>7, <1>0 DEF InsertChunks, WGoto, WorkerPcs, uVars
  <2>2. QED
    BY <1>0, <2>1, OwnedMove DEF Holding
<1>8. CASE InsertRejected(w)
  <2>1. Moves({"insert"}, {"fail_doc"}) /\ UNCHANGED <<spool, jobStatus>>
    BY <1>8, <1>0 DEF InsertRejected, WGoto, WorkerPcs, uVars
  <2>2. QED
    BY <1>0, <2>1, OwnedMove DEF Holding
<1>9. CASE ListChunks(w)
  <2>1. Moves({"list"}, {"upsert"}) /\ UNCHANGED <<spool, jobStatus>>
    BY <1>9, <1>0 DEF ListChunks, WGoto, WorkerPcs, uVars
  <2>2. QED
    BY <1>0, <2>1, OwnedMove DEF Holding
<1>10. CASE UpsertVectors(w)
  <2>1. Moves({"upsert"}, {"ready"}) /\ UNCHANGED <<spool, jobStatus>>
    BY <1>10, <1>0 DEF UpsertVectors, WGoto, WorkerPcs, uVars
  <2>2. QED
    BY <1>0, <2>1, OwnedMove DEF Holding
<1>11. CASE MarkDocReady(w)
  <2>1. Moves({"ready"}, {"completed"}) /\ UNCHANGED <<spool, jobStatus>>
    BY <1>11, <1>0 DEF MarkDocReady, WGoto, WorkerPcs, uVars
  <2>2. QED
    BY <1>0, <2>1, OwnedMove DEF Holding
<1>12. CASE MarkJobCompleted(w)
  <2>1. Moves({"completed"}, {"unlink"}) /\ UNCHANGED spool
    BY <1>12, <1>0 DEF MarkJobCompleted, WGoto, WorkerPcs, uVars
  <2>2. \A j \in Requests : jobStatus'[j] = jobStatus[j] \/ j = Job(w)
    BY <1>12, <1>0 DEF MarkJobCompleted, UpdateJob
  <2>3. QED
    BY <1>0, <2>1, <2>2, OwnedMove DEF Holding
<1>13. CASE MarkDocFailed(w)
  <2>1. Moves({"fail_doc"}, {"fail_job"}) /\ UNCHANGED <<spool, jobStatus>>
    BY <1>13, <1>0 DEF MarkDocFailed, WGoto, WorkerPcs, uVars
  <2>2. QED
    BY <1>0, <2>1, OwnedMove DEF Holding
<1>14. CASE MarkJobFailed(w)
  <2>1. Moves({"fail_job"}, {"handler"}) /\ UNCHANGED spool
    BY <1>14, <1>0 DEF MarkJobFailed, WGoto, WorkerPcs, uVars
  <2>2. \A j \in Requests : jobStatus'[j] = jobStatus[j] \/ j = Job(w)
    BY <1>14, <1>0 DEF MarkJobFailed, UpdateJob
  <2>3. QED
    BY <1>0, <2>1, <2>2, OwnedMove DEF Holding
<1>15. CASE MarkRetrying(w)
  <2>1. Moves({"handler"}, {"publish"}) /\ UNCHANGED spool
    BY <1>15, <1>0 DEF MarkRetrying, WGoto, WorkerPcs, uVars
  <2>2. \A j \in Requests : jobStatus'[j] = jobStatus[j] \/ j = Job(w)
    BY <1>15, <1>0 DEF MarkRetrying, UpdateJob
  <2>3. QED
    BY <1>0, <2>1, <2>2, OwnedMove DEF Holding
<1>16. CASE GiveUp(w)
  <2>1. Moves({"handler"}, {"unlink"}) /\ UNCHANGED <<spool, jobStatus>>
    BY <1>16, <1>0 DEF GiveUp, WGoto, WorkerPcs, uVars
  <2>2. QED
    BY <1>0, <2>1, OwnedMove DEF Holding
<1>17. CASE PublishRetry(w)
  <2>1. Moves({"publish"}, {"release"}) /\ UNCHANGED <<spool, jobStatus>>
    BY <1>17, <1>0 DEF PublishRetry, WGoto, WorkerPcs, uVars
  <2>2. jobStatus'[Job(w)] \in Recoverable
    BY <2>1 DEF RetryOpen
  <2>3. QED
    BY <1>0, <2>1, <2>2, OwnedOn
<1>17a. CASE RetryRefused(w)
  <2>1. Moves({"publish"}, {"release"}) /\ UNCHANGED <<spool, jobStatus>>
    BY <1>17a, <1>0 DEF RetryRefused, WGoto, WorkerPcs, uVars
  <2>2. jobStatus'[Job(w)] \in Recoverable
    BY <2>1 DEF RetryOpen
  <2>3. QED
    BY <1>0, <2>1, <2>2, OwnedOn
<1>18. CASE UnlinkSpool(w)
  <2>1. Moves({"unlink"}, {"release"}) /\ UNCHANGED jobStatus /\ spool' = spool \ {Job(w)}
    BY <1>18, <1>0 DEF UnlinkSpool, WGoto, WorkerPcs, uVars
  <2>2. QED
    BY <1>0, <2>1, OwnedOn
<1>19. CASE ReleaseLock(w)
  <2>1. Moves({"release"}, {"ack"}) /\ UNCHANGED <<spool, jobStatus>>
    BY <1>19, <1>0 DEF ReleaseLock, WGoto, WorkerPcs, uVars
  <2>2. QED
    BY <1>0, <2>1, OwnedOn
<1>20. CASE Acknowledge(w)
  <2>1. /\ wpc[w] = "ack" /\ UNCHANGED <<upc, spool, jobStatus>>
        /\ \A v \in Workers \ {w} : wpc'[v] = wpc[v] /\ Job(v)' = Job(v)
    BY <1>20, <1>0 DEF Acknowledge, WGoto, Job, uVars
  <2>2. QED
    BY <2>1 DEF FileOwned, Holding
<1>21. CASE StepRaises(w)
  <2>1. Moves({"upsert"}, {"fail_doc"}) /\ UNCHANGED <<spool, jobStatus>>
    BY <1>21, <1>0 DEF StepRaises, Raises, WGoto, WorkerPcs, uVars
  <2>2. QED
    BY <1>0, <2>1, OwnedMove DEF Holding
<1>22. CASE WorkerDies(w)
  <2>1. crashes < 0 /\ crashes \in Nat
    BY <1>22 DEF WorkerDies, Abandon, TypeOK
  <2>2. QED
    BY <2>1
<1>23. CASE TimeLimitKills(w)
  <2>1. crashes < 0 /\ crashes \in Nat
    BY <1>23 DEF TimeLimitKills, Abandon, TypeOK
  <2>2. QED
    BY <2>1
<1>24. QED
  BY <1>1, <1>2, <1>3, <1>4, <1>5, <1>6, <1>7, <1>8, <1>9, <1>10, <1>11, <1>12,
     <1>13, <1>14, <1>15, <1>16, <1>17, <1>17a, <1>18, <1>19, <1>20, <1>21, <1>22, <1>23
  DEF WorkerNext, WorkerStep

\* A request puts the file of its own open job into the spool, and takes it away
\* when the job could not be sent.
LEMMA OwnedUpload ==
  ASSUME TypeOK, CoreInv, DispatchAlone, NothingRemoved, MaxCrashes = 0, FileOwned,
         NEW r \in Requests, UploadNext(r)
  PROVE  FileOwned'
<1>1. \A w \in Workers : Job(w)' = Job(w) /\ wpc'[w] = wpc[w]
  BY UploadFrame DEF wVars, Job
<1>2. \A j \in Requests \ {r} : upc'[j] = upc[j]
  BY SMTT(30)
  DEF UploadNext, RequestStep, ClaimNew, ClaimExisting, ReuseJob, RecordDuplicate,
      Reingest, ClaimRejected, Reread, HealList, HealUpsert, Promote, MarkQueued,
      SendTask, MarkDispatchFailed, DropSpool, SendRaises, RequestAborts, UGoto, TypeOK
<1>3. \A j \in Requests \ {r} : jobStatus'[j] = jobStatus[j]
  BY UploadTouchesOwn DEF OwnOnly
<1>4. \A j \in Requests \ {r} : j \in spool' => j \in spool
  <2>1. CASE Promote(r)
    BY <2>1 DEF Promote, DispatchAlone, Dispatching
  <2>2. CASE ~Promote(r)
    <3>1. spool' \subseteq spool
      BY <2>2 DEF UploadNext, RequestStep, ClaimNew, ClaimExisting, ReuseJob,
          RecordDuplicate,
         Reingest, ClaimRejected, Reread, HealList, HealUpsert, MarkQueued,
         SendTask, MarkDispatchFailed, DropSpool, SendRaises, RequestAborts
    <3>2. QED
      BY <3>1
  <2>3. QED
    BY <2>1, <2>2
<1> DEFINE Owned == r \in spool' =>
                      \/ jobStatus'[r] \in Recoverable
                      \/ upc'[r] = "drop"
                      \/ UNCHANGED jobStatus /\ r \in spool /\ upc[r] # "drop"
<1>5. Owned
  <2>1. CASE Promote(r)
    BY <2>1 DEF Promote, DispatchAlone, Dispatching, NothingRemoved, jobs
  <2>2. CASE RecordDuplicate(r)
    <3>1. r \notin spool
      <4>1. jobStatus[r] = "unused" /\ upc[r] = "resolve"
        BY <2>2 DEF RecordDuplicate, CoreInv, IdsAreFresh
      <4>2. \A w \in Workers : wpc[w] \in Holding => Job(w) # r
        BY <4>1 DEF CoreInv, ReferencesValid, HasJob, Holding
      <4>3. QED
        BY <4>1, <4>2 DEF FileOwned, Recoverable
    <3>2. QED
      BY <2>2, <3>1 DEF RecordDuplicate
  <2>3. CASE MarkDispatchFailed(r)
    BY <2>3 DEF MarkDispatchFailed, UGoto, TypeOK
  <2>4. CASE DropSpool(r)
    BY <2>4 DEF DropSpool, DispatchAlone, Dispatching
  <2>5. CASE \E c \in Contents : ClaimNew(r, c)
    BY <2>5 DEF ClaimNew, InsertJob, Recoverable, TypeOK
  <2>6. CASE Reingest(r)
    BY <2>6 DEF Reingest, InsertJob, Recoverable, TypeOK
  <2>7. CASE MarkQueued(r)
    BY <2>7, SMTT(30) DEF MarkQueued, UpdateJob, JobRow, DispatchAlone, Dispatching,
        Recoverable,
       TypeOK, NothingRemoved
  <2>8. CASE RequestAborts(r)
    BY <2>8 DEF RequestAborts, TypeOK
  <2>9. CASE (\E c \in Contents : ClaimExisting(r, c)) \/ ReuseJob(r) \/ ClaimRejected(r)
             \/ Reread(r) \/ HealList(r) \/ HealUpsert(r) \/ SendTask(r) \/ SendRaises(r)
    BY <2>9 DEF ClaimExisting, ReuseJob, ClaimRejected, Reread, HealList, HealUpsert,
        SendTask,
       SendRaises, Arrives, jobs
  <2>10. QED
    BY <2>1, <2>2, <2>3, <2>4, <2>5, <2>6, <2>7, <2>8, <2>9 DEF UploadNext, RequestStep
<1> HIDE DEF Owned
<1>6. spool' \subseteq Requests
  BY CoreStep DEF TypeOK, Next
<1>7. ASSUME NEW j \in spool'
      PROVE  \/ jobStatus'[j] \in Recoverable
             \/ \E w \in Workers : wpc'[w] \in Holding \ {"release"} /\ Job(w)' = j
             \/ upc'[j] = "drop"
  <2>1. CASE j = r
    BY <1>1, <1>5, <1>7, <2>1 DEF Owned, FileOwned
  <2>2. CASE j # r
    <3>1. j \in Requests \ {r} /\ j \in spool
      BY <1>4, <1>6, <1>7, <2>2
    <3>2. jobStatus'[j] = jobStatus[j] /\ upc'[j] = upc[j]
      BY <1>2, <1>3, <3>1
    <3>3. QED
      BY <1>1, <3>1, <3>2 DEF FileOwned
  <2>3. QED
    BY <2>1, <2>2
<1>8. QED
  BY <1>7 DEF FileOwned

LEMMA SpoolStep ==
  ASSUME Deleting = FALSE, Sweeping = FALSE, MaxCrashes = 0,
         "db" \notin FaultSites, "publish" \notin FaultSites, MaxRetries <= TaskMaxRetries,
         TypeOK, CoreInv, NoRowsWithoutDocument, SpoolInv, [Next]_vars
  PROVE  SpoolInv'
<1> USE DEF SpoolInv
<1>0. CarriedInv' /\ NothingRemoved'
  BY CarriedStep, NothingRemovedStep
<1> DEFINE Rest2 == FileOwned /\ RetryOpen
<1>1. ASSUME NEW r \in Requests, UploadNext(r) PROVE Rest2'
  <2>1. FileOwned'
    BY <1>1, OwnedUpload DEF CarriedInv
  <2>2. \A w \in Workers : /\ Job(w)' = Job(w) /\ wpc'[w] = wpc[w]
                           /\ wpc[w] # "idle" => jobStatus'[Job(w)] = jobStatus[Job(w)]
    BY <1>1, UploadFrame, UploadLeavesWorkers DEF wVars, Job, CarriedInv
  <2>3. QED
    BY <2>1, <2>2 DEF RetryOpen
<1>2. ASSUME NEW d \in Requests PROVE ~DeleteNext(d)
  BY DEF NothingRemoved, DeleteNext, DeleteStep, DeleteBegins, DeleteVectors, DeleteRows,
     DeleteAborts
<1>3. ASSUME NEW j \in Requests PROVE ~LockExpires(j)
  BY OwnersAssumption DEF LockExpires, CarriedInv, LockHeld
<1>4. ASSUME NEW w \in Workers, WorkerNext(w) PROVE Rest2'
  BY <1>4, OwnedWorker, RetryOpenWorker DEF CarriedInv
<1>5. ~SweepNext
  BY ScriptRests DEF CarriedInv, DispatchAlone
<1>6. ASSUME UNCHANGED vars PROVE Rest2'
  BY <1>6 DEF vars, jobs, wVars, uVars, FileOwned, RetryOpen, Job
<1> HIDE DEF Rest2
<1>7. Rest2'
  BY <1>1, <1>2, <1>3, <1>4, <1>5, <1>6 DEF Next, Rest
<1>8. QED
  BY <1>0, <1>7 DEF Rest2

LEMMA SpoolImpliesOwned ==
  ASSUME TypeOK, DispatchAlone, FileOwned
  PROVE  SpoolOwned
<1>1. ASSUME NEW j \in spool, \E w \in Workers : wpc[w] \in Holding /\ Job(w) = j PROVE
    Busy(j)
  BY <1>1 DEF Busy, Holding
<1>2. ASSUME NEW j \in spool, upc[j] = "drop" PROVE Busy(j)
  BY <1>2 DEF Busy, DispatchAlone, Dispatching, InFlight, TypeOK
<1>3. QED
  BY <1>1, <1>2 DEF FileOwned, SpoolOwned

\* As long as no process dies, no database call raises, every retry reaches the
\* broker, CELERY_MAX_RETRIES is within Celery's own limit, nothing is deleted and the
\* script is not run: a file whose job is settled
\* has a worker or a request that is about to unlink it, and a retry is of an open job.
THEOREM SpoolInvariant ==
  ASSUME Deleting = FALSE, Sweeping = FALSE, MaxCrashes = 0,
         "db" \notin FaultSites, "publish" \notin FaultSites, MaxRetries <= TaskMaxRetries
  PROVE  Spec => []SpoolInv
<1>1. Init => SpoolInv
  BY CarriedInit DEF Init, SpoolInv, NothingRemoved, FileOwned, RetryOpen
<1>2. TypeOK /\ CoreInv /\ NoRowsWithoutDocument /\ SpoolInv /\ [Next]_vars => SpoolInv'
  BY SpoolStep
<1>3. QED
  BY <1>1, <1>2, CoreInvariant, DeletedStaysDeleted, PTL DEF Spec

\* Under the same conditions a file leaves the spool when its job is settled. Until
\* then its job is open or somebody is about to unlink it (ingestion/tasks.py:60-77,
\* dispatcher.py:53-57).
THEOREM SpoolFilesAreOwned ==
  ASSUME Deleting = FALSE, Sweeping = FALSE, MaxCrashes = 0,
         "db" \notin FaultSites, "publish" \notin FaultSites, MaxRetries <= TaskMaxRetries
  PROVE  Spec => []SpoolOwned
<1>1. TypeOK /\ SpoolInv => SpoolOwned
  BY SpoolImpliesOwned DEF SpoolInv, CarriedInv
<1>2. QED
  BY <1>1, SpoolInvariant, CoreInvariant, PTL

------------------------------------------------------------------------------
(* The verdicts *)

LEMMA AgreeUpload ==
  ASSUME TypeOK, CoreInv, FirstUploads, OwnJobs, NoOutsideVerdict, AgreeInv,
         NEW r \in Requests, UploadNext(r)
  PROVE  AgreeInv'
<1> USE DEF AgreeInv
<1>0. UNCHANGED <<wpc, wmsg>> /\ upc[r] # "resolve" /\ upc[r] \notin {"send_failed", "drop"}
  BY UploadFrame DEF wVars, FirstUploads, NoOutsideVerdict
<1>1. \A w \in Workers : wpc[w] # "idle" =>
          /\ Job(w) \in Requests /\ Doc(w) = Job(w) /\ jobStatus[Job(w)] # "unused"
  BY OwnJobOfWorker
<1>2. ASSUME NEW c \in Contents, ClaimNew(r, c) PROVE AgreeInv'
  <2>1. /\ jobStatus[r] = "unused" /\ docStatus'[r] = "pending" /\ jobStatus'[r] = "pending"
        /\ jobDoc'[r] = r
        /\ \A x \in Requests \ {r} : /\ docStatus'[x] = docStatus[x] /\ jobStatus'[x] = jobStatus[x]
                                     /\ jobDoc'[x] = jobDoc[x]
    BY <1>2 DEF ClaimNew, Arrives, CoreInv, IdsAreFresh, InsertJob, TypeOK
  <2>2. ASSUME NEW w \in Workers, wpc[w] # "idle"
        PROVE  Doc(w)' = Doc(w) /\ Doc(w) \in Requests \ {r}
    <3>1. Job(w)' = Job(w)
      BY <1>0 DEF Job
    <3>2. Job(w) \in Requests \ {r} /\ Doc(w) = Job(w)
      BY <1>1, <2>1, <2>2
    <3>3. QED
      BY <2>1, <3>1, <3>2 DEF Doc
  <2>3. VerdictFirst'
    BY <1>0, <2>1, <2>2 DEF VerdictFirst
  <2>4. JobAgrees'
    BY <2>1 DEF JobAgrees, OwnJobs
  <2>5. QED
    BY <2>3, <2>4
<1>3. ASSUME UNCHANGED <<docStatus, jobDoc>>,
             \A j \in Requests : /\ jobStatus'[j] \in {jobStatus[j], "queued"}
                                 /\ jobStatus[j] = "unused" => jobStatus'[j] = "unused"
      PROVE  AgreeInv'
  <2>1. VerdictFirst'
    BY <1>0, <1>3 DEF VerdictFirst, Doc, Job
  <2>2. JobAgrees'
    BY <1>3 DEF JobAgrees
  <2>3. QED
    BY <2>1, <2>2
<1>4. CASE MarkQueued(r)
  <2>1. UNCHANGED <<docStatus, jobDoc>>
        /\ \A j \in Requests : /\ jobStatus'[j] \in {jobStatus[j], "queued"}
                               /\ jobStatus[j] = "unused" => jobStatus'[j] = "unused"
    BY <1>4 DEF MarkQueued, documents, UpdateJob, JobRow, TypeOK
  <2>2. QED
    BY <1>3, <2>1
<1>5. CASE \/ \E c \in Contents : ClaimExisting(r, c)
           \/ Reread(r) \/ HealList(r) \/ HealUpsert(r) \/ Promote(r) \/ SendTask(r)
           \/ SendRaises(r) \/ RequestAborts(r)
  <2>1. UNCHANGED <<docStatus, jobStatus, jobDoc>>
    BY <1>5 DEF ClaimExisting, Reread, HealList, HealUpsert, Promote, SendTask, SendRaises,
       RequestAborts, documents, jobs
  <2>2. QED
    BY <1>3, <2>1
<1>6. QED
  BY <1>0, <1>2, <1>4, <1>5
  DEF UploadNext, RequestStep, ReuseJob, RecordDuplicate, Reingest, ClaimRejected,
      MarkDispatchFailed, DropSpool

LEMMA AgreeWorker ==
  ASSUME TypeOK, CoreInv, AttemptOpen, NoRowsWithoutDocument, OwnJobs, AgreeInv,
         NEW w \in Workers, WorkerNext(w)
  PROVE  VerdictFirst' /\ JobAgrees'
<1> DEFINE Kept == VerdictFirst' /\ JobAgrees'
<1> USE DEF AgreeInv
<1>0. UNCHANGED jobDoc
  BY WorkerFrame
<1>1. \A v \in Workers : wpc[v] # "idle" =>
         /\ Job(v) \in Requests /\ Doc(v) = Job(v) /\ jobStatus[Job(v)] # "unused"
  BY OwnJobOfWorker
<1>2. \A v \in Workers :
          wpc[v] \in Holding /\ wpc[w] \in Holding /\ Job(v) = Job(w) => v = w
  BY DEF CoreInv, LockOwned
<1>3. ASSUME UNCHANGED <<docStatus, jobStatus>>,
             \A v \in Workers : wpc'[v] \in {"completed", "fail_job"} =>
                                    wpc'[v] = wpc[v] /\ wmsg'[v] = wmsg[v]
      PROVE  Kept
  BY <1>0, <1>3 DEF VerdictFirst, JobAgrees, Doc, Job
<1>4. CASE \/ \E m \in Messages : Start(w, m) \/ DropDelivery(w, m)
           \/ CheckJob(w) \/ ReadSpool(w) \/ InsertChunks(w) \/ InsertRejected(w)
           \/ ListChunks(w) \/ UpsertVectors(w) \/ GiveUp(w) \/ PublishRetry(w) \/ RetryRefused(w) \/ UnlinkSpool(w)
           \/ ReleaseLock(w) \/ Acknowledge(w) \/ StepRaises(w) \/ WorkerDies(w) \/ TimeLimitKills(w)
  <2>1. UNCHANGED <<docStatus, jobStatus>>
    BY <1>4 DEF Start, DropDelivery, CheckJob, ReadSpool, InsertChunks, InsertRejected, ListChunks,
       UpsertVectors, GiveUp, PublishRetry, RetryRefused, UnlinkSpool, ReleaseLock, Acknowledge, StepRaises,
       Raises, WorkerDies, TimeLimitKills, Abandon, documents, jobs
  <2>2. \A v \in Workers : wpc'[v] \in {"completed", "fail_job"} =>
                              wpc'[v] = wpc[v] /\ wmsg'[v] = wmsg[v]
    BY <1>4 DEF TypeOK, Start, DropDelivery, CheckJob, ReadSpool, InsertChunks, InsertRejected,
       ListChunks, UpsertVectors, GiveUp, PublishRetry, RetryRefused, UnlinkSpool, ReleaseLock, Acknowledge,
       StepRaises, Raises, WorkerDies, TimeLimitKills, Abandon, WGoto, wVars
  <2>3. QED
    BY <1>3, <2>1, <2>2
<1>5. CASE MarkJobProcessing(w) \/ MarkRetrying(w)
  <2>1. /\ UNCHANGED <<docStatus, wmsg>>
        /\ \A j \in Requests : /\ jobStatus'[j] \in {jobStatus[j], "processing", "retrying"}
                               /\ jobStatus[j] = "unused" => jobStatus'[j] = "unused"
        /\ \A v \in Workers : wpc'[v] \in {wpc[v], "mark_doc", "publish"}
    BY <1>5 DEF MarkJobProcessing, MarkRetrying, documents, UpdateJob, JobRow, WGoto, TypeOK
  <2>2. QED
    BY <1>0, <2>1 DEF VerdictFirst, JobAgrees, Doc, Job
<1>6. CASE MarkDocProcessing(w) \/ MarkDocReady(w) \/ MarkDocFailed(w)
  <2> DEFINE status == IF MarkDocProcessing(w) THEN "processing"
                       ELSE IF MarkDocReady(w) THEN "ready" ELSE "failed"
             then == IF MarkDocProcessing(w) THEN "insert"
                     ELSE IF MarkDocReady(w) THEN "completed" ELSE "fail_job"
  <2>1. /\ wpc[w] \in {"mark_doc", "ready", "fail_doc"} /\ UNCHANGED <<wmsg, jobStatus>>
        /\ UpdateDoc(Doc(w), status) /\ WGoto(w, then)
    BY <1>6 DEF MarkDocProcessing, MarkDocReady, MarkDocFailed, jobs
  <2>2. status \in {"processing", "ready", "failed"}
        /\ (then = "completed" => status = "ready") /\ (then = "fail_job" => status = "failed")
    OBVIOUS
  <2> HIDE DEF status, then
  <2>3. /\ Job(w) \in Requests /\ Doc(w) = Job(w) /\ docStatus[Doc(w)] # "unused"
        /\ jobStatus[Job(w)] \in Recoverable \cup {"deleted"}
    <3>1. wpc[w] # "idle" /\ wpc[w] \in {"mark_doc", "ready", "fail_doc"}
      BY <2>1
    <3>2. Job(w) \in Requests /\ Doc(w) = Job(w) /\ jobStatus[Job(w)] # "unused"
      BY <1>1, <3>1
    <3>3. QED
      BY <3>1, <3>2 DEF AttemptOpen, JobAgrees, Doc
  <2>4. /\ docStatus'[Job(w)] \in {status, "deleted"}
        /\ \A x \in Requests \ {Job(w)} : docStatus'[x] = docStatus[x]
    BY <2>1, <2>3 DEF UpdateDoc, DocRow, TypeOK
  <2>5. JobAgrees'
    <3>1. PICK k \in Requests : k = Job(w)
      BY <2>3
    <3>2. /\ UNCHANGED <<jobStatus, jobDoc>> /\ jobDoc[k] = k
          /\ docStatus'[k] \in {status, "deleted"}
          /\ \A x \in Requests \ {k} : docStatus'[x] = docStatus[x]
          /\ jobStatus[k] \in Recoverable \cup {"deleted"}
      BY <1>0, <2>1, <2>3, <2>4, <3>1 DEF Doc
    <3>3. QED
      BY <2>2, <3>2 DEF JobAgrees, OwnJobs, Recoverable
  <2>6. ASSUME NEW v \in Workers, wpc'[v] \in {"completed", "fail_job"}
        PROVE  /\ Doc(v)' = Doc(v) /\ Doc(v) \in Requests
               /\ (v = w /\ wpc'[v] = then) \/ (Doc(v) # Job(w) /\ wpc'[v] = wpc[v])
    <3>1. wpc'[v] = IF v = w THEN then ELSE wpc[v]
      BY <2>1 DEF WGoto, TypeOK
    <3>2. Doc(v)' = Doc(v)
      BY <1>0, <2>1 DEF Doc, Job
    <3>3. wpc[w] \in Holding
      BY <2>1 DEF Holding
    <3>4. CASE v = w
      BY <2>3, <3>1, <3>2, <3>4
    <3>5. CASE v # w
      <4>1. wpc[v] \in Holding /\ wpc[v] # "idle" /\ wpc'[v] = wpc[v]
        BY <2>6, <3>1, <3>5 DEF Holding
      <4>2. QED
        BY <1>1, <1>2, <3>2, <3>3, <3>5, <4>1
    <3>6. QED
      BY <3>4, <3>5
  <2>7. VerdictFirst'
    <3>1. ASSUME NEW v \in Workers, wpc'[v] \in {"completed", "fail_job"}
          PROVE  \/ wpc'[v] = then /\ docStatus'[Doc(v)'] \in {status, "deleted"}
                 \/ wpc'[v] = wpc[v] /\ docStatus'[Doc(v)'] = docStatus[Doc(v)]
      BY <2>3, <2>4, <2>6, <3>1
    <3>2. QED
      BY <2>2, <3>1 DEF VerdictFirst
  <2>8. QED
    BY <2>5, <2>7
<1>7. CASE MarkJobCompleted(w) \/ MarkJobFailed(w)
  <2> DEFINE verdict == IF MarkJobCompleted(w) THEN "completed" ELSE "failed"
             then == IF MarkJobCompleted(w) THEN "unlink" ELSE "handler"
  <2>1. /\ wpc[w] = IF verdict = "completed" THEN "completed" ELSE "fail_job"
        /\ UNCHANGED <<wmsg, docStatus>>
        /\ UpdateJob(Job(w), verdict) /\ WGoto(w, then)
    BY <1>7 DEF MarkJobCompleted, MarkJobFailed, documents
  <2>2. verdict \in {"completed", "failed"} /\ then \notin {"completed", "fail_job"}
    OBVIOUS
  <2> HIDE DEF verdict, then
  <2>3. \A v \in Workers : wpc'[v] = IF v = w THEN then ELSE wpc[v]
    BY <2>1 DEF WGoto, TypeOK
  <2>4. VerdictFirst'
    BY <1>0, <2>1, <2>2, <2>3 DEF VerdictFirst, Doc, Job
  <2>5. /\ Job(w) \in Requests /\ jobDoc[Job(w)] = Job(w)
        /\ jobStatus[Job(w)] \in Recoverable \cup {"deleted"}
    <3>1. wpc[w] # "idle" /\ wpc[w] \in {"completed", "fail_job"}
      BY <2>1
    <3>2. QED
      BY <1>1, <3>1 DEF AttemptOpen, Doc
  <2>6. /\ jobStatus[Job(w)] = "deleted" => jobStatus'[Job(w)] = "deleted"
        /\ jobStatus[Job(w)] # "deleted" => jobStatus'[Job(w)] = verdict
        /\ \A j \in Requests \ {Job(w)} : jobStatus'[j] = jobStatus[j]
    BY <2>1, <2>5 DEF UpdateJob, JobRow, TypeOK, Recoverable
  <2>7. docStatus[Job(w)] = "deleted" => jobStatus[Job(w)] = "deleted"
    BY <2>5 DEF NoRowsWithoutDocument, JobsOf, JobRow, Recoverable
  <2>8. docStatus[Job(w)] \in {"deleted", IF verdict = "completed" THEN "ready" ELSE "failed"}
    BY <1>1, <2>1, <2>2 DEF VerdictFirst
  <2>9. JobAgrees'
    BY <1>0, <2>1, <2>2, <2>5, <2>6, <2>7, <2>8 DEF JobAgrees, Recoverable
  <2>10. QED
    BY <2>4, <2>9
<1>8. QED
  BY <1>4, <1>5, <1>6, <1>7 DEF WorkerNext, WorkerStep

LEMMA AgreeStep ==
  ASSUME TypeOK, PursuitInv, NoRowsWithoutDocument, FirstUploads, OwnJobs, AgreeInv,
         [Next]_vars
  PROVE  AgreeInv'
<1> USE DEF PursuitInv
<1>1. ASSUME NEW r \in Requests, UploadNext(r) PROVE AgreeInv'
  BY <1>1, AgreeUpload
<1>2. ASSUME NEW d \in Requests, DeleteNext(d) PROVE AgreeInv'
  <2>1. UNCHANGED <<upc, wpc, wmsg, jobDoc>>
    BY <1>2, DeleteFrame DEF wVars, uVars
  <2>2. CASE DeleteRows(d)
    <3>1. docStatus' = [docStatus EXCEPT ![d] = "deleted"]
          /\ jobStatus' = [j \in Requests |-> IF j \in JobsOf(d) THEN "deleted" ELSE jobStatus[j]]
      BY <2>2 DEF DeleteRows
    <3>2. VerdictFirst'
      <4>1. \A w \in Workers : wpc[w] # "idle" => Doc(w) \in Requests /\ Doc(w)' = Doc(w)
        BY <2>1 DEF CoreInv, ReferencesValid, HasJob, Doc, Job, Messages
      <4>2. \A e \in Requests : docStatus'[e] \in {docStatus[e], "deleted"}
        BY <3>1 DEF TypeOK
      <4>3. ASSUME NEW w \in Workers, wpc'[w] \in {"completed", "fail_job"}
            PROVE  docStatus'[Doc(w)'] \in {docStatus[Doc(w)], "deleted"} /\ wpc'[w] = wpc[w]
        BY <2>1, <4>1, <4>2, <4>3
      <4>4. QED
        BY <4>3 DEF AgreeInv, VerdictFirst
    <3>3. ASSUME NEW j \in Requests, jobStatus'[j] # "unused"
          PROVE  \/ docStatus'[jobDoc[j]] = "deleted" /\ jobStatus'[j] = "deleted"
                 \/ /\ docStatus'[jobDoc[j]] = docStatus[jobDoc[j]]
                    /\ jobStatus'[j] = jobStatus[j]
      <4>1. jobStatus[j] # "unused" /\ jobDoc[j] = j
        BY <3>1, <3>3 DEF JobsOf, JobRow, OwnJobs
      <4>2. QED
        BY <3>1, <4>1 DEF JobsOf, JobRow, TypeOK
    <3>4. JobAgrees'
      BY <2>1, <3>3 DEF JobAgrees, AgreeInv
    <3>5. QED
      BY <3>2, <3>4 DEF AgreeInv
  <2>3. CASE DeleteBegins(d) \/ DeleteVectors(d) \/ DeleteAborts(d)
    <3>1. UNCHANGED <<docStatus, jobStatus>>
      BY <2>3 DEF DeleteBegins, DeleteVectors, DeleteAborts, documents, jobs
    <3>2. QED
      BY <2>1, <3>1 DEF AgreeInv, VerdictFirst, JobAgrees, Doc, Job
  <2>4. QED
    BY <1>2, <2>2, <2>3 DEF DeleteNext, DeleteStep
<1>3. ASSUME NEW j \in Requests, LockExpires(j) PROVE AgreeInv'
  BY <1>3, ExpiryFrame DEF AgreeInv, VerdictFirst, JobAgrees, Doc, Job, wVars
<1>4. ASSUME NEW w \in Workers, WorkerNext(w) PROVE AgreeInv'
  BY <1>4, AgreeWorker DEF AgreeInv
<1>5. ASSUME SweepNext PROVE AgreeInv'
  <2>1. swpc = "idle" /\ UNCHANGED <<documents, jobDoc, wVars>>
    BY <1>5, SweepFrame DEF NoOutsideVerdict
  <2>2. UNCHANGED jobStatus
    BY <1>5, <2>1 DEF SweepNext, SweepStep, SweepLists, SweepFindsNoFile, SweepFindsFile,
       SweepMarksQueued, SweepSends, SweepMarksFailed, SweepDropsSpool, SweepEnds, SweepSendRaises,
       SweepAborts, jobs
  <2>3. QED
    BY <2>1, <2>2 DEF AgreeInv, VerdictFirst, JobAgrees, Doc, Job, wVars, documents
<1>6. ASSUME UNCHANGED vars PROVE AgreeInv'
  BY <1>6 DEF vars, documents, jobs, wVars, AgreeInv, VerdictFirst, JobAgrees, Doc, Job
<1>7. QED
  BY <1>1, <1>2, <1>3, <1>4, <1>5, <1>6 DEF Next, Rest

LEMMA AgreeInit == Init => AgreeInv
BY DEF Init, AgreeInv, VerdictFirst, JobAgrees

\* As long as no upload finds its content there already, a job that is completed has
\* a ready document and a job that failed a failed one, for any number of uploads,
\* workers, retries, crashes and deletions (ingestion/service.py:109-138). Nothing
\* else may write a verdict: no failed dispatch and no recovery script.
THEOREM FirstUploadsAgree ==
  ASSUME "send" \notin FaultSites, Sweeping = FALSE
  PROVE  Spec /\ []FirstUploads => []VerdictsAgree
<1>1. TypeOK /\ PursuitInv /\ NoRowsWithoutDocument /\ FirstUploads /\ OwnJobs /\ AgreeInv
        /\ [Next]_vars => AgreeInv'
  BY AgreeStep
<1>2. AgreeInv => VerdictsAgree
  BY DEF AgreeInv, JobAgrees, VerdictsAgree
<1>3. QED
  BY <1>1, <1>2, AgreeInit, JobsStayApart, TypeCorrect, PursuitInvariant, DeletedStaysDeleted, PTL
  DEF Spec

\* A single upload finds nothing, so its job and its document agree.
THEOREM OneUploadAgrees ==
  ASSUME "send" \notin FaultSites, Sweeping = FALSE, \A q, r \in Requests : q = r
  PROVE  Spec => []VerdictsAgree
BY OneUploadFirst, FirstUploadsAgree

=============================================================================
