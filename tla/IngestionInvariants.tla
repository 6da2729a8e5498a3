------------------------- MODULE IngestionInvariants -------------------------
(***************************************************************************)
(* The inductive invariant of Ingestion, in named parts.  IngestionProofs  *)
(* proves it; a run of TLC checks it on a small instance first.            *)
(***************************************************************************)
EXTENDS Ingestion

\* A job that was ever created has a document.
HasJob(j) == jobStatus[j] # "unused" /\ jobDoc[j] \in Requests

\* Whatever a message, a worker, a request or the script refers to exists or
\* existed.
ReferencesValid ==
    /\ \A j \in Requests : jobStatus[j] # "unused" => jobDoc[j] \in Requests
    /\ \A m \in Messages : queue[m] > 0 => HasJob(m.job)
    /\ \A w \in Workers : wpc[w] # "idle" => wmsg[w] \in Messages /\ HasJob(Job(w))
    /\ \A r \in Requests : upc[r] \notin {"new", "done"} => udoc[r] \in Requests
    /\ \A r \in Requests :
          upc[r] \notin {"new", "resolve", "done"} => ujob[r] \in Requests /\ HasJob(ujob[r])
    /\ \A d \in Requests : deleting[d] # "no" => docStatus[d] # "unused"
    /\ swpc \in {"mark", "send", "send_failed", "drop"} =>
          swjob \in Requests /\ HasJob(swjob)
    /\ \A j \in todo : HasJob(j)

\* The ids a request drew are not in use before its claim inserts them.
IdsAreFresh ==
    \A r \in Requests :
        /\ upc[r] = "new" => docStatus[r] = "unused" /\ content[r] = None
        /\ upc[r] \in {"new", "resolve"} => jobStatus[r] = "unused"

\* A worker past lock.acquire and before lock.release owns the lock.
LockOwned == \A w \in Workers : wpc[w] \in Holding => lock[Job(w)] = w

\* A job is only ever removed together with its document.
CascadeOnly ==
    \A j \in Requests : jobStatus[j] = "deleted" => docStatus[jobDoc[j]] = "deleted"

\* Between the two updates that begin and end an attempt, the job of a worker
\* is recoverable, unless it was deleted.
AttemptOpen ==
    \A w \in Workers :
        wpc[w] \in {"mark_doc", "insert", "list", "upsert", "ready", "completed",
                    "fail_doc", "fail_job"} =>
            jobStatus[Job(w)] \in Recoverable \cup {"deleted"}

\* From the insertion of its chunks on, the document of a worker has chunks,
\* unless it was deleted.
ChunksInserted ==
    \A w \in Workers :
        wpc[w] \in {"list", "upsert", "ready"} =>
            chunks[Doc(w)] # 0 \/ docStatus[Doc(w)] = "deleted"

CoreInv ==
    /\ ReferencesValid /\ IdsAreFresh /\ LockOwned /\ CascadeOnly
    /\ ChunksInserted /\ ReadyHasChunks

\* A worker that has written the verdict into the document is about to write
\* it into job j.
Finishing(j) == \E w \in Workers : wpc[w] \in {"completed", "fail_job"} /\ Job(w) = j

\* A document that is pending or processing has a job that can be picked up
\* and that no worker is about to finish.
Pursued ==
    \A d \in Requests : docStatus[d] \in {"pending", "processing"} =>
        \E j \in Requests :
            jobDoc[j] = d /\ jobStatus[j] \in Recoverable /\ ~Finishing(j)

\* Neither a failed dispatch nor the recovery script marks a job failed.
NoOutsideVerdict ==
    /\ \A r \in Requests : upc[r] \notin {"send_failed", "drop"}
    /\ swpc = "idle"

PursuitInv == CoreInv /\ AttemptOpen /\ Pursued /\ NoOutsideVerdict

------------------------------------------------------------------------------
\* Request r is on its way to send the message of the job it created.
Dispatching(r) ==
    \/ upc[r] \in {"promote", "mark", "send", "send_failed", "drop"}
    \/ upc[r] = "reread" /\ ~IsDuplicate(r)

\* While the script does not run, nobody else has that job in hands: it has no
\* message and no worker, and it is open until a failed dispatch ends it.
DispatchAlone ==
    /\ swpc = "idle"
    /\ \A r \in Requests :
        /\ upc[r] = "new" => usaw[r] = "unused"
        /\ Dispatching(r) =>
              /\ ujob[r] = r /\ jobDoc[r] = udoc[r] /\ docStatus[udoc[r]] # "unused"
              /\ \A m \in Messages : queue[m] > 0 => m.job # r
              /\ \A w \in Workers : wpc[w] # "idle" => Job(w) # r
              /\ jobStatus[r] \in
                    (IF upc[r] = "drop" THEN {"failed"} ELSE Recoverable) \cup {"deleted"}

\* The pcs between the check that a job is not completed and its verdict.
Attempting == {"read", "mark_job", "mark_doc", "insert", "list", "upsert", "ready",
               "completed", "fail_doc", "fail_job", "handler"}

\* A job in the middle of an attempt is not completed.
Uncompleted == \A w \in Workers : wpc[w] \in Attempting => jobStatus[Job(w)] # "completed"

------------------------------------------------------------------------------
\* A job is carried by its only message, by a worker that has not finished with
\* it, or by the request that created it.
CarriedBy(j) ==
    \/ \E m \in Messages : queue[m] > 0 /\ m.job = j
    \/ \E w \in Workers : wpc[w] \in Holding \ {"unlink", "release"} /\ Job(w) = j
    \/ Dispatching(j) /\ upc[j] # "drop"

\* There is at most one message of a job, and while there is one nobody works on
\* the job but the publisher of a retry that has still to release the lock.
OneMessage ==
    /\ \A m \in Messages : queue[m] \in {0, 1}
    /\ \A m, n \in Messages : queue[m] > 0 /\ queue[n] > 0 /\ m.job = n.job => m = n
    /\ \A m \in Messages, w \in Workers :
          queue[m] > 0 /\ wpc[w] \in Holding /\ Job(w) = m.job =>
              wpc[w] = "release" /\ m.retries > 0
    /\ \A w \in Workers : wpc[w] = "publish" => wmsg[w].retries < MaxRetries

\* A lock is held by a worker that is past lock.acquire with this job.
LockHeld ==
    \A j \in Requests : lock[j] # None =>
        lock[j] \in Workers /\ wpc[lock[j]] \in Holding /\ Job(lock[j]) = j

\* Whoever is going to need the file of a job finds it.
FileKept ==
    /\ \A m \in Messages : queue[m] > 0 => m.job \in spool
    /\ \A w \in Workers :
          wpc[w] \in Attempting \cup {"check", "publish"} => Job(w) \in spool
    /\ \A r \in Requests : upc[r] \in {"mark", "send", "send_failed", "drop"} => r \in spool

\* When the task gives up, a verdict was written.
VerdictWritten ==
    \A w \in Workers :
        wpc[w] \in {"handler", "unlink"} =>
            jobStatus[Job(w)] \in {"completed", "failed", "deleted"}

Carried == \A j \in Requests : jobStatus[j] \in Recoverable => CarriedBy(j)

CarriedInv ==
    /\ DispatchAlone /\ OneMessage /\ LockHeld /\ FileKept
    /\ AttemptOpen /\ VerdictWritten /\ Carried

\* A file whose job is settled is about to be removed by the worker that settled
\* the job or by the request that could not dispatch it.
FileOwned ==
    \A j \in spool :
        \/ jobStatus[j] \in Recoverable
        \/ \E w \in Workers : wpc[w] \in Holding \ {"release"} /\ Job(w) = j
        \/ upc[j] = "drop"

\* A system in which nothing is deleted.
NothingRemoved ==
    \A x \in Requests :
        docStatus[x] # "deleted" /\ jobStatus[x] # "deleted" /\ deleting[x] = "no"

\* A retry is published for a job that is open.
RetryOpen == \A w \in Workers : wpc[w] = "publish" => jobStatus[Job(w)] \in Recoverable

SpoolInv == CarriedInv /\ NothingRemoved /\ FileOwned /\ RetryOpen

------------------------------------------------------------------------------
\* The pcs from the begin of an attempt to its end in the document's row.
Replacing == {"insert", "list", "upsert", "ready"}

\* No two jobs of one document replace its chunks at the same time.  The lock
\* excludes two deliveries of one job, not two jobs of one document: the retry
\* of a failed job may meet the job of a new upload.
OneAttempt ==
    \A v, w \in Workers :
        wpc[v] \in Replacing /\ wpc[w] \in Replacing /\ Doc(v) = Doc(w) => v = w

\* A document is not served while its chunks are replaced.
Withdrawn == \A w \in Workers : wpc[w] \in Replacing => docStatus[Doc(w)] # "ready"

\* A row of documents has its content from the insertion on.
ContentKnown == \A d \in Requests : docStatus[d] = "unused" <=> content[d] = None

ServingInv == Withdrawn /\ ContentKnown

\* What a worker listed is what there is, and once it is upserted it is indexed.
ListedIndexed ==
    \A w \in Workers :
        /\ wpc[w] = "upsert" => wlist[w] = chunks[Doc(w)]
        /\ wpc[w] = "ready" => chunks[Doc(w)] \in vectors[Doc(w)]

IndexedInv == ServingInv /\ NothingRemoved /\ ListedIndexed /\ ReadyIndexed

------------------------------------------------------------------------------
\* The verdict in the document's row comes first, and job and document agree as
\* soon as the job has one.
VerdictFirst ==
    \A w \in Workers :
        /\ wpc[w] = "completed" => docStatus[Doc(w)] \in {"ready", "deleted"}
        /\ wpc[w] = "fail_job" => docStatus[Doc(w)] \in {"failed", "deleted"}

JobAgrees ==
    \A j \in Requests :
        /\ jobStatus[j] # "unused" => docStatus[jobDoc[j]] # "unused"
        /\ jobStatus[j] = "completed" => docStatus[jobDoc[j]] = "ready"
        /\ jobStatus[j] = "failed" => docStatus[jobDoc[j]] = "failed"

AgreeInv == VerdictFirst /\ JobAgrees

\* No upload finds a row of its content.
FirstUploads == \A r \in Requests : upc[r] # "resolve"

\* Then every job is the first and only one of its document.
OwnJobs == \A j \in Requests : jobStatus[j] # "unused" => jobDoc[j] = j

=============================================================================
