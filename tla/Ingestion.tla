------------------------------ MODULE Ingestion ------------------------------
(***************************************************************************)
(* The asynchronous ingestion path (TASK_QUEUE_BACKEND=celery):            *)
(*   - upload requests:  api/documents.py, ingestion/service.py (claim),   *)
(*     ingestion/upload_store.py, ingestion/dispatcher.py;                 *)
(*   - Celery workers:   ingestion/tasks.py, ingestion/service.py;         *)
(*   - delete requests:  api/documents.py;                                 *)
(*   - the recovery script scripts/requeue_stale_ingestion.py;             *)
(* over the tables documents, ingestion_jobs and chunks of                 *)
(* app/database.py, the Qdrant collection, the upload spool, the Celery    *)
(* queue and the per-job Valkey lock.                                      *)
(*                                                                         *)
(* Every database statement block, file operation, broker call, vector     *)
(* call and lock call is one step, so every interleaving between two of    *)
(* them, and a crash between two of them, is a behaviour of the model.     *)
(*                                                                         *)
(* A request r draws one document id and one job id (uuid4) when it        *)
(* claims, so r itself names the document and the job it may create.       *)
(* Requests are numbered in the order in which they claim (created_at).    *)
(***************************************************************************)
EXTENDS Integers, FiniteSets

CONSTANTS
    Requests,      \* upload requests, a set of numbers 1..n
    Contents,      \* file contents, told apart by their SHA-256 only
    BadContents,   \* contents the parser or the chunker rejects
    Workers,       \* Celery worker processes
    None,          \* no document, job, message or owner
    Ghost,         \* a lock whose owner died and whose TTL has not run out
    ApiProcesses,  \* how many uploads may be between claim and response
    MaxRetries,    \* CELERY_MAX_RETRIES
    TaskMaxRetries, \* Celery's own limit, max_retries of the task: 3 unless set
    Deleting,      \* are there delete requests?
    Sweeping,      \* does the operator run requeue_stale_ingestion.py?
    FaultSites,    \* which calls may raise: "db" "vector" "publish" "send"
    MaxFaults,     \* bound: how many calls raise
    MaxCrashes,    \* bound: how many processes die
    MaxBatches,    \* bound: how often one document's chunks are replaced
    QueueBound     \* bound: the script adds no copy of a job queued so often

ASSUME RequestsAssumption == Requests \subseteq Nat
ASSUME ContentsAssumption == BadContents \subseteq Contents /\ None \notin Contents
ASSUME OwnersAssumption == Ghost \notin Workers /\ None \notin Workers /\ Ghost # None
ASSUME NoneAssumption == None \notin Nat
ASSUME RetriesAssumption == MaxRetries \in Nat
ASSUME TaskRetriesAssumption == TaskMaxRetries \in Nat
ASSUME FlagsAssumption == Deleting \in BOOLEAN /\ Sweeping \in BOOLEAN

VARIABLES
    docStatus,  \* documents.status, by document id
    content,    \* documents.sha256 of the document a request claims
    jobStatus,  \* ingestion_jobs.status, by job id
    jobDoc,     \* ingestion_jobs.document_id
    chunks,     \* which batch of chunk rows a document has; 0: none
    vectors,    \* which of its batches have points in Qdrant
    spool,      \* the jobs with a file <job id>.upload in the spool
    queue,      \* copies of every message in the Celery queue
    lock,       \* owner of enterprise-rag:ingestion-lock:<job id>
    wpc,        \* where every worker is
    wmsg,       \* the message it is working on
    wlist,      \* the batch its list_document_chunks returned
    upc,        \* where every upload request is
    udoc,       \* the document it was given by claim_ingestion
    ujob,       \* the job it was given
    usaw,       \* the document status it read inside the claim
    ulist,      \* the batch it read for the healing upsert
    deleting,   \* where the delete request of every document is
    swpc,       \* where the recovery script is
    todo,       \* the stale jobs it listed and has still to visit
    swjob,      \* the job it is dispatching
    faults,     \* calls that raised so far
    crashes     \* processes that died so far

documents == <<docStatus, content>>
jobs == <<jobStatus, jobDoc>>
stores == <<chunks, vectors>>
wVars == <<wpc, wmsg, wlist>>
uVars == <<upc, udoc, ujob, usaw, ulist>>
sVars == <<swpc, todo, swjob>>
budgets == <<faults, crashes>>
vars == <<documents, jobs, stores, spool, queue, lock, wVars, uVars, deleting,
          sVars, budgets>>

------------------------------------------------------------------------------
DocStatuses == {"unused", "pending", "processing", "ready", "failed", "deleted"}
Recoverable == {"pending", "queued", "retrying", "processing"}
JobStatuses == Recoverable \cup {"unused", "completed", "failed", "deleted"}
Messages == [job : Requests, retries : 0..MaxRetries]

\* The pcs at which a worker owns the lock of its job.
Holding == {"check", "read", "mark_job", "mark_doc", "insert", "list", "upsert",
            "ready", "completed", "fail_doc", "fail_job", "handler", "publish",
            "unlink", "release"}
WorkerPcs == Holding \cup {"idle", "ack"}
UploadPcs == {"new", "resolve", "reread", "heal_list", "heal_upsert", "promote",
              "mark", "send", "send_failed", "drop", "done"}

\* The types of the tables, the stores and the control state; whoever writes a
\* status writes one the schema's readers know (app/database.py:102-128).
TypeOK ==
    /\ docStatus \in [Requests -> DocStatuses]
    /\ content \in [Requests -> Contents \cup {None}]
    /\ jobStatus \in [Requests -> JobStatuses]
    /\ jobDoc \in [Requests -> Requests \cup {None}]
    /\ chunks \in [Requests -> Nat]
    /\ vectors \in [Requests -> SUBSET (Nat \ {0})]
    /\ spool \subseteq Requests
    /\ queue \in [Messages -> Nat]
    /\ lock \in [Requests -> Workers \cup {None, Ghost}]
    /\ wpc \in [Workers -> WorkerPcs]
    /\ wmsg \in [Workers -> Messages \cup {None}]
    /\ wlist \in [Workers -> Nat]
    /\ upc \in [Requests -> UploadPcs]
    /\ udoc \in [Requests -> Requests \cup {None}]
    /\ ujob \in [Requests -> Requests \cup {None}]
    /\ usaw \in [Requests -> DocStatuses]
    /\ ulist \in [Requests -> Nat]
    /\ deleting \in [Requests -> {"no", "vectors", "rows"}]
    /\ swpc \in {"idle", "next", "mark", "send", "send_failed", "drop"}
    /\ todo \subseteq Requests
    /\ swjob \in Requests \cup {None}
    /\ faults \in Nat /\ crashes \in Nat

Init ==
    /\ docStatus = [r \in Requests |-> "unused"]
    /\ content = [r \in Requests |-> None]
    /\ jobStatus = [r \in Requests |-> "unused"]
    /\ jobDoc = [r \in Requests |-> None]
    /\ chunks = [r \in Requests |-> 0]
    /\ vectors = [r \in Requests |-> {}]
    /\ spool = {}
    /\ queue = [m \in Messages |-> 0]
    /\ lock = [r \in Requests |-> None]
    /\ wpc = [w \in Workers |-> "idle"]
    /\ wmsg = [w \in Workers |-> None]
    /\ wlist = [w \in Workers |-> 0]
    /\ upc = [r \in Requests |-> "new"]
    /\ udoc = [r \in Requests |-> None]
    /\ ujob = [r \in Requests |-> None]
    /\ usaw = [r \in Requests |-> "unused"]
    /\ ulist = [r \in Requests |-> 0]
    /\ deleting = [r \in Requests |-> "no"]
    /\ swpc = "idle" /\ todo = {} /\ swjob = None
    /\ faults = 0 /\ crashes = 0

------------------------------------------------------------------------------
(* Rows and messages *)

DocRow(d) == docStatus[d] \notin {"unused", "deleted"}
JobRow(j) == jobStatus[j] \notin {"unused", "deleted"}

\* Slip: an UPDATE written as an upsert brings a deleted row back.
UpsertDoc(d, status) == docStatus' = [docStatus EXCEPT ![d] = status]

\* An UPDATE of a row that is gone changes nothing and raises nothing.
UpdateDoc(d, status) ==
    docStatus' = [docStatus EXCEPT ![d] = IF DocRow(d) THEN status ELSE @]
UpdateJob(j, status) ==
    jobStatus' = [jobStatus EXCEPT ![j] = IF JobRow(j) THEN status ELSE @]

InsertJob(j, d, status) ==
    /\ jobStatus' = [jobStatus EXCEPT ![j] = status]
    /\ jobDoc' = [jobDoc EXCEPT ![j] = d]

JobsOf(d) == {j \in Requests : JobRow(j) /\ jobDoc[j] = d}

\* ORDER BY created_at DESC LIMIT 1, as a set of at most one job.
LatestJobs(d) == {j \in JobsOf(d) : \A k \in JobsOf(d) : k <= j}

Message(j, n) == [job |-> j, retries |-> n]
Send(m) == queue' = [queue EXCEPT ![m] = @ + 1]
Take(m) == queue' = [queue EXCEPT ![m] = @ - 1]

\* upsert(chunks) of an empty list returns at once.
Upsert(d, batch) ==
    vectors' = [vectors EXCEPT ![d] = IF batch = 0 THEN @ ELSE @ \cup {batch}]

------------------------------------------------------------------------------
(* Upload requests *)

UGoto(r, pc) == upc' = [upc EXCEPT ![r] = pc]
InFlight == {r \in Requests : upc[r] \notin {"new", "done"}}

\* Request r, with content c, enters claim_ingestion.
Arrives(r, c) ==
    /\ upc[r] = "new"
    /\ \A q \in Requests : q < r => upc[q] # "new"
    /\ Cardinality(InFlight) < ApiProcesses

OwnerOf(c) == {d \in Requests : DocRow(d) /\ content[d] = c}

\* INSERT ... ON CONFLICT (tenant_id, sha256) DO NOTHING inserts the row: the
\* pending job is inserted in the same transaction.
ClaimNew(r, c) ==
    /\ Arrives(r, c)
    /\ OwnerOf(c) = {}
    /\ content' = [content EXCEPT ![r] = c]
    /\ docStatus' = [docStatus EXCEPT ![r] = "pending"]
    /\ InsertJob(r, r, "pending")
    /\ udoc' = [udoc EXCEPT ![r] = r]
    /\ ujob' = [ujob EXCEPT ![r] = r]
    /\ UGoto(r, "reread")
    /\ UNCHANGED <<stores, spool, queue, lock, wVars, usaw, ulist, deleting,
                   sVars, budgets>>

\* The insert hits the unique index: the transaction reads the row's status.
ClaimExisting(r, c) ==
    /\ Arrives(r, c)
    /\ \E d \in OwnerOf(c) :
          /\ udoc' = [udoc EXCEPT ![r] = d]
          /\ usaw' = [usaw EXCEPT ![r] = docStatus[d]]
    /\ UGoto(r, "resolve")
    /\ UNCHANGED <<documents, jobs, stores, spool, queue, lock, wVars, ujob,
                   ulist, deleting, sVars, budgets>>

\* The rest of that transaction, after reading pending or processing, when the
\* document has a job: reuse its latest one.
ReuseJob(r) ==
    /\ upc[r] = "resolve"
    /\ usaw[r] \in {"pending", "processing"}
    /\ \E j \in LatestJobs(udoc[r]) : ujob' = [ujob EXCEPT ![r] = j]
    /\ UGoto(r, "reread")
    /\ UNCHANGED <<documents, jobs, stores, spool, queue, lock, wVars, udoc,
                   usaw, ulist, deleting, sVars, budgets>>

\* After reading ready: the request gets a completed job of its own.
RecordDuplicate(r) ==
    /\ upc[r] = "resolve"
    /\ usaw[r] = "ready"
    /\ DocRow(udoc[r])
    /\ InsertJob(r, udoc[r], "completed")
    /\ ujob' = [ujob EXCEPT ![r] = r]
    /\ UGoto(r, "reread")
    /\ UNCHANGED <<documents, stores, spool, queue, lock, wVars, udoc, usaw,
                   ulist, deleting, sVars, budgets>>

\* Slip: the failed document becomes pending again with its failed job.
ReingestReusing(r) ==
    /\ upc[r] = "resolve"
    /\ usaw[r] = "failed"
    /\ DocRow(udoc[r])
    /\ UpdateDoc(udoc[r], "pending")
    /\ \E j \in LatestJobs(udoc[r]) : ujob' = [ujob EXCEPT ![r] = j]
    /\ UGoto(r, "reread")
    /\ UNCHANGED <<content, jobs, stores, spool, queue, lock, wVars, udoc, usaw,
                   ulist, deleting, sVars, budgets>>

\* After reading failed: the document becomes pending again with a new job.
Reingest(r) ==
    /\ upc[r] = "resolve"
    /\ usaw[r] = "failed"
    /\ DocRow(udoc[r])
    /\ UpdateDoc(udoc[r], "pending")
    /\ InsertJob(r, udoc[r], "pending")
    /\ ujob' = [ujob EXCEPT ![r] = r]
    /\ UGoto(r, "reread")
    /\ UNCHANGED <<content, stores, spool, queue, lock, wVars, udoc, usaw,
                   ulist, deleting, sVars, budgets>>

\* The document was deleted since the status was read: the foreign key (or,
\* when the job is to be reused, its insertion for want of a job) rejects the
\* transaction and the temporary file is removed.
ClaimRejected(r) ==
    /\ upc[r] = "resolve"
    /\ ~DocRow(udoc[r])
    /\ UGoto(r, "done")
    /\ UNCHANGED <<documents, jobs, stores, spool, queue, lock, wVars, udoc,
                   ujob, usaw, ulist, deleting, sVars, budgets>>

\* claim_ingestion ends with get_document and get_job, outside the transaction;
\* a missing row raises KeyError. A duplicate of a ready document is healed,
\* any other duplicate is answered, a new job is dispatched.
IsDuplicate(r) == usaw[r] \in {"pending", "processing", "ready"}
NeedsHealing(r) == IsDuplicate(r) /\ docStatus[udoc[r]] = "ready"

Reread(r) ==
    /\ upc[r] = "reread"
    /\ \/ DocRow(udoc[r]) /\ ~IsDuplicate(r) /\ UGoto(r, "promote")
       \/ NeedsHealing(r) /\ UGoto(r, "heal_list")
       \/ ~DocRow(udoc[r]) /\ UGoto(r, "done")
       \/ DocRow(udoc[r]) /\ IsDuplicate(r) /\ ~NeedsHealing(r) /\ UGoto(r, "done")
    /\ UNCHANGED <<documents, jobs, stores, spool, queue, lock, wVars, udoc,
                   ujob, usaw, ulist, deleting, sVars, budgets>>

HealList(r) ==
    /\ upc[r] = "heal_list"
    /\ ulist' = [ulist EXCEPT ![r] = chunks[udoc[r]]]
    /\ UGoto(r, "heal_upsert")
    /\ UNCHANGED <<documents, jobs, stores, spool, queue, lock, wVars, udoc,
                   ujob, usaw, deleting, sVars, budgets>>

HealUpsert(r) ==
    /\ upc[r] = "heal_upsert"
    /\ Upsert(udoc[r], ulist[r])
    /\ UGoto(r, "done")
    /\ UNCHANGED <<documents, jobs, chunks, spool, queue, lock, wVars, udoc,
                   ujob, usaw, ulist, deleting, sVars, budgets>>

\* The temporary file becomes <job id>.upload.
Promote(r) ==
    /\ upc[r] = "promote"
    /\ spool' = spool \cup {ujob[r]}
    /\ UGoto(r, "mark")
    /\ UNCHANGED <<documents, jobs, stores, queue, lock, wVars, udoc, ujob,
                   usaw, ulist, deleting, sVars, budgets>>

MarkQueued(r) ==
    /\ upc[r] = "mark"
    /\ UpdateJob(ujob[r], "queued")
    /\ UGoto(r, "send")
    /\ UNCHANGED <<documents, jobDoc, stores, spool, queue, lock, wVars, udoc,
                   ujob, usaw, ulist, deleting, sVars, budgets>>

SendTask(r) ==
    /\ upc[r] = "send"
    /\ Send(Message(ujob[r], 0))
    /\ UGoto(r, "done")
    /\ UNCHANGED <<documents, jobs, stores, spool, lock, wVars, udoc, ujob,
                   usaw, ulist, deleting, sVars, budgets>>

\* send_task raises: the job is failed, then the spool file is removed, and
\* the request ends with 503.
SendRaises(r) ==
    /\ upc[r] = "send"
    /\ "send" \in FaultSites /\ faults < MaxFaults
    /\ faults' = faults + 1
    /\ UGoto(r, "send_failed")
    /\ UNCHANGED <<documents, jobs, stores, spool, queue, lock, wVars, udoc,
                   ujob, usaw, ulist, deleting, sVars, crashes>>

MarkDispatchFailed(r) ==
    /\ upc[r] = "send_failed"
    /\ UpdateJob(ujob[r], "failed")
    /\ UGoto(r, "drop")
    /\ UNCHANGED <<documents, jobDoc, stores, spool, queue, lock, wVars, udoc,
                   ujob, usaw, ulist, deleting, sVars, budgets>>

DropSpool(r) ==
    /\ upc[r] = "drop"
    /\ spool' = spool \ {ujob[r]}
    /\ UGoto(r, "done")
    /\ UNCHANGED <<documents, jobs, stores, queue, lock, wVars, udoc, ujob,
                   usaw, ulist, deleting, sVars, budgets>>

\* The API process dies, or a database or vector call of the request raises
\* and the request ends with 500: what it did so far stays.
RequestAborts(r) ==
    /\ r \in InFlight
    /\ crashes < MaxCrashes
    /\ crashes' = crashes + 1
    /\ UGoto(r, "done")
    /\ UNCHANGED <<documents, jobs, stores, spool, queue, lock, wVars, udoc,
                   ujob, usaw, ulist, deleting, sVars, faults>>

RequestStep(r) ==
    \/ ReuseJob(r) \/ RecordDuplicate(r) \/ Reingest(r) \/ ClaimRejected(r)
    \/ Reread(r) \/ HealList(r) \/ HealUpsert(r)
    \/ Promote(r) \/ MarkQueued(r) \/ SendTask(r)
    \/ MarkDispatchFailed(r) \/ DropSpool(r)

------------------------------------------------------------------------------
(* Celery workers *)

WGoto(w, pc) == wpc' = [wpc EXCEPT ![w] = pc]
Job(w) == wmsg[w].job
Doc(w) == jobDoc[Job(w)]

\* A retry is published with a countdown of at least two seconds, after which
\* its publisher, if it lives, has long released the lock.
Deliverable(m) ==
    /\ queue[m] > 0
    /\ \A w \in Workers : wpc[w] = "release" => m.retries = 0 \/ Job(w) # m.job

------------------------------------------------------------------------------
(* Slips of the worker's code. They are no actions of the system: the       *)
(* properties are tested against each of them in the place of its original.  *)

\* The lock is not consulted.
StartUnlocked(w, m) ==
    /\ wpc[w] = "idle"
    /\ Deliverable(m)
    /\ Take(m)
    /\ lock' = [lock EXCEPT ![m.job] = w]
    /\ wmsg' = [wmsg EXCEPT ![w] = m]
    /\ WGoto(w, "check")
    /\ UNCHANGED <<documents, jobs, stores, spool, wlist, uVars, deleting,
                   sVars, budgets>>

\* A step of worker w that does nothing but move on.
Skips(w, from, to) ==
    /\ wpc[w] = from
    /\ WGoto(w, to)
    /\ UNCHANGED <<documents, jobs, stores, spool, queue, lock, wmsg, wlist,
                   uVars, deleting, sVars, budgets>>

CheckJobRunsCompleted(w) == Skips(w, "check", IF JobRow(Job(w)) THEN "read" ELSE "release")
MarkDocProcessingForgotten(w) == Skips(w, "mark_doc", "insert")
MarkDocFailedForgotten(w) == Skips(w, "fail_doc", "fail_job")
GiveUpKeepsFile(w) == Skips(w, "handler", "release") /\ wmsg[w].retries = MaxRetries

\* Chunks are inserted for a document that is gone.
InsertChunksOrphaned(w) ==
    /\ wpc[w] = "insert"
    /\ content[Doc(w)] \notin BadContents
    /\ chunks[Doc(w)] < MaxBatches
    /\ chunks' = [chunks EXCEPT ![Doc(w)] = @ + 1]
    /\ WGoto(w, "list")
    /\ UNCHANGED <<documents, jobs, vectors, spool, queue, lock, wmsg, wlist,
                   uVars, deleting, sVars, budgets>>

\* Celery's name of the state instead of the table's.
MarkRetryingMisnamed(w) ==
    /\ wpc[w] = "handler"
    /\ wmsg[w].retries < MaxRetries
    /\ UpdateJob(Job(w), "retry")
    /\ WGoto(w, "publish")
    /\ UNCHANGED <<documents, jobDoc, stores, spool, queue, lock, wmsg, wlist,
                   uVars, deleting, sVars, budgets>>

\* The file is removed before the retry that is going to read it.
MarkRetryingDropsFile(w) ==
    /\ wpc[w] = "handler"
    /\ wmsg[w].retries < MaxRetries
    /\ UpdateJob(Job(w), "retrying")
    /\ spool' = spool \ {Job(w)}
    /\ WGoto(w, "publish")
    /\ UNCHANGED <<documents, jobDoc, stores, queue, lock, wmsg, wlist, uVars,
                   deleting, sVars, budgets>>

\* The last retry is not published.
PublishRetryOffByOne(w) ==
    /\ wpc[w] = "publish"
    /\ wmsg[w].retries < TaskMaxRetries
    /\ IF wmsg[w].retries + 1 < MaxRetries
          THEN Send(Message(Job(w), wmsg[w].retries + 1))
          ELSE UNCHANGED queue
    /\ WGoto(w, "release")
    /\ UNCHANGED <<documents, jobs, stores, spool, lock, wmsg, wlist, uVars,
                   deleting, sVars, budgets>>

------------------------------------------------------------------------------
\* A free worker takes a message and gets the lock of its job.
Start(w, m) ==
    /\ wpc[w] = "idle"
    /\ Deliverable(m)
    /\ lock[m.job] = None
    /\ Take(m)
    /\ lock' = [lock EXCEPT ![m.job] = w]
    /\ wmsg' = [wmsg EXCEPT ![w] = m]
    /\ WGoto(w, "check")
    /\ UNCHANGED <<documents, jobs, stores, spool, wlist, uVars, deleting,
                   sVars, budgets>>

\* The lock is taken, by a live worker or by a dead one: the task returns 0,
\* and with that the message is acknowledged.
DropDelivery(w, m) ==
    /\ wpc[w] = "idle"
    /\ Deliverable(m)
    /\ lock[m.job] # None
    /\ Take(m)
    /\ UNCHANGED <<documents, jobs, stores, spool, lock, wVars, uVars, deleting,
                   sVars, budgets>>

\* get_job: KeyError when the row is gone, nothing to do when it is completed.
CheckJob(w) ==
    /\ wpc[w] = "check"
    /\ \/ ~JobRow(Job(w)) /\ WGoto(w, "release")
       \/ jobStatus[Job(w)] = "completed" /\ WGoto(w, "unlink")
       \/ JobRow(Job(w)) /\ jobStatus[Job(w)] # "completed" /\ WGoto(w, "read")
    /\ UNCHANGED <<documents, jobs, stores, spool, queue, lock, wmsg, wlist,
                   uVars, deleting, sVars, budgets>>

\* process_file reads the file before process touches any status.
ReadSpool(w) ==
    /\ wpc[w] = "read"
    /\ WGoto(w, IF Job(w) \in spool THEN "mark_job" ELSE "handler")
    /\ UNCHANGED <<documents, jobs, stores, spool, queue, lock, wmsg, wlist,
                   uVars, deleting, sVars, budgets>>

MarkJobProcessing(w) ==
    /\ wpc[w] = "mark_job"
    /\ UpdateJob(Job(w), "processing")
    /\ WGoto(w, "mark_doc")
    /\ UNCHANGED <<documents, jobDoc, stores, spool, queue, lock, wmsg, wlist,
                   uVars, deleting, sVars, budgets>>

MarkDocProcessing(w) ==
    /\ wpc[w] = "mark_doc"
    /\ UpdateDoc(Doc(w), "processing")
    /\ WGoto(w, "insert")
    /\ UNCHANGED <<content, jobs, stores, spool, queue, lock, wmsg, wlist,
                   uVars, deleting, sVars, budgets>>

\* Parsing and chunking succeed, and the document's row is there: DELETE, then
\* INSERTs of rows with new ids, in one transaction.  The number stands for the
\* rows there are after it: two such transactions that overlap under READ
\* COMMITTED leave the rows of both, which are a new number as well.
InsertChunks(w) ==
    /\ wpc[w] = "insert"
    /\ content[Doc(w)] \notin BadContents
    /\ DocRow(Doc(w))
    /\ chunks[Doc(w)] < MaxBatches
    /\ chunks' = [chunks EXCEPT ![Doc(w)] = @ + 1]
    /\ WGoto(w, "list")
    /\ UNCHANGED <<documents, jobs, vectors, spool, queue, lock, wmsg, wlist,
                   uVars, deleting, sVars, budgets>>

\* The parser, the chunker, get_document or the foreign key raises.
InsertRejected(w) ==
    /\ wpc[w] = "insert"
    /\ content[Doc(w)] \in BadContents \/ ~DocRow(Doc(w))
    /\ WGoto(w, "fail_doc")
    /\ UNCHANGED <<documents, jobs, stores, spool, queue, lock, wmsg, wlist,
                   uVars, deleting, sVars, budgets>>

ListChunks(w) ==
    /\ wpc[w] = "list"
    /\ wlist' = [wlist EXCEPT ![w] = chunks[Doc(w)]]
    /\ WGoto(w, "upsert")
    /\ UNCHANGED <<documents, jobs, stores, spool, queue, lock, wmsg, uVars,
                   deleting, sVars, budgets>>

UpsertVectors(w) ==
    /\ wpc[w] = "upsert"
    /\ Upsert(Doc(w), wlist[w])
    /\ WGoto(w, "ready")
    /\ UNCHANGED <<documents, jobs, chunks, spool, queue, lock, wmsg, wlist,
                   uVars, deleting, sVars, budgets>>

MarkDocReady(w) ==
    /\ wpc[w] = "ready"
    /\ UpdateDoc(Doc(w), "ready")
    /\ WGoto(w, "completed")
    /\ UNCHANGED <<content, jobs, stores, spool, queue, lock, wmsg, wlist,
                   uVars, deleting, sVars, budgets>>

MarkJobCompleted(w) ==
    /\ wpc[w] = "completed"
    /\ UpdateJob(Job(w), "completed")
    /\ WGoto(w, "unlink")
    /\ UNCHANGED <<documents, jobDoc, stores, spool, queue, lock, wmsg, wlist,
                   uVars, deleting, sVars, budgets>>

\* The except clause of process.
MarkDocFailed(w) ==
    /\ wpc[w] = "fail_doc"
    /\ UpdateDoc(Doc(w), "failed")
    /\ WGoto(w, "fail_job")
    /\ UNCHANGED <<content, jobs, stores, spool, queue, lock, wmsg, wlist,
                   uVars, deleting, sVars, budgets>>

MarkJobFailed(w) ==
    /\ wpc[w] = "fail_job"
    /\ UpdateJob(Job(w), "failed")
    /\ WGoto(w, "handler")
    /\ UNCHANGED <<documents, jobDoc, stores, spool, queue, lock, wmsg, wlist,
                   uVars, deleting, sVars, budgets>>

\* The except clause of the task: retry, or give up and remove the file.
MarkRetrying(w) ==
    /\ wpc[w] = "handler"
    /\ wmsg[w].retries < MaxRetries
    /\ UpdateJob(Job(w), "retrying")
    /\ WGoto(w, "publish")
    /\ UNCHANGED <<documents, jobDoc, stores, spool, queue, lock, wmsg, wlist,
                   uVars, deleting, sVars, budgets>>

GiveUp(w) ==
    /\ wpc[w] = "handler"
    /\ wmsg[w].retries = MaxRetries
    /\ WGoto(w, "unlink")
    /\ UNCHANGED <<documents, jobs, stores, spool, queue, lock, wmsg, wlist,
                   uVars, deleting, sVars, budgets>>

PublishRetry(w) ==
    /\ wpc[w] = "publish"
    /\ wmsg[w].retries < TaskMaxRetries
    /\ Send(Message(Job(w), wmsg[w].retries + 1))
    /\ WGoto(w, "release")
    /\ UNCHANGED <<documents, jobs, stores, spool, lock, wmsg, wlist, uVars,
                   deleting, sVars, budgets>>

\* The task does not set max_retries: self.retry raises instead of publishing
\* when Celery's limit is reached, although the job is marked retrying.
RetryRefused(w) ==
    /\ wpc[w] = "publish"
    /\ wmsg[w].retries >= TaskMaxRetries
    /\ WGoto(w, "release")
    /\ UNCHANGED <<documents, jobs, stores, spool, queue, lock, wmsg, wlist,
                   uVars, deleting, sVars, budgets>>

UnlinkSpool(w) ==
    /\ wpc[w] = "unlink"
    /\ spool' = spool \ {Job(w)}
    /\ WGoto(w, "release")
    /\ UNCHANGED <<documents, jobs, stores, queue, lock, wmsg, wlist, uVars,
                   deleting, sVars, budgets>>

ReleaseLock(w) ==
    /\ wpc[w] = "release"
    /\ lock' = [lock EXCEPT ![Job(w)] = None]
    /\ WGoto(w, "ack")
    /\ UNCHANGED <<documents, jobs, stores, spool, queue, wmsg, wlist, uVars,
                   deleting, sVars, budgets>>

\* acks_late: the message leaves the queue only now.
Acknowledge(w) ==
    /\ wpc[w] = "ack"
    /\ wmsg' = [wmsg EXCEPT ![w] = None]
    /\ wlist' = [wlist EXCEPT ![w] = 0]
    /\ WGoto(w, "idle")
    /\ UNCHANGED <<documents, jobs, stores, spool, queue, lock, uVars, deleting,
                   sVars, budgets>>

WorkerStep(w) ==
    \/ CheckJob(w) \/ ReadSpool(w) \/ MarkJobProcessing(w) \/ MarkDocProcessing(w)
    \/ InsertChunks(w) \/ InsertRejected(w) \/ ListChunks(w) \/ UpsertVectors(w)
    \/ MarkDocReady(w) \/ MarkJobCompleted(w) \/ MarkDocFailed(w)
    \/ MarkJobFailed(w) \/ MarkRetrying(w) \/ GiveUp(w) \/ PublishRetry(w)
    \/ RetryRefused(w) \/ UnlinkSpool(w) \/ ReleaseLock(w) \/ Acknowledge(w)

\* A call of the task raises: which except or finally clause takes over depends
\* on where. A failed publish of the retry rejects the message.
Raises(w, site, from, to) ==
    /\ site \in FaultSites /\ faults < MaxFaults
    /\ wpc[w] \in from
    /\ faults' = faults + 1
    /\ WGoto(w, to)
    /\ UNCHANGED <<documents, jobs, stores, spool, queue, lock, wmsg, wlist,
                   uVars, deleting, sVars, crashes>>

\* Slip: a failure of the vector index is swallowed.
StepRaisesSwallowed(w) ==
    \/ Raises(w, "db", {"insert", "list", "ready", "completed"}, "fail_doc")
    \/ Raises(w, "db", {"mark_job", "mark_doc", "fail_doc", "fail_job"}, "handler")
    \/ Raises(w, "db", {"check", "handler"}, "release")
    \/ Raises(w, "vector", {"upsert"}, "ready")
    \/ Raises(w, "publish", {"publish"}, "release")

StepRaises(w) ==
    \/ Raises(w, "db", {"insert", "list", "ready", "completed"}, "fail_doc")
    \/ Raises(w, "db", {"mark_job", "mark_doc", "fail_doc", "fail_job"}, "handler")
    \/ Raises(w, "db", {"check", "handler"}, "release")
    \/ Raises(w, "vector", {"upsert"}, "fail_doc")
    \/ Raises(w, "publish", {"publish"}, "release")

\* The worker stops where it is. Its lock stays until the TTL runs out.
Abandon(w) ==
    /\ crashes < MaxCrashes
    /\ crashes' = crashes + 1
    /\ lock' = [j \in Requests |-> IF lock[j] = w THEN Ghost ELSE lock[j]]
    /\ wmsg' = [wmsg EXCEPT ![w] = None]
    /\ wlist' = [wlist EXCEPT ![w] = 0]
    /\ WGoto(w, "idle")
    /\ UNCHANGED <<documents, jobs, stores, spool, uVars, deleting, sVars, faults>>

\* A worker process dies: the message was not acknowledged, so it is
\* delivered again (reject_on_worker_lost, or the visibility timeout).
WorkerDies(w) ==
    /\ wpc[w] # "idle"
    /\ Send(wmsg[w])
    /\ Abandon(w)

\* The hard time limit kills the process and acknowledges the message.
TimeLimitKills(w) ==
    /\ wpc[w] \in Holding
    /\ UNCHANGED queue
    /\ Abandon(w)

\* Slip: the TTL is shorter than a task may run.
LockExpiresEarly(j) ==
    /\ lock[j] # None
    /\ lock' = [lock EXCEPT ![j] = None]
    /\ UNCHANGED <<documents, jobs, stores, spool, queue, wVars, uVars, deleting,
                   sVars, budgets>>

\* The lock's TTL exceeds the hard time limit, so it never runs out on a
\* live worker.
LockExpires(j) ==
    /\ lock[j] = Ghost
    /\ lock' = [lock EXCEPT ![j] = None]
    /\ UNCHANGED <<documents, jobs, stores, spool, queue, wVars, uVars, deleting,
                   sVars, budgets>>

------------------------------------------------------------------------------
(* Delete requests: points first, rows second *)

DGoto(d, pc) == deleting' = [deleting EXCEPT ![d] = pc]

DeleteBegins(d) ==
    /\ Deleting
    /\ deleting[d] = "no" /\ DocRow(d)
    /\ DGoto(d, "vectors")
    /\ UNCHANGED <<documents, jobs, stores, spool, queue, lock, wVars, uVars,
                   sVars, budgets>>

DeleteVectors(d) ==
    /\ deleting[d] = "vectors"
    /\ vectors' = [vectors EXCEPT ![d] = {}]
    /\ DGoto(d, "rows")
    /\ UNCHANGED <<documents, jobs, chunks, spool, queue, lock, wVars, uVars,
                   sVars, budgets>>

\* DELETE FROM documents: chunks and jobs go with it (ON DELETE CASCADE).
DeleteRows(d) ==
    /\ deleting[d] = "rows"
    /\ docStatus' = [docStatus EXCEPT ![d] = "deleted"]
    /\ jobStatus' = [j \in Requests |->
                        IF j \in JobsOf(d) THEN "deleted" ELSE jobStatus[j]]
    /\ chunks' = [chunks EXCEPT ![d] = 0]
    /\ DGoto(d, "no")
    /\ UNCHANGED <<content, jobDoc, vectors, spool, queue, lock, wVars, uVars,
                   sVars, budgets>>

\* A call of the request raises or its process dies.
DeleteAborts(d) ==
    /\ deleting[d] # "no"
    /\ crashes < MaxCrashes
    /\ crashes' = crashes + 1
    /\ DGoto(d, "no")
    /\ UNCHANGED <<documents, jobs, stores, spool, queue, lock, wVars, uVars,
                   sVars, faults>>

DeleteStep(d) == DeleteVectors(d) \/ DeleteRows(d)

------------------------------------------------------------------------------
(* The recovery script *)

\* The pcs at which a live worker has itself updated its job: the update is
\* younger than the hard time limit, and so than the script's threshold.
Touched == {"mark_doc", "insert", "list", "upsert", "ready", "completed",
            "fail_doc", "publish"}

\* updated_at < cutoff. Requests take far less than the threshold; a job may
\* wait in the queue for longer.
Stale(j) ==
    /\ jobStatus[j] \in Recoverable
    /\ \A w \in Workers : wpc[w] \in Touched => Job(w) # j
    /\ \A r \in InFlight : ujob[r] # j

SweepLists ==
    /\ Sweeping
    /\ swpc = "idle"
    /\ todo' = {j \in Requests : Stale(j) /\ queue[Message(j, 0)] < QueueBound}
    /\ todo' # {}
    /\ swpc' = "next"
    /\ UNCHANGED <<documents, jobs, stores, spool, queue, lock, wVars, uVars,
                   deleting, swjob, budgets>>

\* Slip: a job without a file is skipped.
SweepSkipsNoFile(j) ==
    /\ swpc = "next" /\ j \in todo /\ j \notin spool
    /\ todo' = todo \ {j}
    /\ UNCHANGED <<documents, jobs, stores, spool, queue, lock, wVars, uVars,
                   deleting, swpc, swjob, budgets>>

\* path.is_file() is false.
SweepFindsNoFile(j) ==
    /\ swpc = "next" /\ j \in todo /\ j \notin spool
    /\ UpdateJob(j, "failed")
    /\ todo' = todo \ {j}
    /\ UNCHANGED <<documents, jobDoc, stores, spool, queue, lock, wVars, uVars,
                   deleting, swpc, swjob, budgets>>

SweepFindsFile(j) ==
    /\ swpc = "next" /\ j \in todo /\ j \in spool
    /\ todo' = todo \ {j}
    /\ swjob' = j
    /\ swpc' = "mark"
    /\ UNCHANGED <<documents, jobs, stores, spool, queue, lock, wVars, uVars,
                   deleting, budgets>>

SweepMarksQueued ==
    /\ swpc = "mark"
    /\ UpdateJob(swjob, "queued")
    /\ swpc' = "send"
    /\ UNCHANGED <<documents, jobDoc, stores, spool, queue, lock, wVars, uVars,
                   deleting, todo, swjob, budgets>>

SweepSends ==
    /\ swpc = "send"
    /\ Send(Message(swjob, 0))
    /\ swpc' = "next"
    /\ swjob' = None
    /\ UNCHANGED <<documents, jobs, stores, spool, lock, wVars, uVars, deleting,
                   todo, budgets>>

SweepSendRaises ==
    /\ swpc = "send"
    /\ "send" \in FaultSites /\ faults < MaxFaults
    /\ faults' = faults + 1
    /\ swpc' = "send_failed"
    /\ UNCHANGED <<documents, jobs, stores, spool, queue, lock, wVars, uVars,
                   deleting, todo, swjob, crashes>>

SweepMarksFailed ==
    /\ swpc = "send_failed"
    /\ UpdateJob(swjob, "failed")
    /\ swpc' = "drop"
    /\ UNCHANGED <<documents, jobDoc, stores, spool, queue, lock, wVars, uVars,
                   deleting, todo, swjob, budgets>>

\* dispatch removes the file and raises, which ends the script.
SweepDropsSpool ==
    /\ swpc = "drop"
    /\ spool' = spool \ {swjob}
    /\ swpc' = "idle" /\ todo' = {} /\ swjob' = None
    /\ UNCHANGED <<documents, jobs, stores, queue, lock, wVars, uVars, deleting,
                   budgets>>

SweepEnds ==
    /\ swpc = "next" /\ todo = {}
    /\ swpc' = "idle"
    /\ UNCHANGED <<documents, jobs, stores, spool, queue, lock, wVars, uVars,
                   deleting, todo, swjob, budgets>>

\* The script is interrupted or one of its database calls raises.
SweepAborts ==
    /\ swpc # "idle"
    /\ crashes < MaxCrashes
    /\ crashes' = crashes + 1
    /\ swpc' = "idle" /\ todo' = {} /\ swjob' = None
    /\ UNCHANGED <<documents, jobs, stores, spool, queue, lock, wVars, uVars,
                   deleting, faults>>

SweepStep ==
    \/ SweepLists
    \/ \E j \in Requests : SweepFindsNoFile(j) \/ SweepFindsFile(j)
    \/ SweepMarksQueued \/ SweepSends
    \/ SweepMarksFailed \/ SweepDropsSpool \/ SweepEnds

------------------------------------------------------------------------------
\* Every request was answered and nothing is left to do: the system rests.
AtRest ==
    /\ \A r \in Requests : upc[r] = "done" /\ deleting[r] = "no"
    /\ \A w \in Workers : wpc[w] = "idle"
    /\ \A m \in Messages : queue[m] = 0
    /\ swpc = "idle"

Rest == AtRest /\ UNCHANGED vars

UploadNext(r) ==
    \/ \E c \in Contents : ClaimNew(r, c) \/ ClaimExisting(r, c)
    \/ RequestStep(r) \/ SendRaises(r) \/ RequestAborts(r)

WorkerNext(w) ==
    \/ \E m \in Messages : Start(w, m) \/ DropDelivery(w, m)
    \/ WorkerStep(w) \/ StepRaises(w)
    \/ WorkerDies(w) \/ TimeLimitKills(w)

DeleteNext(d) == DeleteBegins(d) \/ DeleteStep(d) \/ DeleteAborts(d)

SweepNext == SweepStep \/ SweepSendRaises \/ SweepAborts

Next ==
    \/ \E r \in Requests : UploadNext(r) \/ DeleteNext(r) \/ LockExpires(r)
    \/ \E w \in Workers : WorkerNext(w)
    \/ SweepNext
    \/ Rest

Spec == Init /\ [][Next]_vars

\* A process that runs takes its next step; the broker delivers every message
\* in turn (first in, first out); a TTL runs out; the operator goes on running
\* the script. Nothing makes a request arrive or a process fail.
Fairness ==
    /\ \A r \in Requests : WF_vars(RequestStep(r)) /\ WF_vars(DeleteStep(r))
    /\ \A w \in Workers : WF_vars(WorkerStep(w))
    /\ \A m \in Messages : SF_vars(\E w \in Workers : Start(w, m) \/ DropDelivery(w, m))
    /\ \A j \in Requests : WF_vars(LockExpires(j))
    /\ WF_vars(SweepStep)

FairSpec == Spec /\ Fairness

------------------------------------------------------------------------------
(* Properties *)

\* Two deliveries of one job never run at the same time: of the live workers
\* past lock.acquire and before lock.release, at most one has a given job
\* (ingestion/tasks.py:51-83).
JobExclusion ==
    \A v, w \in Workers :
        wpc[v] \in Holding /\ wpc[w] \in Holding /\ Job(v) = Job(w) => v = w

\* A document is ready only when it has chunk rows
\* (ingestion/service.py:122-125, whatever was retried or delivered again).
ReadyHasChunks ==
    \A d \in Requests : docStatus[d] = "ready" => chunks[d] # 0

\* A document is ready only when the chunk rows it has now are all in the
\* vector index (ingestion/service.py:122-125). Deleting removes the points
\* first, so this is a property of systems where nothing is deleted.
ReadyIndexed ==
    \A d \in Requests : docStatus[d] = "ready" => chunks[d] \in vectors[d]

\* A document that is pending or processing has a job that can still be picked
\* up: uploading it again is answered with that job and starts no other
\* (app/database.py:369-382), so without one it could never become ready.
NotWedged ==
    \A d \in Requests : docStatus[d] \in {"pending", "processing"} =>
        \E j \in JobsOf(d) : jobStatus[j] \in Recoverable

\* Somebody is on job j: a message, a worker, a request or the script.
Busy(j) ==
    \/ \E m \in Messages : queue[m] > 0 /\ m.job = j
    \/ \E w \in Workers : wpc[w] # "idle" /\ Job(w) = j
    \/ \E r \in InFlight : ujob[r] = j
    \/ swjob = j

\* When no process dies and neither the database nor the publishing of a retry
\* fails, a job that is not settled is in somebody's hands: no message is
\* acknowledged too early (ingestion/tasks.py:56-83, dispatcher.py:43-57).
ActiveJobCarried ==
    \A j \in Requests : jobStatus[j] \in Recoverable => Busy(j)

\* A file stays in the spool only as long as its job is being worked on or can
\* be recovered; after success, final failure or failed dispatch it goes
\* (ingestion/tasks.py:60-77, dispatcher.py:53-57).
SpoolOwned ==
    \A j \in spool : jobStatus[j] \in Recoverable \/ Busy(j)

\* The rows of a deleted document are gone for good: no worker that was still
\* processing it brings back a job or a chunk (app/database.py:522-572).
NoRowsWithoutDocument ==
    \A d \in Requests : docStatus[d] = "deleted" => chunks[d] = 0 /\ JobsOf(d) = {}

\* A job that was completed is not processed again by a late copy of its
\* message (ingestion/tasks.py:59-62).
CompletedStays ==
    [][\A j \in Requests : jobStatus[j] = "completed" =>
            jobStatus'[j] \in {"completed", "deleted"}]_vars

\* Once nobody is on it, a finished job and its document agree: completed means
\* ready, failed means failed (ingestion/service.py:125-138). Both are written by
\* separate transactions, and the first may be followed by a crash.
VerdictsAgree ==
    \A j \in Requests : ~Busy(j) =>
        /\ jobStatus[j] = "completed" => docStatus[jobDoc[j]] = "ready"
        /\ jobStatus[j] = "failed" => docStatus[jobDoc[j]] = "failed"

\* Every job ends: completed, failed, or deleted with its document.
Settled(j) == jobStatus[j] \in {"completed", "failed", "deleted"}
JobsSettle == \A j \in Requests : jobStatus[j] \in Recoverable ~> Settled(j)

\* Every accepted document ends ready, failed or deleted.
DocumentsSettle ==
    \A d \in Requests : docStatus[d] = "pending" ~>
        docStatus[d] \in {"ready", "failed", "deleted"}

\* When a document is deleted and nobody is on one of its jobs or on a request
\* for it any more, it has no points in the vector index.
NoOrphanVectors ==
    \A d \in Requests :
        /\ docStatus[d] = "deleted"
        /\ \A j \in Requests : jobDoc[j] = d => ~Busy(j)
        /\ \A r \in InFlight : udoc[r] # d
        => vectors[d] = {}

\* Ingestion keeps the promise of KnowledgeBase: what is served is what
\* list_accessible_chunks selects, the chunks of ready documents.
KB == INSTANCE KnowledgeBase WITH
        Documents <- Requests,
        owns <- content,
        shown <- [d \in Requests |-> IF docStatus[d] = "ready" THEN chunks[d] ELSE 0],
        removed <- {d \in Requests : docStatus[d] = "deleted"}

ServesConsistently == KB!Spec

==============================================================================
