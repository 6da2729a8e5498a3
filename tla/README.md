# Verification of enterprise-rag-agent

TLA+ modules of the parts of this system whose correctness depends on
interleavings, failures and retries, TLC configurations that check them on small
instances, and TLAPS proofs for the properties that matter most. Paths such as
`ingestion/tasks.py:56` are relative to the repository. `PROJECT.json` maps every
definition to the lines it stands for.

    tlc -workers 2 -config IngestionOneDoc.cfg MCIngestion.tla
    tlapm IngestionProofs.tla

## 1. The system

A document assistant for several tenants. An HTTP interface (FastAPI, handlers in
a thread pool) accepts files and questions; Celery workers ingest the files; the
data is in PostgreSQL (or SQLite), Qdrant (vectors), Valkey (queue, locks, rate
limits) and a spool directory shared by the interface and the workers.

    upload ─► claim (documents, ingestion_jobs) ─► spool file ─► Celery queue
                                                                    │
    search ◄─ chunks of ready documents + Qdrant ◄─ worker ◄────────┘
    delete ─► Qdrant points, then rows (cascade)
    operator ─► requeue_stale_ingestion.py ─► queue
    every accepted upload, delete and rating ─► audit_events (hash chain per tenant)

| component | state | operations | status |
|---|---|---|---|
| upload and delete requests (`api/documents.py`, `ingestion/service.py`, `upload_store.py`, `dispatcher.py`) | `documents`, `ingestion_jobs`, spool files | claim, heal the index of a duplicate, promote, mark queued, send, fail the dispatch; delete points, delete rows | `Ingestion` |
| worker (`ingestion/tasks.py`, `ingestion/service.py`) | `chunks`, Qdrant points, job lock, retry count in the message | take the lock, check the job, read the spool, replace chunks, index, settle document and job, retry, give up | `Ingestion` |
| recovery script (`scripts/requeue_stale_ingestion.py`) | list of stale jobs | list, skip or fail a job without file, dispatch again | `Ingestion` |
| what a search may rely on | owner, served batch and removal of a document | accept, serve, withdraw, remove | `KnowledgeBase` (abstract) |
| audit trail (`app/database.py:398-898`, `api/audit.py`, `scripts/verify_audit_chain.py`) | `audit_events`, row locks, advisory lock of the tenant | audited change, lock, read the newest event, insert, commit, roll back, verify | `AuditLog` |
| chat turn (`agent/service.py`, `agent/workflow.py`, `agent/query.py`, `retrieval/hybrid.py`, `retrieval/evidence.py`), reindex (`scripts/reindex.py`) | `conversations`, `chunks` of ready documents, points of the index | read the session, refuse, rewrite, read the rows, ask the index, judge, answer, save; read all rows once, upsert them in batches | `Chat` |
| answer generation (`agent/generators.py`) | failure count and opening time of the circuit, shared by all threads | check the circuit, call, retry, record failure or success, fall back | `CircuitBreaker` |
| request limits (`app/rate_limit.py`, `api/traffic.py`) | a token bucket per subject and policy, in memory or in Redis | read the clock, refill, let through or refuse, expire | `TokenBucket`, `ChatTraffic` |
| chunking (`ingestion/chunker.py`) | the buffer of the chunk in the making | begin a section, begin a chunk with the overlap, extend, finish | `Chunker` |
| alert log (`deploy/log_prometheus_alerts.py`) | state file, journal | load, fetch, compare, write the transitions, replace the file | `AlertLog` |
| synchronous ingestion, feedback, migration to PostgreSQL, backup, OIDC, configuration, telemetry, parsers, web page, evaluation scripts | | | not modelled, see section 5 |

How they interact: requests and workers meet only in the stores, never in memory.
The two rows a job has, its own and its document's, are written by separate
transactions; the queue delivers at least once (`acks_late`,
`reject_on_worker_lost`); the job lock has a time to live longer than the hard
time limit. The audit event is written by the transaction of the change itself.

What is hard here: a claim that reads what a worker is changing; a message
delivered twice, or dropped while a dead worker's lock remains; a crash between
any two statements; a retry published by the attempt that failed; a script that
works from a list it read earlier; a delete in two systems without a lock; a
chain of events extended by many connections; a circuit asked in one critical
section and told in another; a clock read before the lock that its reading is used
under; rows read before the index is asked; a rewritten question that is another
one than the policy saw first; a file replaced after its changes were announced. `PROJECT.json` lists these hazards at their lines
with the properties that would catch each, and those no property covers yet.

## 2. The modules

**Ingestion.** One action per statement block, file operation, broker call,
vector call and lock call. A request `r` draws one document id and one job id, so
`r` names both; requests are numbered in the order in which they claim. The
control state of an upload is `upc`, of a worker `wpc`, of the script `swpc`, of a
delete request `deleting`.
 - Upload: `ClaimNew` or `ClaimExisting`, which is READ COMMITTED and so has a
   second step (`ReuseJob`, `RecordDuplicate`, `Reingest`, `ReingestReusing`,
   `ClaimRejected`); `Reread`, `HealList`, `HealUpsert` for a ready duplicate;
   `Promote`, `MarkQueued`, `SendTask`, and after a failed send
   `MarkDispatchFailed`, `DropSpool`. `RequestAborts`: the process dies.
 - Worker: `Start`/`DropDelivery`, `CheckJob`, `ReadSpool`, `MarkJobProcessing`,
   `MarkDocProcessing`, `InsertChunks`/`InsertRejected`, `ListChunks`,
   `UpsertVectors`, `MarkDocReady`, `MarkJobCompleted`; on an exception
   (`StepRaises`) `MarkDocFailed`, `MarkJobFailed`, then `MarkRetrying` and
   `PublishRetry`, or `GiveUp`; then `UnlinkSpool`, `ReleaseLock`, `Acknowledge`.
   `WorkerDies` and `TimeLimitKills` return the message to the queue and leave the
   lock to a ghost until `LockExpires`.
 - Chunks are numbered in batches: `chunks[d]` is the batch of rows a document
   has, `vectors[d]` the batches whose points are in the index (point ids are
   chunk ids, so a new batch overwrites nothing). The number stands for whatever
   rows there are: `insert_chunks` is a DELETE and then INSERTs in one READ COMMITTED
   transaction, so two jobs of one document may leave a mixture of both their rows,
   which the model does not tell from those of the later job.
 - `MaxRetries` is `CELERY_MAX_RETRIES`, which the handler compares itself;
   `TaskMaxRetries` is the limit Celery puts on the task, its default 3 since
   `tasks.py` sets none. When the first is larger, `RetryRefused` is the attempt at
   which `self.retry` raises instead of publishing: the job stays retrying with no
   message, until the script finds it.
 - Left out: the audit event of the claim (module `AuditLog`), version numbers,
   visibility, the limit of 100 jobs per run of the script, a commit whose answer
   is lost, the soft time limit (it raises where `StepRaises` does), tenants (a
   content stands for tenant and hash), and the synchronous mode.

**IngestionInvariants** names the parts of the inductive invariants, **MCIngestion**
the sets of the instances. **KnowledgeBase** is the promise to those who search:
at most one document owns a content; a document is served from one batch and
withdrawn before the batch changes; a removed one is never served again.
`ServesConsistently` checks that Ingestion implements it, with "served" being what
`list_accessible_chunks` selects.

**AuditLog.** The statements of an audited transaction: `Change` (the row, with its
lock), `LockChain`, `ReadNewest`, `InsertEvent`, `Commit`, and `Rollback` between
any two. `postgres` is chosen at the start: PostgreSQL locks rows and, by
`pg_advisory_xact_lock`, the chain of a tenant; SQLite has one lock for every
writer, so `LockChain` finds it held already. A document of this module is a
(tenant, sha256), so one that is deleted and uploaded again is the same row.
Transactions that audit nothing are left out.

**Chat.** A turn is a record with a phase. `Ask` reads the history of user and
session (`History`, `list_conversations`: the positions of the `Newest` of their
saved turns), lets the policy look at the question (`Refused`,
`EvidenceGate.precheck`) and rewrites a follow-up (`Rewrite`);
`ReadRows` is `list_accessible_chunks`; `Search` asks the index, which only scores
the rows (`Rankings`), and judges what was found by the query as it was searched
for (`Judged`, `EvidenceGate.evaluate`); `Answer` keeps the references to hits;
`Save` appends to `conversations`; `Raises` ends a turn anywhere. A text is the set
of those facets that the policy and the rewriter look for, a row is a document and
a batch. Around the turns `Withdraw`, `Upsert`, `Serve`, `DeletePoints` and
`DeleteRow` are what Ingestion does, at a coarser grain: an upsert may come at any
time, and an attempt that is alone with its document serves a batch only after it
indexed it. Two jobs of one document may overlap (`Meet`, until they `Part`), as the
lock is per job: meanwhile a ready document may have its rows replaced
(`ReplaceServed`), and one attempt may mark the document ready with rows of the
other that are not indexed (`Serve`); both may stay so after the jobs have ended.
When they may meet is a matter of Ingestion; here they may at any time.
`StartReindex`, `UpsertBatch`, `ReindexRaises` are the reindex script; `reindex.met`
(a history variable) are the documents on which jobs met since it began. The scores, the order of the hits and the words of an
answer are any. What was saved before the behaviour begins (`Earlier`) was saved by
such turns too (`EarlierAssumption`). Saving and the time it is sorted by
are one step; conversations with the same time are not modelled.

**CircuitBreaker.** Threads that check the circuit, call the model, retry and
record. The count, the time and the threads' positions are the state; what is in
an answer is not. An unexpected error (`content: null`) records nothing.

**TokenBucket.** The bucket of one subject and policy, in parts of a token so that
a refill needs no fractions. In Redis a check is one step (`CheckRedis`) with the
server's time, a timeout may come before or after it (`RedisUnavailable`), and an
unused key expires. In memory the clock is read (`ReadClock`) before the lock is
taken (`CheckMemory`). The observer (`Observe`, `mark`) and the sum of the waits
(`waited`) are history variables: nothing reads them.

**ChatTraffic** composes the two: a thread passes the bucket of the user
(`LimitChat`) before it reaches the circuit (`Generate`), and serves other users in
between (`GenerateForOther`), since the circuit is everybody's and the bucket is
not.

**Chunker.** `chunk_paragraphs` as a machine that takes one unit (a sentence, or a
window of a long one) per step. A chunk is the sequence of the positions of its
units, so that a text that occurs twice is still two places; `OverlapSuffix` and
`Trimmed` are `_overlap_suffix` and the loop that shortens it.

**AlertLog.** One action per effect of the script on the state file or the
journal, `Killed` anywhere between them. A state file may be missing, whole, or
damaged in the ways `load_state` and `main` treat apart: what is no JSON counts as an
empty list (`Stored`), as does a file that the system does not let the script read
(`LoadFails`); bytes that are no UTF-8 and JSON that is no object make `load_state`
raise (`LoadRaises`), and a record that is no object makes `main` raise
(`RecordRaises`); both leave the file as it is, so every later run ends there
as well. `told` is the journal's last word on every alert; `unsaved` (a history variable) are the
alerts of whose last word the file knows nothing: `Record` adds an alert, `Replace`
takes those away that the run had told and adds those whose old record it could not
read and which it therefore did not tell.

Definitions introduced as a mistake (`StartUnlocked`, `LockChainUnheeded`, ...) are
no part of `Next`. They are variants of the definition that follows them; for each
property of each passing run, `PROJECT.json` names one that breaks it.

## 3. What the runs show

| run | instance | checks |
|---|---|---|
| IngestionOneDoc | one upload, its deletion, two workers, two retries of which Celery allows one, two failing calls, three crashes | types; verdicts of job and document agree at rest; a completed job stays so; refinement of KnowledgeBase |
| IngestionReupload | two overlapping uploads, deletes, two workers, one failing call, one crash | a pending or processing document has a job that can be picked up; nothing late brings rows of a deleted document back; no ready document without chunks; `PursuitInv` |
| IngestionRecovery | one upload, two workers, two crashes, a failing index or dispatch, a retry, the script again and again, fair | no job runs twice at a time; ready is indexed; every job settles; `CoreInv` |
| IngestionLive | two uploads, a failing index, no crash, no script, fair | an unsettled job is in somebody's hands; a spool file belongs to an unsettled job; every job and every document settles; `SpoolInv` |
| AuditLog | three connections, two tenants, two documents and a conversation, both databases | every trail verifies; numbers never clash; the trail tells the history of the tables; every transaction ends |
| Chat | two overlapping turns of one or two users in a session with a past, a document in two batches, its deletion, late upserts, two jobs that overlap on it, the reindex script | what is cited was served since the turn began and to readers only; the model is never asked what the policy refuses; a follow-up's context is the newest turn; a finished reindex leaves nothing out, but for documents deleted or worked on by two jobs since it began |
| ChatTraffic | two threads, one retry, threshold 2, a bucket of one request per two ticks, both backends | admissions of any interval are bounded; an outage costs at most threshold - 1 + threads failures; the reset time of an open circuit ends |
| Chunker | every document of up to five units of four sizes, none among them, under two headings, every overlap | sections stay apart; chunks keep to the size; nothing is lost; the overlap is carried |
| AlertLog | two alerts, three changes, two kills, a failing read or write, any file and journal to begin with | the file stays whole; the journal agrees with it; both catch up, unless a run dies of the file |

`ReadyIndexed` is checked on instances without deletes (a delete removes the points
first, on purpose), and it and `ServesConsistently` on instances where one job of a
document runs at a time: two of them may replace each other's rows. Section 4 says
exactly which condition that is and when the code grants it.

Three runs show that the code does not do what its documents say (`findings`):
 - **DispatchFailure**: when the broker cannot be reached, the job is failed and
   the document stays pending. Every later upload of it is answered with the
   failed job, and the script does not select failed jobs.
 - **UploadCrash**: a process that dies between the claim and `promote` leaves the
   file under its temporary name; the script fails the job and the document stays
   pending.
 - **DeleteRace**: a worker between reading the rows and `upsert` writes the points
   of a document whose delete request has finished.

Seen while modelling, and allowed by the model without a run of its own: a second
job of a document is created while the first is retrying (the document is failed
then, `app/database.py:388`); the lock is per job, so two jobs of one document may
run at once (`ingestion/tasks.py:52`); the spool file stays when
`update_job("retrying")` itself raises (`tasks.py:72`), and so it does, with a job
that stays retrying until the script finds it, when `CELERY_MAX_RETRIES` is larger
than the 3 retries Celery allows the task (`tasks.py:35,74`); the script may dispatch a
job whose worker has just taken it (harmless: `JobExclusion`), or one that was
completed since it made its list, which is queued and processed once more
(`requeue_stale_ingestion.py:30`); a model answer
whose content is null escapes as an error (`agent/generators.py:302`); a rewritten
follow-up is searched for before the policy refuses it
(`agent/workflow.py:81`), so `PolicyHolds` speaks of the model and not of the
index; the model is shown the first five hits while references up to `top_k` count
(`agent/generators.py:272`); the last chunk is dropped when it repeats the words of
the one before, also when it is another section (`ingestion/chunker.py:59`); an
alert that changed and changed back around a killed run leaves a word in the
journal that no later run corrects (`log_prometheus_alerts.py:149`), which is why
`JournalMatches` and `JournalFollows` except `unsaved` and do not cover that hazard;
a state file that is cut inside a character or is no JSON object ends every run of
the alert script (`log_prometheus_alerts.py:40-47`), which is why `JournalFollows` is
about files it can work with (`Workable`) and why `StaysWhole` matters; a request that waits for the lock of a bucket
sets it back to an older time, and the interval is refilled twice
(`app/rate_limit.py:80`), which is the term `waited` of `AdmissionsBounded`.

### Bounds

`Requests`, `Workers`, `MaxRetries` (3 in the code, 0 to 2 here), `TaskMaxRetries` (3, in IngestionOneDoc 1
so that it is the smaller one), `MaxFaults`,
`MaxCrashes` bound the instances; each run has at least one more of what its
properties relate than a violation needs: two workers for two deliveries of a
job, two overlapping requests for a claim that races a worker, one retry more than the last
attempt. `MaxBatches` (guard of `InsertChunks`) is larger than the number of
attempts the other bounds allow, except where the script multiplies messages.
`QueueBound` only stops the script from adding a copy of a job that is queued so
often already; every message can still be duplicated by a crash. `ApiProcesses`:
one `uvicorn` worker saves and claims without an `await` in between, so 1 is the
deployment and 2 the scaled one. `MaxEvents` in AuditLog lets a trail grow until
it has two events; transactions already begun append a third or a fourth, enough
for a life, a death and a second life of a row. Workers are symmetric; symmetry
is not used with liveness.

Chat: one document is enough, since nothing relates two; it has two batches, so a
turn can begin before and end after a re-ingestion. `HistoryLimit` 1 stands for 6:
the rewriter looks at the last turn only. Two turns that overlap and one that was
saved before give a follow-up two candidates for its context. ChatTraffic: the
clock goes to 4, when a key in Redis may expire (two windows) and a bucket is
refilled twice over; a tick of the circuit is not bounded. Chunker: five units give
three chunks with overlap, or a section between two; a unit of size 5 is larger
than a chunk of 4, one of size 0 has no token that `approximate_token_count` knows (a
rule, a lone full stop, kana). AlertLog: three changes let two alerts rise and fall between
runs; a killed run, another one and a write that fails may follow each other.

Time is abstracted, with these assumptions: a lock's TTL is the hard limit plus 60
seconds, so it never runs out under a live worker; a retry is delivered at least
2 seconds after it was published, when its publisher has released the lock; the
script's threshold is at least the time limit, so a job is stale only when no live
worker touched it within an attempt; an upload takes far less than the threshold.
In CircuitBreaker a tick is any fraction of the reset time.

### Fairness

Requests and failures never need to happen. In Ingestion a live process takes its
next step (weak fairness), the broker delivers every message in turn (first in,
first out: strong fairness of each message, since others keep the workers busy),
a TTL runs out, and, in IngestionRecovery, the operator goes on running the
script, as the operations guide asks. In AuditLog an open transaction takes its
next statement and the database serves those who wait for a lock in turn (strong
fairness of `LockChain`). In ChatTraffic only the clock of the circuit is fair. In
AlertLog the timer starts runs and a run goes on, and Prometheus answers again and
again however often it does not (strong fairness of `Fetch`). Chat and Chunker have
no liveness properties: a turn is a handful of steps without a loop.

## 4. What is proved

For every value of the constants, with the assumptions named in the modules. Every
invariant, every action property and the refinement that a passing run checks is
also the statement of a theorem; where the theorem needs a condition, it is given
here with the reason. What the conditions leave out is model-checked only as far as
the instances go.

*IngestionProofs*, for any number of requests, workers, faults and crashes:
`TypeCorrect`; `JobsExcluded` (no job on two workers); `ReadyDocumentsHaveChunks`;
`DeletedStaysDeleted`. None is inductive alone. `CoreInv` adds that references
are valid, ids drawn and not yet inserted are unused, a worker past `acquire` owns
its lock, jobs vanish only with their document, and a worker between inserting
chunks and marking the document ready has chunks unless the document was deleted.
Exclusion then follows, since a lock has one owner. Each part has a lemma for the
steps of uploads, workers, deletes and the script; frame lemmas say what each of
them leaves alone. `NothingIsRemoved`: without delete requests no row goes.
`JobsStayApart`: as long as no upload finds a row of its content (`FirstUploads`: no
claim goes to "resolve"), a document has one job; a single upload finds none
(`OneUploadFirst`). The theorems below that need a condition on the uploads need
this one.

*IngestionPursuit*, nobody is stranded:
 - `DocumentsNotWedged`. When dispatching never fails (`"send" \notin FaultSites`)
   and the script does not run, a pending or processing document always has a job
   that can be picked up. The first assumption is what DispatchFailure refutes; the
   second is what UploadCrash needs. The invariant (`PursuitInvariant`) is stronger
   than the property: that job is not one whose worker has already written the
   document's verdict and is about to write the job's.
 - `JobsStayCompleted`, as long as the script does not run: it marks a job queued
   that a worker may have completed since the script made its list. The invariants
   are `DispatchAlone` (until its request has sent it, a job is in nobody else's hands) and
   `Uncompleted` (no job is completed in the middle of an attempt).
 - `JobsAreCarried`, when no process dies, no database call raises, every retry
   reaches the broker, Celery allows as many retries as are configured
   (`MaxRetries <= TaskMaxRetries`) and the script does not run. Each of these is a way in which
   the code does leave a job to the script. `CarriedInv` counts: a job has one
   message, or one worker that took it, or the request that is about to send it, and
   never two of them; locks are held by live workers; the file is there for whoever
   is going to need it.
 - `SpoolFilesAreOwned`, under the same conditions and without deletions (a delete
   request removes the job and leaves its file). `SpoolInv` adds that the file of a
   settled job has somebody who is about to unlink it.
 - `FirstUploadsAgree`, when dispatching never fails, the script does not run and no
   upload finds its content there: the verdicts of job and document agree. The
   document's comes first (`VerdictFirst`), and nobody writes another one in between
   because the document has no other job. With a second upload they may differ: a
   failed document is ingested again by a new job while the old job stays failed.
   For a single upload, which is the run's instance, nothing is assumed about the
   uploads (`OneUploadAgrees`).

*IngestionServing*, what is served is right. `ImplementsKnowledgeBase` is the
refinement, step by step: an upload that inserts a document accepts it, `MarkDocReady`
serves its batch, an update that takes the status of a ready document away
withdraws it, `DeleteRows` removes it, and every other step stutters. It holds while
no two jobs of one document are between `MarkDocProcessing` and `MarkDocReady` at
once (`OneAttempt`, as a hypothesis `[]OneAttempt`). That hypothesis is not a
consequence of the code: the lock of a job does not exclude the job which a new
upload of a failed document gets (`app/database.py:388`), so it is a condition on the
load. `FirstUploadsOneAttempt` discharges it where the code does: if no upload finds a
row of its content the lock is enough, whatever is redelivered, retried, swept,
deleted or killed. Hence `FirstUploadsServed`, and `OneUploadServed` with no
hypothesis on the behaviour. `ReadyDocumentsAreIndexed` (and `FirstUploadsIndexed`,
`OneUploadIndexed`) needs that nothing is deleted in addition, since a delete
removes the points before the rows on purpose; its invariant says that what a
worker listed is still what there is (`ListedIndexed`), the stale read that a second
attempt would cause.

*AuditLogProofs*, for any number of connections, tenants and rows, on both
databases: `TypeCorrect`; `TrailVerifies`; `NumbersDistinct` (the unique index is
never what saves the chain); `TrailIsHistory`. The chain holds because the event a
transaction read is still the newest when it commits (`Current`), because whoever
read it holds the tenant's lock (`ChainHeld`). The history holds because the row
is locked from the change on (`RowHeld`), so what the change found is still so at
the commit (`Fitting`), and a document that exists was announced (`Announced`).

*ChatTrafficProofs* has the proofs of the circuit, of the bucket and of the two
together:
 - for any number of threads, retries and any threshold, `TypeCorrect` and
   `OutageBounded`, by `OutageInv`: once the circuit is open, failures so far plus
   threads still calling never exceed the bound, and threads that leave are not
   replaced;
 - for any limit, window and number of requests, and any clock,
   `BucketTypeCorrect` and `LimitHolds`, in both backends. The invariant is an
   account in parts of a token: what was admitted since the observer began, plus
   what the bucket would hold now, is at most a full bucket, the refill of the time
   since then and that of the time requests waited;
 - `GuardsCompose`, every behaviour of the composition is one of the circuit and
   one of the bucket, so `TrafficBounded` has both bounds at once.

*AlertLogProofs*, for any alerts and without a bound on kills and failures:
`TypeCorrect`; `JournalAgrees`; `FileStaysWhole`. The invariant `JournalInv` says that
off `unsaved` the journal agrees with the file during a run too (`Kept`), and that
what a run no longer has to write was either no difference between its two lists or
is written and in `unsaved` (`Written`), which is what `Replace` needs.

*ChatProofs*, for any number of turns, users, documents and batches: `TypeCorrect`;
`WithdrawnNotCited`; `PolicyKept`; `FollowUpsInContext`; `ReindexComplete`. A turn may
cite what it does because the rows are read after it began (`FloorInv`: what is
served never falls below what was served when it began) and the index only orders
them (`CitedInv`); a running script still has to do what is ready and not indexed, but
for documents deleted or met on since it began, and whoever is meeting when it
begins is counted as met (`ReindexInv`). The other invariants need only that the batches of
a document rise, which overlapping jobs do not change. A follow-up has the right context because the newest of its
session's turns is among the newest `HistoryLimit`, however small that is, and a
context is a matter of the turns saved before the question, which no later save
changes (`Asked`, `SavedInv`).

*ChunkerProofs*, for documents of any length, any texts, headings and sizes, units
without tokens included, and every overlap: `SectionsStayApart`; `ChunksKeepToSize`; `NothingIsLost`;
`ContextIsCarried`, all from `ChunkerInv`: every chunk is a run of consecutive units
under one heading, within the size unless it is a single unit (`Sound`); each goes
further than those before (`Rising`); whatever was read is in a chunk or in the
buffer (`Covered`); what is begun has been handed the overlap (`Handed`). A chunk's
size is a sum over a sequence. Instead of an induction, the lemmas take the least
length at which such a sum would not exist, or at which two would differ, and find
that there is none (`LeastExists`, from the well-foundedness of the naturals).

Only model-checked, and why:
 - every liveness property (`JobsSettle`, `DocumentsSettle`, `TransactionsEnd`,
   `ResetComes`, `JournalFollows`): fairness and ENABLED are out of the prover's
   reach;
 - nothing else as a property, but the deployed system is larger than some of the
   conditions: `NotWedged` with the script or failing dispatches, `CompletedStays`
   with the script, and `VerdictsAgree` and `ServesConsistently` with overlapping
   jobs of one document are not claimed, because the code does not have them (TLC
   refutes the last two on the instance of IngestionReupload: there a worker of the
   old job replaces the chunks after a worker of the new one made the document
   ready).

## 5. Not modelled, and what is left

 - Synchronous ingestion (`TASK_QUEUE_BACKEND=sync`, the development mode): one
   process does in the request what the worker does in Ingestion, without queue,
   lock or retry.
 - Feedback and the lists of documents, jobs and conversations: single statements.
   That a rating is audited with its change is part of AuditLog (`conversation`).
 - The extractive answer and the prompts: what they say is text; which hits an
   answer may refer to is any subset in Chat.
 - Migration to PostgreSQL: one transaction into an empty database while the
   service is stopped.
 - Backup: a shell script under a lock; the repository has no restore that would
   relate the dump and the later snapshot.
 - OIDC, configuration, telemetry, health, parsers, the web page, evaluation
   scripts: libraries, single comparisons, read-only or offline. The rate limit
   backend `disabled` lets every request through.

Left out inside modules: rows of two batches mixed in one document (Ingestion,
`InsertChunks`); a record of an alert that is null or whose fields have types the
script never writes (AlertLog).

Left: the seven hazards that no property covers (`PROJECT.json` says why for each);
verdicts and serving when a document is uploaded again while its job is being
retried, where the code allows two jobs to meet and `VerdictsAgree` and
`ServesConsistently` would need other words; more of `app/database.py`.
