--------------------------- MODULE KnowledgeImport ---------------------------
(***************************************************************************)
(* The life of one PDF of a knowledge base: its upload, the import job     *)
(* that turns it into chunks, its deletion, alone or with its base, and    *)
(* the recovery at the start of the worker process, on one                 *)
(* knowledge_documents row, its chunks and its file.                       *)
(*                                                                         *)
(* Unlike the interview modules nothing here takes a row lock: apart from  *)
(* the claim, every write is an UPDATE or DELETE by id, whatever the       *)
(* status is by then.  A commit is an action; the vector store and the     *)
(* repository share one database session, so chunks that were only         *)
(* flushed become visible with the commit of mark_ready.                   *)
(*                                                                         *)
(* The content is left out: chunks and file are there or not.              *)
(* processing_started_at is NONE, FRESH or STALE (older than               *)
(* knowledge_processing_stale_seconds).  attempt_count is only ever        *)
(* compared with job_try - 1 < MaxTries, so counts from MaxTries on are    *)
(* taken for one.                                                          *)
(***************************************************************************)
EXTENDS ArqQueue

CONSTANTS
    MaxAttempts,   \* knowledge_task_max_attempts
    MaxTries,      \* max_tries of the Worker: the largest of the settings
    MaxDeletes,    \* bound: DELETE requests received, for the document or its base
    MaxCrashes,    \* bound: requests and running jobs that die
    MaxTimeouts,   \* bound: jobs cut off by job_timeout
    MaxErrors,     \* bound: embedding, database or Redis errors
    MaxLate        \* bound: calls that fail after they have taken effect

ASSUME ImportAssumption ==
    /\ MaxAttempts \in Nat \ {0}
    /\ MaxTries \in Nat /\ MaxTries >= MaxAttempts
    /\ MaxDeletes \in Nat /\ MaxCrashes \in Nat /\ MaxTimeouts \in Nat
    /\ MaxErrors \in Nat /\ MaxLate \in Nat

VARIABLES
    base,       \* is there the knowledge_bases row
    document,   \* the knowledge_documents row
    chunks,     \* are there committed knowledge_chunks rows
    file,       \* is the PDF in the storage directory
    jobs,       \* ARQ jobs, by job id: there is one
    job,        \* the import job's running coroutine
    process,    \* the worker process
    upload,     \* the POST .../documents request
    deletion,   \* the DELETE .../knowledge-documents/{id} request
    removal,    \* the DELETE .../knowledge-bases/{id} request
    spent       \* how often each bounded event has happened

vars == <<base, document, chunks, file, jobs, job, process, upload, deletion, removal, spent>>

-----------------------------------------------------------------------------

\* ABSENT before create_document.  DELETED: by a request that had found the
\* document; LOST: with a base whose deletion had listed no such document.
Gone == {"DELETED", "LOST"}
DocumentStatus == {"ABSENT", "PENDING", "PROCESSING", "READY", "FAILED"} \union Gone

Document == [status : DocumentStatus, attempts : 0 .. MaxTries,
             started : {"NONE", "FRESH", "STALE"}]

NoDocument == [status |-> "ABSENT", attempts |-> 0, started |-> "NONE"]

\* knowledge-document:{id}
ImportJob == 0

\* CLEAR is the delete before the parse; FORGET and FAIL are the two commits
\* of _fail_document, RETRY the cleanup before a Retry.
JobStep == {"IDLE", "CLEAR", "PARSE", "STORE", "RETRY", "FORGET", "FAIL"}
ProcessStep == {"DOWN", "ENQUEUE", "UP"}
\* REJECTED: answered with an error after it took back what it could.
UploadStep == {"IDLE", "CREATE", "ENQUEUE", "MARK", "UNLINK", "DONE", "REJECTED"}
UploadOver == {"DONE", "REJECTED"}
DeletionStep == {"IDLE", "UNLINK", "DELETE"}
\* DROP_UNSEEN: the list of the documents was empty.
RemovalStep == {"IDLE", "CHUNKS", "UNLINK", "DROP", "DROP_UNSEEN"}

BoundedEvent == {"DELETE", "CRASH", "TIMEOUT", "ERROR", "LATE"}
Bound == [DELETE |-> MaxDeletes, CRASH |-> MaxCrashes, TIMEOUT |-> MaxTimeouts,
          ERROR |-> MaxErrors, LATE |-> MaxLate]

Spend(kind) == /\ spent[kind] < Bound[kind]
               /\ spent' = [spent EXCEPT ![kind] = @ + 1]

Exists == document.status \notin {"ABSENT"} \union Gone

Init ==
    /\ base = TRUE
    /\ document = NoDocument
    /\ chunks = FALSE
    /\ file = FALSE
    /\ jobs = EmptyQueue({ImportJob})
    /\ job = "IDLE"
    /\ process = "UP"
    /\ upload = "IDLE"
    /\ deletion = "IDLE"
    /\ removal = "IDLE"
    /\ spent = [k \in BoundedEvent |-> 0]

-----------------------------------------------------------------------------
(* API: KnowledgeService.upload_document, delete_document and delete_base. *)

\* get_base found the base and find_document_by_sha nothing; the PDF is written.
SavePdf ==
    /\ upload = "IDLE"
    /\ base
    /\ file' = TRUE
    /\ upload' = "CREATE"
    /\ UNCHANGED <<base, document, chunks, jobs, job, process, deletion, removal, spent>>

\* create_document; it raises if another upload of the same PDF was faster, if
\* the base is gone, or after its commit, and then the file is removed.
CreateDocument ==
    /\ upload = "CREATE"
    /\ \/ /\ base
          /\ document' = [document EXCEPT !.status = "PENDING"]
          /\ \/ upload' = "ENQUEUE" /\ UNCHANGED spent
             \/ upload' = "UNLINK" /\ Spend("LATE")
       \/ /\ upload' = "UNLINK"
          /\ UNCHANGED <<document, spent>>
    /\ UNCHANGED <<base, chunks, file, jobs, job, process, deletion, removal>>

EnqueueDocument ==
    /\ upload = "ENQUEUE"
    /\ jobs' \in EnqueueOutcomes(jobs, ImportJob)
    /\ upload' = "DONE"
    /\ UNCHANGED <<base, document, chunks, file, job, process, deletion, removal, spent>>

\* Redis raises, without having stored the job or after it has.
EnqueueFails ==
    /\ upload = "ENQUEUE"
    /\ \/ Spend("ERROR") /\ UNCHANGED jobs
       \/ Spend("LATE") /\ jobs' \in EnqueueOutcomes(jobs, ImportJob)
    /\ upload' = "MARK"
    /\ UNCHANGED <<base, document, chunks, file, job, process, deletion, removal>>

FailedDocument == IF Exists THEN [document EXCEPT !.status = "FAILED"] ELSE document

\* mark_failed with QUEUE_UNAVAILABLE; it raises if the row is gone.
MarkQueueUnavailable ==
    /\ upload = "MARK"
    /\ document' = FailedDocument
    /\ upload' = IF Exists THEN "UNLINK" ELSE "DONE"
    /\ UNCHANGED <<base, chunks, file, jobs, job, process, deletion, removal, spent>>

UnlinkUpload ==
    /\ upload = "UNLINK"
    /\ file' = FALSE
    /\ upload' = "REJECTED"
    /\ UNCHANGED <<base, document, chunks, jobs, job, process, deletion, removal, spent>>

UploadCrash ==
    /\ upload \notin {"IDLE"} \union UploadOver
    /\ Spend("CRASH")
    /\ upload' = IF upload = "UNLINK" THEN "REJECTED" ELSE "DONE"
    /\ UNCHANGED <<base, document, chunks, file, jobs, job, process, deletion, removal>>

\* delete_document: vector store, storage and row, one commit each.
DeleteChunks ==
    /\ deletion = "IDLE" /\ Exists
    /\ Spend("DELETE")
    /\ chunks' = FALSE
    /\ deletion' = "UNLINK"
    /\ UNCHANGED <<base, document, file, jobs, job, process, upload, removal>>

UnlinkFile ==
    /\ deletion = "UNLINK"
    /\ file' = FALSE
    /\ deletion' = "DELETE"
    /\ UNCHANGED <<base, document, chunks, jobs, job, process, upload, removal, spent>>

\* The row is deleted, if it is there.
Dropped(status) == IF Exists THEN [NoDocument EXCEPT !.status = status] ELSE document

\* Mutant: chunks do not go with their document.
DeleteRowOnly ==
    /\ deletion = "DELETE"
    /\ document' = Dropped("DELETED")
    /\ deletion' = "IDLE"
    /\ UNCHANGED <<base, chunks, file, jobs, job, process, upload, removal, spent>>

\* The foreign key of knowledge_chunks cascades.
DeleteRow ==
    /\ deletion = "DELETE"
    /\ document' = Dropped("DELETED")
    /\ chunks' = FALSE
    /\ deletion' = "IDLE"
    /\ UNCHANGED <<base, file, jobs, job, process, upload, removal, spent>>

\* delete_base: get_base and one list of the documents, for each of them chunks
\* and file, then the base.
ListBase ==
    /\ removal = "IDLE" /\ base
    /\ Spend("DELETE")
    /\ removal' = IF Exists THEN "CHUNKS" ELSE "DROP_UNSEEN"
    /\ UNCHANGED <<base, document, chunks, file, jobs, job, process, upload, deletion>>

RemoveChunks ==
    /\ removal = "CHUNKS"
    /\ chunks' = FALSE
    /\ removal' = "UNLINK"
    /\ UNCHANGED <<base, document, file, jobs, job, process, upload, deletion, spent>>

RemoveFile ==
    /\ removal = "UNLINK"
    /\ file' = FALSE
    /\ removal' = "DROP"
    /\ UNCHANGED <<base, document, chunks, jobs, job, process, upload, deletion, spent>>

\* The foreign keys of knowledge_documents and knowledge_chunks cascade, to a
\* document as well that was uploaded after the list.
DropBase ==
    /\ removal \in {"DROP", "DROP_UNSEEN"}
    /\ base' = FALSE
    /\ document' = Dropped(IF removal = "DROP" THEN "DELETED" ELSE "LOST")
    /\ chunks' = FALSE
    /\ removal' = "IDLE"
    /\ UNCHANGED <<file, jobs, job, process, upload, deletion, spent>>

RemovalCrash ==
    /\ removal # "IDLE"
    /\ Spend("CRASH")
    /\ removal' = "IDLE"
    /\ UNCHANGED <<base, document, chunks, file, jobs, job, process, upload, deletion>>

DeletionCrash ==
    /\ deletion # "IDLE"
    /\ Spend("CRASH")
    /\ deletion' = "IDLE"
    /\ UNCHANGED <<base, document, chunks, file, jobs, job, process, upload, removal>>

-----------------------------------------------------------------------------
(* The job: process_knowledge_document and process_document_job.           *)

\* Mutant: a settled document is claimed again.
MayClaimSettled(try) == Exists

MayClaim(try) ==
    \/ document.status = "PENDING"
    \/ /\ document.status = "PROCESSING"
       /\ document.started # "FRESH" \/ document.attempts = try - 1

Claimed == [status |-> "PROCESSING", started |-> "FRESH",
            attempts |-> IF document.attempts < MaxTries THEN document.attempts + 1
                         ELSE MaxTries]

\* The coroutine goes on; or it ends and leaves its job in this queue.
Step(step) == job' = step /\ UNCHANGED jobs
End(queue) == job' = "IDLE" /\ jobs' = queue

Deliverable ==
    /\ process = "UP"
    /\ jobs[ImportJob].phase = "QUEUED" /\ ~TriesExhausted(jobs, ImportJob, MaxTries)

Claim ==
    /\ Deliverable
    /\ MayClaim(jobs[ImportJob].try + 1)
    /\ document' = Claimed
    /\ jobs' = Delivered(jobs, ImportJob)
    /\ job' = "CLEAR"
    /\ UNCHANGED <<base, chunks, file, process, upload, deletion, removal, spent>>

\* No such document, or the claim matches no row: the job is done.
Refuse ==
    /\ Deliverable
    /\ ~MayClaim(jobs[ImportJob].try + 1)
    /\ jobs' = Finished(jobs, ImportJob)
    /\ UNCHANGED <<base, document, chunks, file, job, process, upload, deletion, removal, spent>>

\* ARQ drops a delivery past max_tries.
DropDelivery ==
    /\ process = "UP"
    /\ jobs[ImportJob].phase = "QUEUED" /\ TriesExhausted(jobs, ImportJob, MaxTries)
    /\ jobs' = Finished(jobs, ImportJob)
    /\ UNCHANGED <<base, document, chunks, file, job, process, upload, deletion, removal, spent>>

\* The claim itself raises, and the job ends without a Retry.
ClaimError ==
    /\ Deliverable
    /\ Spend("ERROR")
    /\ jobs' = Finished(jobs, ImportJob)
    /\ UNCHANGED <<base, document, chunks, file, job, process, upload, deletion, removal>>

\* "A stale recovery or redelivered job must not append duplicate chunks."
ClearChunks ==
    /\ job = "CLEAR"
    /\ chunks' = FALSE
    /\ Step("PARSE")
    /\ UNCHANGED <<base, document, file, process, upload, deletion, removal, spent>>

\* Parse, split and embed; a missing file, like any PDF that cannot be read,
\* is a permanent failure.
Parse ==
    /\ job = "PARSE"
    /\ \/ file /\ Step("STORE")
       \/ Step("FORGET")
    /\ UNCHANGED <<base, document, chunks, file, process, upload, deletion, removal, spent>>

AfterException == IF jobs[ImportJob].try < MaxAttempts THEN "RETRY" ELSE "FORGET"

\* store_chunks and mark_ready, whatever the status is by now.  Without the row
\* the foreign key refuses the chunks.
StoreAndMarkReady ==
    /\ job = "STORE"
    /\ IF Exists
       THEN /\ document' = [document EXCEPT !.status = "READY"]
            /\ chunks' = TRUE
            /\ End(Finished(jobs, ImportJob))
       ELSE /\ Step(AfterException)
            /\ UNCHANGED <<document, chunks>>
    /\ UNCHANGED <<base, file, process, upload, deletion, removal, spent>>

\* mark_ready commits, and then its commit or its second look at the row
\* raises: the job takes the document for not imported.
LateError ==
    /\ job = "STORE" /\ Exists
    /\ Spend("LATE")
    /\ document' = [document EXCEPT !.status = "READY"]
    /\ chunks' = TRUE
    /\ Step(AfterException)
    /\ UNCHANGED <<base, file, process, upload, deletion, removal>>

\* Any other exception.
TransientError ==
    /\ job \in {"CLEAR", "PARSE", "STORE"}
    /\ Spend("ERROR")
    /\ Step(AfterException)
    /\ UNCHANGED <<base, document, chunks, file, process, upload, deletion, removal>>

\* rollback, delete the chunks, Retry.
CleanUpAndRetry ==
    /\ job = "RETRY"
    /\ chunks' = FALSE
    /\ End(Requeued(jobs, ImportJob))
    /\ UNCHANGED <<base, document, file, process, upload, deletion, removal, spent>>

ForgetChunks ==
    /\ job = "FORGET"
    /\ chunks' = FALSE
    /\ Step("FAIL")
    /\ UNCHANGED <<base, document, file, process, upload, deletion, removal, spent>>

MarkFailed ==
    /\ job = "FAIL"
    /\ document' = FailedDocument
    /\ End(Finished(jobs, ImportJob))
    /\ UNCHANGED <<base, chunks, file, process, upload, deletion, removal, spent>>

\* An exception in an except branch ends the job, without a Retry.
WriteError ==
    /\ job \in {"RETRY", "FORGET", "FAIL"}
    /\ Spend("ERROR")
    /\ End(Finished(jobs, ImportJob))
    /\ UNCHANGED <<base, document, chunks, file, process, upload, deletion, removal>>

JobTimeout ==
    /\ job # "IDLE"
    /\ Spend("TIMEOUT")
    /\ End(Finished(jobs, ImportJob))
    /\ UNCHANGED <<base, document, chunks, file, process, upload, deletion, removal>>

-----------------------------------------------------------------------------
(* The worker process and _recover_stale_documents at its start.           *)

\* A process that ends in the middle of the job has it delivered again.
ProcessEnds ==
    /\ process = "UP"
    /\ process' = "DOWN"
    /\ \/ job = "IDLE" /\ UNCHANGED <<job, jobs, spent>>
       \/ job # "IDLE" /\ Spend("CRASH") /\ End(Requeued(jobs, ImportJob))
    /\ UNCHANGED <<base, document, chunks, file, upload, deletion, removal>>

\* Mutant: only PENDING documents are found.
RecoverablePending == document.status = "PENDING"

\* list_recoverable_documents
Recoverable ==
    \/ document.status = "PENDING"
    \/ document.status = "PROCESSING" /\ document.started # "FRESH"

ProcessStarts ==
    /\ process = "DOWN"
    /\ process' = IF Recoverable THEN "ENQUEUE" ELSE "UP"
    /\ UNCHANGED <<base, document, chunks, file, jobs, job, upload, deletion, removal, spent>>

RecoveryEnqueue ==
    /\ process = "ENQUEUE"
    /\ jobs' \in EnqueueOutcomes(jobs, ImportJob)
    /\ process' = "UP"
    /\ UNCHANGED <<base, document, chunks, file, job, upload, deletion, removal, spent>>

\* Redis raises in worker_startup, and the process does not come up.
StartupFails ==
    /\ process = "ENQUEUE"
    /\ Spend("ERROR")
    /\ process' = "DOWN"
    /\ UNCHANGED <<base, document, chunks, file, jobs, job, upload, deletion, removal>>

\* knowledge_processing_stale_seconds have passed since the claim, whether its
\* job is still running or not.
ClaimGoesStale ==
    /\ document.status = "PROCESSING" /\ document.started = "FRESH"
    /\ document' = [document EXCEPT !.started = "STALE"]
    /\ UNCHANGED <<base, chunks, file, jobs, job, process, upload, deletion, removal, spent>>

-----------------------------------------------------------------------------

Upload ==
    \/ SavePdf
    \/ CreateDocument
    \/ EnqueueDocument
    \/ EnqueueFails
    \/ MarkQueueUnavailable
    \/ UnlinkUpload
    \/ UploadCrash

Deletion ==
    \/ DeleteChunks
    \/ UnlinkFile
    \/ DeleteRow
    \/ DeletionCrash
    \/ ListBase
    \/ RemoveChunks
    \/ RemoveFile
    \/ DropBase
    \/ RemovalCrash

Import ==
    \/ Claim
    \/ Refuse
    \/ DropDelivery
    \/ ClaimError
    \/ ClearChunks
    \/ Parse
    \/ StoreAndMarkReady
    \/ LateError
    \/ TransientError
    \/ CleanUpAndRetry
    \/ ForgetChunks
    \/ MarkFailed
    \/ WriteError
    \/ JobTimeout

Process ==
    \/ ProcessEnds
    \/ ProcessStarts
    \/ RecoveryEnqueue
    \/ StartupFails
    \/ ClaimGoesStale

Next == Upload \/ Deletion \/ Import \/ Process

Spec == Init /\ [][Next]_vars

(* Deliveries, coroutines and the clock keep going, and a process that has  *)
(* ended is started again; a stored result expires, so that an enqueue of a *)
(* recovery is accepted in the end.  Nothing makes a process end.           *)
Fairness ==
    /\ WF_vars(ClearChunks \/ Parse \/ StoreAndMarkReady \/ CleanUpAndRetry
               \/ ForgetChunks \/ MarkFailed)
    /\ SF_vars(Claim \/ Refuse \/ DropDelivery)
    /\ WF_vars(ProcessStarts)
    /\ WF_vars(RecoveryEnqueue)
    /\ SF_vars(RecoveryEnqueue /\ jobs' # jobs)
    /\ WF_vars(ClaimGoesStale)

FairSpec == Spec /\ Fairness

-----------------------------------------------------------------------------
(* Properties.                                                             *)

\* Every variable has its type; a coroutine runs exactly while its job does.
TypeOK ==
    /\ base \in BOOLEAN
    /\ document \in Document
    /\ chunks \in BOOLEAN /\ file \in BOOLEAN
    /\ jobs \in [{ImportJob} -> Job]
    /\ job \in JobStep
    /\ job # "IDLE" <=> jobs[ImportJob].phase = "RUNNING"
    /\ process \in ProcessStep
    /\ upload \in UploadStep
    /\ deletion \in DeletionStep
    /\ removal \in RemovalStep
    /\ spent \in [BoundedEvent -> Nat]

\* No call has failed after it took effect, and no upload gave up its
\* document as QUEUE_UNAVAILABLE while a starting worker process enqueued its row.
OutcomesKnown == spent["LATE"] = 0 /\ upload \notin {"MARK", "UNLINK", "REJECTED"}

\* The search looks at chunks, the list of documents at the status: through
\* redelivered jobs, retries, crashes and failures a document has committed
\* chunks exactly while it is READY, until its deletion is requested.
SearchableExactlyWhenReady ==
    OutcomesKnown /\ spent["DELETE"] = 0 => (chunks <=> document.status = "READY")

\* Whatever a job does after its document has been deleted, alone or with its
\* base, and however the requests are repeated and overlap, chunks do not come
\* back; nor does the file, unless the document was uploaded behind the back of
\* a deletion that had listed the documents of its base.
NothingOutlivesTheRow ==
    /\ document.status \in Gone => ~chunks
    /\ document.status = "DELETED" => ~file

\* The outcome of an import is final until the deletion: no redelivery, retry
\* or recovery imports a settled document again.
SettledIsFinal ==
    [][(OutcomesKnown /\ document.status \in {"READY", "FAILED"})
         => document'.status \in {document.status} \union Gone]_vars

\* If the worker process is restarted again and again, every document is
\* imported, failed or deleted in the end, through crashes between the row and
\* the job, timeouts and dropped deliveries.
DocumentSettles ==
    ([]<>(process = "DOWN")) =>
        (document.status \in {"PENDING", "PROCESSING"} ~>
            document.status \in {"READY", "FAILED"} \union Gone)
=============================================================================
