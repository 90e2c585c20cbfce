------------------------ MODULE InterviewPreparation ------------------------
(***************************************************************************)
(* The preparation of one interview session: POST .../sessions (with one   *)
(* requestId, repeated by the client), the preparation job, the resume     *)
(* evaluation job it schedules beside itself, the recovery loop, and the   *)
(* user who cancels or starts the session meanwhile.                       *)
(*                                                                         *)
(* Every repository method is one transaction on the interview_sessions    *)
(* row (SELECT ... FOR UPDATE, or one conditional UPDATE for the claim) or *)
(* on the interview_resume_evaluations row, so each is one action; what    *)
(* runs between two of them (retrieval, model calls, Redis) is a step of   *)
(* its own.  A method that returns early keeps its row lock until its      *)
(* database session is closed; nobody it could wait for needs that row, so *)
(* the lock only delays others and is left out.                            *)
(*                                                                         *)
(* preparation_started_at is kept as NONE, FRESH or STALE (older than      *)
(* interview_preparation_stale_seconds); of failure_code only whether it   *)
(* is INTERVIEW_QUEUE_UNAVAILABLE; of the questions only under which claim *)
(* they were generated.                                                    *)
(***************************************************************************)
EXTENDS ArqQueue

CONSTANTS
    MaxAttempts,   \* interview_preparation_task_max_attempts
    MaxTries,      \* max_tries of the Worker: the largest of the settings
    Clients,       \* concurrent POST .../sessions requests, one requestId
    StaleAfterTimeout, \* TRUE: stale_seconds > job_timeout, as by default
    MaxClaims,     \* bound: claims after which recovery is no longer followed
    MaxPosts,      \* bound: POST .../sessions requests received
    MaxCrashes,    \* bound: processes that die or are shut down
    MaxLost,       \* bound: deliveries whose worker dies before the claim
    MaxTimeouts,   \* bound: jobs cut off by job_timeout
    MaxErrors,     \* bound: provider, database or Redis errors
    MaxFaults      \* bound: all of these faults together

ASSUME PreparationAssumption ==
    /\ MaxAttempts \in Nat \ {0}
    /\ MaxTries \in Nat /\ MaxTries >= MaxAttempts
    /\ StaleAfterTimeout \in BOOLEAN
    /\ MaxClaims \in Nat
    /\ MaxPosts \in Nat /\ MaxCrashes \in Nat /\ MaxLost \in Nat
    /\ MaxTimeouts \in Nat /\ MaxErrors \in Nat /\ MaxFaults \in Nat

VARIABLES
    session,   \* the interview_sessions row and its questions
    resume,    \* status of the interview_resume_evaluations row
    jobs,      \* ARQ jobs, by job id
    worker,    \* per preparation job: what its running coroutine knows
    evaluator, \* is the resume evaluation job under way in a coroutine
    scan,      \* the job id recovery is about to enqueue, or NoScan
    api,       \* per client: its POST .../sessions request
    spent      \* how often each bounded event has happened

vars == <<session, resume, jobs, worker, evaluator, scan, api, spent>>

-----------------------------------------------------------------------------
(* Rows, ids and local states.                                             *)

SessionStatus == {"ABSENT", "CREATED", "PREPARING", "READY", "IN_PROGRESS",
                  "FAILED", "CANCELLED"}

Session == [status : SessionStatus, flagged : BOOLEAN, attempts : Nat,
            started : {"NONE", "FRESH", "STALE"}, questions : Nat]

NoSession == [status |-> "ABSENT", flagged |-> FALSE, attempts |-> 0,
              started |-> "NONE", questions |-> 0]

ResumeStatus ==
    {"ABSENT", "PENDING", "EVALUATING", "COMPLETED", "FAILED", "UNAVAILABLE"}

\* interview-preparation:{id} and interview-preparation:{id}:recovery:{n};
\* interview-resume-evaluation:{id} is a job of its own.
SubmitJob == 0
RecoveryJob(n) == n + 1
PreparationJobs == SubmitJob .. RecoveryJob(MaxClaims)
ResumeJob == RecoveryJob(MaxClaims) + 1
JobIds == PreparationJobs \cup {ResumeJob}
NoScan == ResumeJob

\* The nodes of the preparation graph that touch shared state.  MARK is the
\* except branch of schedule_resume_evaluation, FAIL a mark_failed to come.
WorkerStep == {"IDLE", "LOAD", "SCHEDULE", "ENQUEUE", "MARK", "GENERATE", "FAIL"}

Worker == [at : WorkerStep, claim : Nat]
IdleWorker == [at |-> "IDLE", claim |-> 0]

ClientStep == {"IDLE", "BEGIN", "ENQUEUE", "RELEASE"}

BoundedEvent == {"POST", "CRASH", "LOST", "TIMEOUT", "ERROR"}
Bound == [POST |-> MaxPosts, CRASH |-> MaxCrashes, LOST |-> MaxLost,
          TIMEOUT |-> MaxTimeouts, ERROR |-> MaxErrors]

Faults == spent["CRASH"] + spent["LOST"] + spent["TIMEOUT"] + spent["ERROR"]

Spend(kind) == /\ spent[kind] < Bound[kind]
               /\ kind = "POST" \/ Faults < MaxFaults
               /\ spent' = [spent EXCEPT ![kind] = @ + 1]

Init ==
    /\ session = NoSession
    /\ resume = "ABSENT"
    /\ jobs = EmptyQueue(JobIds)
    /\ worker = [j \in PreparationJobs |-> IdleWorker]
    /\ evaluator = FALSE
    /\ scan = NoScan
    /\ api = [c \in Clients |-> "IDLE"]
    /\ spent = [k \in BoundedEvent |-> 0]

-----------------------------------------------------------------------------
(* API: InterviewService.create_session, start and cancel.                 *)

Goto(c, step) == api' = [api EXCEPT ![c] = step]

Created == [NoSession EXCEPT !.status = "CREATED"]

\* _should_enqueue_existing; a row just created is always enqueued.
ShouldEnqueue(row) ==
    \/ row.status = "CREATED"
    \/ row.status = "PREPARING" /\ row.flagged

\* find_by_request and create: the unique request id makes a request that
\* loses the race take the row of the winner.
CreateSession(c) ==
    /\ api[c] = "IDLE"
    /\ Spend("POST")
    /\ session' = IF session.status = "ABSENT" THEN Created ELSE session
    /\ Goto(c, IF ShouldEnqueue(session') THEN "BEGIN" ELSE "IDLE")
    /\ UNCHANGED <<resume, jobs, worker, evaluator, scan>>

\* Mutant: a session that failed meanwhile is prepared again.
BegunAgain ==
    IF session.status \in {"CREATED", "READY"}
    THEN [session EXCEPT !.status = "PREPARING"] ELSE session

\* The row begin_preparing leaves.
Begun ==
    IF session.status = "CREATED" THEN [session EXCEPT !.status = "PREPARING"] ELSE session

\* It raises for a session that has been started, and the request fails.
BeginPreparing(c) ==
    /\ api[c] = "BEGIN"
    /\ session' = Begun
    /\ Goto(c, IF session.status = "IN_PROGRESS" THEN "IDLE" ELSE "ENQUEUE")
    /\ UNCHANGED <<resume, jobs, worker, evaluator, scan, spent>>

EnqueuePreparation(c) ==
    /\ api[c] = "ENQUEUE"
    /\ jobs' \in EnqueueOutcomes(jobs, SubmitJob)
    /\ Goto(c, "IDLE")
    /\ UNCHANGED <<session, resume, worker, evaluator, scan, spent>>

\* Redis raises: before the job is stored, or only its answer is lost.
EnqueueFails(c) ==
    /\ api[c] = "ENQUEUE"
    /\ Spend("ERROR")
    /\ jobs' \in EnqueueOutcomes(jobs, SubmitJob) \cup {jobs}
    /\ Goto(c, "RELEASE")
    /\ UNCHANGED <<session, resume, worker, evaluator, scan>>

MayRelease ==
    session.status = "PREPARING" /\ session.attempts = 0 /\ session.started = "NONE"

\* release_preparation_for_retry, then 503.
ReleaseForRetry(c) ==
    /\ api[c] = "RELEASE"
    /\ session' = [session EXCEPT !.flagged = @ \/ MayRelease]
    /\ Goto(c, "IDLE")
    /\ UNCHANGED <<resume, jobs, worker, evaluator, scan, spent>>

\* The API process dies, or the database fails the request.
ApiCrash(c) ==
    /\ api[c] # "IDLE"
    /\ Spend("CRASH")
    /\ Goto(c, "IDLE")
    /\ UNCHANGED <<session, resume, jobs, worker, evaluator, scan>>

MoveTo(status) ==
    /\ session' = [session EXCEPT !.status = status]
    /\ UNCHANGED <<resume, jobs, worker, evaluator, scan, api, spent>>

\* POST .../start; what follows is AnswerEvaluation's.
StartSession == session.status = "READY" /\ MoveTo("IN_PROGRESS")

CancelSession ==
    session.status \in {"CREATED", "PREPARING", "READY"} /\ MoveTo("CANCELLED")

-----------------------------------------------------------------------------
(* The preparation job: process_interview_preparation and                  *)
(* InterviewPreparationWorkflow.prepare.                                   *)

\* The coroutine goes on, or it ends and leaves its job in this queue.
Step(j, step) ==
    /\ worker' = [worker EXCEPT ![j].at = step]
    /\ UNCHANGED jobs

End(j, queue) ==
    /\ worker' = [worker EXCEPT ![j] = IdleWorker]
    /\ jobs' = queue

\* Mutant: any delivery may claim a preparation that is under way.
MayClaimAlways(try) == session.status = "PREPARING"

MayClaim(try) ==
    /\ session.status = "PREPARING"
    /\ session.attempts = try - 1 \/ session.started # "FRESH"

Claimed == [session EXCEPT !.attempts = @ + 1, !.started = "FRESH", !.flagged = FALSE]

\* claim_preparation; without providers the job goes on to mark_failed.
Claim(j) ==
    /\ jobs[j].phase = "QUEUED" /\ ~TriesExhausted(jobs, j, MaxTries)
    /\ MayClaim(jobs[j].try + 1)
    /\ session' = Claimed
    /\ jobs' = Delivered(jobs, j)
    /\ \E step \in {"LOAD", "FAIL"} :
          worker' = [worker EXCEPT ![j] = [at |-> step, claim |-> session.attempts + 1]]
    /\ UNCHANGED <<resume, evaluator, scan, api, spent>>

\* Not PREPARING, or the claim matches no row: the job is done.
Refuse(j) ==
    /\ jobs[j].phase = "QUEUED" /\ ~TriesExhausted(jobs, j, MaxTries)
    /\ ~MayClaim(jobs[j].try + 1)
    /\ jobs' = Finished(jobs, j)
    /\ UNCHANGED <<session, resume, worker, evaluator, scan, api, spent>>

\* ARQ drops a delivery past max_tries; or claim_preparation itself raises.
DropDelivery(j) ==
    /\ jobs[j].phase = "QUEUED"
    /\ \/ TriesExhausted(jobs, j, MaxTries) /\ UNCHANGED spent
       \/ Spend("ERROR")
    /\ jobs' = Finished(jobs, j)
    /\ UNCHANGED <<session, resume, worker, evaluator, scan, api>>

\* The worker dies after taking the job and before the claim: job_try moves on.
LoseDelivery(j) ==
    /\ jobs[j].phase = "QUEUED" /\ ~TriesExhausted(jobs, j, MaxTries)
    /\ Spend("LOST")
    /\ jobs' = Requeued(Delivered(jobs, j), j)
    /\ UNCHANGED <<session, resume, worker, evaluator, scan, api>>

\* load_session to retrieve_resume_context: a session that is no longer
\* PREPARING ends the job.
LoadSession(j) ==
    /\ worker[j].at = "LOAD"
    /\ IF session.status = "PREPARING" THEN Step(j, "SCHEDULE") ELSE End(j, Finished(jobs, j))
    /\ UNCHANGED <<session, resume, evaluator, scan, api, spent>>

\* create_resume_evaluation_pending: only PENDING and FAILED are enqueued.
ScheduleResume(j) ==
    /\ worker[j].at = "SCHEDULE"
    /\ resume' = IF resume = "ABSENT" THEN "PENDING" ELSE resume
    /\ Step(j, IF resume' \in {"PENDING", "FAILED"} THEN "ENQUEUE" ELSE "GENERATE")
    /\ UNCHANGED <<session, evaluator, scan, api, spent>>

EnqueueResume(j) ==
    /\ worker[j].at = "ENQUEUE"
    /\ jobs' \in EnqueueOutcomes(jobs, ResumeJob)
    /\ worker' = [worker EXCEPT ![j].at = "GENERATE"]
    /\ UNCHANGED <<session, resume, evaluator, scan, api, spent>>

\* Redis raises, before the job is stored or after.
EnqueueResumeFails(j) ==
    /\ worker[j].at = "ENQUEUE"
    /\ Spend("ERROR")
    /\ jobs' \in EnqueueOutcomes(jobs, ResumeJob) \cup {jobs}
    /\ worker' = [worker EXCEPT ![j].at = "MARK"]
    /\ UNCHANGED <<session, resume, evaluator, scan, api>>

\* mark_resume_evaluation_failed writes whatever the row's status is by now.
MarkResumeFailed(j) ==
    /\ worker[j].at = "MARK"
    /\ resume' = "FAILED"
    /\ Step(j, "GENERATE")
    /\ UNCHANGED <<session, evaluator, scan, api, spent>>

\* An AppError: no such knowledge base, no context, invalid questions twice.
RejectInput(j) ==
    /\ worker[j].at \in {"LOAD", "GENERATE"}
    /\ Step(j, "FAIL")
    /\ UNCHANGED <<session, resume, evaluator, scan, api, spent>>

\* The row persist_questions_and_ready leaves.
Prepared(j) ==
    IF session.status = "PREPARING"
    THEN [session EXCEPT !.status = "READY", !.questions = worker[j].claim] ELSE session

\* READY is returned as it is; any other status raises an AppError.
PersistQuestions(j) ==
    /\ worker[j].at = "GENERATE"
    /\ session' = Prepared(j)
    /\ IF session.status \in {"PREPARING", "READY"} THEN End(j, Finished(jobs, j))
       ELSE Step(j, "FAIL")
    /\ UNCHANGED <<resume, evaluator, scan, api, spent>>

\* The row mark_failed leaves; it raises for a session that is READY or has
\* been started, which ends the job the same way.
FailedRow ==
    IF session.status \in {"CREATED", "PREPARING"}
    THEN [session EXCEPT !.status = "FAILED", !.questions = 0, !.flagged = FALSE]
    ELSE session

MarkFailed(j) ==
    /\ worker[j].at = "FAIL"
    /\ session' = FailedRow
    /\ End(j, Finished(jobs, j))
    /\ UNCHANGED <<resume, evaluator, scan, api, spent>>

\* schedule_resume_evaluation catches its exceptions and goes on.
ScheduleError(j) ==
    /\ worker[j].at \in {"SCHEDULE", "MARK"}
    /\ Spend("ERROR")
    /\ Step(j, IF worker[j].at = "SCHEDULE" THEN "MARK" ELSE "GENERATE")
    /\ UNCHANGED <<session, resume, evaluator, scan, api>>

\* Any other exception: Retry, unless this was the last try.  A database error
\* that was caught before comes back with the next statement.
TransientError(j) ==
    /\ worker[j].at \in {"LOAD", "SCHEDULE", "MARK", "GENERATE"}
    /\ Spend("ERROR")
    /\ IF jobs[j].try >= MaxAttempts THEN Step(j, "FAIL") ELSE End(j, Requeued(jobs, j))
    /\ UNCHANGED <<session, resume, evaluator, scan, api>>

\* mark_failed itself raises.
WriteError(j) ==
    /\ worker[j].at = "FAIL"
    /\ Spend("ERROR")
    /\ End(j, Finished(jobs, j))
    /\ UNCHANGED <<session, resume, evaluator, scan, api>>

\* CancelledError is raised again: ARQ gives the job up.
JobTimeout(j) ==
    /\ worker[j].at # "IDLE"
    /\ Spend("TIMEOUT")
    /\ End(j, Finished(jobs, j))
    /\ UNCHANGED <<session, resume, evaluator, scan, api>>

\* The worker is shut down or dies: the job is delivered again.
WorkerCrash(j) ==
    /\ worker[j].at # "IDLE"
    /\ Spend("CRASH")
    /\ End(j, Requeued(jobs, j))
    /\ UNCHANGED <<session, resume, evaluator, scan, api>>

-----------------------------------------------------------------------------
(* The resume job: process_interview_resume_evaluation and                 *)
(* InterviewResumeEvaluationWorkflow.evaluate.                             *)

\* claim_resume_evaluation: PENDING and FAILED become EVALUATING, any other
\* status ends the job.
ClaimResume ==
    /\ jobs[ResumeJob].phase = "QUEUED" /\ ~TriesExhausted(jobs, ResumeJob, MaxTries)
    /\ IF resume \in {"PENDING", "FAILED"}
       THEN /\ resume' = "EVALUATING"
            /\ evaluator' = TRUE
            /\ jobs' = Delivered(jobs, ResumeJob)
       ELSE /\ jobs' = Finished(jobs, ResumeJob)
            /\ UNCHANGED <<resume, evaluator>>
    /\ UNCHANGED <<session, worker, scan, api, spent>>

\* persist_resume_evaluation and mark_resume_evaluation_failed write the row,
\* whatever its status is by now; without a provider it becomes UNAVAILABLE.
PersistResume == resume' = "COMPLETED"
MarkResume == resume' \in {"FAILED", "UNAVAILABLE"}

EndResume ==
    /\ evaluator
    /\ PersistResume \/ MarkResume
    /\ evaluator' = FALSE
    /\ jobs' = Finished(jobs, ResumeJob)
    /\ UNCHANGED <<session, worker, scan, api, spent>>

\* The job ends without writing its row: the failing write is suppressed or
\* the job is cut off by job_timeout; a crash has it delivered again.
CutResume ==
    /\ evaluator
    /\ \/ /\ Spend("ERROR") \/ Spend("TIMEOUT")
          /\ jobs' = Finished(jobs, ResumeJob)
       \/ /\ Spend("CRASH")
          /\ jobs' = Requeued(jobs, ResumeJob)
    /\ evaluator' = FALSE
    /\ UNCHANGED <<session, resume, worker, scan, api>>

-----------------------------------------------------------------------------
(* The recovery loop: _recover_interview_preparations.                     *)

HoldsLatestClaim(j) == worker[j].at # "IDLE" /\ worker[j].claim = session.attempts

\* interview_preparation_stale_seconds have passed since the last claim.
ClaimGoesStale ==
    /\ session.status = "PREPARING" /\ session.started = "FRESH"
    /\ StaleAfterTimeout => ~\E j \in PreparationJobs : HoldsLatestClaim(j)
    /\ session' = [session EXCEPT !.started = "STALE"]
    /\ UNCHANGED <<resume, jobs, worker, evaluator, scan, api, spent>>

\* Mutant: only preparations never claimed are found.
RecoverableUnclaimed == session.status = "PREPARING" /\ session.started = "NONE"

Recoverable == session.status = "PREPARING" /\ session.started # "FRESH"

\* list_recoverable_preparations: the job id comes from the count it read.
RecoveryScan ==
    /\ scan = NoScan
    /\ Recoverable
    /\ session.attempts <= MaxClaims
    /\ scan' = RecoveryJob(session.attempts)
    /\ UNCHANGED <<session, resume, jobs, worker, evaluator, api, spent>>

RecoveryEnqueue ==
    /\ scan # NoScan
    /\ jobs' \in EnqueueOutcomes(jobs, scan)
    /\ scan' = NoScan
    /\ UNCHANGED <<session, resume, worker, evaluator, api, spent>>

\* Redis raises and the round is over, or the process of the loop dies.
RecoveryFails ==
    /\ scan # NoScan
    /\ Spend("ERROR")
    /\ scan' = NoScan
    /\ UNCHANGED <<session, resume, jobs, worker, evaluator, api>>

-----------------------------------------------------------------------------

Request(c) ==
    \/ CreateSession(c)
    \/ BeginPreparing(c)
    \/ EnqueuePreparation(c)
    \/ EnqueueFails(c)
    \/ ReleaseForRetry(c)
    \/ ApiCrash(c)

User == StartSession \/ CancelSession

Preparation(j) ==
    \/ Claim(j)
    \/ Refuse(j)
    \/ DropDelivery(j)
    \/ LoseDelivery(j)
    \/ LoadSession(j)
    \/ ScheduleResume(j)
    \/ EnqueueResume(j)
    \/ EnqueueResumeFails(j)
    \/ MarkResumeFailed(j)
    \/ RejectInput(j)
    \/ PersistQuestions(j)
    \/ MarkFailed(j)
    \/ ScheduleError(j)
    \/ TransientError(j)
    \/ WriteError(j)
    \/ JobTimeout(j)
    \/ WorkerCrash(j)

ResumeEvaluation == ClaimResume \/ EndResume \/ CutResume

Recovery ==
    \/ ClaimGoesStale
    \/ RecoveryScan
    \/ RecoveryEnqueue
    \/ RecoveryFails

Next ==
    \/ \E c \in Clients : Request(c)
    \/ User
    \/ \E j \in PreparationJobs : Preparation(j)
    \/ ResumeEvaluation
    \/ Recovery

Spec == Init /\ [][Next]_vars

(* Deliveries, coroutines, the recovery loop and the clock keep going; a    *)
(* stored result expires, so an enqueue of the loop is accepted in the end. *)
(* Requests and the user owe nothing, and no fault is owed.                 *)
Fairness ==
    /\ \A j \in PreparationJobs :
          /\ WF_vars(\/ Claim(j) \/ Refuse(j) \/ LoadSession(j) \/ ScheduleResume(j)
                     \/ EnqueueResume(j) \/ MarkResumeFailed(j)
                     \/ PersistQuestions(j) \/ MarkFailed(j))
          /\ WF_vars(DropDelivery(j) /\ UNCHANGED spent)
    /\ WF_vars(ClaimResume \/ EndResume)
    /\ WF_vars(ClaimGoesStale)
    /\ WF_vars(RecoveryScan)
    /\ WF_vars(RecoveryEnqueue)
    /\ SF_vars(RecoveryEnqueue /\ jobs' # jobs)

FairSpec == Spec /\ Fairness

-----------------------------------------------------------------------------
(* Properties.                                                             *)

\* Every variable has its type; the claims that coroutines and questions refer
\* to have been counted in preparation_attempt_count.
TypeOK ==
    /\ session \in Session
    /\ session.questions <= session.attempts
    /\ resume \in ResumeStatus
    /\ jobs \in [JobIds -> Job]
    /\ worker \in [PreparationJobs -> Worker]
    /\ \A j \in PreparationJobs : worker[j].claim <= session.attempts
    /\ evaluator \in BOOLEAN
    /\ scan \in JobIds
    /\ api \in [Clients -> ClientStep]
    /\ spent \in [BoundedEvent -> Nat]

\* The queue-unavailable mark that makes a repeated request enqueue again is
\* only on a preparation no worker has ever claimed, even when the enqueue
\* reported as failed did reach Redis and its job is already running.
FlaggedIsUnclaimed ==
    session.flagged => session.attempts = 0 /\ session.started = "NONE"

\* As long as no delivery is lost before its claim, one worker at a time
\* prepares the session: the submit job, its retries and the recovery jobs
\* never run side by side.
ClaimIsExclusive ==
    spent["LOST"] = 0 =>
        \A i, j \in PreparationJobs :
            worker[i].at # "IDLE" /\ worker[j].at # "IDLE" => i = j

\* Whichever jobs run side by side, the questions of a session that has become
\* READY are never replaced or deleted, by late jobs, late failures, repeated
\* requests or a cancellation.
QuestionsAreFinal ==
    [][session.questions # 0 => session'.questions = session.questions]_vars

\* The session's life without the machinery that prepares it.
Life == INSTANCE PreparationLife WITH
    phase <- session.status, questions <- session.questions

\* Requests, jobs, claims and recovery together implement the plain life of a
\* session: queued once, prepared once, failed without questions, and a late
\* job undoes neither a start nor a cancellation.
ImplementsLife == Life!Spec

\* A queued preparation ends, through any finite number of crashes, timeouts
\* and errors and whatever becomes of the resume evaluation beside it.
PreparationSettles ==
    session.status = "PREPARING" ~>
        session.status \in {"READY", "IN_PROGRESS", "FAILED", "CANCELLED"}
=============================================================================
