-------------------------- MODULE ReportGeneration --------------------------
(***************************************************************************)
(* The report of one COMPLETED interview: POST .../report, the generation  *)
(* job with its fenced claim, the lease renewal task beside it, and the    *)
(* recovery loop, all on one interview_reports row.                        *)
(*                                                                         *)
(* A job works through two database sessions: its own, and the lease       *)
(* session of the renewal task.  Every repository method that writes takes *)
(* SELECT ... FOR UPDATE on the row and commits once, so each is one       *)
(* action; but renew_generation_lease returns False without a commit or a  *)
(* rollback, and the lease session then keeps the row lock until the job   *)
(* has ended (held).                                                       *)
(*                                                                         *)
(* The clock is abstracted: a lease is LIVE or EXPIRED, generation_        *)
(* queued_at is FRESH or STALE (older than report_generation_stale_        *)
(* seconds).  Fencing tokens are numbered in the order of the claims.      *)
(* Scores and texts are left out.                                          *)
(***************************************************************************)
EXTENDS ArqQueue, FiniteSets

CONSTANTS
    MaxAttempts,   \* report_task_max_attempts
    MaxTries,      \* max_tries of the Worker: the largest of the settings
    Clients,       \* concurrent POST .../report requests
    MaxPosts,      \* bound: POST .../report requests received
    MaxCrashes,    \* bound: processes that die or are shut down
    MaxTimeouts,   \* bound: jobs cut off by job_timeout
    MaxErrors,     \* bound: provider, database or Redis errors
    MaxInvalid,    \* bound: builds that end in ReportGenerationError
    MaxStalls,     \* bound: renewals held up for longer than a lease
    MaxFaults      \* bound: all of these faults together

ASSUME ReportAssumption ==
    /\ MaxAttempts \in Nat \ {0}
    /\ MaxTries \in Nat /\ MaxTries >= MaxAttempts
    /\ MaxPosts \in Nat /\ MaxCrashes \in Nat /\ MaxTimeouts \in Nat
    /\ MaxErrors \in Nat /\ MaxInvalid \in Nat /\ MaxStalls \in Nat
    /\ MaxFaults \in Nat

VARIABLES
    report,   \* the interview_reports row
    claims,   \* how many fencing tokens have been drawn
    held,     \* the job whose lease session keeps the row lock, or NoHolder
    jobs,     \* ARQ jobs, by job id
    worker,   \* per job id: what its running coroutine knows
    round,    \* the recovery loop's round
    api,      \* per client: its POST .../report request
    spent     \* how often each bounded event has happened

vars == <<report, claims, held, jobs, worker, round, api, spent>>

-----------------------------------------------------------------------------
(* Rows, ids and local states.                                             *)

ReportStatus == {"ABSENT", "PENDING", "GENERATING", "READY", "FAILED"}

\* token and by are claim numbers, 0 for none; by is the claim under which a
\* READY report was built.
Report == [status : ReportStatus, queued : {"NONE", "FRESH", "STALE"},
           attempts : Nat, lease : {"NONE", "LIVE", "EXPIRED"},
           token : Nat, by : Nat]

NoReport == [status |-> "ABSENT", queued |-> "NONE", attempts |-> 0,
             lease |-> "NONE", token |-> 0, by |-> 0]

PendingReport == [NoReport EXCEPT !.status = "PENDING"]

\* interview-report-generation:{report} is job 0, and
\* interview-report-generation:{report}:{n} is job n.
SubmitJob == 0
JobIds == SubmitJob .. MaxAttempts
NoHolder == MaxAttempts + 1

\* BUILD covers the reads and the narrative, up to the look at lease_lost;
\* FAIL, RELEASE and CUT are the except branches.
WorkerStep == {"IDLE", "BUILD", "PERSIST", "FAIL", "RELEASE", "CUT"}

\* The renewal task: REFUSED means its SELECT ... FOR UPDATE found another
\* token or status and lease_lost is about to be set.
Renewal == {"RUNNING", "REFUSED", "LOST"}

Worker == [at : WorkerStep, token : Nat, renewal : Renewal, again : BOOLEAN]
IdleWorker == [at |-> "IDLE", token |-> 0, renewal |-> "LOST", again |-> FALSE]

ClientStep == {"IDLE", "RESET", "QUEUE", "ENQUEUE", "CLEAR"}

Round == [at : {"IDLE", "MARK", "ENQUEUE"}, job : JobIds]
NoRound == [at |-> "IDLE", job |-> SubmitJob]

BoundedEvent == {"POST", "CRASH", "TIMEOUT", "ERROR", "INVALID", "STALL"}
Bound == [POST |-> MaxPosts, CRASH |-> MaxCrashes, TIMEOUT |-> MaxTimeouts,
          ERROR |-> MaxErrors, INVALID |-> MaxInvalid, STALL |-> MaxStalls]

Faults == spent["CRASH"] + spent["TIMEOUT"] + spent["ERROR"] + spent["INVALID"]
            + spent["STALL"]

Spend(kind) == /\ spent[kind] < Bound[kind]
               /\ kind = "POST" \/ Faults < MaxFaults
               /\ spent' = [spent EXCEPT ![kind] = @ + 1]

Unlocked == held = NoHolder

Init ==
    /\ report = NoReport
    /\ claims = 0
    /\ held = NoHolder
    /\ jobs = EmptyQueue(JobIds)
    /\ worker = [j \in JobIds |-> IdleWorker]
    /\ round = NoRound
    /\ api = [c \in Clients |-> "IDLE"]
    /\ spent = [k \in BoundedEvent |-> 0]

-----------------------------------------------------------------------------
(* API: InterviewReportService.generate.  That the interview is COMPLETED   *)
(* with a graded answer holds from the start: nothing takes it back.        *)

Goto(c, step) == api' = [api EXCEPT ![c] = step]

NextStep(row) ==
    IF row.status = "FAILED" THEN "RESET"
    ELSE IF row.status = "PENDING" /\ row.queued = "NONE" THEN "QUEUE"
    ELSE "IDLE"

\* create_pending: one report per session, by a unique constraint.
CreatePending(c) ==
    /\ api[c] = "IDLE"
    /\ Spend("POST")
    /\ report' = IF report.status = "ABSENT" THEN PendingReport ELSE report
    /\ Goto(c, NextStep(report'))
    /\ UNCHANGED <<claims, held, jobs, worker, round>>

\* reset_for_retry: only a FAILED report starts over.
ResetForRetry(c) ==
    /\ api[c] = "RESET" /\ Unlocked
    /\ report' = IF report.status = "FAILED" THEN PendingReport ELSE report
    /\ Goto(c, IF NextStep(report') = "QUEUE" THEN "QUEUE" ELSE "IDLE")
    /\ UNCHANGED <<claims, held, jobs, worker, round, spent>>

\* Mutant: mark_queued also stamps a READY report.
MarkedAlways == [report EXCEPT !.queued = "FRESH"]

\* The row after mark_queued; a FAILED one makes it raise.
Marked ==
    IF report.status \in {"READY", "FAILED"} THEN report
    ELSE [report EXCEPT !.queued = "FRESH"]

MarkQueued(c) ==
    /\ api[c] = "QUEUE" /\ Unlocked
    /\ report' = Marked
    /\ Goto(c, IF report.status = "FAILED" THEN "CLEAR" ELSE "ENQUEUE")
    /\ UNCHANGED <<claims, held, jobs, worker, round, spent>>

EnqueueReport(c) ==
    /\ api[c] = "ENQUEUE"
    /\ jobs' \in EnqueueOutcomes(jobs, SubmitJob)
    /\ Goto(c, "IDLE")
    /\ UNCHANGED <<report, claims, held, worker, round, spent>>

\* mark_queued or Redis raises.
EnqueueFails(c) ==
    /\ api[c] \in {"QUEUE", "ENQUEUE"}
    /\ Spend("ERROR")
    /\ Goto(c, "CLEAR")
    /\ UNCHANGED <<report, claims, held, jobs, worker, round>>

\* clear_queued, then 503.
ClearQueued(c) ==
    /\ api[c] = "CLEAR" /\ Unlocked
    /\ report' = IF report.status = "PENDING"
                 THEN [report EXCEPT !.queued = "NONE"] ELSE report
    /\ Goto(c, "IDLE")
    /\ UNCHANGED <<claims, held, jobs, worker, round, spent>>

\* The API process dies, or clear_queued raises and is suppressed.
ApiCrash(c) ==
    /\ api[c] # "IDLE"
    /\ Spend("CRASH")
    /\ Goto(c, "IDLE")
    /\ UNCHANGED <<report, claims, held, jobs, worker, round>>

-----------------------------------------------------------------------------
(* The job: process_interview_report_generation and                        *)
(* InterviewReportService.process_generation_job.                          *)

Owns(j) == /\ report.status = "GENERATING"
           /\ report.token = worker[j].token

\* The coroutine ends and both of its database sessions are closed.
End(j, queue) ==
    /\ jobs' = queue
    /\ worker' = [worker EXCEPT ![j] = IdleWorker]
    /\ held' = IF held = j THEN NoHolder ELSE held

Step(j, step) ==
    /\ worker' = [worker EXCEPT ![j].at = step]
    /\ UNCHANGED <<held, jobs>>

NextAttempt(try) ==
    IF try > report.attempts THEN try ELSE report.attempts + 1

\* Mutant: a lease that still runs can be taken over.
MayClaimLive(try) ==
    /\ report.status \in {"PENDING", "GENERATING"}
    /\ NextAttempt(try) <= MaxAttempts

MayClaim(try) ==
    /\ report.status = "PENDING" \/ (report.status = "GENERATING" /\ report.lease # "LIVE")
    /\ NextAttempt(try) <= MaxAttempts

\* claim_generation grants a new token, and the renewal task starts.
Claim(j) ==
    LET try == jobs[j].try + 1 IN
    /\ jobs[j].phase = "QUEUED" /\ ~TriesExhausted(jobs, j, MaxTries)
    /\ Unlocked
    /\ MayClaim(try)
    /\ claims' = claims + 1
    /\ report' = [report EXCEPT !.status = "GENERATING", !.attempts = NextAttempt(try),
                                !.lease = "LIVE", !.token = claims + 1]
    /\ jobs' = Delivered(jobs, j)
    /\ worker' = [worker EXCEPT ![j] = [at |-> "BUILD", token |-> claims + 1,
                                        renewal |-> "RUNNING", again |-> FALSE]]
    /\ UNCHANGED <<held, round, api, spent>>

\* claim_generation returns None and the job is done.
Refuse(j) ==
    /\ jobs[j].phase = "QUEUED" /\ ~TriesExhausted(jobs, j, MaxTries)
    /\ Unlocked
    /\ ~MayClaim(jobs[j].try + 1)
    /\ jobs' = Finished(jobs, j)
    /\ UNCHANGED <<report, claims, held, worker, round, api, spent>>

\* ARQ drops a delivery past max_tries; or claim_generation itself raises,
\* which is outside of the try block, so the job ends without a Retry.
DropDelivery(j) ==
    /\ jobs[j].phase = "QUEUED"
    /\ \/ TriesExhausted(jobs, j, MaxTries) /\ UNCHANGED spent
       \/ Spend("ERROR")
    /\ jobs' = Finished(jobs, j)
    /\ UNCHANGED <<report, claims, held, worker, round, api>>

\* _build_and_persist_report up to the last look at lease_lost.
Build(j) ==
    /\ worker[j].at = "BUILD"
    /\ IF worker[j].renewal = "LOST" THEN End(j, Finished(jobs, j)) ELSE Step(j, "PERSIST")
    /\ UNCHANGED <<report, claims, round, api, spent>>

\* An inconsistent snapshot or a failing fallback: ReportGenerationError.
RejectSnapshot(j) ==
    /\ worker[j].at = "BUILD"
    /\ Spend("INVALID")
    /\ Step(j, "FAIL")
    /\ UNCHANGED <<report, claims, round, api>>

\* Mutant: persist_ready does not compare the fencing tokens.
WrittenBy(j) ==
    IF report.status = "GENERATING"
    THEN [report EXCEPT !.status = "READY", !.lease = "NONE", !.token = 0,
                        !.by = worker[j].token]
    ELSE report

\* The row persist_ready leaves: a report that is READY already and one under
\* another claim stay as they are.
ReadyBy(j) ==
    IF Owns(j)
    THEN [report EXCEPT !.status = "READY", !.lease = "NONE", !.token = 0,
                        !.by = worker[j].token]
    ELSE report

\* A report that is no longer GENERATING makes persist_ready raise ValueError.
PersistReady(j) ==
    /\ worker[j].at = "PERSIST" /\ Unlocked
    /\ report' = ReadyBy(j)
    /\ IF report.status \in {"PENDING", "FAILED"} THEN Step(j, "FAIL")
       ELSE End(j, Finished(jobs, j))
    /\ UNCHANGED <<claims, round, api, spent>>

\* Mutant: mark_failed does not compare the fencing tokens.
MarkFailedAlways(j) ==
    /\ worker[j].at = "FAIL" /\ Unlocked
    /\ report' = IF report.status # "READY"
                 THEN [report EXCEPT !.status = "FAILED", !.lease = "NONE", !.token = 0]
                 ELSE report
    /\ End(j, Finished(jobs, j))
    /\ UNCHANGED <<claims, round, api, spent>>

\* mark_failed by _mark_failed_if_owner; a lost lease is swallowed.
MarkFailed(j) ==
    /\ worker[j].at = "FAIL" /\ Unlocked
    /\ report' = IF Owns(j)
                 THEN [report EXCEPT !.status = "FAILED", !.lease = "NONE", !.token = 0]
                 ELSE report
    /\ End(j, Finished(jobs, j))
    /\ UNCHANGED <<claims, round, api, spent>>

\* Any other exception: another try, unless this was the last.  If it came
\* from the database, release_generation_for_retry runs in the broken
\* transaction (only mark_failed rolls back first), raises, and no Retry
\* follows.
BuildError(j) ==
    /\ worker[j].at \in {"BUILD", "PERSIST"}
    /\ Spend("ERROR")
    /\ \/ Step(j, IF jobs[j].try >= MaxAttempts THEN "FAIL" ELSE "RELEASE")
       \/ jobs[j].try < MaxAttempts /\ End(j, Finished(jobs, j))
    /\ UNCHANGED <<report, claims, round, api>>

\* The row release_generation_for_retry leaves.
Released(j) ==
    IF Owns(j)
    THEN [report EXCEPT !.status = "PENDING", !.queued = "NONE", !.lease = "NONE", !.token = 0]
    ELSE report

\* Retry only if the release found the claim in place.
Release(j) ==
    /\ worker[j].at = "RELEASE" /\ Unlocked
    /\ report' = Released(j)
    /\ End(j, IF Owns(j) THEN Requeued(jobs, j) ELSE Finished(jobs, j))
    /\ UNCHANGED <<claims, round, api, spent>>

\* CancelledError inside the try block: the claim is released, then ARQ gives
\* the job up (job_timeout) or delivers it again (shutdown).
ReleaseCut(j) ==
    /\ worker[j].at = "CUT" /\ Unlocked
    /\ report' = Released(j)
    /\ End(j, IF worker[j].again THEN Requeued(jobs, j) ELSE Finished(jobs, j))
    /\ UNCHANGED <<claims, round, api, spent>>

\* CancelledError reaches the job, in the try block or in an except branch.
\* One that interrupts a database call breaks the session: the release then
\* raises, and ARQ takes the job for failed.
Cancelled(j, again) ==
    \/ /\ worker[j].at \in {"BUILD", "PERSIST"}
       /\ End(j, Finished(jobs, j))
    \/ /\ worker[j].at \in {"BUILD", "PERSIST"}
       /\ worker' = [worker EXCEPT ![j].at = "CUT", ![j].again = again]
       /\ UNCHANGED <<held, jobs>>
    \/ /\ worker[j].at \in {"FAIL", "RELEASE"}
       /\ End(j, IF again THEN Requeued(jobs, j) ELSE Finished(jobs, j))

JobTimeout(j) ==
    /\ Spend("TIMEOUT")
    /\ Cancelled(j, FALSE)
    /\ UNCHANGED <<report, claims, round, api>>

WorkerShutdown(j) ==
    /\ Spend("CRASH")
    /\ Cancelled(j, TRUE)
    /\ UNCHANGED <<report, claims, round, api>>

\* The process is killed: nothing is released, the job is delivered again.
WorkerCrash(j) ==
    /\ worker[j].at # "IDLE"
    /\ Spend("CRASH")
    /\ End(j, Requeued(jobs, j))
    /\ UNCHANGED <<report, claims, round, api>>

\* mark_failed or release_generation_for_retry itself raises.
WriteError(j) ==
    /\ worker[j].at \in {"FAIL", "RELEASE", "CUT"}
    /\ Spend("ERROR")
    /\ End(j, Finished(jobs, j))
    /\ UNCHANGED <<report, claims, round, api>>

-----------------------------------------------------------------------------
(* The renewal task: _renew_generation_lease.                              *)

Renewing(j) == worker[j].at # "IDLE" /\ worker[j].renewal = "RUNNING"

\* renew_generation_lease: the refusal ends no transaction.
Renew(j) ==
    /\ Renewing(j) /\ Unlocked
    /\ IF Owns(j)
       THEN /\ report' = [report EXCEPT !.lease = "LIVE"]
            /\ UNCHANGED <<held, worker>>
       ELSE /\ held' = j
            /\ worker' = [worker EXCEPT ![j].renewal = "REFUSED"]
            /\ UNCHANGED report
    /\ UNCHANGED <<claims, jobs, round, api, spent>>

\* lease_lost.set() after the refusal.
NoticeLoss(j) ==
    /\ worker[j].renewal = "REFUSED"
    /\ worker' = [worker EXCEPT ![j].renewal = "LOST"]
    /\ UNCHANGED <<report, claims, held, jobs, round, api, spent>>

\* An exception in the renewal also sets lease_lost; its transaction is over.
RenewError(j) ==
    /\ Renewing(j)
    /\ Spend("ERROR")
    /\ worker' = [worker EXCEPT ![j].renewal = "LOST"]
    /\ UNCHANGED <<report, claims, held, jobs, round, api>>

\* The lease runs out: nobody renews it, its renewal waits for the row lock,
\* or the event loop or the database stalls for longer than the lease.
LeaseExpires ==
    /\ report.lease = "LIVE"
    /\ \/ /\ Unlocked => ~\E j \in JobIds : Renewing(j) /\ Owns(j)
          /\ UNCHANGED spent
       \/ Spend("STALL")
    /\ report' = [report EXCEPT !.lease = "EXPIRED"]
    /\ UNCHANGED <<claims, held, jobs, worker, round, api>>

-----------------------------------------------------------------------------
(* The recovery loop: _recover_interview_reports.                          *)

\* report_generation_stale_seconds have passed since mark_queued; only the
\* age of a PENDING row is ever looked at.
QueuedGoesStale ==
    /\ report.status = "PENDING" /\ report.queued = "FRESH"
    /\ report' = [report EXCEPT !.queued = "STALE"]
    /\ UNCHANGED <<claims, held, jobs, worker, round, api, spent>>

\* Mutant: only reports never queued are found.
RecoverableUnqueued ==
    /\ report.attempts < MaxAttempts
    /\ report.status = "PENDING" /\ report.queued = "NONE"

Recoverable ==
    /\ report.attempts < MaxAttempts
    /\ \/ report.status = "PENDING" /\ report.queued # "FRESH"
       \/ report.status = "GENERATING" /\ report.lease # "LIVE"

\* list_recoverable_generations: the job id comes from the count it read.
RecoveryScan ==
    /\ round.at = "IDLE"
    /\ Recoverable
    /\ round' = [at |-> "MARK", job |-> report.attempts + 1]
    /\ UNCHANGED <<report, claims, held, jobs, worker, api, spent>>

\* mark_queued raises for a FAILED report, and the whole round is over.
RecoveryMark ==
    /\ round.at = "MARK" /\ Unlocked
    /\ report' = Marked
    /\ round' = IF report.status = "FAILED" THEN NoRound ELSE [round EXCEPT !.at = "ENQUEUE"]
    /\ UNCHANGED <<claims, held, jobs, worker, api, spent>>

RecoveryEnqueue ==
    /\ round.at = "ENQUEUE"
    /\ jobs' \in EnqueueOutcomes(jobs, round.job)
    /\ round' = NoRound
    /\ UNCHANGED <<report, claims, held, worker, api, spent>>

\* The database or Redis raises, or the process of the loop dies.
RecoveryFails ==
    /\ round.at # "IDLE"
    /\ Spend("ERROR")
    /\ round' = NoRound
    /\ UNCHANGED <<report, claims, held, jobs, worker, api>>

-----------------------------------------------------------------------------

Request(c) ==
    \/ CreatePending(c)
    \/ ResetForRetry(c)
    \/ MarkQueued(c)
    \/ EnqueueReport(c)
    \/ EnqueueFails(c)
    \/ ClearQueued(c)
    \/ ApiCrash(c)

Generation(j) ==
    \/ Claim(j)
    \/ Refuse(j)
    \/ DropDelivery(j)
    \/ Build(j)
    \/ RejectSnapshot(j)
    \/ PersistReady(j)
    \/ MarkFailed(j)
    \/ BuildError(j)
    \/ Release(j)
    \/ ReleaseCut(j)
    \/ JobTimeout(j)
    \/ WorkerShutdown(j)
    \/ WorkerCrash(j)
    \/ WriteError(j)

Leasing(j) ==
    \/ Renew(j)
    \/ NoticeLoss(j)
    \/ RenewError(j)

Recovery ==
    \/ LeaseExpires
    \/ QueuedGoesStale
    \/ RecoveryScan
    \/ RecoveryMark
    \/ RecoveryEnqueue
    \/ RecoveryFails

Next ==
    \/ \E c \in Clients : Request(c)
    \/ \E j \in JobIds : Generation(j)
    \/ \E j \in JobIds : Leasing(j)
    \/ Recovery

Spec == Init /\ [][Next]_vars

(* Requests, deliveries, coroutines, the recovery loop and the clock keep   *)
(* going; a stored result expires, so an enqueue of the loop is accepted in *)
(* the end.  No request is ever owed, and no fault.                         *)
Fairness ==
    /\ \A c \in Clients :
          WF_vars(ResetForRetry(c) \/ MarkQueued(c) \/ EnqueueReport(c) \/ ClearQueued(c))
    /\ \A j \in JobIds :
          /\ WF_vars(\/ Claim(j) \/ Refuse(j) \/ Build(j) \/ PersistReady(j)
                     \/ MarkFailed(j) \/ Release(j) \/ ReleaseCut(j))
          /\ WF_vars(DropDelivery(j) /\ UNCHANGED spent)
          /\ WF_vars(NoticeLoss(j))
    /\ WF_vars(LeaseExpires /\ UNCHANGED spent)
    /\ WF_vars(QueuedGoesStale)
    /\ WF_vars(RecoveryScan)
    /\ WF_vars(RecoveryMark)
    /\ WF_vars(RecoveryEnqueue)
    /\ SF_vars(RecoveryEnqueue /\ jobs' # jobs)

FairSpec == Spec /\ Fairness

-----------------------------------------------------------------------------
(* Properties.                                                             *)

\* Every variable has its type.
TypeOK ==
    /\ report \in Report
    /\ claims \in Nat
    /\ held \in JobIds \cup {NoHolder}
    /\ jobs \in [JobIds -> Job]
    /\ worker \in [JobIds -> Worker]
    /\ round \in Round
    /\ api \in [Clients -> ClientStep]
    /\ spent \in [BoundedEvent -> Nat]

\* A row is under a lease and a token exactly while it is GENERATING, and the
\* token is the last one drawn; every coroutine under way holds a token of its
\* own.
ClaimsAreConsistent ==
    /\ report.status = "GENERATING" <=> report.lease # "NONE"
    /\ report.token = (IF report.status = "GENERATING" THEN claims ELSE 0)
    /\ \A j \in JobIds :
          /\ worker[j].token \in (IF worker[j].at = "IDLE" THEN {0} ELSE 1 .. claims)
          /\ worker[j].at # "IDLE" <=> jobs[j].phase = "RUNNING"
    /\ \A i, j \in JobIds :
          worker[i].token = worker[j].token /\ worker[i].at # "IDLE" => i = j

\* A READY report was written under the last claim ever granted: a job that
\* lost its lease writes nothing, however late it wakes up, and no claim is
\* granted after that.
LatestClaimWins == report.status = "READY" => report.by = claims

\* The strengthening the proofs use.
ReportInv == TypeOK /\ ClaimsAreConsistent /\ LatestClaimWins

\* A READY report is an immutable snapshot: no request, late job or recovery
\* round changes its row.
ReadyIsFinal == [][report.status = "READY" => report' = report]_vars

\* Coroutines that build the report and believe in their lease.
Builders == {j \in JobIds : /\ worker[j].at \in {"BUILD", "PERSIST"}
                            /\ worker[j].renewal = "RUNNING"}

\* "a database row lock [prevents] concurrent duplicate generation": as long
\* as no renewal is held up for a whole lease, one coroutine at a time builds
\* the report under a lease it still renews.
OneBuilder == spent["STALL"] = 0 => Cardinality(Builders) <= 1

\* No job waits for a row lock that its own lease session keeps: nothing but
\* the death of the process would ever end such a wait.
NeverWaitsForItself ==
    held # NoHolder => worker[held].at \notin {"PERSIST", "FAIL", "RELEASE", "CUT"}

\* The report's life without its machinery.
Life == INSTANCE ReportLife WITH
    phase <- report.status, tries <- report.attempts

\* Claims, leases, retries and recovery together implement the plain life of a
\* report: bounded tries, a failure that is written only after a try, a fresh
\* start only from FAILED, and nothing after READY.
ImplementsLife == Life!Spec

\* A requested report gets READY or FAILED, unless as many faults as it has
\* attempts met it, or a stall let its job wait for its own row lock.
ReportSettles ==
    report.status \in {"PENDING", "GENERATING"} ~>
        \/ report.status \in {"READY", "FAILED"}
        \/ Faults >= MaxAttempts \/ spent["STALL"] > 0
=============================================================================
