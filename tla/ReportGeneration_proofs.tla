----------------------- MODULE ReportGeneration_proofs -----------------------
(***************************************************************************)
(* Theorems about ReportGeneration for every number of attempts, requests  *)
(* and faults.  The inductive invariant is ReportInv; it is shown in the   *)
(* three parts that the actions disturb separately.                        *)
(***************************************************************************)
EXTENDS ReportGeneration, FiniteSetTheorems, TLAPS

-----------------------------------------------------------------------------
(* ReportInv in three parts: the row, the coroutines, everything else.     *)

RowInv ==
    /\ report \in Report
    /\ claims \in Nat
    /\ report.status = "GENERATING" <=> report.lease # "NONE"
    /\ report.token = (IF report.status = "GENERATING" THEN claims ELSE 0)
    /\ report.status = "READY" => report.by = claims

CrewInv ==
    /\ held \in JobIds \cup {NoHolder}
    /\ jobs \in [JobIds -> Job]
    /\ worker \in [JobIds -> Worker]
    /\ \A j \in JobIds :
          /\ worker[j].token \in (IF worker[j].at = "IDLE" THEN {0} ELSE 1 .. claims)
          /\ worker[j].at # "IDLE" <=> jobs[j].phase = "RUNNING"
    /\ \A i, j \in JobIds :
          worker[i].token = worker[j].token /\ worker[i].at # "IDLE" => i = j

RestInv ==
    /\ round \in Round
    /\ api \in [Clients -> ClientStep]
    /\ spent \in [BoundedEvent -> Nat]

LEMMA InvSplit == ReportInv <=> RowInv /\ CrewInv /\ RestInv
  BY DEF ReportInv, TypeOK, ClaimsAreConsistent, LatestClaimWins, RowInv, CrewInv, RestInv

LEMMA IdsAreNumbers ==
    /\ JobIds \subseteq Nat
    /\ SubmitJob \in JobIds
    /\ NoHolder \notin JobIds
  BY ReportAssumption DEF JobIds, SubmitJob, NoHolder

-----------------------------------------------------------------------------
(* The row.                                                                *)

\* Every operation on the row keeps it well formed.
LEMMA RowsAreKept ==
    ASSUME RowInv
    PROVE  /\ [report EXCEPT !.queued = "FRESH"] \in Report
           /\ Marked \in Report
           /\ PendingReport \in Report
           /\ \A j : worker[j].token \in Nat => ReadyBy(j) \in Report
           /\ \A j : Released(j) \in Report
<1>1. Marked \in Report /\ [report EXCEPT !.queued = "FRESH"] \in Report
  BY DEF RowInv, Report, Marked
<1>2. PendingReport \in Report
  BY DEF PendingReport, NoReport, Report, ReportStatus
<1>3. ASSUME NEW j, worker[j].token \in Nat PROVE ReadyBy(j) \in Report
  BY <1>3 DEF RowInv, Report, ReadyBy, ReportStatus
<1>4. ASSUME NEW j PROVE Released(j) \in Report
  BY DEF RowInv, Report, Released, ReportStatus
<1>5. QED  BY <1>1, <1>2, <1>3, <1>4 DEF RowInv

LEMMA RequestKeepsRow ==
    ASSUME RowInv, NEW c \in Clients, Request(c)
    PROVE  RowInv'
<1>1. CASE CreatePending(c)
  BY <1>1, RowsAreKept DEF CreatePending, RowInv, PendingReport, NoReport
<1>2. CASE ResetForRetry(c)
  BY <1>2, RowsAreKept DEF ResetForRetry, RowInv, PendingReport, NoReport
<1>3. CASE MarkQueued(c)
  <2>1. report' = Marked /\ UNCHANGED claims
    BY <1>3 DEF MarkQueued
  <2>2. QED  BY <2>1, RowsAreKept DEF RowInv, Marked, Report
<1>4. CASE ClearQueued(c)
  <2>1. /\ report' = report \/ report' = [report EXCEPT !.queued = "NONE"]
        /\ UNCHANGED claims
    BY <1>4 DEF ClearQueued
  <2>2. QED  BY <2>1 DEF RowInv, Report
<1>5. CASE EnqueueReport(c) \/ EnqueueFails(c) \/ ApiCrash(c)
  BY <1>5 DEF EnqueueReport, EnqueueFails, ApiCrash, RowInv
<1>6. QED  BY <1>1, <1>2, <1>3, <1>4, <1>5 DEF Request

LEMMA GenerationKeepsRow ==
    ASSUME RowInv, CrewInv, NEW j \in JobIds, Generation(j)
    PROVE  RowInv'
<1> USE DEF RowInv
<1>1. CASE Claim(j)
  <2>1. /\ jobs[j].try + 1 \in Nat /\ report.attempts \in Nat
    BY DEF CrewInv, Job, Report
  <2>2. NextAttempt(jobs[j].try + 1) \in Nat
    BY <2>1 DEF NextAttempt
  <2>3. /\ report' = [report EXCEPT !.status = "GENERATING",
                          !.attempts = NextAttempt(jobs[j].try + 1),
                          !.lease = "LIVE", !.token = claims + 1]
        /\ claims' = claims + 1
    BY <1>1 DEF Claim
  <2>4. report' \in Report
    <3>1. PICK n \in Nat : report' = [report EXCEPT !.status = "GENERATING",
                             !.attempts = n, !.lease = "LIVE", !.token = claims + 1]
      BY <2>2, <2>3
    <3>2. claims + 1 \in Nat
      OBVIOUS
    <3>3. QED  BY <3>1, <3>2 DEF Report, ReportStatus
  <2>5. /\ report'.status = "GENERATING" /\ report'.lease = "LIVE"
        /\ report'.token = claims' /\ claims' \in Nat
    BY <2>3 DEF Report
  <2>6. QED  BY <2>4, <2>5
<1>2. CASE PersistReady(j)
  <2>1. report' = ReadyBy(j) /\ claims' = claims /\ worker[j].token \in Nat
    BY <1>2 DEF PersistReady, CrewInv, Worker
  <2>2. report' \in Report
    BY <2>1, RowsAreKept
  <2>3. QED  BY <2>1, <2>2 DEF ReadyBy, Owns, Report
<1>3. CASE MarkFailed(j)
  <2>1. /\ \/ report' = report
           \/ report' = [report EXCEPT !.status = "FAILED", !.lease = "NONE", !.token = 0]
        /\ claims' = claims
    BY <1>3 DEF MarkFailed
  <2>2. CASE report' = report
    BY <2>1, <2>2
  <2>3. CASE report' = [report EXCEPT !.status = "FAILED", !.lease = "NONE", !.token = 0]
    <3>1. report' \in Report
      BY <2>3 DEF Report, ReportStatus
    <3>2. report'.status = "FAILED" /\ report'.lease = "NONE" /\ report'.token = 0
      BY <2>3 DEF Report
    <3>3. QED  BY <2>1, <3>1, <3>2
  <2>4. QED  BY <2>1, <2>2, <2>3
<1>4. CASE Release(j) \/ ReleaseCut(j)
  <2>1. report' = Released(j) /\ claims' = claims
    BY <1>4 DEF Release, ReleaseCut
  <2>2. QED  BY <2>1, RowsAreKept DEF Released, Report
<1>5. CASE \/ Refuse(j) \/ DropDelivery(j) \/ Build(j) \/ RejectSnapshot(j)
           \/ BuildError(j) \/ JobTimeout(j) \/ WorkerShutdown(j)
           \/ WorkerCrash(j) \/ WriteError(j)
  <2>1. UNCHANGED <<report, claims>>
    BY <1>5 DEF Refuse, DropDelivery, Build, RejectSnapshot, BuildError, JobTimeout,
                WorkerShutdown, WorkerCrash, WriteError
  <2>2. QED  BY <2>1
<1>6. QED  BY <1>1, <1>2, <1>3, <1>4, <1>5 DEF Generation

LEMMA LeasingKeepsRow ==
    ASSUME RowInv, NEW j \in JobIds, Leasing(j)
    PROVE  RowInv'
<1>1. /\ \/ report' = report
         \/ Owns(j) /\ report' = [report EXCEPT !.lease = "LIVE"]
      /\ claims' = claims
  BY DEF Leasing, Renew, NoticeLoss, RenewError
<1>2. QED  BY <1>1 DEF RowInv, Owns, Report

LEMMA RecoveryKeepsRow ==
    ASSUME RowInv, Recovery
    PROVE  RowInv'
<1>1. CASE LeaseExpires
  BY <1>1 DEF LeaseExpires, RowInv, Report
<1>2. CASE QueuedGoesStale
  BY <1>2 DEF QueuedGoesStale, RowInv, Report
<1>3. CASE RecoveryMark
  <2>1. report' = Marked /\ UNCHANGED claims
    BY <1>3 DEF RecoveryMark
  <2>2. QED  BY <2>1, RowsAreKept DEF RowInv, Marked, Report
<1>4. CASE RecoveryScan \/ RecoveryEnqueue \/ RecoveryFails
  BY <1>4 DEF RecoveryScan, RecoveryEnqueue, RecoveryFails, RowInv
<1>5. QED  BY <1>1, <1>2, <1>3, <1>4 DEF Recovery

-----------------------------------------------------------------------------
(* The coroutines.                                                         *)

LEMMA QueueIsTyped ==
    ASSUME NEW queue \in [JobIds -> Job], NEW id \in JobIds
    PROVE  /\ Enqueued(queue, id) \in [JobIds -> Job]
           /\ Finished(queue, id) \in [JobIds -> Job]
           /\ Requeued(queue, id) \in [JobIds -> Job]
           /\ Delivered(queue, id) \in [JobIds -> Job]
<1>1. Enqueued(queue, id) \in [JobIds -> Job]
  BY DEF Enqueued, Job, JobPhase
<1>2. Finished(queue, id) \in [JobIds -> Job]
  BY DEF Finished, Job, JobPhase
<1>3. Requeued(queue, id) \in [JobIds -> Job]
  BY DEF Requeued, Job, JobPhase
<1>4. Delivered(queue, id) \in [JobIds -> Job]
  BY DEF Delivered, Job, JobPhase
<1>5. QED  BY <1>1, <1>2, <1>3, <1>4

LEMMA CrewIsTyped ==
    ASSUME CrewInv, NEW j \in JobIds
    PROVE  /\ worker[j] \in Worker
           /\ jobs[j] \in Job
  BY DEF CrewInv

\* An accepted enqueue concerns a job no coroutine is running.
LEMMA EnqueueKeepsCrew ==
    ASSUME CrewInv, NEW id \in JobIds, jobs' \in EnqueueOutcomes(jobs, id),
           UNCHANGED <<held, worker, claims>>
    PROVE  CrewInv'
<1>1. jobs' = jobs \/ (jobs' = Enqueued(jobs, id) /\ ~Blocked(jobs, id))
  BY DEF EnqueueOutcomes
<1>2. CASE jobs' = jobs
  BY <1>2 DEF CrewInv
<1>3. CASE jobs' = Enqueued(jobs, id) /\ ~Blocked(jobs, id)
  <2>1. jobs' \in [JobIds -> Job]
    BY <1>3, QueueIsTyped DEF CrewInv
  <2>2. \A j \in JobIds : worker'[j].at # "IDLE" <=> jobs'[j].phase = "RUNNING"
    BY <1>3 DEF CrewInv, Enqueued, Blocked
  <2>3. QED  BY <2>1, <2>2 DEF CrewInv
<1>4. QED  BY <1>1, <1>2, <1>3

\* A job that goes on keeps its token.
LEMMA AdvanceKeepsCrew ==
    ASSUME CrewInv, NEW j \in JobIds, worker[j].at # "IDLE",
           NEW w \in Worker, w.at # "IDLE", w.token = worker[j].token,
           worker' = [worker EXCEPT ![j] = w],
           held' \in JobIds \cup {NoHolder}, UNCHANGED <<jobs, claims>>
    PROVE  CrewInv'
<1>1. worker' \in [JobIds -> Worker]
  BY DEF CrewInv
<1>2. \A i \in JobIds : /\ worker'[i].token = worker[i].token
                        /\ worker'[i].at # "IDLE" <=> worker[i].at # "IDLE"
  BY DEF CrewInv
<1>3. QED  BY <1>1, <1>2 DEF CrewInv

LEMMA StepKeepsCrew ==
    ASSUME CrewInv, NEW j \in JobIds, worker[j].at # "IDLE",
           NEW step \in WorkerStep \ {"IDLE"}, Step(j, step), UNCHANGED claims
    PROVE  CrewInv'
<1> DEFINE w == [worker[j] EXCEPT !.at = step]
<1>1. w \in Worker /\ w.at # "IDLE" /\ w.token = worker[j].token
  BY CrewIsTyped DEF Worker
<1>2. worker' = [worker EXCEPT ![j] = w]
  BY DEF Step
<1>3. UNCHANGED <<jobs, claims>> /\ held' \in JobIds \cup {NoHolder}
  BY DEF Step, CrewInv
<1> HIDE DEF w
<1>4. QED  BY <1>1, <1>2, <1>3, AdvanceKeepsCrew

LEMMA EndKeepsCrew ==
    ASSUME CrewInv, NEW j \in JobIds, UNCHANGED claims, worker[j].at # "IDLE",
           End(j, Finished(jobs, j)) \/ End(j, Requeued(jobs, j))
    PROVE  CrewInv'
<1>1. jobs' \in [JobIds -> Job]
  BY QueueIsTyped DEF CrewInv, End
<1>2. /\ jobs'[j].phase # "RUNNING"
      /\ \A i \in JobIds \ {j} : jobs'[i] = jobs[i]
  BY CrewIsTyped DEF CrewInv, End, Finished, Requeued, Job
<1>3. worker' = [worker EXCEPT ![j] = IdleWorker]
  BY DEF End
<1>4. /\ worker' \in [JobIds -> Worker]
      /\ worker'[j].at = "IDLE" /\ worker'[j].token = 0
      /\ \A i \in JobIds \ {j} : worker'[i] = worker[i]
  BY <1>3, IdsAreNumbers DEF CrewInv, IdleWorker, Worker, WorkerStep, Renewal
<1>5. held' \in JobIds \cup {NoHolder}
  BY DEF End, CrewInv
<1>6. \A i \in JobIds :
         /\ worker'[i].token \in (IF worker'[i].at = "IDLE" THEN {0} ELSE 1 .. claims')
         /\ worker'[i].at # "IDLE" <=> jobs'[i].phase = "RUNNING"
  BY <1>2, <1>4 DEF CrewInv
<1>7. ASSUME NEW i \in JobIds, NEW k \in JobIds,
             worker'[i].token = worker'[k].token, worker'[i].at # "IDLE"
      PROVE  i = k
  <2>1. i # j /\ worker[i].token \in 1 .. claims
    BY <1>4, <1>7 DEF CrewInv
  <2>2. k # j
    BY <1>4, <1>7, <2>1
  <2>3. QED  BY <1>4, <1>7, <2>1, <2>2 DEF CrewInv
<1>8. QED  BY <1>1, <1>4, <1>5, <1>6, <1>7 DEF CrewInv

LEMMA CrewStandsStill ==
    ASSUME CrewInv, UNCHANGED <<claims, held, jobs, worker>>
    PROVE  CrewInv'
  BY DEF CrewInv

\* A fresh token is not yet anybody's.
LEMMA ClaimKeepsCrew ==
    ASSUME RowInv, CrewInv, NEW j \in JobIds, Claim(j)
    PROVE  CrewInv'
<1> DEFINE w == [at |-> "BUILD", token |-> claims + 1, renewal |-> "RUNNING", again |-> FALSE]
<1>1. claims \in Nat /\ claims' = claims + 1 /\ held' = held
  BY DEF Claim, RowInv
<1>2. w \in Worker
  BY <1>1 DEF Worker, WorkerStep, Renewal
<1>3. jobs' = Delivered(jobs, j) /\ worker' = [worker EXCEPT ![j] = w]
  BY DEF Claim
<1>4. /\ jobs' \in [JobIds -> Job]
      /\ jobs'[j].phase = "RUNNING"
      /\ \A i \in JobIds \ {j} : jobs'[i] = jobs[i]
  BY <1>3, QueueIsTyped DEF CrewInv, Delivered
<1>5. /\ worker' \in [JobIds -> Worker]
      /\ worker'[j].at = "BUILD" /\ worker'[j].token = claims + 1
      /\ \A i \in JobIds \ {j} : worker'[i] = worker[i]
  BY <1>2, <1>3 DEF CrewInv
<1> HIDE DEF w
<1>6. \A i \in JobIds : worker[i].token \in Nat
  BY CrewIsTyped DEF Worker
<1>7. \A i \in JobIds :
         /\ worker'[i].token \in (IF worker'[i].at = "IDLE" THEN {0} ELSE 1 .. claims')
         /\ worker'[i].at # "IDLE" <=> jobs'[i].phase = "RUNNING"
  <2> SUFFICES ASSUME NEW i \in JobIds
               PROVE  /\ worker'[i].token \in (IF worker'[i].at = "IDLE" THEN {0} ELSE 1 .. claims')
                      /\ worker'[i].at # "IDLE" <=> jobs'[i].phase = "RUNNING"
    OBVIOUS
  <2>1. CASE i = j
    BY <1>1, <1>4, <1>5, <2>1
  <2>2. CASE i # j
    BY <1>1, <1>4, <1>5, <2>2 DEF CrewInv
  <2>3. QED  BY <2>1, <2>2
<1>8. ASSUME NEW i \in JobIds, NEW k \in JobIds,
             worker'[i].token = worker'[k].token, worker'[i].at # "IDLE"
      PROVE  i = k
  <2>1. CASE i # j /\ k # j
    BY <1>5, <1>8, <2>1 DEF CrewInv
  <2>2. CASE i = j /\ k # j
    <3>1. worker[k].token = claims + 1
      BY <1>5, <1>8, <2>2
    <3>2. QED  BY <1>1, <3>1 DEF CrewInv
  <2>3. CASE i # j /\ k = j
    <3>1. worker[i].token = claims + 1 /\ worker[i].at # "IDLE"
      BY <1>5, <1>8, <2>3
    <3>2. QED  BY <1>1, <3>1 DEF CrewInv
  <2>4. QED  BY <2>1, <2>2, <2>3
<1>9. QED  BY <1>1, <1>4, <1>5, <1>7, <1>8 DEF CrewInv

LEMMA GenerationKeepsCrew ==
    ASSUME RowInv, CrewInv, NEW j \in JobIds, Generation(j)
    PROVE  CrewInv'
<1>1. CASE Claim(j)
  BY <1>1, ClaimKeepsCrew
<1>2. CASE Refuse(j) \/ DropDelivery(j)
  <2>1. /\ jobs' = Finished(jobs, j) /\ jobs[j].phase = "QUEUED"
        /\ UNCHANGED <<held, worker, claims>>
    BY <1>2 DEF Refuse, DropDelivery
  <2>2. jobs' \in [JobIds -> Job]
    BY <2>1, QueueIsTyped DEF CrewInv
  <2>3. \A i \in JobIds : jobs'[i].phase = "RUNNING" <=> jobs[i].phase = "RUNNING"
    BY <2>1 DEF CrewInv, Finished
  <2>4. QED  BY <2>1, <2>2, <2>3 DEF CrewInv
<1>3. CASE Build(j) \/ RejectSnapshot(j) \/ BuildError(j) \/ PersistReady(j)
  <2>1. /\ worker[j].at # "IDLE" /\ UNCHANGED claims
        /\ \/ \E step \in WorkerStep \ {"IDLE"} : Step(j, step)
           \/ End(j, Finished(jobs, j))
    BY <1>3 DEF Build, RejectSnapshot, BuildError, PersistReady, WorkerStep
  <2>2. QED  BY <2>1, StepKeepsCrew, EndKeepsCrew
<1>4. CASE \/ MarkFailed(j) \/ Release(j) \/ ReleaseCut(j)
           \/ WorkerCrash(j) \/ WriteError(j)
  <2>1. /\ worker[j].at # "IDLE" /\ UNCHANGED claims
        /\ End(j, Finished(jobs, j)) \/ End(j, Requeued(jobs, j))
    BY <1>4 DEF MarkFailed, Release, ReleaseCut, WorkerCrash, WriteError
  <2>2. QED  BY <2>1, EndKeepsCrew
<1>5. CASE JobTimeout(j) \/ WorkerShutdown(j)
  <2>1. PICK again \in BOOLEAN : Cancelled(j, again) /\ UNCHANGED claims
    BY <1>5 DEF JobTimeout, WorkerShutdown
  <2>2. worker[j].at # "IDLE"
    BY <2>1 DEF Cancelled
  <2>3. CASE End(j, Finished(jobs, j)) \/ End(j, Requeued(jobs, j))
    BY <2>1, <2>2, <2>3, EndKeepsCrew
  <2>4. CASE /\ worker' = [worker EXCEPT ![j].at = "CUT", ![j].again = again]
             /\ UNCHANGED <<held, jobs>>
    <3> DEFINE w == [worker[j] EXCEPT !.at = "CUT", !.again = again]
    <3>1. w \in Worker /\ w.at # "IDLE" /\ w.token = worker[j].token
      BY <2>1, CrewIsTyped DEF Worker, WorkerStep
    <3>2. worker' = [worker EXCEPT ![j] = w]
      BY <2>4
    <3>3. UNCHANGED <<jobs, claims>> /\ held' \in JobIds \cup {NoHolder}
      BY <2>1, <2>4 DEF CrewInv
    <3> HIDE DEF w
    <3>4. QED  BY <2>2, <3>1, <3>2, <3>3, AdvanceKeepsCrew
  <2>5. QED  BY <2>1, <2>3, <2>4 DEF Cancelled
<1>6. QED  BY <1>1, <1>2, <1>3, <1>4, <1>5 DEF Generation

\* The renewal task only runs while its job does.
LEMMA LeasingKeepsCrew ==
    ASSUME CrewInv, NEW j \in JobIds, Leasing(j)
    PROVE  CrewInv'
<1>1. ASSUME worker[j].at # "IDLE", NEW r \in Renewal,
             worker' = [worker EXCEPT ![j].renewal = r],
             held' \in JobIds \cup {NoHolder}, UNCHANGED <<jobs, claims>>
      PROVE  CrewInv'
  <2> DEFINE w == [worker[j] EXCEPT !.renewal = r]
  <2>1. w \in Worker /\ w.at # "IDLE" /\ w.token = worker[j].token
    BY <1>1, CrewIsTyped DEF Worker
  <2>2. worker' = [worker EXCEPT ![j] = w]
    BY <1>1
  <2> HIDE DEF w
  <2>3. QED  BY <1>1, <2>1, <2>2, AdvanceKeepsCrew
<1>2. CASE Renew(j)
  <2>1. CASE UNCHANGED <<held, worker>>
    BY <1>2, <2>1, CrewStandsStill DEF Renew
  <2>2. CASE held' = j /\ worker' = [worker EXCEPT ![j].renewal = "REFUSED"]
    <3>1. worker[j].at # "IDLE" /\ UNCHANGED <<jobs, claims>>
      BY <1>2 DEF Renew, Renewing
    <3>2. QED  BY <1>1, <2>2, <3>1 DEF Renewal
  <2>3. QED  BY <1>2, <2>1, <2>2 DEF Renew
<1>3. CASE RenewError(j)
  <2>1. /\ worker[j].at # "IDLE" /\ UNCHANGED <<held, jobs, claims>>
        /\ worker' = [worker EXCEPT ![j].renewal = "LOST"]
    BY <1>3 DEF RenewError, Renewing
  <2>2. held' \in JobIds \cup {NoHolder}
    BY <2>1 DEF CrewInv
  <2>3. QED  BY <1>1, <2>1, <2>2 DEF Renewal
<1>4. CASE NoticeLoss(j)
  <2>1. /\ UNCHANGED <<held, jobs, claims>>
        /\ worker' = [worker EXCEPT ![j].renewal = "LOST"]
    BY <1>4 DEF NoticeLoss
  <2>2. /\ worker' \in [JobIds -> Worker]
        /\ \A i \in JobIds : /\ worker'[i].token = worker[i].token
                             /\ worker'[i].at = worker[i].at
    BY <2>1, CrewIsTyped DEF CrewInv, Worker, Renewal
  <2>3. QED  BY <2>1, <2>2 DEF CrewInv
<1>5. QED  BY <1>2, <1>3, <1>4 DEF Leasing

-----------------------------------------------------------------------------
(* Everything else.                                                        *)

LEMMA SpendIsTyped ==
    ASSUME RestInv, NEW k \in BoundedEvent, Spend(k)
    PROVE  spent' \in [BoundedEvent -> Nat]
  BY DEF Spend, RestInv

LEMMA GotoIsTyped ==
    ASSUME RestInv, NEW c \in Clients, NEW step \in ClientStep, Goto(c, step)
    PROVE  api' \in [Clients -> ClientStep]
  BY DEF Goto, RestInv

LEMMA RequestKeepsRest ==
    ASSUME RestInv, NEW c \in Clients, Request(c)
    PROVE  RestInv'
<1>1. spent' = spent \/ \E k \in BoundedEvent : Spend(k)
  BY DEF Request, CreatePending, ResetForRetry, MarkQueued, EnqueueReport, EnqueueFails,
         ClearQueued, ApiCrash, BoundedEvent
<1>2. \E step \in ClientStep : Goto(c, step)
  <2>1. NextStep(report') \in ClientStep
    BY DEF NextStep, ClientStep
  <2>2. QED
    BY <2>1 DEF Request, CreatePending, ResetForRetry, MarkQueued, EnqueueReport,
                EnqueueFails, ClearQueued, ApiCrash, ClientStep
<1>3. round' = round
  BY DEF Request, CreatePending, ResetForRetry, MarkQueued, EnqueueReport, EnqueueFails,
         ClearQueued, ApiCrash
<1>4. QED  BY <1>1, <1>2, <1>3, SpendIsTyped, GotoIsTyped DEF RestInv

LEMMA GenerationKeepsRest ==
    ASSUME RestInv, NEW j \in JobIds, Generation(j) \/ Leasing(j)
    PROVE  RestInv'
<1>1. spent' = spent \/ \E k \in BoundedEvent : Spend(k)
  BY DEF Generation, Leasing, Claim, Refuse, DropDelivery, Build, RejectSnapshot, PersistReady,
         MarkFailed, BuildError, Release, ReleaseCut, JobTimeout, WorkerShutdown,
         WorkerCrash, WriteError, Renew, NoticeLoss, RenewError, BoundedEvent
<1>2. UNCHANGED <<round, api>>
  BY DEF Generation, Leasing, Claim, Refuse, DropDelivery, Build, RejectSnapshot, PersistReady,
         MarkFailed, BuildError, Release, ReleaseCut, JobTimeout, WorkerShutdown,
         WorkerCrash, WriteError, Renew, NoticeLoss, RenewError
<1>3. QED  BY <1>1, <1>2, SpendIsTyped DEF RestInv

\* Only rows with attempts left are scanned, so the job id is one of JobIds.
LEMMA RecoveryKeepsRest ==
    ASSUME RowInv, RestInv, Recovery
    PROVE  RestInv'
<1>1. spent' = spent \/ \E k \in BoundedEvent : Spend(k)
  BY DEF Recovery, LeaseExpires, QueuedGoesStale, RecoveryScan, RecoveryMark,
         RecoveryEnqueue, RecoveryFails, BoundedEvent
<1>2. round' \in Round
  <2>1. CASE RecoveryScan
    <3>1. report.attempts + 1 \in JobIds
      BY <2>1, ReportAssumption DEF RecoveryScan, Recoverable, JobIds, SubmitJob, RowInv, Report
    <3>2. QED  BY <2>1, <3>1 DEF RecoveryScan, Round
  <2>2. CASE RecoveryMark
    BY <2>2, IdsAreNumbers DEF RecoveryMark, RestInv, Round, NoRound
  <2>3. CASE RecoveryEnqueue \/ RecoveryFails
    BY <2>3, IdsAreNumbers DEF RecoveryEnqueue, RecoveryFails, Round, NoRound
  <2>4. CASE LeaseExpires \/ QueuedGoesStale
    BY <2>4 DEF LeaseExpires, QueuedGoesStale, RestInv
  <2>5. QED  BY <2>1, <2>2, <2>3, <2>4 DEF Recovery
<1>3. api' = api
  BY DEF Recovery, LeaseExpires, QueuedGoesStale, RecoveryScan, RecoveryMark,
         RecoveryEnqueue, RecoveryFails
<1>4. QED  BY <1>1, <1>2, <1>3, SpendIsTyped DEF RestInv

-----------------------------------------------------------------------------
(* The invariant and what follows from it.                                 *)

LEMMA InitHolds == Init => ReportInv
<1> SUFFICES ASSUME Init PROVE RowInv /\ CrewInv /\ RestInv
  BY InvSplit
<1>1. RowInv
  BY DEF Init, RowInv, NoReport, Report, ReportStatus
<1>2. CrewInv
  BY DEF Init, CrewInv, EmptyQueue, NoJob, Job, JobPhase, IdleWorker, Worker, WorkerStep, Renewal
<1>3. RestInv
  BY IdsAreNumbers DEF Init, RestInv, Round, NoRound, ClientStep
<1>4. QED  BY <1>1, <1>2, <1>3

LEMMA StepKeepsInv == ReportInv /\ [Next]_vars => ReportInv'
<1> SUFFICES ASSUME RowInv, CrewInv, RestInv, [Next]_vars
             PROVE  RowInv' /\ CrewInv' /\ RestInv'
  BY DEF ReportInv, TypeOK, ClaimsAreConsistent, LatestClaimWins, RowInv, CrewInv, RestInv
<1>1. ASSUME NEW c \in Clients, Request(c) PROVE RowInv' /\ CrewInv' /\ RestInv'
  <2>1. CrewInv'
    <3>1. CASE EnqueueReport(c)
      BY <3>1, IdsAreNumbers, EnqueueKeepsCrew DEF EnqueueReport
    <3>2. CASE ~EnqueueReport(c)
      BY <1>1, <3>2, CrewStandsStill DEF Request, CreatePending, ResetForRetry, MarkQueued,
           EnqueueFails, ClearQueued, ApiCrash
    <3>3. QED  BY <3>1, <3>2
  <2>2. QED  BY <1>1, <2>1, RequestKeepsRow, RequestKeepsRest
<1>2. ASSUME NEW j \in JobIds, Generation(j) PROVE RowInv' /\ CrewInv' /\ RestInv'
  BY <1>2, GenerationKeepsRow, GenerationKeepsCrew, GenerationKeepsRest
<1>3. ASSUME NEW j \in JobIds, Leasing(j) PROVE RowInv' /\ CrewInv' /\ RestInv'
  BY <1>3, LeasingKeepsRow, LeasingKeepsCrew, GenerationKeepsRest
<1>4. CASE Recovery
  <2>1. CrewInv'
    <3>1. CASE RecoveryEnqueue
      <4>1. round.job \in JobIds
        BY DEF RestInv, Round
      <4>2. QED  BY <3>1, <4>1, EnqueueKeepsCrew DEF RecoveryEnqueue
    <3>2. CASE ~RecoveryEnqueue
      BY <1>4, <3>2, CrewStandsStill DEF Recovery, LeaseExpires, QueuedGoesStale, RecoveryScan,
           RecoveryMark, RecoveryFails
    <3>3. QED  BY <3>1, <3>2
  <2>2. QED  BY <1>4, <2>1, RecoveryKeepsRow, RecoveryKeepsRest
<1>5. CASE UNCHANGED vars
  BY <1>5 DEF vars, RowInv, CrewInv, RestInv
<1>6. QED  BY <1>1, <1>2, <1>3, <1>4, <1>5 DEF Next

\* The inductive invariant: typed rows and coroutines, one token per claim,
\* and a READY report from the last of them.
THEOREM ReportInvariant == Spec => []ReportInv
  BY InitHolds, StepKeepsInv, PTL DEF Spec

\* Every variable keeps its type, for any number of attempts and requests.
THEOREM ReportTypeCorrect == Spec => []TypeOK
<1>1. ReportInv => TypeOK
  BY DEF ReportInv
<1>2. QED  BY ReportInvariant, <1>1, PTL

\* Fencing: claim_generation, persist_ready, mark_failed and release agree on
\* who may write, so the report comes from the last claim, however many jobs
\* build at once after stalls.
THEOREM OnlyTheLatestClaimWins == Spec => []LatestClaimWins
<1>1. ReportInv => LatestClaimWins
  BY DEF ReportInv
<1>2. QED  BY ReportInvariant, <1>1, PTL

-----------------------------------------------------------------------------
(* One builder at a time, as long as no renewal is held up for a lease.    *)

\* Without a stall, a job whose renewal task runs still owns the row under a
\* live lease, so no renewal is refused and none keeps the row lock.
LeasesAreHeld ==
    spent["STALL"] = 0 =>
        /\ held = NoHolder
        /\ \A j \in JobIds : Renewing(j) => Owns(j) /\ report.lease = "LIVE"

\* spent only grows, so a behaviour without a stall never had one.
LEMMA StallsAreNotForgotten ==
    ASSUME RestInv, [Next]_vars, spent'["STALL"] = 0
    PROVE  /\ spent["STALL"] = 0
           /\ ~Spend("STALL")
<1>1. spent' = spent \/ \E k \in BoundedEvent : Spend(k)
  <2>1. ASSUME NEW c \in Clients, Request(c) PROVE spent' = spent \/ \E k \in BoundedEvent : Spend(k)
    BY <2>1 DEF Request, CreatePending, ResetForRetry, MarkQueued, EnqueueReport, EnqueueFails,
         ClearQueued, ApiCrash, BoundedEvent
  <2>2. ASSUME NEW j \in JobIds, Generation(j) \/ Leasing(j)
        PROVE  spent' = spent \/ \E k \in BoundedEvent : Spend(k)
    BY <2>2 DEF Generation, Leasing, Claim, Refuse, DropDelivery, Build, RejectSnapshot, PersistReady,
         MarkFailed, BuildError, Release, ReleaseCut, JobTimeout, WorkerShutdown,
         WorkerCrash, WriteError, Renew, NoticeLoss, RenewError, BoundedEvent
  <2>3. CASE Recovery
    BY <2>3 DEF Recovery, LeaseExpires, QueuedGoesStale, RecoveryScan, RecoveryMark,
         RecoveryEnqueue, RecoveryFails, BoundedEvent
  <2>4. CASE UNCHANGED vars
    BY <2>4 DEF vars
  <2>5. QED  BY <2>1, <2>2, <2>3, <2>4 DEF Next
<1>2. \A k \in BoundedEvent : Spend(k) => spent'["STALL"] >= spent["STALL"]
  BY DEF Spend, RestInv, BoundedEvent
<1>3. Spend("STALL") => spent'["STALL"] = spent["STALL"] + 1
  BY DEF Spend, RestInv, BoundedEvent
<1>4. spent["STALL"] \in Nat
  BY DEF RestInv, BoundedEvent
<1>5. QED  BY <1>1, <1>2, <1>3, <1>4

\* Tokens are unique: at most one coroutine owns the row.
LEMMA OneOwner ==
    ASSUME CrewInv, NEW i \in JobIds, NEW j \in JobIds,
           worker[i].at # "IDLE", Owns(i), Owns(j)
    PROVE  i = j
  BY DEF CrewInv, Owns

\* A step that leaves the row and the lock alone and starts no renewal.
LEMMA QuietStepsKeepLeases ==
    ASSUME LeasesAreHeld, spent["STALL"] = 0, UNCHANGED report,
           held' = held \/ held' = NoHolder,
           \A i \in JobIds : Renewing(i)' => Renewing(i) /\ worker'[i].token = worker[i].token
    PROVE  LeasesAreHeld'
  BY DEF LeasesAreHeld, Owns

LEMMA RequestKeepsLeases ==
    ASSUME RowInv, LeasesAreHeld, spent["STALL"] = 0, NEW c \in Clients, Request(c)
    PROVE  LeasesAreHeld'
<1>1. UNCHANGED <<held, worker>>
  BY DEF Request, CreatePending, ResetForRetry, MarkQueued, EnqueueReport, EnqueueFails,
         ClearQueued, ApiCrash
<1>2. \/ report.status # "GENERATING"
      \/ report' = report
      \/ \E q \in {"NONE", "FRESH"} : report' = [report EXCEPT !.queued = q]
  BY DEF Request, CreatePending, ResetForRetry, MarkQueued, EnqueueReport, EnqueueFails,
         ClearQueued, ApiCrash, Marked
<1>3. CASE report.status # "GENERATING"
  <2>1. \A j \in JobIds : ~Renewing(j)
    BY <1>3 DEF LeasesAreHeld, Owns
  <2>2. QED  BY <1>1, <2>1 DEF LeasesAreHeld, Renewing
<1>4. CASE \/ report' = report
           \/ \E q \in {"NONE", "FRESH"} : report' = [report EXCEPT !.queued = q]
  <2>1. /\ report'.status = report.status /\ report'.token = report.token
        /\ report'.lease = report.lease
    BY <1>4 DEF RowInv, Report
  <2>2. QED  BY <1>1, <2>1 DEF LeasesAreHeld, Renewing, Owns
<1>5. QED  BY <1>2, <1>3, <1>4

\* What Step and End leave of the coroutines.
LEMMA StepAndEndStartNoRenewal ==
    ASSUME CrewInv, NEW j \in JobIds, worker[j].at # "IDLE",
           \/ \E step \in WorkerStep \ {"IDLE"} : Step(j, step)
           \/ End(j, Finished(jobs, j)) \/ End(j, Requeued(jobs, j))
           \/ /\ \E again \in BOOLEAN :
                    worker' = [worker EXCEPT ![j].at = "CUT", ![j].again = again]
              /\ UNCHANGED held
    PROVE  /\ held' = held \/ held' = NoHolder
           /\ \A i \in JobIds : Renewing(i)' => Renewing(i) /\ worker'[i].token = worker[i].token
<1>1. worker \in [JobIds -> Worker]
  BY DEF CrewInv
<1>2. CASE \E step \in WorkerStep \ {"IDLE"} : Step(j, step)
  <2>1. PICK step \in WorkerStep \ {"IDLE"} : Step(j, step)
    BY <1>2
  <2> DEFINE w == [worker[j] EXCEPT !.at = step]
  <2>2. w.token = worker[j].token /\ w.renewal = worker[j].renewal
    BY CrewIsTyped DEF Worker
  <2>3. worker' = [worker EXCEPT ![j] = w]
    BY <2>1 DEF Step
  <2> HIDE DEF w
  <2>4. \A i \in JobIds : /\ worker'[i].token = worker[i].token
                          /\ worker'[i].renewal = worker[i].renewal
                          /\ i # j => worker'[i].at = worker[i].at
    BY <1>1, <2>2, <2>3
  <2>5. QED  BY <2>1, <2>4 DEF Step, Renewing
<1>3. CASE End(j, Finished(jobs, j)) \/ End(j, Requeued(jobs, j))
  BY <1>1, <1>3 DEF End, Renewing, IdleWorker
<1>4. CASE /\ \E again \in BOOLEAN :
                 worker' = [worker EXCEPT ![j].at = "CUT", ![j].again = again]
           /\ UNCHANGED held
  <2>1. PICK again \in BOOLEAN : worker' = [worker EXCEPT ![j].at = "CUT", ![j].again = again]
    BY <1>4
  <2> DEFINE w == [worker[j] EXCEPT !.at = "CUT", !.again = again]
  <2>2. w.token = worker[j].token /\ w.renewal = worker[j].renewal
    BY CrewIsTyped DEF Worker
  <2>3. worker' = [worker EXCEPT ![j] = w]
    BY <2>1
  <2> HIDE DEF w
  <2>4. \A i \in JobIds : /\ worker'[i].token = worker[i].token
                          /\ worker'[i].renewal = worker[i].renewal
                          /\ i # j => worker'[i].at = worker[i].at
    BY <1>1, <2>2, <2>3
  <2>5. QED  BY <1>4, <2>4 DEF Renewing
<1>5. QED  BY <1>2, <1>3, <1>4

\* A row is written by its owner, and then no other job renews a lease.
LEMMA OwnersWriteKeepsLeases ==
    ASSUME CrewInv, LeasesAreHeld, spent["STALL"] = 0,
           NEW j \in JobIds, worker[j].at # "IDLE",
           Owns(j) \/ report' = report,
           \/ End(j, Finished(jobs, j)) \/ End(j, Requeued(jobs, j))
           \/ report' = report /\ \E step \in WorkerStep \ {"IDLE"} : Step(j, step)
    PROVE  LeasesAreHeld'
<1>1. /\ held' = held \/ held' = NoHolder
      /\ \A i \in JobIds : Renewing(i)' => Renewing(i) /\ worker'[i].token = worker[i].token
  BY StepAndEndStartNoRenewal
<1>2. CASE report' = report
  BY <1>1, <1>2, QuietStepsKeepLeases
<1>3. CASE Owns(j) /\ report' # report
  <2>1. \A i \in JobIds : Renewing(i) => i = j
    BY <1>3, OneOwner DEF LeasesAreHeld, Renewing
  <2>2. ~Renewing(j)'
    BY <1>3 DEF CrewInv, End, Renewing, IdleWorker
  <2>3. QED  BY <1>1, <2>1, <2>2 DEF LeasesAreHeld
<1>4. QED  BY <1>2, <1>3

\* A claim is granted only when nobody holds a live lease.
LEMMA ClaimKeepsLeases ==
    ASSUME RowInv, CrewInv, LeasesAreHeld, spent["STALL"] = 0, NEW j \in JobIds, Claim(j)
    PROVE  LeasesAreHeld'
<1>1. \A i \in JobIds : ~Renewing(i)
  BY DEF Claim, MayClaim, LeasesAreHeld, Owns
<1>2. /\ held' = held
      /\ worker' = [worker EXCEPT ![j] = [at |-> "BUILD", token |-> claims + 1,
                                          renewal |-> "RUNNING", again |-> FALSE]]
  BY DEF Claim
<1>3. /\ report'.status = "GENERATING" /\ report'.token = claims + 1 /\ report'.lease = "LIVE"
  BY DEF Claim, RowInv, Report
<1>4. \A i \in JobIds \ {j} : worker'[i] = worker[i]
  BY <1>2 DEF CrewInv
<1>5. worker'[j].token = claims + 1
  BY <1>2 DEF CrewInv
<1>6. QED  BY <1>1, <1>2, <1>3, <1>4, <1>5 DEF LeasesAreHeld, Renewing, Owns

LEMMA GenerationKeepsLeases ==
    ASSUME RowInv, CrewInv, LeasesAreHeld, spent["STALL"] = 0, NEW j \in JobIds, Generation(j)
    PROVE  LeasesAreHeld'
<1>1. CASE Claim(j)
  BY <1>1, ClaimKeepsLeases
<1>2. CASE Refuse(j) \/ DropDelivery(j)
  <2>1. UNCHANGED <<report, held, worker>>
    BY <1>2 DEF Refuse, DropDelivery
  <2>2. QED  BY <2>1, QuietStepsKeepLeases DEF Renewing
<1>3. CASE Build(j) \/ RejectSnapshot(j) \/ BuildError(j) \/ WorkerCrash(j) \/ WriteError(j)
  <2>1. /\ worker[j].at # "IDLE" /\ report' = report
        /\ \/ \E step \in WorkerStep \ {"IDLE"} : Step(j, step)
           \/ End(j, Finished(jobs, j)) \/ End(j, Requeued(jobs, j))
    BY <1>3 DEF Build, RejectSnapshot, BuildError, WorkerCrash, WriteError, WorkerStep
  <2>2. QED  BY <2>1, OwnersWriteKeepsLeases
<1>4. CASE PersistReady(j) \/ MarkFailed(j) \/ Release(j) \/ ReleaseCut(j)
  <2>1. /\ worker[j].at # "IDLE"
        /\ Owns(j) \/ report' = report
    BY <1>4 DEF PersistReady, MarkFailed, Release, ReleaseCut, ReadyBy, Released
  <2>2. \/ End(j, Finished(jobs, j)) \/ End(j, Requeued(jobs, j))
        \/ report' = report /\ \E step \in WorkerStep \ {"IDLE"} : Step(j, step)
    BY <1>4 DEF PersistReady, MarkFailed, Release, ReleaseCut, ReadyBy, Owns, WorkerStep
  <2>3. QED  BY <2>1, <2>2, OwnersWriteKeepsLeases
<1>5. CASE JobTimeout(j) \/ WorkerShutdown(j)
  <2>1. PICK again \in BOOLEAN : Cancelled(j, again) /\ UNCHANGED report
    BY <1>5 DEF JobTimeout, WorkerShutdown
  <2>2. /\ worker[j].at # "IDLE"
        /\ \/ End(j, Finished(jobs, j)) \/ End(j, Requeued(jobs, j))
           \/ /\ worker' = [worker EXCEPT ![j].at = "CUT", ![j].again = again]
              /\ UNCHANGED held
    BY <2>1 DEF Cancelled
  <2>3. /\ held' = held \/ held' = NoHolder
        /\ \A i \in JobIds : Renewing(i)' => Renewing(i) /\ worker'[i].token = worker[i].token
    BY <2>2, StepAndEndStartNoRenewal
  <2>4. QED  BY <2>1, <2>3, QuietStepsKeepLeases
<1>6. QED  BY <1>1, <1>2, <1>3, <1>4, <1>5 DEF Generation

LEMMA LeasingKeepsLeases ==
    ASSUME RowInv, CrewInv, LeasesAreHeld, spent["STALL"] = 0, NEW j \in JobIds, Leasing(j)
    PROVE  LeasesAreHeld'
<1>1. CASE Renew(j)
  <2>1. Owns(j) /\ report' = [report EXCEPT !.lease = "LIVE"] /\ UNCHANGED <<held, worker>>
    BY <1>1 DEF Renew, LeasesAreHeld
  <2>2. /\ report'.status = report.status /\ report'.token = report.token
        /\ report'.lease = "LIVE"
    BY <2>1 DEF RowInv, Report
  <2>3. QED  BY <2>1, <2>2 DEF LeasesAreHeld, Renewing, Owns
<1>2. CASE NoticeLoss(j) \/ RenewError(j)
  <2>1. /\ UNCHANGED <<report, held>>
        /\ worker' = [worker EXCEPT ![j].renewal = "LOST"]
    BY <1>2 DEF NoticeLoss, RenewError
  <2>2. \A i \in JobIds : Renewing(i)' => Renewing(i) /\ worker'[i].token = worker[i].token
    BY <2>1 DEF CrewInv, Renewing, Worker
  <2>3. QED  BY <2>1, <2>2, QuietStepsKeepLeases
<1>3. QED  BY <1>1, <1>2 DEF Leasing

\* Time alone does not end a lease that somebody renews.
LEMMA RecoveryKeepsLeases ==
    ASSUME RowInv, LeasesAreHeld, spent["STALL"] = 0, ~Spend("STALL"), Recovery
    PROVE  LeasesAreHeld'
<1>1. UNCHANGED <<held, worker>>
  BY DEF Recovery, LeaseExpires, QueuedGoesStale, RecoveryScan, RecoveryMark,
         RecoveryEnqueue, RecoveryFails
<1>2. CASE LeaseExpires
  <2>1. \A j \in JobIds : ~Renewing(j)
    BY <1>2 DEF LeaseExpires, LeasesAreHeld, Unlocked
  <2>2. QED  BY <1>1, <2>1 DEF LeasesAreHeld, Renewing
<1>3. CASE ~LeaseExpires
  <2>1. \/ report' = report
        \/ \E q \in {"FRESH", "STALE"} : report' = [report EXCEPT !.queued = q]
    BY <1>3 DEF Recovery, QueuedGoesStale, RecoveryScan, RecoveryMark, Marked,
         RecoveryEnqueue, RecoveryFails
  <2>2. /\ report'.status = report.status /\ report'.token = report.token
        /\ report'.lease = report.lease
    BY <2>1 DEF RowInv, Report
  <2>3. QED  BY <1>1, <2>2 DEF LeasesAreHeld, Renewing, Owns
<1>4. QED  BY <1>2, <1>3

LEMMA StepKeepsLeases == ReportInv /\ LeasesAreHeld /\ [Next]_vars => LeasesAreHeld'
<1> SUFFICES ASSUME RowInv, CrewInv, RestInv, LeasesAreHeld, [Next]_vars, spent'["STALL"] = 0
             PROVE  LeasesAreHeld'
  BY InvSplit DEF LeasesAreHeld
<1>1. spent["STALL"] = 0 /\ ~Spend("STALL")
  BY StallsAreNotForgotten
<1>2. ASSUME NEW c \in Clients, Request(c) PROVE LeasesAreHeld'
  BY <1>1, <1>2, RequestKeepsLeases
<1>3. ASSUME NEW j \in JobIds, Generation(j) PROVE LeasesAreHeld'
  BY <1>1, <1>3, GenerationKeepsLeases
<1>4. ASSUME NEW j \in JobIds, Leasing(j) PROVE LeasesAreHeld'
  BY <1>1, <1>4, LeasingKeepsLeases
<1>5. CASE Recovery
  BY <1>1, <1>5, RecoveryKeepsLeases
<1>6. CASE UNCHANGED vars
  BY <1>6 DEF vars, LeasesAreHeld, Renewing, Owns
<1>7. QED  BY <1>2, <1>3, <1>4, <1>5, <1>6 DEF Next

\* "A database row lock [prevents] concurrent duplicate generation": unless a
\* renewal is held up for a whole lease, at most one coroutine at a time builds
\* the report under a lease it still renews.
THEOREM OneBuilderAtATime == Spec => []OneBuilder
<1>1. Init => LeasesAreHeld
  BY DEF Init, LeasesAreHeld, Renewing, IdleWorker
<1>2. ReportInv /\ LeasesAreHeld => OneBuilder
  <2> SUFFICES ASSUME CrewInv, LeasesAreHeld, spent["STALL"] = 0
               PROVE  Cardinality(Builders) <= 1
    BY InvSplit DEF OneBuilder
  <2>1. \A j \in Builders : j \in JobIds /\ Renewing(j) /\ Owns(j)
    BY DEF Builders, Renewing, LeasesAreHeld
  <2>2. \A i, j \in Builders : i = j
    BY <2>1, OneOwner DEF Renewing
  <2>3. CASE Builders = {}
    BY <2>3, FS_EmptySet
  <2>4. CASE Builders # {}
    <3>1. PICK j : Builders = {j}
      BY <2>2, <2>4
    <3>2. QED  BY <3>1, FS_Singleton
  <2>5. QED  BY <2>3, <2>4
<1>3. QED  BY ReportInvariant, StepKeepsLeases, <1>1, <1>2, PTL DEF Spec

\* The job that waits for a row lock of its own lease session exists only after
\* a stall: crashes, timeouts and errors alone never make a renewal be refused.
THEOREM OnlyAfterAStallDoesAJobWaitForItself ==
    Spec => [](spent["STALL"] = 0 => NeverWaitsForItself)
<1>1. Init => LeasesAreHeld
  BY DEF Init, LeasesAreHeld, Renewing, IdleWorker
<1>2. LeasesAreHeld => (spent["STALL"] = 0 => NeverWaitsForItself)
  BY DEF LeasesAreHeld, NeverWaitsForItself
<1>3. QED  BY ReportInvariant, StepKeepsLeases, <1>1, <1>2, PTL DEF Spec

-----------------------------------------------------------------------------
(* Steps.                                                                  *)

\* What a request, a job, its renewal or the recovery loop may do to the row.
RowStep ==
    \/ report' = report
    \/ report.status \in {"ABSENT", "FAILED"} /\ report' = PendingReport
    \/ report.status \notin {"READY", "FAILED"} /\ report' = [report EXCEPT !.queued = "FRESH"]
    \/ report.status = "PENDING" /\ \E q \in {"NONE", "STALE"} : report' = [report EXCEPT !.queued = q]
    \/ report.status = "GENERATING" /\ \E l \in {"LIVE", "EXPIRED"} : report' = [report EXCEPT !.lease = l]
    \/ /\ report.status \in {"PENDING", "GENERATING"}
       /\ report'.status = "GENERATING"
       /\ report'.attempts \in (report.attempts + 1) .. MaxAttempts
    \/ /\ report.status = "GENERATING"
       /\ report'.status \in {"PENDING", "READY", "FAILED"}
       /\ report'.attempts = report.attempts

LEMMA EveryStepIsARowStep ==
    ASSUME RowInv, CrewInv, [Next]_vars
    PROVE  RowStep
<1>1. ASSUME NEW c \in Clients, Request(c) PROVE RowStep
  BY <1>1 DEF Request, CreatePending, ResetForRetry, MarkQueued, EnqueueReport, EnqueueFails,
              ClearQueued, ApiCrash, Marked, RowStep
<1>2. ASSUME NEW j \in JobIds, Generation(j) PROVE RowStep
  <2>1. CASE Claim(j)
    <3>1. jobs[j].try \in Nat /\ report.attempts \in Nat /\ MaxAttempts \in Nat
      BY ReportAssumption DEF CrewInv, Job, RowInv, Report
    <3>2. NextAttempt(jobs[j].try + 1) \in (report.attempts + 1) .. MaxAttempts
      BY <2>1, <3>1 DEF Claim, MayClaim, NextAttempt
    <3>3. /\ report'.status = "GENERATING"
          /\ report'.attempts = NextAttempt(jobs[j].try + 1)
      BY <2>1 DEF Claim, RowInv, Report
    <3>4. report.status \in {"PENDING", "GENERATING"}
      BY <2>1 DEF Claim, MayClaim
    <3>5. QED  BY <3>2, <3>3, <3>4 DEF RowStep
  <2>2. CASE PersistReady(j) \/ MarkFailed(j) \/ Release(j) \/ ReleaseCut(j)
    <3>1. CASE report' = report
      BY <3>1 DEF RowStep
    <3>2. CASE report' # report
      <4>1. report.status = "GENERATING"
        BY <2>2, <3>2 DEF PersistReady, MarkFailed, Release, ReleaseCut, ReadyBy, Released, Owns
      <4>2. report' \in {[report EXCEPT !.status = "READY", !.lease = "NONE", !.token = 0,
                              !.by = worker[j].token],
                          [report EXCEPT !.status = "FAILED", !.lease = "NONE", !.token = 0],
                          [report EXCEPT !.status = "PENDING", !.queued = "NONE",
                              !.lease = "NONE", !.token = 0]}
        BY <2>2, <3>2 DEF PersistReady, MarkFailed, Release, ReleaseCut, ReadyBy, Released
      <4>3. /\ report'.status \in {"PENDING", "READY", "FAILED"}
            /\ report'.attempts = report.attempts
        BY <4>2 DEF RowInv, Report
      <4>4. QED  BY <4>1, <4>3 DEF RowStep
    <3>3. QED  BY <3>1, <3>2
  <2>3. CASE \/ Refuse(j) \/ DropDelivery(j) \/ Build(j) \/ RejectSnapshot(j)
             \/ BuildError(j) \/ JobTimeout(j) \/ WorkerShutdown(j)
             \/ WorkerCrash(j) \/ WriteError(j)
    <3>1. report' = report
      BY <2>3 DEF Refuse, DropDelivery, Build, RejectSnapshot, BuildError, JobTimeout,
                  WorkerShutdown, WorkerCrash, WriteError
    <3>2. QED  BY <3>1 DEF RowStep
  <2>4. QED  BY <1>2, <2>1, <2>2, <2>3 DEF Generation
<1>3. ASSUME NEW j \in JobIds, Leasing(j) PROVE RowStep
  BY <1>3 DEF Leasing, Renew, NoticeLoss, RenewError, Owns, RowStep
<1>4. CASE Recovery
  BY <1>4 DEF Recovery, LeaseExpires, QueuedGoesStale, RecoveryScan, RecoveryMark,
              RecoveryEnqueue, RecoveryFails, Marked, RowInv, RowStep
<1>5. CASE UNCHANGED vars
  BY <1>5 DEF vars, RowStep
<1>6. QED  BY <1>1, <1>2, <1>3, <1>4, <1>5 DEF Next

\* "The report is an immutable replay snapshot": once READY, the row stays as
\* it is under every request, late job and recovery round.
THEOREM ReadyNeverChanges == Spec => ReadyIsFinal
<1>1. ReportInv /\ [Next]_vars => [report.status = "READY" => report' = report]_vars
  <2> SUFFICES ASSUME RowInv, CrewInv, [Next]_vars, report.status = "READY"
               PROVE  report' = report
    BY InvSplit
  <2>1. RowStep
    BY EveryStepIsARowStep
  <2>2. QED  BY <2>1 DEF RowStep
<1>2. QED  BY ReportInvariant, <1>1, PTL DEF Spec, ReadyIsFinal

\* Generation implements the plain life of a report: bounded tries, results
\* only out of a try, a fresh start only from FAILED, nothing after READY.
THEOREM LifeIsImplemented == Spec => ImplementsLife
<1>1. Init => Life!Init
  BY DEF Init, NoReport, Life!Init
<1>2. ReportInv /\ [Next]_vars => [Life!Next]_<<report.status, report.attempts>>
  <2> SUFFICES ASSUME RowInv, CrewInv, [Next]_vars
               PROVE  [Life!Next]_<<report.status, report.attempts>>
    BY InvSplit
  <2>1. RowStep
    BY EveryStepIsARowStep
  <2>2. CASE UNCHANGED <<report.status, report.attempts>>
    BY <2>2
  <2>3. CASE report.status \in {"ABSENT", "FAILED"} /\ report' = PendingReport
    BY <2>3 DEF PendingReport, NoReport, Life!Next, Life!Ask
  <2>4. CASE /\ report.status \in {"PENDING", "GENERATING"}
             /\ report'.status = "GENERATING"
             /\ report'.attempts \in (report.attempts + 1) .. MaxAttempts
    BY <2>4 DEF Life!Next, Life!Try
  <2>5. CASE /\ report.status = "GENERATING"
             /\ report'.status \in {"PENDING", "READY", "FAILED"}
             /\ report'.attempts = report.attempts
    BY <2>5 DEF Life!Next, Life!GiveBack, Life!Conclude
  <2>6. QED  BY <2>1, <2>2, <2>3, <2>4, <2>5 DEF RowStep, RowInv, Report
<1>3. QED  BY ReportInvariant, <1>1, <1>2, PTL DEF Spec, ImplementsLife, Life!Spec
=============================================================================
