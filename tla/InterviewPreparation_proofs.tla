--------------------- MODULE InterviewPreparation_proofs ---------------------
(***************************************************************************)
(* Theorems about InterviewPreparation for every number of attempts,       *)
(* requests and faults.  PreparationInv is the inductive invariant; on top *)
(* of it DeliveryInv relates job_try to preparation_attempt_count, which   *)
(* is what makes a claim exclusive.                                        *)
(***************************************************************************)
EXTENDS InterviewPreparation, TLAPS

-----------------------------------------------------------------------------
(* The invariant.                                                          *)

\* begin_preparing has been committed.
Queued == session.status \notin {"ABSENT", "CREATED"}

RowInv ==
    /\ session \in Session
    /\ FlaggedIsUnclaimed
    /\ session.questions <= session.attempts
    /\ session.status \in {"ABSENT", "CREATED", "PREPARING", "FAILED"} => session.questions = 0
    /\ ~Queued => session.attempts = 0

CrewInv ==
    /\ jobs \in [JobIds -> Job]
    /\ worker \in [PreparationJobs -> Worker]
    /\ \A j \in PreparationJobs :
          /\ worker[j].claim <= session.attempts
          /\ worker[j].at # "IDLE" => worker[j].claim >= 1 /\ Queued
          /\ jobs[j].phase # "ABSENT" => Queued

RestInv ==
    /\ resume \in ResumeStatus
    /\ evaluator \in BOOLEAN
    /\ scan \in JobIds
    /\ scan # NoScan => Queued
    /\ api \in [Clients -> ClientStep]
    /\ \A c \in Clients :
          /\ api[c] # "IDLE" => session.status # "ABSENT"
          /\ api[c] \in {"ENQUEUE", "RELEASE"} => Queued
    /\ spent \in [BoundedEvent -> Nat]

PreparationInv == RowInv /\ CrewInv /\ RestInv

LEMMA IdsAreNumbers ==
    /\ PreparationJobs \subseteq Nat
    /\ JobIds \subseteq Nat
    /\ PreparationJobs \subseteq JobIds
    /\ SubmitJob \in PreparationJobs
    /\ ResumeJob \in JobIds
    /\ ResumeJob \notin PreparationJobs
    /\ NoScan = ResumeJob
    /\ \A n \in Nat : n <= MaxClaims => RecoveryJob(n) \in PreparationJobs
  BY PreparationAssumption DEF PreparationJobs, JobIds, SubmitJob, ResumeJob, RecoveryJob, NoScan

-----------------------------------------------------------------------------
(* The row.                                                                *)

\* What any step may do to the session and its questions.
RowStep ==
    \/ session' = session
    \/ session.status = "ABSENT" /\ session' = Created
    \/ session.status = "CREATED" /\ session' = [session EXCEPT !.status = "PREPARING"]
    \/ MayRelease /\ session' = [session EXCEPT !.flagged = TRUE]
    \/ session.status = "PREPARING" /\ session' = Claimed
    \/ /\ session.status = "PREPARING" /\ session.started = "FRESH"
       /\ session' = [session EXCEPT !.started = "STALE"]
    \/ /\ session.status = "PREPARING"
       /\ \E n \in 1 .. session.attempts :
             session' = [session EXCEPT !.status = "READY", !.questions = n]
    \/ /\ session.status = "PREPARING"
       /\ session' = [session EXCEPT !.status = "FAILED", !.questions = 0, !.flagged = FALSE]
    \/ session.status = "READY" /\ session' = [session EXCEPT !.status = "IN_PROGRESS"]
    \/ /\ session.status \in {"CREATED", "PREPARING", "READY"}
       /\ session' = [session EXCEPT !.status = "CANCELLED"]

LEMMA EveryStepIsARowStep ==
    ASSUME PreparationInv, [Next]_vars
    PROVE  RowStep
<1> USE DEF PreparationInv
<1>1. ASSUME NEW c \in Clients, Request(c) PROVE RowStep
  <2>1. CASE ReleaseForRetry(c)
    <3>1. CASE MayRelease
      <4>1. session' = [session EXCEPT !.flagged = TRUE]
        BY <2>1, <3>1 DEF ReleaseForRetry
      <4>2. QED  BY <3>1, <4>1 DEF RowStep
    <3>2. CASE ~MayRelease
      <4>1. session' = session
        BY <2>1, <3>2 DEF ReleaseForRetry, RowInv, Session
      <4>2. QED  BY <4>1 DEF RowStep
    <3>3. QED  BY <3>1, <3>2
  <2>2. CASE ~ReleaseForRetry(c)
    BY <1>1, <2>2 DEF Request, CreateSession, BeginPreparing, EnqueuePreparation, EnqueueFails,
         ApiCrash, Begun, RowStep
  <2>3. QED  BY <2>1, <2>2
<1>2. CASE User
  BY <1>2 DEF User, StartSession, CancelSession, MoveTo, RowStep
<1>3. ASSUME NEW j \in PreparationJobs, Preparation(j) PROVE RowStep
  <2>1. CASE Claim(j)
    BY <2>1 DEF Claim, MayClaim, RowStep
  <2>2. CASE PersistQuestions(j)
    <3>1. session' = Prepared(j) /\ worker[j].claim \in 1 .. session.attempts
      BY <2>2 DEF PersistQuestions, CrewInv, Worker, RowInv, Session
    <3>2. QED  BY <3>1 DEF Prepared, RowStep
  <2>3. CASE MarkFailed(j)
    <3>1. session' = FailedRow /\ session.status # "CREATED"
      BY <2>3 DEF MarkFailed, CrewInv, Queued
    <3>2. QED  BY <3>1 DEF FailedRow, RowStep
  <2>4. CASE ~(Claim(j) \/ PersistQuestions(j) \/ MarkFailed(j))
    BY <1>3, <2>4 DEF Preparation, Refuse, DropDelivery, LoseDelivery, LoadSession, ScheduleResume,
         EnqueueResume, EnqueueResumeFails, MarkResumeFailed, RejectInput, ScheduleError,
         TransientError, WriteError, JobTimeout, WorkerCrash, RowStep
  <2>5. QED  BY <2>1, <2>2, <2>3, <2>4
<1>4. CASE ResumeEvaluation \/ Recovery
  BY <1>4 DEF ResumeEvaluation, ClaimResume, EndResume, PersistResume, MarkResume, CutResume, Recovery, ClaimGoesStale,
       RecoveryScan, RecoveryEnqueue, RecoveryFails, RowStep
<1>5. CASE UNCHANGED vars
  BY <1>5 DEF vars, RowStep
<1>6. QED  BY <1>1, <1>2, <1>3, <1>4, <1>5 DEF Next

\* A row step keeps the row well formed; nothing is uncounted or unqueued.
LEMMA RowStepKeepsRow ==
    ASSUME RowInv, RowStep
    PROVE  /\ RowInv'
           /\ session'.attempts >= session.attempts
           /\ Queued => Queued'
           /\ session.status # "ABSENT" => session'.status # "ABSENT"
<1> USE DEF RowInv, Queued, FlaggedIsUnclaimed, Session, SessionStatus
<1>1. CASE session' = session
  BY <1>1
<1>2. CASE session.status = "ABSENT" /\ session' = Created
  BY <1>2 DEF Created, NoSession
<1>3. CASE session.status = "CREATED" /\ session' = [session EXCEPT !.status = "PREPARING"]
  BY <1>3
<1>4. CASE MayRelease /\ session' = [session EXCEPT !.flagged = TRUE]
  BY <1>4 DEF MayRelease
<1>5. CASE session.status = "PREPARING" /\ session' = Claimed
  <2>1. session' \in Session
    <3>1. PICK n \in Nat : n = session.attempts + 1
      OBVIOUS
    <3>2. session' = [session EXCEPT !.attempts = n, !.started = "FRESH", !.flagged = FALSE]
      BY <1>5, <3>1 DEF Claimed
    <3>3. QED  BY <3>2
  <2>2. /\ session'.attempts = session.attempts + 1 /\ session'.flagged = FALSE
        /\ session'.questions = 0 /\ session'.status = "PREPARING"
    BY <1>5 DEF Claimed
  <2>3. QED  BY <1>5, <2>1, <2>2
<1>6. CASE /\ session.status = "PREPARING" /\ session.started = "FRESH"
           /\ session' = [session EXCEPT !.started = "STALE"]
  BY <1>6
<1>7. CASE /\ session.status = "PREPARING"
           /\ \E n \in 1 .. session.attempts :
                 session' = [session EXCEPT !.status = "READY", !.questions = n]
  <2>1. PICK n \in 1 .. session.attempts :
           session' = [session EXCEPT !.status = "READY", !.questions = n]
    BY <1>7
  <2>2. n \in Nat /\ n <= session.attempts
    OBVIOUS
  <2>3. session' \in Session
    BY <2>1, <2>2
  <2>4. /\ session'.status = "READY" /\ session'.questions = n
        /\ session'.attempts = session.attempts /\ session'.flagged = session.flagged
        /\ session'.started = session.started
    BY <2>1
  <2>5. QED  BY <1>7, <2>2, <2>3, <2>4
<1>8. CASE /\ session.status = "PREPARING"
           /\ session' = [session EXCEPT !.status = "FAILED", !.questions = 0, !.flagged = FALSE]
  <2>1. session' \in Session
    BY <1>8
  <2>2. /\ session'.status = "FAILED" /\ session'.questions = 0
        /\ session'.attempts = session.attempts /\ session'.flagged = FALSE
    BY <1>8
  <2>3. QED  BY <1>8, <2>1, <2>2
<1>9. CASE session.status = "READY" /\ session' = [session EXCEPT !.status = "IN_PROGRESS"]
  BY <1>9
<1>10. CASE /\ session.status \in {"CREATED", "PREPARING", "READY"}
            /\ session' = [session EXCEPT !.status = "CANCELLED"]
  <2>1. session' \in Session
    BY <1>10
  <2>2. /\ session'.status = "CANCELLED" /\ session'.questions = session.questions
        /\ session'.attempts = session.attempts /\ session'.flagged = session.flagged
        /\ session'.started = session.started
    BY <1>10
  <2>3. QED  BY <1>10, <2>1, <2>2
<1>11. QED  BY <1>1, <1>2, <1>3, <1>4, <1>5, <1>6, <1>7, <1>8, <1>9, <1>10 DEF RowStep

-----------------------------------------------------------------------------
(* The jobs and their coroutines.                                          *)

LEMMA QueueIsTyped ==
    ASSUME NEW queue \in [JobIds -> Job], NEW id \in JobIds
    PROVE  /\ Enqueued(queue, id) \in [JobIds -> Job]
           /\ Finished(queue, id) \in [JobIds -> Job]
           /\ Requeued(queue, id) \in [JobIds -> Job]
           /\ Delivered(queue, id) \in [JobIds -> Job]
<1>1. Enqueued(queue, id) \in [JobIds -> Job]
  BY DEF Enqueued, Job, JobPhase
<1>2. Finished(queue, id) \in [JobIds -> Job]
  BY DEF Finished, Job, JobPhase
<1>3. Requeued(queue, id) \in [JobIds -> Job]
  BY DEF Requeued, Job, JobPhase
<1>4. Delivered(queue, id) \in [JobIds -> Job]
  <2>1. [phase |-> "RUNNING", try |-> queue[id].try + 1] \in Job
    BY DEF Job, JobPhase
  <2>2. QED  BY <2>1 DEF Delivered
<1>5. QED  BY <1>1, <1>2, <1>3, <1>4

\* The row has gone on by a row step, as every action of the module does it.
RowGoesOn ==
    /\ session \in Session /\ session' \in Session
    /\ session'.attempts >= session.attempts
    /\ Queued => Queued'

\* No coroutine moved, and the queue changed only where a job may be there.
LEMMA QueueKeepsCrew ==
    ASSUME CrewInv, RowGoesOn, UNCHANGED worker, jobs' \in [JobIds -> Job],
           NEW id \in JobIds, id \in PreparationJobs => Queued',
           \A k \in JobIds : k # id => jobs'[k] = jobs[k]
    PROVE  CrewInv'
<1>1. \A k \in PreparationJobs : jobs'[k].phase # "ABSENT" => Queued'
  BY IdsAreNumbers DEF CrewInv, RowGoesOn
<1>2. \A k \in PreparationJobs :
         /\ worker'[k].claim <= session'.attempts
         /\ worker'[k].at # "IDLE" => worker'[k].claim >= 1 /\ Queued'
  BY DEF CrewInv, RowGoesOn, Worker, Session
<1>3. QED  BY <1>1, <1>2 DEF CrewInv

LEMMA EnqueueKeepsCrew ==
    ASSUME CrewInv, RowGoesOn, UNCHANGED worker, NEW id \in JobIds,
           id \in PreparationJobs => Queued',
           jobs' \in EnqueueOutcomes(jobs, id) \cup {jobs}
    PROVE  CrewInv'
<1>1. jobs' = jobs \/ jobs' = Enqueued(jobs, id)
  BY DEF EnqueueOutcomes
<1>2. jobs' \in [JobIds -> Job]
  BY <1>1, QueueIsTyped DEF CrewInv
<1>3. \A k \in JobIds : k # id => jobs'[k] = jobs[k]
  BY <1>1 DEF Enqueued, CrewInv
<1>4. QED  BY <1>2, <1>3, QueueKeepsCrew

\* One coroutine moved, under a claim that has been counted.
LEMMA CoroutineKeepsCrew ==
    ASSUME CrewInv, RowGoesOn, NEW j \in PreparationJobs, NEW w \in Worker,
           worker' = [worker EXCEPT ![j] = w],
           w.claim <= session'.attempts,
           w.at # "IDLE" => w.claim >= 1 /\ Queued',
           jobs' \in [JobIds -> Job], Queued',
           \A k \in PreparationJobs : k # j => jobs'[k] = jobs[k]
    PROVE  CrewInv'
<1>1. worker' \in [PreparationJobs -> Worker]
  BY DEF CrewInv
<1>2. ASSUME NEW k \in PreparationJobs
      PROVE  /\ worker'[k].claim <= session'.attempts
             /\ worker'[k].at # "IDLE" => worker'[k].claim >= 1 /\ Queued'
             /\ jobs'[k].phase # "ABSENT" => Queued'
  <2>1. CASE k = j
    BY <2>1 DEF CrewInv
  <2>2. CASE k # j
    <3>1. worker'[k] = worker[k] /\ jobs'[k] = jobs[k]
      BY <2>2 DEF CrewInv
    <3>2. worker[k].claim \in Nat /\ worker[k].claim <= session.attempts
      BY DEF CrewInv, Worker
    <3>3. QED  BY <3>1, <3>2 DEF CrewInv, RowGoesOn, Session
  <2>3. QED  BY <2>1, <2>2
<1>3. QED  BY <1>1, <1>2 DEF CrewInv

LEMMA StepKeepsCrew ==
    ASSUME CrewInv, RowGoesOn, NEW j \in PreparationJobs, NEW step \in WorkerStep,
           worker[j].at # "IDLE",
           worker' = [worker EXCEPT ![j].at = step],
           jobs' \in [JobIds -> Job],
           \A k \in PreparationJobs : k # j => jobs'[k] = jobs[k]
    PROVE  CrewInv'
<1> DEFINE w == [worker[j] EXCEPT !.at = step]
<1>1. worker' = [worker EXCEPT ![j] = w] /\ w \in Worker /\ w.claim = worker[j].claim
  BY DEF CrewInv, Worker
<1>2. worker[j].claim \in Nat /\ worker[j].claim <= session.attempts
      /\ worker[j].claim >= 1 /\ Queued
  BY DEF CrewInv, Worker
<1>3. w.claim <= session'.attempts /\ w.claim >= 1 /\ Queued'
  BY <1>1, <1>2 DEF RowGoesOn, Session
<1> HIDE DEF w
<1>4. QED  BY <1>1, <1>3, CoroutineKeepsCrew

LEMMA EndKeepsCrew ==
    ASSUME CrewInv, RowGoesOn, NEW j \in PreparationJobs, worker[j].at # "IDLE",
           End(j, Finished(jobs, j)) \/ End(j, Requeued(jobs, j))
    PROVE  CrewInv'
<1>1. worker' = [worker EXCEPT ![j] = IdleWorker]
  BY DEF End
<1>2. IdleWorker \in Worker /\ IdleWorker.claim = 0 /\ IdleWorker.at = "IDLE"
  BY DEF IdleWorker, Worker, WorkerStep
<1>3. jobs' \in [JobIds -> Job] /\ \A k \in PreparationJobs : k # j => jobs'[k] = jobs[k]
  <2>1. jobs' = Finished(jobs, j) \/ jobs' = Requeued(jobs, j)
    BY DEF End
  <2>2. jobs \in [JobIds -> Job] /\ j \in JobIds /\ PreparationJobs \subseteq JobIds
    BY IdsAreNumbers DEF CrewInv
  <2>3. jobs' \in [JobIds -> Job]
    BY <2>1, <2>2, QueueIsTyped
  <2>4. QED  BY <2>1, <2>2, <2>3 DEF Finished, Requeued
<1>4. 0 <= session'.attempts /\ Queued'
  BY DEF RowGoesOn, Session, CrewInv
<1>5. QED  BY <1>1, <1>2, <1>3, <1>4, CoroutineKeepsCrew

LEMMA RequestKeepsCrew ==
    ASSUME CrewInv, RestInv, RowGoesOn, NEW c \in Clients, Request(c)
    PROVE  CrewInv'
<1>1. UNCHANGED worker
  BY DEF Request, CreateSession, BeginPreparing, EnqueuePreparation, EnqueueFails,
         ReleaseForRetry, ApiCrash
<1>2. CASE EnqueuePreparation(c) \/ EnqueueFails(c)
  <2>1. SubmitJob \in JobIds /\ Queued'
    BY <1>2, IdsAreNumbers DEF EnqueuePreparation, EnqueueFails, RestInv, RowGoesOn
  <2>2. jobs' \in EnqueueOutcomes(jobs, SubmitJob) \cup {jobs}
    BY <1>2 DEF EnqueuePreparation, EnqueueFails
  <2>3. QED  BY <1>1, <2>1, <2>2, EnqueueKeepsCrew
<1>3. CASE ~(EnqueuePreparation(c) \/ EnqueueFails(c))
  <2>1. UNCHANGED jobs
    BY <1>3 DEF Request, CreateSession, BeginPreparing, ReleaseForRetry, ApiCrash
  <2>2. QED  BY <1>1, <2>1, IdsAreNumbers, QueueKeepsCrew DEF CrewInv
<1>4. QED  BY <1>2, <1>3

LEMMA ClaimKeepsCrew ==
    ASSUME RowInv, CrewInv, RowGoesOn, NEW j \in PreparationJobs, Claim(j)
    PROVE  CrewInv'
<1>1. PICK step \in {"LOAD", "FAIL"} :
         worker' = [worker EXCEPT ![j] = [at |-> step, claim |-> session.attempts + 1]]
  BY DEF Claim
<1> DEFINE w == [at |-> step, claim |-> session.attempts + 1]
<1>2. session'.attempts = session.attempts + 1 /\ session.attempts \in Nat
  BY DEF Claim, Claimed, RowInv, Session
<1>3. w \in Worker /\ w.claim <= session'.attempts /\ w.claim >= 1
  BY <1>2 DEF Worker, WorkerStep
<1>4. jobs' = Delivered(jobs, j) /\ j \in JobIds /\ PreparationJobs \subseteq JobIds
  BY IdsAreNumbers DEF Claim
<1>5. jobs' \in [JobIds -> Job] /\ \A k \in PreparationJobs : k # j => jobs'[k] = jobs[k]
  <2>1. jobs' \in [JobIds -> Job]
    BY <1>4, QueueIsTyped DEF CrewInv
  <2>2. QED  BY <1>4, <2>1 DEF Delivered, CrewInv
<1>6. Queued'
  BY DEF Claim, MayClaim, Queued, RowGoesOn
<1>7. worker' = [worker EXCEPT ![j] = w]
  BY <1>1
<1> HIDE DEF w
<1>8. QED  BY <1>3, <1>5, <1>6, <1>7, CoroutineKeepsCrew

\* The ways a running coroutine goes on or ends.
LEMMA MovesOfAJob ==
    ASSUME NEW j \in PreparationJobs, Preparation(j),
           ~(Claim(j) \/ Refuse(j) \/ DropDelivery(j) \/ LoseDelivery(j))
    PROVE  /\ worker[j].at # "IDLE"
           /\ \/ End(j, Finished(jobs, j)) \/ End(j, Requeued(jobs, j))
              \/ \E step \in WorkerStep \ {"IDLE"} :
                    /\ worker' = [worker EXCEPT ![j].at = step]
                    /\ \/ jobs' = jobs
                       \/ jobs' = Enqueued(jobs, ResumeJob)
           /\ \/ session' = session
              \/ session'.attempts = session.attempts
<1> USE DEF Step, WorkerStep
<1>1. CASE LoadSession(j)
  BY <1>1 DEF LoadSession
<1>2. CASE ScheduleResume(j)
  BY <1>2 DEF ScheduleResume
<1>3. CASE EnqueueResume(j) \/ EnqueueResumeFails(j)
  BY <1>3 DEF EnqueueResume, EnqueueResumeFails, EnqueueOutcomes
<1>4. CASE MarkResumeFailed(j) \/ RejectInput(j) \/ ScheduleError(j)
  BY <1>4 DEF MarkResumeFailed, RejectInput, ScheduleError
<1>5. CASE PersistQuestions(j)
  BY <1>5 DEF PersistQuestions, Prepared
<1>6. CASE MarkFailed(j)
  BY <1>6 DEF MarkFailed, FailedRow
<1>7. CASE TransientError(j)
  BY <1>7 DEF TransientError
<1>8. CASE WriteError(j) \/ JobTimeout(j) \/ WorkerCrash(j)
  BY <1>8 DEF WriteError, JobTimeout, WorkerCrash
<1>9. QED  BY <1>1, <1>2, <1>3, <1>4, <1>5, <1>6, <1>7, <1>8 DEF Preparation

LEMMA PreparationKeepsCrew ==
    ASSUME RowInv, CrewInv, RowGoesOn, NEW j \in PreparationJobs, Preparation(j)
    PROVE  CrewInv'
<1>1. j \in JobIds /\ jobs \in [JobIds -> Job] /\ PreparationJobs \subseteq JobIds
  BY IdsAreNumbers DEF CrewInv
<1>2. CASE Claim(j)
  BY <1>2, ClaimKeepsCrew
<1>3. CASE Refuse(j) \/ DropDelivery(j) \/ LoseDelivery(j)
  <2>1. UNCHANGED worker /\ Queued'
    BY <1>3 DEF Refuse, DropDelivery, LoseDelivery, CrewInv, RowGoesOn
  <2>2. jobs' = Finished(jobs, j) \/ jobs' = Requeued(Delivered(jobs, j), j)
    BY <1>3 DEF Refuse, DropDelivery, LoseDelivery
  <2>3. jobs' \in [JobIds -> Job]
    BY <1>1, <2>2, QueueIsTyped
  <2>4. \A k \in JobIds : k # j => jobs'[k] = jobs[k]
    BY <1>1, <2>2 DEF Finished, Requeued, Delivered
  <2>5. QED  BY <1>1, <2>1, <2>3, <2>4, QueueKeepsCrew
<1>4. CASE ~(Claim(j) \/ Refuse(j) \/ DropDelivery(j) \/ LoseDelivery(j))
  <2>1. worker[j].at # "IDLE"
    BY <1>4, MovesOfAJob
  <2>2. CASE End(j, Finished(jobs, j)) \/ End(j, Requeued(jobs, j))
    BY <2>1, <2>2, EndKeepsCrew
  <2>3. ASSUME NEW step \in WorkerStep,
               worker' = [worker EXCEPT ![j].at = step],
               jobs' = jobs \/ jobs' = Enqueued(jobs, ResumeJob)
        PROVE  CrewInv'
    <3>1. jobs' \in [JobIds -> Job]
      BY <1>1, <2>3, IdsAreNumbers, QueueIsTyped
    <3>2. \A k \in PreparationJobs : k # j => jobs'[k] = jobs[k]
      BY <1>1, <2>3, IdsAreNumbers DEF Enqueued
    <3>3. QED  BY <2>1, <2>3, <3>1, <3>2, StepKeepsCrew
  <2>4. QED  BY <1>4, <2>2, <2>3, MovesOfAJob
<1>5. QED  BY <1>2, <1>3, <1>4

LEMMA ResumeKeepsCrew ==
    ASSUME CrewInv, RowGoesOn, ResumeEvaluation
    PROVE  CrewInv'
<1>1. jobs \in [JobIds -> Job] /\ ResumeJob \in JobIds /\ ResumeJob \notin PreparationJobs
  BY IdsAreNumbers DEF CrewInv
<1>2. /\ UNCHANGED worker
      /\ jobs' \in {Delivered(jobs, ResumeJob), Finished(jobs, ResumeJob),
                    Requeued(jobs, ResumeJob)}
  BY DEF ResumeEvaluation, ClaimResume, EndResume, PersistResume, MarkResume, CutResume
<1>3. jobs' \in [JobIds -> Job]
  BY <1>1, <1>2, QueueIsTyped
<1>4. \A k \in JobIds : k # ResumeJob => jobs'[k] = jobs[k]
  BY <1>1, <1>2 DEF Delivered, Finished, Requeued
<1>5. QED  BY <1>1, <1>2, <1>3, <1>4, QueueKeepsCrew

LEMMA RecoveryKeepsCrew ==
    ASSUME CrewInv, RestInv, RowGoesOn, Recovery
    PROVE  CrewInv'
<1>1. CASE RecoveryEnqueue
  <2>1. scan \in JobIds /\ Queued' /\ UNCHANGED worker
    BY <1>1 DEF RecoveryEnqueue, RestInv, RowGoesOn
  <2>2. jobs' \in EnqueueOutcomes(jobs, scan) \cup {jobs}
    BY <1>1 DEF RecoveryEnqueue
  <2>3. QED  BY <2>1, <2>2, EnqueueKeepsCrew
<1>2. CASE ~RecoveryEnqueue
  <2>1. UNCHANGED <<jobs, worker>>
    BY <1>2 DEF Recovery, ClaimGoesStale, RecoveryScan, RecoveryFails
  <2>2. QED  BY <2>1, IdsAreNumbers, QueueKeepsCrew DEF CrewInv
<1>3. QED  BY <1>1, <1>2

-----------------------------------------------------------------------------
(* Requests, the resume evaluation and the recovery loop.                  *)

LEMMA SpendIsTyped ==
    ASSUME NEW kind \in BoundedEvent, spent \in [BoundedEvent -> Nat], Spend(kind)
    PROVE  spent' \in [BoundedEvent -> Nat]
<1>1. spent[kind] + 1 \in Nat
  OBVIOUS
<1>2. QED  BY <1>1 DEF Spend

\* All of RestInv that refers to the row survives a row step.
LEMMA RestStandsStill ==
    ASSUME RestInv, RowGoesOn, session.status # "ABSENT" => session'.status # "ABSENT",
           resume' \in ResumeStatus, evaluator' \in BOOLEAN,
           scan' = scan \/ scan' = NoScan,
           UNCHANGED api,
           UNCHANGED spent \/ \E kind \in BoundedEvent : Spend(kind)
    PROVE  RestInv'
<1>1. spent' \in [BoundedEvent -> Nat]
  BY SpendIsTyped DEF RestInv
<1>2. scan' \in JobIds /\ (scan' # NoScan => Queued')
  BY IdsAreNumbers DEF RestInv, RowGoesOn
<1>3. \A c \in Clients : /\ api'[c] # "IDLE" => session'.status # "ABSENT"
                        /\ api'[c] \in {"ENQUEUE", "RELEASE"} => Queued'
  BY DEF RestInv, RowGoesOn
<1>4. QED  BY <1>1, <1>2, <1>3 DEF RestInv

\* A request takes its next step, which the row it has just left allows.
LEMMA RequestStepKeepsRest ==
    ASSUME RestInv, RowGoesOn, session.status # "ABSENT" => session'.status # "ABSENT",
           NEW c \in Clients, NEW step \in ClientStep, Goto(c, step),
           step # "IDLE" => session'.status # "ABSENT",
           step \in {"ENQUEUE", "RELEASE"} => Queued',
           UNCHANGED <<resume, evaluator, scan>>,
           UNCHANGED spent \/ \E kind \in BoundedEvent : Spend(kind)
    PROVE  RestInv'
<1>1. spent' \in [BoundedEvent -> Nat]
  BY SpendIsTyped DEF RestInv
<1>2. scan' \in JobIds /\ (scan' # NoScan => Queued')
  BY IdsAreNumbers DEF RestInv, RowGoesOn
<1>3. api' = [api EXCEPT ![c] = step] /\ api' \in [Clients -> ClientStep]
  BY DEF Goto, RestInv
<1>4. \A d \in Clients : /\ api'[d] # "IDLE" => session'.status # "ABSENT"
                        /\ api'[d] \in {"ENQUEUE", "RELEASE"} => Queued'
  BY <1>3 DEF RestInv, RowGoesOn
<1>5. QED  BY <1>1, <1>2, <1>3, <1>4 DEF RestInv

LEMMA RequestKeepsRest ==
    ASSUME RowInv, RestInv, RowGoesOn, session.status # "ABSENT" => session'.status # "ABSENT",
           NEW c \in Clients, Request(c)
    PROVE  RestInv'
<1> USE DEF ClientStep
<1>1. /\ UNCHANGED <<resume, evaluator, scan>>
      /\ UNCHANGED spent \/ \E kind \in BoundedEvent : Spend(kind)
  BY DEF Request, CreateSession, BeginPreparing, EnqueuePreparation, EnqueueFails,
         ReleaseForRetry, ApiCrash, BoundedEvent
<1>2. CASE CreateSession(c)
  <2>1. session'.status # "ABSENT"
    BY <1>2 DEF CreateSession, Created, NoSession
  <2>2. Goto(c, "BEGIN") \/ Goto(c, "IDLE")
    BY <1>2 DEF CreateSession
  <2>3. QED  BY <1>1, <2>1, <2>2, RequestStepKeepsRest
<1>3. CASE BeginPreparing(c)
  <2>1. session.status # "ABSENT" /\ session' = Begun
    BY <1>3 DEF BeginPreparing, RestInv
  <2>2. Queued' /\ session'.status # "ABSENT"
    BY <2>1 DEF Begun, Queued, RowInv, Session
  <2>3. Goto(c, "IDLE") \/ Goto(c, "ENQUEUE")
    BY <1>3 DEF BeginPreparing
  <2>4. QED  BY <1>1, <2>2, <2>3, RequestStepKeepsRest
<1>4. CASE EnqueueFails(c)
  <2>1. Goto(c, "RELEASE") /\ Queued' /\ session'.status # "ABSENT"
    BY <1>4 DEF EnqueueFails, RestInv, RowGoesOn, Queued
  <2>2. QED  BY <1>1, <2>1, RequestStepKeepsRest
<1>5. CASE EnqueuePreparation(c) \/ ReleaseForRetry(c) \/ ApiCrash(c)
  <2>1. Goto(c, "IDLE")
    BY <1>5 DEF EnqueuePreparation, ReleaseForRetry, ApiCrash
  <2>2. QED  BY <1>1, <2>1, RequestStepKeepsRest
<1>6. QED  BY <1>2, <1>3, <1>4, <1>5 DEF Request

LEMMA PreparationKeepsRest ==
    ASSUME RestInv, RowGoesOn, session.status # "ABSENT" => session'.status # "ABSENT",
           NEW j \in PreparationJobs, Preparation(j)
    PROVE  RestInv'
<1>1. UNCHANGED <<evaluator, scan, api>>
  BY DEF Preparation, Claim, Refuse, DropDelivery, LoseDelivery, LoadSession, ScheduleResume,
         EnqueueResume, EnqueueResumeFails, MarkResumeFailed, RejectInput, PersistQuestions,
         MarkFailed, ScheduleError, TransientError, WriteError, JobTimeout, WorkerCrash
<1>2. resume' \in {resume, "PENDING", "FAILED"}
  BY DEF Preparation, Claim, Refuse, DropDelivery, LoseDelivery, LoadSession, ScheduleResume,
         EnqueueResume, EnqueueResumeFails, MarkResumeFailed, RejectInput, PersistQuestions,
         MarkFailed, ScheduleError, TransientError, WriteError, JobTimeout, WorkerCrash
<1>3. UNCHANGED spent \/ \E kind \in BoundedEvent : Spend(kind)
  BY DEF Preparation, Claim, Refuse, DropDelivery, LoseDelivery, LoadSession, ScheduleResume,
         EnqueueResume, EnqueueResumeFails, MarkResumeFailed, RejectInput, PersistQuestions,
         MarkFailed, ScheduleError, TransientError, WriteError, JobTimeout, WorkerCrash,
         BoundedEvent
<1>4. evaluator' \in BOOLEAN /\ resume' \in ResumeStatus
  BY <1>1, <1>2 DEF RestInv, ResumeStatus
<1>5. QED  BY <1>1, <1>3, <1>4, RestStandsStill

LEMMA RecoveryKeepsRest ==
    ASSUME RowInv, RestInv, RowGoesOn, session.status # "ABSENT" => session'.status # "ABSENT",
           ResumeEvaluation \/ Recovery
    PROVE  RestInv'
<1>1. CASE RecoveryScan
  <2>1. scan' = RecoveryJob(session.attempts) /\ session.attempts \in Nat
        /\ session.attempts <= MaxClaims /\ Queued'
    BY <1>1 DEF RecoveryScan, Recoverable, Queued, RowGoesOn, RowInv, Session
  <2>2. scan' \in JobIds
    BY <2>1, IdsAreNumbers
  <2>3. UNCHANGED <<session, resume, evaluator, api, spent>>
    BY <1>1 DEF RecoveryScan
  <2>4. QED  BY <2>1, <2>2, <2>3 DEF RestInv, RowGoesOn
<1>2. CASE ResumeEvaluation \/ ClaimGoesStale \/ RecoveryEnqueue \/ RecoveryFails
  <2>1. /\ UNCHANGED api
        /\ scan' = scan \/ scan' = NoScan
        /\ UNCHANGED spent \/ \E kind \in BoundedEvent : Spend(kind)
    BY <1>2 DEF ResumeEvaluation, ClaimResume, EndResume, PersistResume, MarkResume, CutResume, ClaimGoesStale,
         RecoveryEnqueue, RecoveryFails, BoundedEvent
  <2>2. resume' \in ResumeStatus /\ evaluator' \in BOOLEAN
    BY <1>2 DEF ResumeEvaluation, ClaimResume, EndResume, PersistResume, MarkResume, CutResume, ClaimGoesStale,
         RecoveryEnqueue, RecoveryFails, RestInv, ResumeStatus
  <2>3. QED  BY <2>1, <2>2, RestStandsStill
<1>3. QED  BY <1>1, <1>2 DEF Recovery

-----------------------------------------------------------------------------
(* The invariant and what follows from it.                                 *)

LEMMA InitHolds == Init => PreparationInv
<1> SUFFICES ASSUME Init PROVE RowInv /\ CrewInv /\ RestInv
  BY DEF PreparationInv
<1>1. RowInv
  BY DEF Init, RowInv, NoSession, Session, SessionStatus, FlaggedIsUnclaimed
<1>2. CrewInv
  BY IdsAreNumbers DEF Init, CrewInv, EmptyQueue, NoJob, Job, JobPhase, IdleWorker, Worker,
                       WorkerStep, NoSession
<1>3. RestInv
  BY IdsAreNumbers DEF Init, RestInv, ResumeStatus, ClientStep
<1>4. QED  BY <1>1, <1>2, <1>3

LEMMA StepKeepsInv == PreparationInv /\ [Next]_vars => PreparationInv'
<1> SUFFICES ASSUME PreparationInv, RowInv, CrewInv, RestInv, [Next]_vars
             PROVE  RowInv' /\ CrewInv' /\ RestInv'
  BY DEF PreparationInv
<1>1. /\ RowInv' /\ RowGoesOn
      /\ session.status # "ABSENT" => session'.status # "ABSENT"
  <2>1. RowStep
    BY EveryStepIsARowStep
  <2>2. /\ RowInv'
        /\ session'.attempts >= session.attempts
        /\ Queued => Queued'
        /\ session.status # "ABSENT" => session'.status # "ABSENT"
    BY <2>1, RowStepKeepsRow
  <2>3. QED  BY <2>2 DEF RowGoesOn, RowInv
<1>2. ASSUME NEW c \in Clients, Request(c) PROVE CrewInv' /\ RestInv'
  BY <1>1, <1>2, RequestKeepsCrew, RequestKeepsRest
<1>3. CASE User
  <2>1. UNCHANGED <<resume, jobs, worker, evaluator, scan, api, spent>>
    BY <1>3 DEF User, StartSession, CancelSession, MoveTo
  <2>2. CrewInv'
    BY <1>1, <2>1, IdsAreNumbers, QueueKeepsCrew DEF CrewInv
  <2>3. resume' \in ResumeStatus /\ evaluator' \in BOOLEAN
    BY <2>1 DEF RestInv
  <2>4. QED  BY <1>1, <2>1, <2>2, <2>3, RestStandsStill
<1>4. ASSUME NEW j \in PreparationJobs, Preparation(j) PROVE CrewInv' /\ RestInv'
  BY <1>1, <1>4, PreparationKeepsCrew, PreparationKeepsRest
<1>5. CASE ResumeEvaluation
  BY <1>1, <1>5, ResumeKeepsCrew, RecoveryKeepsRest
<1>6. CASE Recovery
  BY <1>1, <1>6, RecoveryKeepsCrew, RecoveryKeepsRest
<1>7. CASE UNCHANGED vars
  BY <1>7 DEF vars, RowInv, CrewInv, RestInv, Queued, FlaggedIsUnclaimed
<1>8. QED  BY <1>1, <1>2, <1>3, <1>4, <1>5, <1>6, <1>7 DEF Next

\* The inductive invariant: rows, jobs and requests agree on how far the
\* preparation has come.
THEOREM PreparationInvariant == Spec => []PreparationInv
  BY InitHolds, StepKeepsInv, PTL DEF Spec

\* Every variable keeps its type and refers to counted claims only.
THEOREM PreparationTypeCorrect == Spec => []TypeOK
<1>1. PreparationInv => TypeOK
  BY DEF PreparationInv, RowInv, CrewInv, RestInv, TypeOK
<1>2. QED  BY PreparationInvariant, <1>1, PTL

\* The queue-unavailable mark and a claim exclude each other, whichever of the
\* request and the job it could not see gets to the row first.
THEOREM OnlyTheUnclaimedAreFlagged == Spec => []FlaggedIsUnclaimed
<1>1. PreparationInv => FlaggedIsUnclaimed
  BY DEF PreparationInv, RowInv
<1>2. QED  BY PreparationInvariant, <1>1, PTL

\* Late jobs, late failures, repeated requests and cancellations leave the
\* questions of a prepared session alone.
THEOREM QuestionsNeverChange == Spec => QuestionsAreFinal
<1>1. PreparationInv /\ [Next]_vars =>
        [session.questions # 0 => session'.questions = session.questions]_vars
  <2> SUFFICES ASSUME PreparationInv, [Next]_vars, session.questions # 0
               PROVE  session'.questions = session.questions
    OBVIOUS
  <2>1. RowStep
    BY EveryStepIsARowStep
  <2>2. /\ session \in Session
        /\ session.status \notin {"ABSENT", "CREATED", "PREPARING", "FAILED"}
    BY DEF PreparationInv, RowInv
  <2>3. QED  BY <2>1, <2>2 DEF RowStep, MayRelease, Session
<1>2. QED  BY PreparationInvariant, <1>1, PTL DEF Spec, QuestionsAreFinal

\* Requests, jobs, claims, retries and recovery implement PreparationLife.
THEOREM LifeIsImplemented == Spec => ImplementsLife
<1>1. Init => Life!Init
  BY DEF Init, NoSession, Life!Init
<1>2. PreparationInv /\ [Next]_vars => [Life!Next]_<<session.status, session.questions>>
  <2> SUFFICES ASSUME PreparationInv, [Next]_vars
               PROVE  [Life!Next]_<<session.status, session.questions>>
    OBVIOUS
  <2>1. RowStep /\ session \in Session
        /\ (session.status \in {"ABSENT", "CREATED", "PREPARING", "FAILED"}
              => session.questions = 0)
    BY EveryStepIsARowStep DEF PreparationInv, RowInv
  <2> USE DEF Session
  <2>2. CASE session.status = "ABSENT" /\ session' = Created
    BY <2>1, <2>2 DEF Created, NoSession, Life!Next, Life!Create
  <2>3. CASE session.status = "CREATED" /\ session' = [session EXCEPT !.status = "PREPARING"]
    BY <2>1, <2>3 DEF Life!Next, Life!Queue
  <2>4. CASE /\ session.status = "PREPARING"
             /\ \E n \in 1 .. session.attempts :
                   session' = [session EXCEPT !.status = "READY", !.questions = n]
    BY <2>1, <2>4 DEF Life!Next, Life!Prepare
  <2>5. CASE /\ session.status = "PREPARING"
             /\ session' = [session EXCEPT !.status = "FAILED", !.questions = 0, !.flagged = FALSE]
    BY <2>1, <2>5 DEF Life!Next, Life!Fail
  <2>6. CASE session.status = "READY" /\ session' = [session EXCEPT !.status = "IN_PROGRESS"]
    BY <2>1, <2>6 DEF Life!Next, Life!Start
  <2>7. CASE /\ session.status \in {"CREATED", "PREPARING", "READY"}
             /\ session' = [session EXCEPT !.status = "CANCELLED"]
    BY <2>1, <2>7 DEF Life!Next, Life!Cancel
  <2>8. CASE session' \in {session, Claimed, [session EXCEPT !.flagged = TRUE],
                           [session EXCEPT !.started = "STALE"]}
    BY <2>1, <2>8 DEF Claimed
  <2>9. QED  BY <2>1, <2>2, <2>3, <2>4, <2>5, <2>6, <2>7, <2>8 DEF RowStep
<1>3. QED  BY PreparationInvariant, <1>1, <1>2, PTL DEF Spec, ImplementsLife, Life!Spec

-----------------------------------------------------------------------------
(* Exclusive claims.  Without lost deliveries every delivery of a job that  *)
(* is still alive has claimed, so job_try never overtakes the count, and    *)
(* stays behind it as long as another job holds the latest claim.           *)

DeliveryInv ==
    spent["LOST"] = 0 =>
        /\ \A j \in PreparationJobs :
              /\ jobs[j].try <= session.attempts
              /\ worker[j].at # "IDLE" =>
                    /\ worker[j].claim = session.attempts
                    /\ session.status = "PREPARING" => session.started = "FRESH"
        /\ \A i, j \in PreparationJobs :
              worker[i].at # "IDLE" /\ i # j =>
                  jobs[j].try < session.attempts /\ worker[j].at = "IDLE"

\* Steps that leave the coroutines alone or end them, put no job ahead of the
\* count and leave the claim's clock alone while a coroutine runs.
LEMMA QuietStepKeepsDelivery ==
    ASSUME PreparationInv, DeliveryInv, PreparationInv',
           spent'["LOST"] = 0 => spent["LOST"] = 0,
           session'.attempts = session.attempts,
           \A j \in PreparationJobs :
              /\ jobs'[j].try = jobs[j].try \/ jobs'[j].try = 0
              /\ worker'[j].at # "IDLE" =>
                    worker[j].at # "IDLE" /\ worker'[j].claim = worker[j].claim,
           \A j \in PreparationJobs :
              worker'[j].at # "IDLE" /\ session'.status = "PREPARING" =>
                  session.status = "PREPARING" /\ session'.started = session.started
    PROVE  DeliveryInv'
<1> SUFFICES ASSUME spent'["LOST"] = 0 PROVE DeliveryInv'
  BY DEF DeliveryInv
<1>1. /\ spent["LOST"] = 0 /\ session.attempts \in Nat
      /\ jobs \in [JobIds -> Job] /\ worker \in [PreparationJobs -> Worker]
      /\ PreparationJobs \subseteq JobIds
  BY IdsAreNumbers DEF PreparationInv, RowInv, CrewInv, Session
<1>2. ASSUME NEW j \in PreparationJobs
      PROVE  /\ jobs'[j].try <= session'.attempts
             /\ worker'[j].at # "IDLE" =>
                   /\ worker'[j].claim = session'.attempts
                   /\ session'.status = "PREPARING" => session'.started = "FRESH"
  BY <1>1 DEF DeliveryInv
<1>3. ASSUME NEW i \in PreparationJobs, NEW j \in PreparationJobs,
             worker'[i].at # "IDLE", i # j
      PROVE  jobs'[j].try < session'.attempts /\ worker'[j].at = "IDLE"
  <2>1. /\ worker[i].at # "IDLE" /\ worker[i].claim = session.attempts
        /\ worker[i].claim >= 1
        /\ jobs[j].try < session.attempts /\ worker[j].at = "IDLE"
    BY <1>1, <1>3 DEF DeliveryInv, PreparationInv, CrewInv
  <2>2. QED  BY <1>1, <2>1
<1>4. QED  BY <1>2, <1>3 DEF DeliveryInv

LEMMA ClaimKeepsDelivery ==
    ASSUME PreparationInv, DeliveryInv, NEW j \in PreparationJobs, Claim(j)
    PROVE  DeliveryInv'
<1> SUFFICES ASSUME spent'["LOST"] = 0 PROVE DeliveryInv'
  BY DEF DeliveryInv
<1>1. /\ spent["LOST"] = 0 /\ session \in Session /\ session.attempts \in Nat
      /\ jobs \in [JobIds -> Job] /\ worker \in [PreparationJobs -> Worker]
      /\ PreparationJobs \subseteq JobIds
  BY IdsAreNumbers DEF Claim, PreparationInv, RowInv, CrewInv, Session
<1>2. jobs[j].try \in Nat /\ jobs[j].phase = "QUEUED"
  BY <1>1 DEF Job, Claim
<1>3. \A i \in PreparationJobs : i # j => worker[i].at = "IDLE"
  <2> SUFFICES ASSUME NEW i \in PreparationJobs, i # j, worker[i].at # "IDLE" PROVE FALSE
    OBVIOUS
  <2>1. jobs[j].try < session.attempts
    BY <1>1 DEF DeliveryInv
  <2>2. session.started = "FRESH"
    BY <1>1 DEF DeliveryInv, Claim, MayClaim
  <2>3. session.attempts = jobs[j].try
    BY <1>1, <1>2, <2>2 DEF Claim, MayClaim
  <2>4. QED  BY <1>1, <1>2, <2>1, <2>3
<1>4. /\ session'.attempts = session.attempts + 1 /\ session'.started = "FRESH"
  BY <1>1 DEF Claim, Claimed, Session
<1>5. /\ jobs'[j].try = jobs[j].try + 1
      /\ worker'[j].claim = session'.attempts
      /\ \A i \in PreparationJobs : i # j => jobs'[i] = jobs[i] /\ worker'[i] = worker[i]
  <2>1. PICK step \in {"LOAD", "FAIL"} :
           worker' = [worker EXCEPT ![j] = [at |-> step, claim |-> session.attempts + 1]]
    BY DEF Claim
  <2>2. jobs' = Delivered(jobs, j)
    BY DEF Claim
  <2>3. QED  BY <1>1, <1>4, <2>1, <2>2 DEF Delivered
<1>6. ASSUME NEW i \in PreparationJobs
      PROVE  /\ jobs'[i].try <= session'.attempts
             /\ i # j => jobs'[i].try < session'.attempts
  <2>1. jobs[i].try \in Nat /\ jobs[i].try <= session.attempts
    BY <1>1 DEF DeliveryInv, Job
  <2>2. QED  BY <1>1, <1>2, <1>4, <1>5, <2>1
<1>7. QED  BY <1>3, <1>4, <1>5, <1>6 DEF DeliveryInv

LEMMA StepKeepsDelivery ==
    ASSUME StaleAfterTimeout, PreparationInv, DeliveryInv, PreparationInv', [Next]_vars
    PROVE  DeliveryInv'
<1>1. /\ session \in Session /\ session.attempts \in Nat
      /\ jobs \in [JobIds -> Job] /\ worker \in [PreparationJobs -> Worker]
      /\ PreparationJobs \subseteq JobIds /\ ResumeJob \in JobIds \ PreparationJobs
      /\ spent \in [BoundedEvent -> Nat]
  BY IdsAreNumbers DEF PreparationInv, RowInv, CrewInv, RestInv, Session
<1>2. ASSUME NEW kind \in BoundedEvent, Spend(kind)
      PROVE  spent'["LOST"] = 0 => spent["LOST"] = 0 /\ kind # "LOST"
  BY <1>1, <1>2 DEF Spend, BoundedEvent
<1>3. ASSUME NEW c \in Clients, Request(c) PROVE DeliveryInv'
  <2>1. /\ worker' = worker
        /\ UNCHANGED spent \/ \E kind \in BoundedEvent : Spend(kind)
        /\ jobs' = jobs \/ jobs' = Enqueued(jobs, SubmitJob)
    BY <1>3 DEF Request, CreateSession, BeginPreparing, EnqueuePreparation, EnqueueFails,
         ReleaseForRetry, ApiCrash, EnqueueOutcomes, BoundedEvent
  <2>2. \A j \in PreparationJobs : jobs'[j].try = jobs[j].try \/ jobs'[j].try = 0
    BY <1>1, <2>1 DEF Enqueued
  <2>3. /\ session'.attempts = session.attempts
        /\ session' = session \/ ~Queued
           \/ session' = [session EXCEPT !.flagged = @ \/ MayRelease]
    BY <1>1, <1>3 DEF Request, CreateSession, BeginPreparing, EnqueuePreparation, EnqueueFails,
         ReleaseForRetry, ApiCrash, Created, NoSession, Begun, Queued, Session,
         PreparationInv, RowInv
  <2>4. \A j \in PreparationJobs :
          worker'[j].at # "IDLE" /\ session'.status = "PREPARING" =>
              session.status = "PREPARING" /\ session'.started = session.started
    BY <1>1, <2>1, <2>3 DEF PreparationInv, CrewInv, Session
  <2>5. QED  BY <1>2, <2>1, <2>2, <2>3, <2>4, QuietStepKeepsDelivery
<1>4. CASE User
  <2>1. /\ UNCHANGED <<jobs, worker, spent>>
        /\ session'.attempts = session.attempts /\ session'.status # "PREPARING"
    BY <1>1, <1>4 DEF User, StartSession, CancelSession, MoveTo, Session
  <2>2. QED  BY <2>1, QuietStepKeepsDelivery
<1>5. ASSUME NEW j \in PreparationJobs, Preparation(j) PROVE DeliveryInv'
  <2>1. CASE Claim(j)
    BY <2>1, ClaimKeepsDelivery
  <2>2. CASE Refuse(j) \/ DropDelivery(j)
    <3>1. /\ jobs' = Finished(jobs, j) /\ UNCHANGED <<session, worker>>
          /\ UNCHANGED spent \/ Spend("ERROR")
      BY <2>2 DEF Refuse, DropDelivery
    <3>2. \A k \in PreparationJobs : jobs'[k].try = jobs[k].try \/ jobs'[k].try = 0
      BY <1>1, <3>1 DEF Finished
    <3>3. spent'["LOST"] = 0 => spent["LOST"] = 0
      BY <1>2, <3>1 DEF BoundedEvent
    <3>4. QED  BY <3>1, <3>2, <3>3, QuietStepKeepsDelivery
  <2>3. CASE LoseDelivery(j)
    <3>1. spent'["LOST"] # 0
      BY <1>2, <2>3 DEF LoseDelivery, BoundedEvent
    <3>2. QED  BY <3>1 DEF DeliveryInv
  <2>4. CASE ~(Claim(j) \/ Refuse(j) \/ DropDelivery(j) \/ LoseDelivery(j))
    <3>1. /\ worker[j].at # "IDLE"
          /\ session'.attempts = session.attempts
      BY <1>5, <2>4, MovesOfAJob
    <3>2. /\ \/ UNCHANGED spent
             \/ \E kind \in BoundedEvent : Spend(kind)
          /\ session'.status = "PREPARING" => session' = session
      BY <1>5, <2>4 DEF Preparation, LoadSession, ScheduleResume, EnqueueResume, BoundedEvent,
           EnqueueResumeFails, MarkResumeFailed, RejectInput, PersistQuestions, MarkFailed,
           ScheduleError, TransientError, WriteError, JobTimeout, WorkerCrash, Prepared,
           FailedRow, PreparationInv, RowInv, Session
    <3>3. ASSUME NEW k \in PreparationJobs
          PROVE  /\ jobs'[k].try = jobs[k].try \/ jobs'[k].try = 0
                 /\ worker'[k].at # "IDLE" =>
                       worker[k].at # "IDLE" /\ worker'[k].claim = worker[k].claim
      <4>1. CASE End(j, Finished(jobs, j)) \/ End(j, Requeued(jobs, j))
        BY <1>1, <4>1 DEF End, Finished, Requeued, IdleWorker, Job
      <4>2. ASSUME NEW step \in WorkerStep,
                   worker' = [worker EXCEPT ![j].at = step],
                   jobs' = jobs \/ jobs' = Enqueued(jobs, ResumeJob)
            PROVE  <3>3!2
        BY <1>1, <3>1, <4>2 DEF Enqueued, Worker
      <4>3. QED  BY <1>5, <2>4, <4>1, <4>2, MovesOfAJob
    <3>4. QED  BY <1>2, <3>1, <3>2, <3>3, QuietStepKeepsDelivery
  <2>5. QED  BY <2>1, <2>2, <2>3, <2>4
<1>6. CASE ResumeEvaluation \/ RecoveryScan \/ RecoveryEnqueue \/ RecoveryFails
  <2>1. /\ UNCHANGED <<session, worker>>
        /\ UNCHANGED spent \/ \E kind \in BoundedEvent : Spend(kind)
    BY <1>6 DEF ResumeEvaluation, ClaimResume, EndResume, PersistResume, MarkResume, CutResume, RecoveryScan,
         RecoveryEnqueue, RecoveryFails, BoundedEvent
  <2>2. \A j \in PreparationJobs : jobs'[j].try = jobs[j].try \/ jobs'[j].try = 0
    <3>1. \/ jobs' \in {jobs, Delivered(jobs, ResumeJob), Finished(jobs, ResumeJob),
                        Requeued(jobs, ResumeJob)}
          \/ jobs' = Enqueued(jobs, scan)
      BY <1>6 DEF ResumeEvaluation, ClaimResume, EndResume, PersistResume, MarkResume, CutResume, RecoveryScan,
           RecoveryEnqueue, RecoveryFails, EnqueueOutcomes
    <3>2. QED  BY <1>1, <3>1 DEF Delivered, Finished, Requeued, Enqueued
  <2>3. QED  BY <1>2, <2>1, <2>2, QuietStepKeepsDelivery
<1>7. CASE ClaimGoesStale
  <2>1. /\ UNCHANGED <<jobs, worker, spent>> /\ session'.attempts = session.attempts
        /\ ~\E j \in PreparationJobs : HoldsLatestClaim(j)
    BY <1>1, <1>7 DEF ClaimGoesStale, Session
  <2>2. spent["LOST"] = 0 => \A j \in PreparationJobs : worker[j].at = "IDLE"
    BY <2>1 DEF HoldsLatestClaim, DeliveryInv
  <2>3. QED  BY <2>1, <2>2 DEF DeliveryInv
<1>8. CASE UNCHANGED vars
  BY <1>8 DEF vars, DeliveryInv
<1>9. QED  BY <1>3, <1>4, <1>5, <1>6, <1>7, <1>8 DEF Next, Recovery

\* As long as stale_seconds exceeds job_timeout, which the defaults do and
\* nothing enforces, and no worker dies between taking a job and claiming, the
\* submit job, its retries and the recovery jobs never prepare side by side.
THEOREM ClaimsAreExclusive ==
    ASSUME StaleAfterTimeout
    PROVE  Spec => []ClaimIsExclusive
<1>1. Init => DeliveryInv
  <2> SUFFICES ASSUME Init PROVE DeliveryInv
    OBVIOUS
  <2>1. /\ session.attempts = 0
        /\ \A j \in PreparationJobs : jobs[j].try = 0 /\ worker[j].at = "IDLE"
    BY IdsAreNumbers DEF Init, NoSession, EmptyQueue, NoJob, IdleWorker
  <2>2. QED  BY <2>1 DEF DeliveryInv
<1>2. PreparationInv /\ PreparationInv' /\ DeliveryInv /\ [Next]_vars => DeliveryInv'
  BY StepKeepsDelivery
<1>3. DeliveryInv => ClaimIsExclusive
  BY DEF DeliveryInv, ClaimIsExclusive
<1>4. QED  BY PreparationInvariant, <1>1, <1>2, <1>3, PTL DEF Spec
=============================================================================
