-------------------------- MODULE AnswerEvaluation --------------------------
(***************************************************************************)
(* One interview session from READY to its end: the API handlers that      *)
(* start, answer, finish and cancel it, the ARQ workers that grade the     *)
(* answers, and the recovery loop, all racing on the rows of one           *)
(* interview_sessions record.                                              *)
(*                                                                         *)
(* Every repository method that writes takes SELECT ... FOR UPDATE on the  *)
(* session row first and commits once, so each is one action.  What runs   *)
(* between two such transactions (reads without the lock, model calls,     *)
(* Redis calls) is a step of its own, and the value it read is kept in the *)
(* local state of the client or the job.                                   *)
(*                                                                         *)
(* Left out: version, timestamps other than evaluation_started_at,         *)
(* interview_events, texts and scores.  evaluation_started_at is kept as   *)
(* NONE, FRESH or STALE (older than interview_answer_stale_seconds).       *)
(***************************************************************************)
EXTENDS ArqQueue, Integers, Sequences, FiniteSets

CONSTANTS
    NumQuestions,    \* questions the preparation stored for this session
    MaxDepth,        \* interview_max_follow_up_depth
    MaxFollowUps,    \* interview_max_follow_ups_per_session
    MaxAttempts,     \* interview_answer_task_max_attempts
    MaxTries,        \* max_tries of the Worker: the largest of the settings
    Clients,         \* concurrent POST .../answers requests (tabs, retries)
    Requests,        \* requestId values the clients use
    Contents,        \* answer texts
    Texts,           \* per requestId: the texts the clients send under it
    None,            \* no request, no content
    StaleAfterTimeout, \* TRUE: stale_seconds > job_timeout, as by default
    MaxPosts,        \* bound: POST .../answers requests received
    MaxCrashes,      \* bound: worker processes that die or shut down
    MaxLost,         \* bound: deliveries whose worker dies before the claim
    MaxApiCrashes,   \* bound: requests whose API process dies
    MaxTimeouts,     \* bound: jobs cut off by job_timeout or a late error
    MaxTransients,   \* bound: provider or database errors that are retried
    MaxRedisErrors   \* bound: failed calls to Redis

ASSUME EvaluationAssumption ==
    /\ NumQuestions \in Nat \ {0}
    /\ Texts \in [Requests -> SUBSET Contents]
    /\ MaxDepth \in Nat
    /\ MaxFollowUps \in Nat
    /\ MaxAttempts \in Nat \ {0}
    /\ MaxTries \in Nat /\ MaxTries >= MaxAttempts
    /\ StaleAfterTimeout \in BOOLEAN
    /\ MaxPosts \in Nat /\ MaxCrashes \in Nat /\ MaxLost \in Nat /\ MaxApiCrashes \in Nat
    /\ MaxTimeouts \in Nat /\ MaxTransients \in Nat /\ MaxRedisErrors \in Nat

VARIABLES
    status,      \* interview_sessions.status
    index,       \* interview_sessions.current_question_index
    turns,       \* interview_turns, in the order of their sequence
    answers,     \* interview_answers
    evaluations, \* turn_id of every row of interview_evaluations
    jobs,        \* ARQ jobs, by job id
    worker,      \* per job id: what its running coroutine knows
    scan,        \* rows the recovery loop read and has not enqueued yet
    api,         \* per client: its POST .../answers request
    spent       \* how often each bounded event has happened

db   == <<status, index, turns, answers, evaluations>>
vars == <<status, index, turns, answers, evaluations,
          jobs, worker, scan, api, spent>>

-----------------------------------------------------------------------------
(* Rows, ids and local states.                                             *)

SessionStatus == {"READY", "IN_PROGRESS", "COMPLETED", "FAILED", "CANCELLED"}
TurnStatus == {"WAITING_ANSWER", "EVALUATING", "COMPLETED", "FAILED", "SKIPPED"}

TerminalSession == {"COMPLETED", "FAILED", "CANCELLED"}
ActiveTurn == {"WAITING_ANSWER", "EVALUATING"}
TerminalTurn == {"COMPLETED", "FAILED", "SKIPPED"}

Turn == [kind : {"PRIMARY", "FOLLOW_UP"}, question : 0 .. NumQuestions,
         parent : Nat, depth : Nat, state : TurnStatus, attempts : Nat,
         started : {"NONE", "FRESH", "STALE"},
         failure : {"NONE", "QUEUE_UNAVAILABLE", "EVALUATION_FAILED"}]

\* Each question is asked at most once and follow-ups are limited.
MaxTurns == NumQuestions + MaxFollowUps
TurnIds == 1 .. MaxTurns

\* interview-answer-evaluation:{turn} is <<turn, SubmitJob>>, and
\* interview-answer-evaluation:{turn}:{attempt_count} is <<turn, attempt_count>>.
SubmitJob == -1
JobIds == TurnIds \X (SubmitJob .. (MaxAttempts - 1))

WorkerStep == {"IDLE", "LOAD", "EVALUATE", "PERSIST", "FAIL"}

\* Inside workflow.evaluate, where an unexpected exception means Retry.
InWorkflow == {"LOAD", "EVALUATE", "PERSIST"}

IdleWorker == [at |-> "IDLE", followUp |-> FALSE]

IdleClient == [at |-> "IDLE", request |-> None, turn |-> 0, content |-> None]

ClientStep == {"CHECK", "SUBMIT", "ENQUEUE", "MARK", "OK"}

Client == {IdleClient} \cup
    [at : ClientStep, request : Requests, turn : Nat, content : Contents]

BoundedEvent == {"POST", "CRASH", "LOST", "API_CRASH", "TIMEOUT", "TRANSIENT", "REDIS"}
Bound == [POST |-> MaxPosts, CRASH |-> MaxCrashes, LOST |-> MaxLost, API_CRASH |-> MaxApiCrashes,
          TIMEOUT |-> MaxTimeouts, TRANSIENT |-> MaxTransients, REDIS |-> MaxRedisErrors]

Spend(kind) == /\ spent[kind] < Bound[kind]
               /\ spent' = [spent EXCEPT ![kind] = @ + 1]

PrimaryTurn(q, st) ==
    [kind |-> "PRIMARY", question |-> q, parent |-> 0, depth |-> 0, state |-> st,
     attempts |-> 0, started |-> "NONE", failure |-> "NONE"]

FollowUpTurn(t) ==
    [kind |-> "FOLLOW_UP", question |-> 0, parent |-> t,
     depth |-> turns[t].depth + 1, state |-> "WAITING_ANSWER",
     attempts |-> 0, started |-> "NONE", failure |-> "NONE"]

\* t is the unfinished turn with the highest sequence.
IsCurrentTurn(t) ==
    /\ t \in DOMAIN turns
    /\ turns[t].state \in ActiveTurn
    /\ \A u \in DOMAIN turns : turns[u].state \in ActiveTurn => u <= t

AnswersFor(r) == {a \in answers : a.request = r}

\* count_follow_ups of the repository, read without the session lock.
FollowUpCount == Cardinality({t \in DOMAIN turns : turns[t].kind = "FOLLOW_UP"})

\* Mutant: the limit of the session is off by one.
DecideOneTooMany(warranted, depth, count) ==
    warranted /\ depth < MaxDepth /\ count <= MaxFollowUps

\* FollowUpPolicy.decide.  warranted stands for what it takes from the
\* evaluation and the answer: the model asks for a follow-up, the length is
\* in range, and it is short or one of the two scores is below the threshold.
Decide(warranted, depth, count) ==
    warranted /\ depth < MaxDepth /\ count < MaxFollowUps

Init ==
    /\ status = "READY"
    /\ index = 0
    /\ turns = << >>
    /\ answers = {}
    /\ evaluations = {}
    /\ jobs = EmptyQueue(JobIds)
    /\ worker = [j \in JobIds |-> IdleWorker]
    /\ scan = {}
    /\ api = [c \in Clients |-> IdleClient]
    /\ spent = [k \in BoundedEvent |-> 0]

-----------------------------------------------------------------------------
(* API: InterviewService.start, cancel and finish.  The unlocked status     *)
(* check of finish is repeated under the lock and is left out.              *)

\* READY -> IN_PROGRESS; the first PRIMARY turn asks question 1.
Start ==
    /\ status = "READY"
    /\ status' = "IN_PROGRESS"
    /\ turns' = IF turns = << >> THEN << PrimaryTurn(1, "WAITING_ANSWER") >> ELSE turns
    /\ UNCHANGED <<index, answers, evaluations, jobs, worker, scan, api, spent>>

\* A READY session can be cancelled, one IN_PROGRESS cannot.
Cancel ==
    /\ status = "READY"
    /\ status' = "CANCELLED"
    /\ UNCHANGED <<index, turns, answers, evaluations, jobs, worker, scan, api, spent>>

\* A turn that counts for finish: COMPLETED, with its answer and evaluation.
GradedTurns ==
    {t \in DOMAIN turns : /\ turns[t].state = "COMPLETED"
                          /\ \E a \in answers : a.turn = t
                          /\ t \in evaluations}

UnaskedQuestions ==
    {q \in 1 .. NumQuestions : \A t \in DOMAIN turns : turns[t].question # q}

\* Mutant: finish leaves the open turn as it is.
KeepUnfinished == turns

SkipUnfinished ==
    [t \in DOMAIN turns |-> IF turns[t].state \in ActiveTurn
                            THEN [turns[t] EXCEPT !.state = "SKIPPED"] ELSE turns[t]]

\* finish skips the unfinished turns and adds a SKIPPED turn for every
\* question no turn has asked, in question order.
Finish ==
    /\ status = "IN_PROGRESS"
    /\ GradedTurns # {}
    /\ status' = "COMPLETED"
    /\ \E order \in [1 .. Cardinality(UnaskedQuestions) -> UnaskedQuestions] :
          /\ \A i, k \in DOMAIN order : i < k => order[i] < order[k]
          /\ turns' = SkipUnfinished
                        \o [i \in DOMAIN order |-> PrimaryTurn(order[i], "SKIPPED")]
    /\ UNCHANGED <<index, answers, evaluations, jobs, worker, scan, api, spent>>

-----------------------------------------------------------------------------
(* API: InterviewAnswerService.submit_answer.                              *)

Idle(c) == api[c].at \in {"IDLE", "OK"}
Goto(c, step, t) == api' = [api EXCEPT ![c].at = step, ![c].turn = t]
Acknowledge(c) == Goto(c, "OK", 0)
Reject(c) == api' = [api EXCEPT ![c] = IdleClient]

\* A request arrives; the client names any turn it has been shown, and may have
\* used the requestId for another text before.
Receive(c, r, t, d) ==
    /\ Idle(c)
    /\ d \in Texts[r]
    /\ Spend("POST")
    /\ api' = [api EXCEPT ![c] = [at |-> "CHECK", request |-> r, turn |-> t, content |-> d]]
    /\ UNCHANGED <<status, index, turns, answers, evaluations, jobs, worker, scan>>

\* The turn of a repeated request still waits for a job Redis refused.
NeedsRequeue(t) ==
    /\ turns[t].state = "EVALUATING"
    /\ t \notin evaluations
    /\ turns[t].failure = "QUEUE_UNAVAILABLE"

\* Mutant: the job is enqueued before the answer is stored.
CheckEnqueuesFirst(c) ==
    /\ api[c].at = "CHECK"
    /\ Goto(c, "ENQUEUE", api[c].turn)
    /\ UNCHANGED <<status, index, turns, answers, evaluations, jobs, worker, scan, spent>>

\* Unlocked: session status, then the answer stored under this requestId.  A
\* repeat is acknowledged as it is, whatever its text and turn.
Check(c) ==
    LET stored == AnswersFor(api[c].request) IN
    /\ api[c].at = "CHECK"
    /\ \/ /\ status # "IN_PROGRESS"
          /\ Reject(c)
       \/ /\ status = "IN_PROGRESS"
          /\ stored = {}
          /\ Goto(c, "SUBMIT", api[c].turn)
       \/ /\ status = "IN_PROGRESS"
          /\ \E a \in stored : IF NeedsRequeue(a.turn) THEN Goto(c, "ENQUEUE", a.turn)
                                                       ELSE Acknowledge(c)
    /\ UNCHANGED <<status, index, turns, answers, evaluations, jobs, worker, scan, spent>>

\* Mutant: the current turn may have an answer already.
CanAnswerAgain(t) == status = "IN_PROGRESS" /\ IsCurrentTurn(t)

CanAnswer(t) ==
    /\ status = "IN_PROGRESS"
    /\ IsCurrentTurn(t)
    /\ turns[t].state = "WAITING_ANSWER"
    /\ \A a \in answers : a.turn # t

\* repository.submit_answer, under the session lock.
Submit(c) ==
    LET t == api[c].turn
        r == api[c].request
    IN
    /\ api[c].at = "SUBMIT"
    /\ \/ /\ \E a \in AnswersFor(r) : Goto(c, "ENQUEUE", a.turn)
          /\ UNCHANGED <<turns, answers>>
       \/ /\ AnswersFor(r) = {}
          /\ CanAnswer(t)
          /\ answers' = answers \cup {[turn |-> t, request |-> r, content |-> api[c].content]}
          /\ turns' = [turns EXCEPT ![t].state = "EVALUATING",
                                    ![t].started = "NONE", ![t].failure = "NONE"]
          /\ Goto(c, "ENQUEUE", t)
       \/ /\ AnswersFor(r) = {}
          /\ ~CanAnswer(t)
          /\ Reject(c)
          /\ UNCHANGED <<turns, answers>>
    /\ UNCHANGED <<status, index, evaluations, jobs, worker, scan, spent>>

\* _enqueue_evaluation: the job id depends on the turn alone.
EnqueueEvaluation(c) ==
    /\ api[c].at = "ENQUEUE"
    /\ jobs' \in EnqueueOutcomes(jobs, <<api[c].turn, SubmitJob>>)
    /\ Acknowledge(c)
    /\ UNCHANGED <<status, index, turns, answers, evaluations, worker, scan, spent>>

\* The call to Redis raises, before or after Redis took the job.
EnqueueFails(c) ==
    /\ api[c].at = "ENQUEUE"
    /\ Spend("REDIS")
    /\ jobs' \in {jobs} \cup EnqueueOutcomes(jobs, <<api[c].turn, SubmitJob>>)
    /\ Goto(c, "MARK", api[c].turn)
    /\ UNCHANGED <<status, index, turns, answers, evaluations, worker, scan>>

\* mark_evaluation_queue_unavailable; the client is told to come back.
MarkQueueUnavailable(c) ==
    /\ api[c].at = "MARK"
    /\ turns' = IF turns[api[c].turn].state = "EVALUATING"
                THEN [turns EXCEPT ![api[c].turn].failure = "QUEUE_UNAVAILABLE"]
                ELSE turns
    /\ Reject(c)
    /\ UNCHANGED <<status, index, answers, evaluations, jobs, worker, scan, spent>>

\* The API process dies, or its client goes away, in the middle of a request.
ApiCrash(c) ==
    /\ ~Idle(c)
    /\ Spend("API_CRASH")
    /\ api' = [api EXCEPT ![c] = IdleClient]
    /\ UNCHANGED <<status, index, turns, answers, evaluations, jobs, worker, scan>>

-----------------------------------------------------------------------------
(* Worker: process_interview_answer_evaluation.  A job id is a coroutine;   *)
(* worker[j] is its local state while jobs[j] is RUNNING.                   *)

Step(j, next) == worker' = [worker EXCEPT ![j].at = next]

\* The coroutine ends; its worker may die before ARQ has recorded the result,
\* and then the job is delivered once more.
End(j) ==
    /\ worker' = [worker EXCEPT ![j] = IdleWorker]
    /\ \/ /\ jobs' = Finished(jobs, j)
          /\ UNCHANGED spent
       \/ /\ jobs' = Requeued(jobs, j)
          /\ Spend("CRASH")

\* Mutant: any delivery may claim.
MayClaimAlways(t, try) ==
    /\ status = "IN_PROGRESS"
    /\ \E a \in answers : a.turn = t
    /\ turns[t].state = "EVALUATING"
    /\ t \notin evaluations

\* claim_evaluation: this delivery follows the recorded attempt, or nobody has
\* started, or whoever started is out of time.
MayClaim(t, try) ==
    /\ status = "IN_PROGRESS"
    /\ \E a \in answers : a.turn = t
    /\ turns[t].state = "EVALUATING"
    /\ t \notin evaluations
    /\ \/ turns[t].attempts = try - 1
       \/ turns[t].started = "NONE"
       \/ turns[t].started = "STALE"

CanDeliver(j) == jobs[j].phase = "QUEUED" /\ ~TriesExhausted(jobs, j, MaxTries)

\* A delivery and its claim: the claim is the first thing a delivery does.
Claim(j) ==
    LET t == j[1] IN
    /\ CanDeliver(j)
    /\ MayClaim(t, jobs[j].try + 1)
    /\ turns' = [turns EXCEPT ![t].started = "FRESH",
                              ![t].attempts = @ + 1, ![t].failure = "NONE"]
    /\ jobs' = Delivered(jobs, j)
    /\ Step(j, "LOAD")
    /\ UNCHANGED <<status, index, answers, evaluations, scan, api, spent>>

\* The claim is refused and the job returns, or ARQ drops it: max_tries.
DropDelivery(j) ==
    /\ jobs[j].phase = "QUEUED"
    /\ CanDeliver(j) => ~MayClaim(j[1], jobs[j].try + 1)
    /\ jobs' = Finished(jobs, j)
    /\ UNCHANGED <<status, index, turns, answers, evaluations, worker, scan, api, spent>>

\* The worker dies after taking the job and before the claim: job_try moves on.
LoseDelivery(j) ==
    /\ CanDeliver(j)
    /\ Spend("LOST")
    /\ jobs' = Requeued(Delivered(jobs, j), j)
    /\ UNCHANGED <<status, index, turns, answers, evaluations, worker, scan, api>>

IsActive(t) == status = "IN_PROGRESS" /\ turns[t].state = "EVALUATING"

\* load_session_and_turn, validate_answer and the second look evaluate_answer
\* takes before it calls the model.  A turn found finished by the first look
\* ends the job, one found inactive by the second fails the evaluation.
Load(j) ==
    /\ worker[j].at = "LOAD"
    /\ \/ /\ IsActive(j[1])
          /\ Step(j, "EVALUATE")
          /\ UNCHANGED <<jobs, spent>>
       \/ /\ turns[j[1]].state \in TerminalTurn
          /\ End(j)
       \/ /\ ~IsActive(j[1])
          /\ Step(j, "FAIL")
          /\ UNCHANGED <<jobs, spent>>
    /\ UNCHANGED <<status, index, turns, answers, evaluations, scan, api>>

\* The model has answered; apply_follow_up_policy counts the follow-ups, and a
\* follow-up question is generated and found to be new.
Evaluate(j) ==
    /\ worker[j].at = "EVALUATE"
    /\ \E warranted \in BOOLEAN :
          worker' = [worker EXCEPT ![j] =
             [at |-> "PERSIST",
              followUp |-> Decide(warranted, turns[j[1]].depth, FollowUpCount)]]
    /\ UNCHANGED <<status, index, turns, answers, evaluations, jobs, scan, api, spent>>

\* The evaluation or the follow-up question is invalid twice, or duplicated;
\* or no AI provider is configured.
RejectOutput(j) ==
    /\ worker[j].at \in {"LOAD", "EVALUATE"}
    /\ Step(j, "FAIL")
    /\ UNCHANGED <<status, index, turns, answers, evaluations, jobs, scan, api, spent>>

CompletedTurn(t) ==
    [turns EXCEPT ![t].state = "COMPLETED", ![t].failure = "NONE"]

\* Mutant: whether the turn was graded in the meantime is not looked at again.
MayPersistTwice(t) == status = "IN_PROGRESS"

\* The guards of persist_evaluation_and_progress.
MayPersist(t) == IsActive(t) /\ t \notin evaluations

PersistNothing(t) ==
    /\ ~MayPersist(t)
    /\ UNCHANGED <<status, index, turns, evaluations>>

PersistFollowUp(t) ==
    /\ MayPersist(t)
    /\ evaluations' = evaluations \cup {t}
    /\ turns' = Append(CompletedTurn(t), FollowUpTurn(t))
    /\ UNCHANGED <<status, index>>

PersistNextQuestion(t) ==
    /\ MayPersist(t)
    /\ index + 2 <= NumQuestions
    /\ evaluations' = evaluations \cup {t}
    /\ turns' = Append(CompletedTurn(t), PrimaryTurn(index + 2, "WAITING_ANSWER"))
    /\ index' = index + 1
    /\ UNCHANGED status

PersistLastQuestion(t) ==
    /\ MayPersist(t)
    /\ index + 2 > NumQuestions
    /\ evaluations' = evaluations \cup {t}
    /\ turns' = CompletedTurn(t)
    /\ status' = "COMPLETED"
    /\ UNCHANGED index

Persist(j) ==
    LET t == j[1] IN
    /\ worker[j].at = "PERSIST"
    /\ \/ PersistNothing(t)
       \/ worker[j].followUp /\ PersistFollowUp(t)
       \/ ~worker[j].followUp /\ PersistNextQuestion(t)
       \/ ~worker[j].followUp /\ PersistLastQuestion(t)
    /\ End(j)
    /\ UNCHANGED <<answers, scan, api>>

\* Mutants: fail_evaluation does not look whether the session has ended, or
\* whether the turn has.
FailEndedSession(j) ==
    LET t == j[1] IN
    /\ worker[j].at = "FAIL"
    /\ status' = "FAILED"
    /\ turns' = [turns EXCEPT ![t].state = "FAILED", ![t].failure = "EVALUATION_FAILED"]
    /\ evaluations' = evaluations \ {t}
    /\ End(j)
    /\ UNCHANGED <<index, answers, scan, api>>

FailEndedTurn(j) == status \notin TerminalSession /\ FailEndedSession(j)

\* fail_evaluation: one failed evaluation ends the whole interview.
FailEvaluation(j) ==
    LET t == j[1] IN
    /\ worker[j].at = "FAIL"
    /\ IF status \in TerminalSession \/ turns[t].state \in TerminalTurn
       THEN UNCHANGED <<status, turns, evaluations>>
       ELSE /\ status' = "FAILED"
            /\ turns' = [turns EXCEPT ![t].state = "FAILED", ![t].failure = "EVALUATION_FAILED"]
            /\ evaluations' = evaluations \ {t}
    /\ End(j)
    /\ UNCHANGED <<index, answers, scan, api>>

\* Any other exception inside the workflow: Retry, or give up on the last try.
TransientError(j) ==
    /\ worker[j].at \in InWorkflow
    /\ Spend("TRANSIENT")
    /\ IF jobs[j].try >= MaxAttempts
       THEN /\ Step(j, "FAIL")
            /\ UNCHANGED jobs
       ELSE /\ jobs' = Requeued(jobs, j)
            /\ worker' = [worker EXCEPT ![j] = IdleWorker]
    /\ UNCHANGED <<status, index, turns, answers, evaluations, scan, api>>

\* job_timeout cancels the coroutine, or fail_evaluation itself raises: ARQ
\* records a failed job and never runs it again.
JobTimeout(j) ==
    /\ worker[j].at # "IDLE"
    /\ Spend("TIMEOUT")
    /\ jobs' = Finished(jobs, j)
    /\ worker' = [worker EXCEPT ![j] = IdleWorker]
    /\ UNCHANGED <<status, index, turns, answers, evaluations, scan, api>>

\* The worker process dies or shuts down: the job is delivered again.
WorkerCrash(j) ==
    /\ worker[j].at # "IDLE"
    /\ Spend("CRASH")
    /\ jobs' = Requeued(jobs, j)
    /\ worker' = [worker EXCEPT ![j] = IdleWorker]
    /\ UNCHANGED <<status, index, turns, answers, evaluations, scan, api>>

-----------------------------------------------------------------------------
(* The recovery loop and the passing of time.                              *)

\* Mutant: no second chance for stale claims.
RecoverableUnstarted(t) ==
    /\ IsActive(t)
    /\ \E a \in answers : a.turn = t
    /\ t \notin evaluations
    /\ turns[t].started = "NONE"

\* list_recoverable_evaluations, with the attempt_count it read.
Recoverable(t) ==
    /\ IsActive(t)
    /\ \E a \in answers : a.turn = t
    /\ t \notin evaluations
    /\ turns[t].attempts < MaxAttempts
    /\ turns[t].started \in {"NONE", "STALE"}

RecoveryScan ==
    /\ scan = {}
    /\ scan' = {<<t, turns[t].attempts>> : t \in {u \in DOMAIN turns : Recoverable(u)}}
    /\ scan' # {}
    /\ UNCHANGED <<status, index, turns, answers, evaluations, jobs, worker, api, spent>>

RecoveryEnqueue(j) ==
    /\ j \in scan
    /\ jobs' \in EnqueueOutcomes(jobs, j)
    /\ scan' = scan \ {j}
    /\ UNCHANGED <<status, index, turns, answers, evaluations, worker, api, spent>>

\* Redis raises, or the worker dies: this round of the loop is over.
RecoveryFails ==
    /\ scan # {}
    /\ Spend("REDIS")
    /\ scan' = {}
    /\ UNCHANGED <<status, index, turns, answers, evaluations, jobs, worker, api>>

\* interview_answer_stale_seconds have passed since the claim.  With the
\* default settings job_timeout has then ended whatever held the claim.
ClaimGoesStale(t) ==
    /\ turns[t].started = "FRESH"
    /\ turns[t].state = "EVALUATING"
    /\ StaleAfterTimeout => \A j \in JobIds : j[1] = t => worker[j].at = "IDLE"
    /\ turns' = [turns EXCEPT ![t].started = "STALE"]
    /\ UNCHANGED <<status, index, answers, evaluations, jobs, worker, scan, api, spent>>

-----------------------------------------------------------------------------

Session == Start \/ Cancel \/ Finish

Submission(c) ==
    \/ \E r \in Requests, t \in DOMAIN turns, d \in Contents : Receive(c, r, t, d)
    \/ Check(c)
    \/ Submit(c)
    \/ EnqueueEvaluation(c)
    \/ EnqueueFails(c)
    \/ MarkQueueUnavailable(c)
    \/ ApiCrash(c)

Evaluation(j) ==
    \/ Claim(j)
    \/ DropDelivery(j)
    \/ LoseDelivery(j)
    \/ Load(j)
    \/ Evaluate(j)
    \/ RejectOutput(j)
    \/ Persist(j)
    \/ FailEvaluation(j)
    \/ TransientError(j)
    \/ JobTimeout(j)
    \/ WorkerCrash(j)

Recovery ==
    \/ RecoveryScan
    \/ \E j \in JobIds : RecoveryEnqueue(j)
    \/ RecoveryFails
    \/ \E t \in DOMAIN turns : ClaimGoesStale(t)

Next ==
    \/ Session
    \/ \E c \in Clients : Submission(c)
    \/ \E j \in JobIds : Evaluation(j)
    \/ Recovery

Spec == Init /\ [][Next]_vars

(* Deliveries, coroutines and the recovery loop keep going; a stored result *)
(* expires, so the loop's enqueue is accepted in the end.  Users owe        *)
(* nothing, and no fault is ever owed.                                      *)
Fairness ==
    /\ \A c \in Clients :
          WF_vars(\/ Check(c) \/ Submit(c)
                  \/ EnqueueEvaluation(c) \/ MarkQueueUnavailable(c))
    /\ \A j \in JobIds :
          /\ WF_vars(\/ Claim(j) \/ DropDelivery(j) \/ Load(j) \/ Evaluate(j)
                     \/ Persist(j) \/ FailEvaluation(j))
          /\ SF_vars(RecoveryEnqueue(j) /\ jobs' # jobs)
          /\ WF_vars(RecoveryEnqueue(j))
    /\ WF_vars(RecoveryScan)
    /\ \A t \in TurnIds : WF_vars(t \in DOMAIN turns /\ ClaimGoesStale(t))

FairSpec == Spec /\ Fairness

-----------------------------------------------------------------------------
(* Properties.                                                             *)

\* Every variable has its type.
TypeOK ==
    /\ status \in SessionStatus
    /\ index \in Nat
    /\ turns \in Seq(Turn)
    /\ answers \subseteq [turn : Nat, request : Requests, content : Contents]
    /\ evaluations \subseteq Nat
    /\ jobs \in [JobIds -> Job]
    /\ worker \in [JobIds -> [at : WorkerStep, followUp : BOOLEAN]]
    /\ scan \subseteq Nat \X (0 .. (MaxAttempts - 1))
    /\ api \in [Clients -> Client]
    /\ spent \in [BoundedEvent -> Nat]

\* An interview in progress has exactly one unfinished turn, its last one, and
\* every turn before it is COMPLETED; one that has ended has none, and one that
\* has not started has no turns: start, persist_evaluation_and_progress,
\* fail_evaluation and finish agree on it whatever jobs and tabs race.
OneOpenTurn ==
    /\ status = "READY" => turns = << >>
    /\ status = "IN_PROGRESS" =>
          /\ turns # << >>
          /\ turns[Len(turns)].state \in ActiveTurn
          /\ \A t \in 1 .. (Len(turns) - 1) : turns[t].state = "COMPLETED"
    /\ status # "IN_PROGRESS" =>
          \A t \in DOMAIN turns : turns[t].state \in TerminalTurn

\* Answers and evaluations agree with the turns: an evaluation exists exactly
\* for the COMPLETED turns, no answer shares its turn or its requestId with
\* another, a turn waiting for an answer has none, and every turn that was
\* put to evaluation has one.
GradesMatchAnswers ==
    /\ evaluations = {t \in DOMAIN turns : turns[t].state = "COMPLETED"}
    /\ \A a, b \in answers : a.turn = b.turn \/ a.request = b.request => a = b
    /\ \A a \in answers : a.turn \in DOMAIN turns
    /\ \A t \in DOMAIN turns :
          /\ turns[t].state \in {"EVALUATING", "COMPLETED", "FAILED"} =>
                \E a \in answers : a.turn = t
          /\ turns[t].state = "WAITING_ANSWER" => \A a \in answers : a.turn # t

PrimaryTurns == {t \in DOMAIN turns : turns[t].kind = "PRIMARY"}

\* Questions are asked in order and once each, however often a turn is graded:
\* current_question_index counts the PRIMARY turns, a follow-up hangs on the
\* turn before it, and a COMPLETED interview has a turn for every question.
QuestionsInOrder ==
    /\ \A t, u \in PrimaryTurns : t < u => turns[t].question < turns[u].question
    /\ \A t \in DOMAIN turns \ PrimaryTurns :
          /\ turns[t].parent = t - 1
          /\ turns[t].depth = turns[t - 1].depth + 1
    /\ status = "IN_PROGRESS" => Cardinality(PrimaryTurns) = index + 1
    /\ status = "COMPLETED" =>
          {turns[t].question : t \in PrimaryTurns} = 1 .. NumQuestions

\* An ended interview stays as it ended: no late job, repeated request or
\* recovery round changes its turns, answers or evaluations.
EndedIsFinal == [][(status \in TerminalSession) => UNCHANGED db]_vars

\* A grade is never taken back: no evaluation row disappears, also not by the
\* delete in fail_evaluation, and a COMPLETED turn stays COMPLETED.
GradesAreFinal ==
    [][/\ evaluations \subseteq evaluations'
       /\ \A t \in DOMAIN turns :
             turns[t].state = "COMPLETED" => turns'[t] = turns[t]]_vars

SentWithOtherTexts(r) == \E d, e \in Texts[r] : d # e

\* What the API acknowledged is stored: there is an answer with that requestId,
\* and it has the text of the acknowledged request unless clients send more than
\* one text under this requestId.
AcknowledgedIsStored ==
    \A c \in Clients : api[c].at \in {"ENQUEUE", "MARK", "OK"} =>
        \E a \in AnswersFor(api[c].request) :
            a.content = api[c].content \/ SentWithOtherTexts(a.request)

\* Expected to fail.  A request that repeats a requestId with another text is
\* refused: whatever is acknowledged is stored with its own text.
OtherTextIsRefused ==
    \A c \in Clients : api[c].at = "OK" =>
        \E a \in AnswersFor(api[c].request) : a.content = api[c].content

\* Whoever names a turn names one that is stored with its answer: queued and
\* running jobs, rows the recovery loop has read, requests past their commit.
\* A job is RUNNING exactly while its coroutine is under way.
ReferencesExist ==
    /\ \A j \in JobIds :
          /\ worker[j].at # "IDLE" <=> jobs[j].phase = "RUNNING"
          /\ jobs[j].phase \in {"QUEUED", "RUNNING"} => \E a \in answers : a.turn = j[1]
    /\ \A j \in scan : \E a \in answers : a.turn = j[1]
    /\ \A c \in Clients : api[c].at \in {"ENQUEUE", "MARK"} =>
          \E a \in answers : a.turn = api[c].turn

\* The strengthening the proofs use: every part of it is inductive with the
\* others.
EvaluationInv ==
    TypeOK /\ OneOpenTurn /\ GradesMatchAnswers /\ ReferencesExist

\* As long as no delivery is lost before its claim, one coroutine at a time
\* evaluates a turn: the submit job, its retries and the recovery jobs never
\* run side by side.
ClaimIsExclusive ==
    spent["LOST"] = 0 =>
        \A i, j \in JobIds :
            i[1] = j[1] /\ worker[i].at # "IDLE" /\ worker[j].at # "IDLE" => i = j

OpenPhase ==
    IF status # "IN_PROGRESS" THEN "NONE"
    ELSE IF turns[Len(turns)].state = "EVALUATING" THEN "EVALUATING" ELSE "WAITING"

\* The interview without its machinery, read off the rows.
Progress == INSTANCE InterviewProgress WITH
    asked     <- IF turns = << >> THEN 0 ELSE index + 1,
    followUps <- FollowUpCount,
    depth     <- IF status = "IN_PROGRESS" THEN turns[Len(turns)].depth ELSE 0,
    graded    <- Cardinality(GradedTurns),
    phase     <- OpenPhase

\* Workers, retries, crashes, recovery and racing tabs together implement the
\* plain interview: each answer is graded at most once and each grade moves the
\* interview on exactly once.
ImplementsProgress == Progress!Spec

UnderEvaluation(t) == t \in DOMAIN turns /\ turns[t].state = "EVALUATING"

\* A submitted answer does not stay under evaluation: it is graded, fails, or
\* is skipped by an early finish.
EvaluationSettles ==
    \A t \in TurnIds : UnderEvaluation(t) ~> ~UnderEvaluation(t)
=============================================================================
