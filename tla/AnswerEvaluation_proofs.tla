----------------------- MODULE AnswerEvaluation_proofs -----------------------
(***************************************************************************)
(* Theorems about AnswerEvaluation for every number of questions, tabs,    *)
(* attempts and faults.                                                    *)
(***************************************************************************)
EXTENDS AnswerEvaluation, FiniteSetTheorems, SequenceTheorems, TLAPS

-----------------------------------------------------------------------------
(* The parts of TypeOK that belong to the machinery and to the rows.       *)

MachineTypes ==
    /\ jobs \in [JobIds -> Job]
    /\ worker \in [JobIds -> [at : WorkerStep, followUp : BOOLEAN]]
    /\ scan \subseteq Nat \X (0 .. (MaxAttempts - 1))
    /\ api \in [Clients -> Client]
    /\ spent \in [BoundedEvent -> Nat]

RowTypes ==
    /\ status \in SessionStatus
    /\ index \in Nat
    /\ turns \in Seq(Turn)
    /\ answers \subseteq [turn : Nat, request : Requests, content : Contents]
    /\ evaluations \subseteq Nat

LEMMA TypeOKSplit == TypeOK <=> RowTypes /\ MachineTypes
  BY DEF TypeOK, RowTypes, MachineTypes

LEMMA SpendIsTyped ==
    ASSUME spent \in [BoundedEvent -> Nat], NEW k \in BoundedEvent, Spend(k)
    PROVE  spent' \in [BoundedEvent -> Nat]
  BY DEF Spend

LEMMA QueueIsTyped ==
    ASSUME NEW queue \in [JobIds -> Job], NEW id
    PROVE  /\ Enqueued(queue, id) \in [JobIds -> Job]
           /\ Finished(queue, id) \in [JobIds -> Job]
           /\ id \in JobIds => Requeued(queue, id) \in [JobIds -> Job]
           /\ id \in JobIds => Delivered(queue, id) \in [JobIds -> Job]
<1>1. Enqueued(queue, id) \in [JobIds -> Job]
  BY DEF Enqueued, Job, JobPhase
<1>2. Finished(queue, id) \in [JobIds -> Job]
  BY DEF Finished, Job, JobPhase
<1>3. ASSUME id \in JobIds PROVE Requeued(queue, id) \in [JobIds -> Job]
  BY <1>3 DEF Requeued, Job, JobPhase
<1>4. ASSUME id \in JobIds PROVE Delivered(queue, id) \in [JobIds -> Job]
  BY <1>4 DEF Delivered, Job, JobPhase
<1>5. QED  BY <1>1, <1>2, <1>3, <1>4

LEMMA OutcomeIsTyped ==
    ASSUME NEW queue \in [JobIds -> Job], NEW id,
           NEW next \in EnqueueOutcomes(queue, id)
    PROVE  /\ next \in [JobIds -> Job]
           /\ next = queue \/ (next = Enqueued(queue, id) /\ ~Blocked(queue, id))
<1>1. next = queue \/ (next = Enqueued(queue, id) /\ ~Blocked(queue, id))
  BY DEF EnqueueOutcomes
<1>2. QED  BY <1>1, QueueIsTyped

LEMMA StepIsTyped ==
    ASSUME worker \in [JobIds -> [at : WorkerStep, followUp : BOOLEAN]],
           NEW j, NEW next \in WorkerStep, Step(j, next)
    PROVE  worker' \in [JobIds -> [at : WorkerStep, followUp : BOOLEAN]]
  BY DEF Step

LEMMA EndIsTyped ==
    ASSUME MachineTypes, NEW j \in JobIds, End(j)
    PROVE  /\ jobs' \in [JobIds -> Job]
           /\ worker' \in [JobIds -> [at : WorkerStep, followUp : BOOLEAN]]
           /\ spent' \in [BoundedEvent -> Nat]
  BY QueueIsTyped, SpendIsTyped DEF MachineTypes, End, IdleWorker, WorkerStep, BoundedEvent

LEMMA GotoIsTyped ==
    ASSUME MachineTypes, NEW c \in Clients, api[c].at # "IDLE",
           NEW step \in ClientStep, NEW t \in Nat, Goto(c, step, t)
    PROVE  api' \in [Clients -> Client]
<1>1. api[c] \in [at : ClientStep, request : Requests, turn : Nat, content : Contents]
  BY DEF MachineTypes, Client, IdleClient
<1>2. QED  BY <1>1 DEF MachineTypes, Goto, Client

LEMMA RejectIsTyped ==
    ASSUME MachineTypes, NEW c, Reject(c)
    PROVE  api' \in [Clients -> Client]
  BY DEF MachineTypes, Reject, Client

LEMMA DecideIsBoolean ==
    ASSUME NEW w \in BOOLEAN, NEW d, NEW n
    PROVE  Decide(w, d, n) \in BOOLEAN
  BY DEF Decide

-----------------------------------------------------------------------------
(* The rows under the updates of the handlers.                             *)

LEMMA TurnIsTyped ==
    ASSUME turns \in Seq(Turn), NEW t \in DOMAIN turns
    PROVE  turns[t] \in Turn
  BY ElementOfSeq, LenProperties

\* Replacing one turn keeps the sequence and its length.
LEMMA UpdateTurn ==
    ASSUME turns \in Seq(Turn), NEW t \in DOMAIN turns, NEW v \in Turn
    PROVE  LET next == [turns EXCEPT ![t] = v] IN
           /\ next \in Seq(Turn)
           /\ Len(next) = Len(turns)
           /\ DOMAIN next = DOMAIN turns
           /\ next[t] = v
           /\ \A u \in DOMAIN turns \ {t} : next[u] = turns[u]
  BY ExceptSeq, LenProperties

\* Adding one turn.
LEMMA AppendTurn ==
    ASSUME NEW s \in Seq(Turn), NEW v \in Turn
    PROVE  /\ Append(s, v) \in Seq(Turn)
           /\ Len(Append(s, v)) = Len(s) + 1
           /\ DOMAIN Append(s, v) = DOMAIN s \cup {Len(s) + 1}
           /\ Append(s, v)[Len(s) + 1] = v
           /\ \A u \in DOMAIN s : Append(s, v)[u] = s[u]
  BY AppendProperties, LenProperties

-----------------------------------------------------------------------------
(* Steps that leave the rows alone.                                        *)

LEMMA RowsKept ==
    ASSUME EvaluationInv, UNCHANGED db, MachineTypes', ReferencesExist'
    PROVE  EvaluationInv'
<1>1. TypeOK'
  BY TypeOKSplit DEF EvaluationInv, TypeOK, RowTypes, MachineTypes, db
<1>2. OneOpenTurn' /\ GradesMatchAnswers'
  BY DEF EvaluationInv, OneOpenTurn, GradesMatchAnswers, db
<1>3. QED  BY <1>1, <1>2 DEF EvaluationInv

\* A coroutine that ends takes its references with it.
LEMMA EndKeepsReferences ==
    ASSUME MachineTypes, ReferencesExist, NEW j \in JobIds,
           worker[j].at # "IDLE", End(j), UNCHANGED <<answers, scan, api>>
    PROVE  ReferencesExist'
<1>1. jobs[j].phase = "RUNNING"
  BY DEF ReferencesExist
<1>2. \/ jobs' = [jobs EXCEPT ![j] = [phase |-> "FINISHED", try |-> 0]]
      \/ jobs' = [jobs EXCEPT ![j].phase = "QUEUED"]
  BY DEF End, Finished, Requeued
<1>3. worker' = [worker EXCEPT ![j] = IdleWorker]
  BY DEF End
<1>4. QED
  BY <1>1, <1>2, <1>3 DEF ReferencesExist, MachineTypes, IdleWorker, Job

\* A coroutine that moves on keeps them.
LEMMA StepKeepsReferences ==
    ASSUME MachineTypes, ReferencesExist, NEW j \in JobIds, NEW w,
           worker[j].at # "IDLE", w.at # "IDLE", worker' = [worker EXCEPT ![j] = w],
           UNCHANGED <<answers, jobs, scan, api>>
    PROVE  ReferencesExist'
  BY DEF ReferencesExist, MachineTypes

\* A job that is put back or dropped, while its coroutine is idle or ends.
LEMMA JobLeaves ==
    ASSUME MachineTypes, ReferencesExist, NEW j \in JobIds, NEW q \in Job,
           jobs[j].phase \in {"QUEUED", "RUNNING"}, q.phase # "RUNNING",
           jobs' = [jobs EXCEPT ![j] = q], worker' = [worker EXCEPT ![j] = IdleWorker],
           UNCHANGED <<answers, scan, api>>
    PROVE  ReferencesExist'
  BY DEF ReferencesExist, MachineTypes, IdleWorker

\* A job is enqueued for a turn that has its answer.
LEMMA EnqueueKeepsReferences ==
    ASSUME MachineTypes, ReferencesExist, NEW id \in Nat \X Int,
           \E a \in answers : a.turn = id[1],
           jobs' = jobs \/ jobs' \in EnqueueOutcomes(jobs, id),
           UNCHANGED <<answers, worker>>
    PROVE  /\ jobs' \in [JobIds -> Job]
           /\ \A j \in JobIds :
                 /\ worker'[j].at # "IDLE" <=> jobs'[j].phase = "RUNNING"
                 /\ jobs'[j].phase \in {"QUEUED", "RUNNING"} =>
                       \E a \in answers' : a.turn = j[1]
<1>1. /\ jobs' \in [JobIds -> Job]
      /\ jobs' = jobs \/ (jobs' = Enqueued(jobs, id) /\ ~Blocked(jobs, id))
  BY OutcomeIsTyped DEF MachineTypes
<1>2. CASE jobs' = jobs
  BY <1>1, <1>2 DEF ReferencesExist
<1>3. CASE jobs' = Enqueued(jobs, id) /\ ~Blocked(jobs, id)
  BY <1>1, <1>3 DEF ReferencesExist, MachineTypes, Enqueued, Blocked
<1>4. QED  BY <1>1, <1>2, <1>3

(* What of EvaluationInv the next lemmas use.                              *)
LEMMA InvParts ==
    ASSUME EvaluationInv
    PROVE  RowTypes /\ MachineTypes /\ OneOpenTurn /\ GradesMatchAnswers /\ ReferencesExist
  BY TypeOKSplit DEF EvaluationInv

\* Requests that do not write.
LEMMA RequestKeepsInv ==
    ASSUME EvaluationInv, NEW c \in Clients,
           \/ \E r \in Requests, t \in DOMAIN turns, d \in Contents : Receive(c, r, t, d)
           \/ Check(c)
           \/ EnqueueEvaluation(c)
           \/ EnqueueFails(c)
           \/ ApiCrash(c)
    PROVE  EvaluationInv'
<1> USE InvParts
<1>1. CASE \E r \in Requests, t \in DOMAIN turns, d \in Contents : Receive(c, r, t, d)
  <2> PICK r \in Requests, t \in DOMAIN turns, d \in Contents : Receive(c, r, t, d)
    BY <1>1
  <2>1. t \in Nat
    BY LenProperties DEF RowTypes
  <2>2. MachineTypes'
    BY <2>1, SpendIsTyped DEF Receive, MachineTypes, Client, ClientStep, BoundedEvent
  <2>3. ReferencesExist'
    BY DEF Receive, ReferencesExist, MachineTypes
  <2>4. QED  BY <2>2, <2>3, RowsKept DEF Receive, db
<1>2. CASE Check(c)
  <2>0. api[c].at = "CHECK"
    BY <1>2 DEF Check
  <2>1. \/ Reject(c)
        \/ Goto(c, "SUBMIT", api[c].turn)
        \/ \E a \in answers : Goto(c, "ENQUEUE", a.turn)
        \/ Acknowledge(c)
    BY <1>2 DEF Check, AnswersFor
  <2>2. MachineTypes'
    <3>1. api' \in [Clients -> Client]
      <4>1. CASE Reject(c)
        BY <4>1, RejectIsTyped
      <4>2. CASE \/ Goto(c, "SUBMIT", api[c].turn)
                 \/ \E a \in answers : Goto(c, "ENQUEUE", a.turn)
        <5>1. api[c].turn \in Nat /\ \A a \in answers : a.turn \in Nat
          BY <2>0 DEF MachineTypes, RowTypes, Client, IdleClient
        <5>2. QED  BY <2>0, <4>2, <5>1, GotoIsTyped DEF ClientStep
      <4>3. CASE Acknowledge(c)
        BY <2>0, <4>3, GotoIsTyped DEF Acknowledge, ClientStep
      <4>4. QED  BY <2>1, <4>1, <4>2, <4>3
    <3>2. QED  BY <1>2, <3>1 DEF Check, MachineTypes
  <2>3. ReferencesExist'
    <3>1. UNCHANGED <<answers, jobs, worker, scan>>
      BY <1>2 DEF Check
    <3>2. \A b \in Clients : api'[b].at \in {"ENQUEUE", "MARK"} =>
             \E a \in answers : a.turn = api'[b].turn
      <4>1. api[c] \in [at : ClientStep, request : Requests, turn : Nat, content : Contents]
        BY <2>0 DEF MachineTypes, Client, IdleClient
      <4>2. QED
        BY <2>1, <4>1 DEF ReferencesExist, MachineTypes, Reject, Goto, Acknowledge, IdleClient
    <3>3. QED  BY <3>1, <3>2 DEF ReferencesExist
  <2>4. QED  BY <1>2, <2>2, <2>3, RowsKept DEF Check, db
<1>3. CASE EnqueueEvaluation(c) \/ EnqueueFails(c)
  <2> DEFINE id == <<api[c].turn, SubmitJob>>
  <2>0. /\ api[c].at = "ENQUEUE"
        /\ api[c] \in [at : ClientStep, request : Requests, turn : Nat, content : Contents]
    BY <1>3 DEF EnqueueEvaluation, EnqueueFails, MachineTypes, Client, IdleClient
  <2>1. /\ id \in Nat \X Int
        /\ \E a \in answers : a.turn = id[1]
    BY <2>0 DEF ReferencesExist, SubmitJob
  <2>2. jobs' = jobs \/ jobs' \in EnqueueOutcomes(jobs, id)
    BY <1>3 DEF EnqueueEvaluation, EnqueueFails
  <2>3. UNCHANGED <<status, index, turns, answers, evaluations, worker, scan>>
    BY <1>3 DEF EnqueueEvaluation, EnqueueFails
  <2>4. /\ jobs' \in [JobIds -> Job]
        /\ \A j \in JobIds :
              /\ worker'[j].at # "IDLE" <=> jobs'[j].phase = "RUNNING"
              /\ jobs'[j].phase \in {"QUEUED", "RUNNING"} =>
                    \E a \in answers' : a.turn = j[1]
    BY <2>1, <2>2, <2>3, EnqueueKeepsReferences
  <2>5. Goto(c, "OK", 0) \/ Goto(c, "MARK", api[c].turn)
    BY <1>3 DEF EnqueueEvaluation, EnqueueFails, Acknowledge
  <2>6. spent' \in [BoundedEvent -> Nat]
    BY <1>3, SpendIsTyped DEF EnqueueEvaluation, EnqueueFails, MachineTypes, BoundedEvent
  <2>7. MachineTypes'
    <3>1. api' \in [Clients -> Client]
      BY <2>0, <2>5, GotoIsTyped DEF ClientStep
    <3>2. QED  BY <2>3, <2>4, <2>6, <3>1 DEF MachineTypes
  <2>8. ReferencesExist'
    <3>1. \A b \in Clients : api'[b].at \in {"ENQUEUE", "MARK"} =>
             \E a \in answers : a.turn = api'[b].turn
      BY <2>0, <2>1, <2>5 DEF ReferencesExist, MachineTypes, Goto
    <3>2. QED  BY <2>3, <2>4, <3>1 DEF ReferencesExist
  <2>9. QED  BY <2>3, <2>7, <2>8, RowsKept DEF db
<1>4. CASE ApiCrash(c)
  <2>1. MachineTypes'
    BY <1>4, SpendIsTyped, RejectIsTyped DEF ApiCrash, Reject, MachineTypes, BoundedEvent
  <2>2. ReferencesExist'
    BY <1>4 DEF ApiCrash, ReferencesExist, MachineTypes, IdleClient
  <2>3. QED  BY <1>4, <2>1, <2>2, RowsKept DEF ApiCrash, db
<1>5. QED  BY <1>1, <1>2, <1>3, <1>4

\* Steps of a job or its coroutine that do not write.
LEMMA JobKeepsInv ==
    ASSUME EvaluationInv, NEW j \in JobIds,
           \/ DropDelivery(j) \/ LoseDelivery(j)
           \/ Load(j) \/ Evaluate(j) \/ RejectOutput(j)
           \/ TransientError(j) \/ JobTimeout(j) \/ WorkerCrash(j)
    PROVE  EvaluationInv'
<1> USE InvParts
<1>1. CASE DropDelivery(j)
  <2>1. /\ jobs' = [jobs EXCEPT ![j] = [phase |-> "FINISHED", try |-> 0]]
        /\ jobs[j].phase = "QUEUED"
    BY <1>1 DEF DropDelivery, Finished
  <2>2. MachineTypes'
    BY <1>1, QueueIsTyped DEF DropDelivery, MachineTypes
  <2>3. ReferencesExist'
    BY <1>1, <2>1 DEF DropDelivery, ReferencesExist, MachineTypes
  <2>4. QED  BY <1>1, <2>2, <2>3, RowsKept DEF DropDelivery, db
<1>2. CASE LoseDelivery(j)
  <2>1. jobs[j].phase = "QUEUED"
    BY <1>2 DEF LoseDelivery, CanDeliver
  <2>2. MachineTypes'
    BY <1>2, QueueIsTyped, SpendIsTyped DEF LoseDelivery, MachineTypes, BoundedEvent
  <2>3. /\ jobs'[j].phase = "QUEUED"
        /\ \A i \in JobIds \ {j} : jobs'[i] = jobs[i]
    BY <1>2 DEF LoseDelivery, Delivered, Requeued, MachineTypes
  <2>4. ReferencesExist'
    BY <1>2, <2>1, <2>3 DEF LoseDelivery, ReferencesExist
  <2>5. QED  BY <1>2, <2>2, <2>4, RowsKept DEF LoseDelivery, db
<1>3. CASE Load(j)
  <2>1. CASE End(j)
    <3>1. MachineTypes'
      BY <1>3, <2>1, EndIsTyped DEF Load, MachineTypes
    <3>2. ReferencesExist'
      BY <1>3, <2>1, EndKeepsReferences DEF Load
    <3>3. QED  BY <1>3, <3>1, <3>2, RowsKept DEF Load, db
  <2>2. CASE /\ Step(j, "EVALUATE") \/ Step(j, "FAIL")
             /\ UNCHANGED <<jobs, spent>>
    <3>1. MachineTypes'
      BY <1>3, <2>2, StepIsTyped DEF Load, MachineTypes, WorkerStep
    <3>2. ReferencesExist'
      BY <1>3, <2>2 DEF Load, Step, ReferencesExist, MachineTypes
    <3>3. QED  BY <1>3, <3>1, <3>2, RowsKept DEF Load, db
  <2>3. QED  BY <1>3, <2>1, <2>2 DEF Load
<1>4. CASE Evaluate(j)
  <2> PICK warranted \in BOOLEAN :
        worker' = [worker EXCEPT ![j] =
             [at |-> "PERSIST",
              followUp |-> Decide(warranted, turns[j[1]].depth, FollowUpCount)]]
    BY <1>4 DEF Evaluate
  <2>1. Decide(warranted, turns[j[1]].depth, FollowUpCount) \in BOOLEAN
    BY DecideIsBoolean
  <2>2. MachineTypes'
    BY <1>4, <2>1 DEF Evaluate, MachineTypes, WorkerStep
  <2>3. ReferencesExist'
    BY <1>4, StepKeepsReferences DEF Evaluate
  <2>4. QED  BY <1>4, <2>2, <2>3, RowsKept DEF Evaluate, db
<1>5. CASE RejectOutput(j)
  <2>1. MachineTypes'
    BY <1>5, StepIsTyped DEF RejectOutput, MachineTypes, WorkerStep
  <2>2. ReferencesExist'
    BY <1>5 DEF RejectOutput, Step, ReferencesExist, MachineTypes
  <2>3. QED  BY <1>5, <2>1, <2>2, RowsKept DEF RejectOutput, db
<1>6. CASE TransientError(j)
  <2>1. spent' \in [BoundedEvent -> Nat]
    BY <1>6, SpendIsTyped DEF TransientError, MachineTypes, BoundedEvent
  <2>2. worker[j].at # "IDLE" /\ jobs[j].phase = "RUNNING"
    BY <1>6 DEF TransientError, InWorkflow, ReferencesExist
  <2>3. CASE Step(j, "FAIL") /\ UNCHANGED jobs
    <3>1. MachineTypes'
      BY <1>6, <2>1, <2>3, StepIsTyped DEF TransientError, MachineTypes, WorkerStep
    <3>2. ReferencesExist'
      BY <1>6, <2>2, <2>3 DEF TransientError, Step, ReferencesExist, MachineTypes
    <3>3. QED  BY <1>6, <3>1, <3>2, RowsKept DEF TransientError, db
  <2>4. CASE /\ jobs' = Requeued(jobs, j)
             /\ worker' = [worker EXCEPT ![j] = IdleWorker]
    <3>1. MachineTypes'
      BY <1>6, <2>1, <2>4, QueueIsTyped DEF TransientError, MachineTypes, IdleWorker, WorkerStep
    <3>2. ReferencesExist'
      BY <1>6, <2>2, <2>4
      DEF TransientError, Requeued, ReferencesExist, MachineTypes, IdleWorker
    <3>3. QED  BY <1>6, <3>1, <3>2, RowsKept DEF TransientError, db
  <2>5. QED  BY <1>6, <2>3, <2>4 DEF TransientError
<1>7. CASE JobTimeout(j) \/ WorkerCrash(j)
  <2>1. /\ jobs' = Finished(jobs, j) \/ jobs' = Requeued(jobs, j)
        /\ worker' = [worker EXCEPT ![j] = IdleWorker]
        /\ worker[j].at # "IDLE"
        /\ Spend("TIMEOUT") \/ Spend("CRASH")
        /\ UNCHANGED <<status, index, turns, answers, evaluations, scan, api>>
    BY <1>7 DEF JobTimeout, WorkerCrash
  <2>2. MachineTypes'
    <3>1. /\ jobs' \in [JobIds -> Job]
          /\ spent' \in [BoundedEvent -> Nat]
      BY <2>1, QueueIsTyped, SpendIsTyped DEF MachineTypes, BoundedEvent
    <3>2. worker' \in [JobIds -> [at : WorkerStep, followUp : BOOLEAN]]
      BY <2>1 DEF MachineTypes, IdleWorker, WorkerStep
    <3>3. QED  BY <2>1, <3>1, <3>2 DEF MachineTypes
  <2>3. jobs[j].phase = "RUNNING"
    BY <2>1 DEF ReferencesExist
  <2>4. ReferencesExist'
    <3>1. /\ worker'[j].at = "IDLE" /\ jobs'[j].phase # "RUNNING"
          /\ \A i \in JobIds \ {j} : worker'[i] = worker[i] /\ jobs'[i] = jobs[i]
      BY <2>1 DEF Finished, Requeued, MachineTypes, IdleWorker, Job
    <3>2. QED  BY <2>1, <2>3, <3>1 DEF ReferencesExist
  <2>5. QED  BY <2>1, <2>2, <2>4, RowsKept DEF db
<1>8. QED  BY <1>1, <1>2, <1>3, <1>4, <1>5, <1>6, <1>7

\* The recovery loop.
LEMMA RecoveryKeepsInv ==
    ASSUME EvaluationInv,
           \/ RecoveryScan
           \/ \E j \in JobIds : RecoveryEnqueue(j)
           \/ RecoveryFails
    PROVE  EvaluationInv'
<1> USE InvParts
<1>1. CASE RecoveryScan
  <2>1. \A j \in scan' : \E t \in DOMAIN turns :
            j = <<t, turns[t].attempts>> /\ Recoverable(t)
    BY <1>1 DEF RecoveryScan
  <2>2. \A j \in scan' : /\ j \in Nat \X (0 .. (MaxAttempts - 1))
                         /\ \E a \in answers : a.turn = j[1]
    <3> TAKE j \in scan'
    <3>1. PICK t \in DOMAIN turns : j = <<t, turns[t].attempts>> /\ Recoverable(t)
      BY <2>1
    <3>2. turns[t] \in Turn /\ t \in Nat
      BY TurnIsTyped, LenProperties DEF RowTypes
    <3>3. QED
      BY <3>1, <3>2, EvaluationAssumption DEF Recoverable, Turn
  <2>3. MachineTypes'
    BY <1>1, <2>2 DEF RecoveryScan, MachineTypes
  <2>4. ReferencesExist'
    BY <1>1, <2>2 DEF RecoveryScan, ReferencesExist
  <2>5. QED  BY <1>1, <2>3, <2>4, RowsKept DEF RecoveryScan, db
<1>2. CASE \E j \in JobIds : RecoveryEnqueue(j)
  <2> PICK j \in JobIds : RecoveryEnqueue(j)
    BY <1>2
  <2>1. /\ j \in Nat \X Int
        /\ \E a \in answers : a.turn = j[1]
        /\ jobs' \in EnqueueOutcomes(jobs, j)
        /\ scan' \subseteq scan
        /\ UNCHANGED <<answers, worker, api, spent>>
    BY DEF RecoveryEnqueue, ReferencesExist, MachineTypes
  <2>2. /\ jobs' \in [JobIds -> Job]
        /\ \A i \in JobIds :
              /\ worker'[i].at # "IDLE" <=> jobs'[i].phase = "RUNNING"
              /\ jobs'[i].phase \in {"QUEUED", "RUNNING"} =>
                    \E a \in answers' : a.turn = i[1]
    BY <2>1, EnqueueKeepsReferences
  <2>3. MachineTypes'
    BY <2>1, <2>2 DEF MachineTypes
  <2>4. ReferencesExist'
    BY <2>1, <2>2 DEF ReferencesExist
  <2>5. QED  BY <2>3, <2>4, RowsKept DEF RecoveryEnqueue, db
<1>3. CASE RecoveryFails
  <2>1. MachineTypes'
    BY <1>3, SpendIsTyped DEF RecoveryFails, MachineTypes, BoundedEvent
  <2>2. ReferencesExist'
    BY <1>3 DEF RecoveryFails, ReferencesExist
  <2>3. QED  BY <1>3, <2>1, <2>2, RowsKept DEF RecoveryFails, db
<1>4. QED  BY <1>1, <1>2, <1>3

-----------------------------------------------------------------------------
(* Steps that write rows.                                                  *)

\* Only the last turn of an interview in progress can be unfinished.
LEMMA OpenTurnIsLast ==
    ASSUME RowTypes, OneOpenTurn, NEW t \in DOMAIN turns,
           turns[t].state \in ActiveTurn
    PROVE  /\ status = "IN_PROGRESS"
           /\ t = Len(turns)
           /\ \A u \in 1 .. (Len(turns) - 1) : turns[u].state = "COMPLETED"
<1>1. Len(turns) \in Nat /\ DOMAIN turns = 1 .. Len(turns)
  BY LenProperties DEF RowTypes
<1>2. QED
  BY <1>1 DEF OneOpenTurn, ActiveTurn, TerminalTurn

\* What a step does to the last turn when it replaces it by v.
LEMMA LastTurnReplaced ==
    ASSUME RowTypes, OneOpenTurn, NEW t \in DOMAIN turns, NEW v \in Turn,
           turns[t].state \in ActiveTurn, turns' = [turns EXCEPT ![t] = v]
    PROVE  /\ turns' \in Seq(Turn)
           /\ t = Len(turns') /\ t = Len(turns) /\ turns' # << >>
           /\ DOMAIN turns' = DOMAIN turns
           /\ turns'[t] = v
           /\ \A u \in DOMAIN turns \ {t} :
                 turns'[u] = turns[u] /\ turns[u].state = "COMPLETED"
<1>1. Len(turns) \in Nat /\ DOMAIN turns = 1 .. Len(turns)
  BY LenProperties DEF RowTypes
<1>2. /\ turns' \in Seq(Turn)
      /\ Len(turns') = Len(turns)
      /\ DOMAIN turns' = DOMAIN turns
      /\ turns'[t] = v
      /\ \A u \in DOMAIN turns \ {t} : turns'[u] = turns[u]
  BY UpdateTurn DEF RowTypes
<1>3. t = Len(turns) /\ \A u \in 1 .. (Len(turns) - 1) : turns[u].state = "COMPLETED"
  BY OpenTurnIsLast
<1>4. turns' # << >>
  BY <1>1, <1>2
<1>5. QED  BY <1>1, <1>2, <1>3, <1>4

LEMMA StartKeepsInv ==
    ASSUME EvaluationInv, Start
    PROVE  EvaluationInv'
<1> USE InvParts
<1> DEFINE first == PrimaryTurn(1, "WAITING_ANSWER")
<1>1. turns = << >> /\ turns' = << first >>
  BY DEF Start, OneOpenTurn
<1>2. first \in Turn /\ first.state = "WAITING_ANSWER"
  BY EvaluationAssumption DEF PrimaryTurn, Turn, TurnStatus
<1>3. turns' \in Seq(Turn) /\ Len(turns') = 1 /\ DOMAIN turns' = {1} /\ turns'[1] = first
  <2> HIDE DEF first
  <2>1. QED  BY <1>1, <1>2
<1>4. answers = {} /\ evaluations = {}
  BY <1>1 DEF GradesMatchAnswers
<1> HIDE DEF first
<1>5. RowTypes' /\ MachineTypes' /\ ReferencesExist'
  BY <1>3 DEF Start, RowTypes, MachineTypes, ReferencesExist, SessionStatus
<1>6. OneOpenTurn'
  BY <1>2, <1>3 DEF Start, OneOpenTurn, ActiveTurn
<1>7. GradesMatchAnswers'
  BY <1>2, <1>3, <1>4 DEF Start, GradesMatchAnswers
<1>8. QED  BY <1>5, <1>6, <1>7, TypeOKSplit DEF EvaluationInv, TypeOK, RowTypes, MachineTypes

LEMMA CancelKeepsInv ==
    ASSUME EvaluationInv, Cancel
    PROVE  EvaluationInv'
<1> USE InvParts
<1>1. TypeOK' /\ ReferencesExist'
  BY DEF Cancel, TypeOK, RowTypes, MachineTypes, ReferencesExist, SessionStatus
<1>2. OneOpenTurn' /\ GradesMatchAnswers'
  BY DEF Cancel, OneOpenTurn, GradesMatchAnswers
<1>3. QED  BY <1>1, <1>2 DEF EvaluationInv

\* The open turn gets a new row that is neither COMPLETED nor WAITING_ANSWER,
\* and its answer is stored.
LEMMA OpenTurnUpdated ==
    ASSUME EvaluationInv, NEW t \in DOMAIN turns, NEW v \in Turn,
           turns[t].state \in ActiveTurn, v.state = "EVALUATING",
           turns' = [turns EXCEPT ![t] = v], \E a \in answers' : a.turn = t,
           answers' = answers \/ \E r \in Requests, d \in Contents :
              /\ \A a \in answers : a.turn # t /\ a.request # r
              /\ answers' = answers \cup {[turn |-> t, request |-> r, content |-> d]},
           UNCHANGED <<status, index, evaluations>>
    PROVE  RowTypes' /\ OneOpenTurn' /\ GradesMatchAnswers' /\ answers \subseteq answers'
<1> USE InvParts
<1>1. /\ turns' \in Seq(Turn)
      /\ t = Len(turns') /\ t = Len(turns) /\ turns' # << >>
      /\ DOMAIN turns' = DOMAIN turns
      /\ turns'[t] = v
      /\ \A u \in DOMAIN turns \ {t} :
            turns'[u] = turns[u] /\ turns[u].state = "COMPLETED"
  BY LastTurnReplaced
<1>2. DOMAIN turns = 1 .. Len(turns) /\ Len(turns) \in Nat /\ status = "IN_PROGRESS"
  BY LenProperties, OpenTurnIsLast DEF RowTypes
<1>3. RowTypes'
  BY <1>1, <1>2 DEF RowTypes
<1>4. OneOpenTurn'
  BY <1>1, <1>2 DEF OneOpenTurn, ActiveTurn
<1>5. GradesMatchAnswers'
  <2>1. evaluations' = {u \in DOMAIN turns' : turns'[u].state = "COMPLETED"}
    BY <1>1 DEF GradesMatchAnswers, ActiveTurn
  <2>2. \A a, b \in answers' : a.turn = b.turn \/ a.request = b.request => a = b
    BY DEF GradesMatchAnswers
  <2>3. \A a \in answers' : a.turn \in DOMAIN turns'
    BY <1>1 DEF GradesMatchAnswers
  <2>4. \A u \in DOMAIN turns' :
          /\ turns'[u].state \in {"EVALUATING", "COMPLETED", "FAILED"} =>
                \E a \in answers' : a.turn = u
          /\ turns'[u].state = "WAITING_ANSWER" => \A a \in answers' : a.turn # u
    BY <1>1 DEF GradesMatchAnswers
  <2>5. QED  BY <2>1, <2>2, <2>3, <2>4 DEF GradesMatchAnswers
<1>6. QED  BY <1>3, <1>4, <1>5

LEMMA GotoKeepsReferences ==
    ASSUME MachineTypes, ReferencesExist, NEW c \in Clients, api[c].at # "IDLE",
           NEW step, NEW t, Goto(c, step, t), answers \subseteq answers',
           \E a \in answers' : a.turn = t
    PROVE  \A b \in Clients : api'[b].at \in {"ENQUEUE", "MARK"} =>
              \E a \in answers' : a.turn = api'[b].turn
<1>1. api[c] \in [at : ClientStep, request : Requests, turn : Nat, content : Contents]
  BY DEF MachineTypes, Client, IdleClient
<1>2. api'[c].turn = t /\ \A b \in Clients \ {c} : api'[b] = api[b]
  BY <1>1 DEF Goto, MachineTypes
<1>3. QED  BY <1>2 DEF ReferencesExist

LEMMA RejectKeepsReferences ==
    ASSUME MachineTypes, ReferencesExist, NEW c \in Clients, Reject(c),
           answers \subseteq answers'
    PROVE  \A b \in Clients : api'[b].at \in {"ENQUEUE", "MARK"} =>
              \E a \in answers' : a.turn = api'[b].turn
<1>1. api'[c].at = "IDLE" /\ \A b \in Clients \ {c} : api'[b] = api[b]
  BY DEF Reject, MachineTypes, IdleClient
<1>2. QED  BY <1>1 DEF ReferencesExist

LEMMA SubmitKeepsInv ==
    ASSUME EvaluationInv, NEW c \in Clients, Submit(c)
    PROVE  EvaluationInv'
<1> USE InvParts
<1> DEFINE t == api[c].turn
           r == api[c].request
           a0 == [turn |-> t, request |-> r, content |-> api[c].content]
<1>0. /\ api[c].at = "SUBMIT"
      /\ api[c] \in [at : ClientStep, request : Requests, turn : Nat, content : Contents]
      /\ UNCHANGED <<status, index, evaluations, jobs, worker, scan, spent>>
  BY DEF Submit, MachineTypes, Client, IdleClient
<1>1. CASE /\ Reject(c) \/ \E a \in answers : Goto(c, "ENQUEUE", a.turn)
           /\ UNCHANGED <<turns, answers>>
  <2>1. \A a \in answers : a.turn \in Nat
    BY DEF RowTypes
  <2>2. api' \in [Clients -> Client]
    BY <1>0, <1>1, <2>1, GotoIsTyped, RejectIsTyped DEF ClientStep
  <2>3. MachineTypes'
    BY <1>0, <2>2 DEF MachineTypes
  <2>4. \A b \in Clients : api'[b].at \in {"ENQUEUE", "MARK"} =>
           \E a \in answers' : a.turn = api'[b].turn
    BY <1>0, <1>1, GotoKeepsReferences, RejectKeepsReferences
  <2>5. ReferencesExist'
    BY <1>0, <1>1, <2>4 DEF ReferencesExist
  <2>6. QED  BY <1>0, <1>1, <2>3, <2>5, RowsKept DEF db
<1>2. CASE /\ AnswersFor(r) = {}
           /\ CanAnswer(t)
           /\ answers' = answers \cup {a0}
           /\ turns' = [turns EXCEPT ![t].state = "EVALUATING",
                                     ![t].started = "NONE", ![t].failure = "NONE"]
           /\ Goto(c, "ENQUEUE", t)
  <2> DEFINE v == [turns[t] EXCEPT !.state = "EVALUATING", !.started = "NONE", !.failure = "NONE"]
  <2>1. t \in DOMAIN turns /\ turns[t].state \in ActiveTurn /\ turns[t] \in Turn
    BY <1>2, TurnIsTyped DEF CanAnswer, IsCurrentTurn, RowTypes
  <2>2. v \in Turn /\ v.state = "EVALUATING"
    BY <2>1 DEF Turn, TurnStatus
  <2>3. turns' = [turns EXCEPT ![t] = v]
    BY <1>2
  <2>4. \A a \in answers : a.turn # t /\ a.request # r
    BY <1>2 DEF CanAnswer, AnswersFor
  <2> HIDE DEF v
  <2>5. RowTypes' /\ OneOpenTurn' /\ GradesMatchAnswers' /\ answers \subseteq answers'
    <3>1. \E a \in answers' : a.turn = t
      <4>1. a0 \in answers' /\ a0.turn = t
        BY <1>2
      <4>2. QED  BY <4>1
    <3>2. r \in Requests /\ api[c].content \in Contents
      BY <1>0
    <3>3. \E q \in Requests, d \in Contents :
             /\ \A a \in answers : a.turn # t /\ a.request # q
             /\ answers' = answers \cup {[turn |-> t, request |-> q, content |-> d]}
      BY <1>2, <2>4, <3>2
    <3>4. QED  BY <1>0, <2>1, <2>2, <2>3, <3>1, <3>3, OpenTurnUpdated
  <2>6. MachineTypes'
    BY <1>0, <1>2, GotoIsTyped DEF MachineTypes, ClientStep
  <2>7. ReferencesExist'
    <3>1. \A b \in Clients : api'[b].at \in {"ENQUEUE", "MARK"} =>
             \E a \in answers' : a.turn = api'[b].turn
      BY <1>0, <1>2, <2>5, GotoKeepsReferences
    <3>2. QED  BY <1>0, <2>5, <3>1 DEF ReferencesExist
  <2>8. QED  BY <2>5, <2>6, <2>7 DEF EvaluationInv, TypeOK, RowTypes, MachineTypes
<1>3. QED
  BY <1>1, <1>2 DEF Submit, AnswersFor

LEMMA MarkKeepsInv ==
    ASSUME EvaluationInv, NEW c \in Clients, MarkQueueUnavailable(c)
    PROVE  EvaluationInv'
<1> USE InvParts
<1> DEFINE t == api[c].turn
<1>1. \E a \in answers : a.turn = t
  BY DEF MarkQueueUnavailable, ReferencesExist
<1>2. t \in DOMAIN turns /\ turns[t] \in Turn
  BY <1>1, TurnIsTyped DEF GradesMatchAnswers, RowTypes
<1>3. MachineTypes'
  BY RejectIsTyped DEF MarkQueueUnavailable, MachineTypes
<1>4. ReferencesExist'
  BY DEF MarkQueueUnavailable, ReferencesExist, MachineTypes, Reject, IdleClient
<1>5. CASE turns[t].state = "EVALUATING"
  <2> DEFINE v == [turns[t] EXCEPT !.failure = "QUEUE_UNAVAILABLE"]
  <2>1. v \in Turn /\ v.state = "EVALUATING"
    BY <1>2, <1>5 DEF Turn
  <2>2. turns' = [turns EXCEPT ![t] = v]
    BY <1>5 DEF MarkQueueUnavailable
  <2> HIDE DEF v
  <2>3. UNCHANGED <<status, index, evaluations, answers>>
    BY DEF MarkQueueUnavailable
  <2>4. RowTypes' /\ OneOpenTurn' /\ GradesMatchAnswers'
    BY <1>1, <1>2, <1>5, <2>1, <2>2, <2>3, OpenTurnUpdated DEF ActiveTurn
  <2>5. QED  BY <1>3, <1>4, <2>4 DEF EvaluationInv, TypeOK, RowTypes, MachineTypes
<1>6. CASE turns[t].state # "EVALUATING"
  BY <1>3, <1>4, <1>6, RowsKept DEF MarkQueueUnavailable, db
<1>7. QED  BY <1>5, <1>6

LEMMA ClaimedIsTyped ==
    ASSUME NEW row \in Turn, row.state = "EVALUATING"
    PROVE  LET next == [row EXCEPT !.started = "FRESH", !.attempts = @ + 1, !.failure = "NONE"]
           IN  next \in Turn /\ next.state = "EVALUATING"
<1>1. row.attempts + 1 \in Nat
  BY DEF Turn
<1>2. QED  BY <1>1 DEF Turn

LEMMA ClaimKeepsInv ==
    ASSUME EvaluationInv, NEW j \in JobIds, Claim(j)
    PROVE  EvaluationInv'
<1> USE InvParts
<1> DEFINE t == j[1]
           v == [turns[t] EXCEPT !.started = "FRESH", !.attempts = @ + 1, !.failure = "NONE"]
<1>1. /\ \E a \in answers : a.turn = t
      /\ turns[t].state = "EVALUATING"
      /\ jobs[j].phase = "QUEUED"
  BY DEF Claim, MayClaim, CanDeliver
<1>2. t \in DOMAIN turns /\ turns[t] \in Turn
  BY <1>1, TurnIsTyped DEF GradesMatchAnswers, RowTypes
<1>3. v \in Turn /\ v.state = "EVALUATING"
  BY <1>1, <1>2, ClaimedIsTyped
<1>4. turns' = [turns EXCEPT ![t] = v]
  BY DEF Claim
<1> HIDE DEF v
<1>5. RowTypes' /\ OneOpenTurn' /\ GradesMatchAnswers'
  <2>1. UNCHANGED <<status, index, evaluations, answers>>
    BY DEF Claim
  <2>2. QED  BY <1>1, <1>2, <1>3, <1>4, <2>1, OpenTurnUpdated DEF ActiveTurn
<1>6. MachineTypes'
  <2>1. Step(j, "LOAD") /\ jobs' = Delivered(jobs, j) /\ UNCHANGED <<scan, api, spent>>
    BY DEF Claim
  <2>2. QED  BY <2>1, QueueIsTyped, StepIsTyped DEF MachineTypes, WorkerStep
<1>7. ReferencesExist'
  <2>1. /\ worker'[j].at = "LOAD" /\ jobs'[j].phase = "RUNNING"
        /\ \A i \in JobIds \ {j} : worker'[i] = worker[i] /\ jobs'[i] = jobs[i]
    BY DEF Claim, Step, Delivered, MachineTypes
  <2>2. UNCHANGED <<answers, scan, api>>
    BY DEF Claim
  <2>3. QED  BY <1>1, <2>1, <2>2 DEF ReferencesExist
<1>8. QED  BY <1>5, <1>6, <1>7 DEF EvaluationInv, TypeOK, RowTypes, MachineTypes

LEMMA StaleKeepsInv ==
    ASSUME EvaluationInv, NEW t \in DOMAIN turns, ClaimGoesStale(t)
    PROVE  EvaluationInv'
<1> USE InvParts
<1> DEFINE v == [turns[t] EXCEPT !.started = "STALE"]
<1>1. turns[t] \in Turn /\ turns[t].state = "EVALUATING"
  BY TurnIsTyped DEF ClaimGoesStale, RowTypes
<1>2. \E a \in answers : a.turn = t
  BY <1>1 DEF GradesMatchAnswers
<1>3. v \in Turn /\ v.state = "EVALUATING"
  BY <1>1 DEF Turn
<1>4. turns' = [turns EXCEPT ![t] = v]
  BY DEF ClaimGoesStale
<1> HIDE DEF v
<1>5. RowTypes' /\ OneOpenTurn' /\ GradesMatchAnswers'
  <2>1. UNCHANGED <<status, index, evaluations, answers>>
    BY DEF ClaimGoesStale
  <2>2. QED  BY <1>1, <1>2, <1>3, <1>4, <2>1, OpenTurnUpdated DEF ActiveTurn
<1>6. MachineTypes' /\ ReferencesExist'
  BY DEF ClaimGoesStale, MachineTypes, ReferencesExist
<1>7. QED  BY <1>5, <1>6 DEF EvaluationInv, TypeOK, RowTypes, MachineTypes

\* A coroutine whose turn is under evaluation works on the last turn.
LEMMA CoroutineHasAnswer ==
    ASSUME EvaluationInv, NEW j \in JobIds, worker[j].at # "IDLE"
    PROVE  /\ \E a \in answers : a.turn = j[1]
           /\ j[1] \in DOMAIN turns
           /\ turns[j[1]] \in Turn
<1> USE InvParts
<1>1. \E a \in answers : a.turn = j[1]
  BY DEF ReferencesExist
<1>2. QED  BY <1>1, TurnIsTyped DEF GradesMatchAnswers, RowTypes

LEMMA CompletedIsUpdate ==
    ASSUME EvaluationInv, NEW t \in DOMAIN turns
    PROVE  \E v \in Turn : v.state = "COMPLETED" /\ CompletedTurn(t) = [turns EXCEPT ![t] = v]
<1> DEFINE v == [turns[t] EXCEPT !.state = "COMPLETED", !.failure = "NONE"]
<1>1. turns[t] \in Turn
  BY InvParts, TurnIsTyped DEF RowTypes
<1>2. v \in Turn /\ v.state = "COMPLETED"
  BY <1>1 DEF Turn, TurnStatus
<1>3. CompletedTurn(t) = [turns EXCEPT ![t] = v]
  BY DEF CompletedTurn
<1>4. QED  BY <1>2, <1>3

\* The open turn is graded and the next turn, if there is one, waits.
LEMMA GradingKeepsRows ==
    ASSUME EvaluationInv, NEW t \in DOMAIN turns, turns[t].state = "EVALUATING",
           \E a \in answers : a.turn = t,
           evaluations' = evaluations \cup {t}, UNCHANGED answers, index' \in Nat,
           \/ /\ status' = "COMPLETED"
              /\ turns' = CompletedTurn(t)
           \/ /\ status' = status
              /\ \E w \in Turn : /\ w.state = "WAITING_ANSWER"
                                 /\ turns' = Append(CompletedTurn(t), w)
    PROVE  RowTypes' /\ OneOpenTurn' /\ GradesMatchAnswers'
<1> USE InvParts
<1> DEFINE s == CompletedTurn(t)
<1>1. status = "IN_PROGRESS" /\ DOMAIN turns = 1 .. Len(turns) /\ Len(turns) \in Nat
  BY OpenTurnIsLast, LenProperties DEF RowTypes, ActiveTurn
<1>2. /\ s \in Seq(Turn)
      /\ Len(s) = t /\ t = Len(turns)
      /\ DOMAIN s = DOMAIN turns
      /\ s[t].state = "COMPLETED"
      /\ \A u \in DOMAIN turns \ {t} : s[u] = turns[u] /\ turns[u].state = "COMPLETED"
  <2> PICK v \in Turn : v.state = "COMPLETED" /\ s = [turns EXCEPT ![t] = v]
    BY CompletedIsUpdate
  <2>1. /\ s \in Seq(Turn) /\ Len(s) = Len(turns) /\ DOMAIN s = DOMAIN turns /\ s[t] = v
        /\ \A u \in DOMAIN turns \ {t} : s[u] = turns[u]
    BY UpdateTurn DEF RowTypes
  <2>2. t = Len(turns) /\ \A u \in 1 .. (Len(turns) - 1) : turns[u].state = "COMPLETED"
    BY OpenTurnIsLast DEF ActiveTurn
  <2>3. QED  BY <1>1, <2>1, <2>2
<1> HIDE DEF s
<1>3. evaluations = DOMAIN turns \ {t}
  BY <1>2 DEF GradesMatchAnswers
<1>4. CASE status' = "COMPLETED" /\ turns' = s
  <2>1. RowTypes'
    BY <1>1, <1>2, <1>4 DEF RowTypes, SessionStatus
  <2>2. OneOpenTurn'
    BY <1>2, <1>4 DEF OneOpenTurn, TerminalTurn
  <2>3. GradesMatchAnswers'
    BY <1>2, <1>3, <1>4 DEF GradesMatchAnswers
  <2>4. QED  BY <2>1, <2>2, <2>3
<1>5. ASSUME status' = status, NEW w \in Turn, w.state = "WAITING_ANSWER", turns' = Append(s, w)
      PROVE  RowTypes' /\ OneOpenTurn' /\ GradesMatchAnswers'
  <2>1. /\ turns' \in Seq(Turn)
        /\ Len(turns') = t + 1
        /\ DOMAIN turns' = DOMAIN turns \cup {t + 1}
        /\ turns'[t + 1] = w
        /\ \A u \in DOMAIN turns : turns'[u] = s[u]
    BY <1>2, <1>5, AppendTurn
  <2>2. RowTypes'
    BY <1>1, <1>2, <1>5, <2>1 DEF RowTypes
  <2>3. OneOpenTurn'
    <3>1. \A u \in DOMAIN turns : turns'[u].state = "COMPLETED"
      BY <1>2, <2>1
    <3>2. turns' # << >> /\ Len(turns') - 1 = Len(turns)
      BY <1>1, <1>2, <2>1
    <3>3. QED  BY <1>1, <1>2, <1>5, <2>1, <3>1, <3>2 DEF OneOpenTurn, ActiveTurn
  <2>4. GradesMatchAnswers'
    <3>1. t + 1 \notin DOMAIN turns
      BY <1>1, <1>2
    <3>2. evaluations' = {u \in DOMAIN turns' : turns'[u].state = "COMPLETED"}
      BY <1>2, <1>3, <1>5, <2>1, <3>1
    <3>3. \A u \in DOMAIN turns : \E a \in answers : a.turn = u
      BY <1>2 DEF GradesMatchAnswers
    <3>4. QED  BY <1>2, <1>5, <2>1, <3>1, <3>2, <3>3 DEF GradesMatchAnswers
  <2>5. QED  BY <2>2, <2>3, <2>4
<1>6. QED  BY <1>4, <1>5 DEF s

LEMMA QuestionIsTurn ==
    ASSUME NEW q \in 1 .. NumQuestions, NEW st \in TurnStatus
    PROVE  PrimaryTurn(q, st) \in Turn /\ PrimaryTurn(q, st).state = st
  BY EvaluationAssumption DEF PrimaryTurn, Turn

LEMMA FollowUpIsTurn ==
    ASSUME turns \in Seq(Turn), NEW t \in DOMAIN turns
    PROVE  FollowUpTurn(t) \in Turn /\ FollowUpTurn(t).state = "WAITING_ANSWER"
<1>1. turns[t].depth + 1 \in Nat /\ t \in Nat
  BY TurnIsTyped, LenProperties DEF Turn
<1>2. 0 \in 0 .. NumQuestions
  BY EvaluationAssumption
<1>3. QED  BY <1>1, <1>2 DEF FollowUpTurn, Turn, TurnStatus

LEMMA PersistKeepsInv ==
    ASSUME EvaluationInv, NEW j \in JobIds, Persist(j)
    PROVE  EvaluationInv'
<1> USE InvParts
<1> DEFINE t == j[1]
<1>1. worker[j].at # "IDLE" /\ End(j) /\ UNCHANGED <<answers, scan, api>>
  BY DEF Persist
<1>2. /\ \E a \in answers : a.turn = t
      /\ t \in DOMAIN turns
  BY <1>1, CoroutineHasAnswer
<1>3. MachineTypes' /\ ReferencesExist'
  BY <1>1, EndIsTyped, EndKeepsReferences DEF MachineTypes
<1>4. CASE PersistNothing(t)
  BY <1>1, <1>3, <1>4, RowsKept DEF PersistNothing, db
<1>5. CASE PersistFollowUp(t)
  <2>1. FollowUpTurn(t) \in Turn /\ FollowUpTurn(t).state = "WAITING_ANSWER"
    BY <1>2, FollowUpIsTurn DEF RowTypes
  <2>2. /\ turns[t].state = "EVALUATING"
        /\ evaluations' = evaluations \cup {t}
        /\ turns' = Append(CompletedTurn(t), FollowUpTurn(t))
        /\ status' = status /\ index' \in Nat
    BY <1>5 DEF PersistFollowUp, MayPersist, IsActive, RowTypes
  <2>3. RowTypes' /\ OneOpenTurn' /\ GradesMatchAnswers'
    BY <1>1, <1>2, <2>1, <2>2, GradingKeepsRows
  <2>4. QED  BY <1>3, <2>3 DEF EvaluationInv, TypeOK, RowTypes, MachineTypes
<1>6. CASE PersistNextQuestion(t)
  <2> DEFINE w == PrimaryTurn(index + 2, "WAITING_ANSWER")
  <2>1. index + 2 \in 1 .. NumQuestions /\ index + 1 \in Nat
    BY <1>6, EvaluationAssumption DEF PersistNextQuestion, RowTypes
  <2>2. w \in Turn /\ w.state = "WAITING_ANSWER"
    BY <2>1, QuestionIsTurn DEF TurnStatus
  <2>3. /\ turns[t].state = "EVALUATING"
        /\ evaluations' = evaluations \cup {t}
        /\ turns' = Append(CompletedTurn(t), w)
        /\ status' = status /\ index' \in Nat
    BY <1>6, <2>1 DEF PersistNextQuestion, MayPersist, IsActive
  <2> HIDE DEF w
  <2>4. RowTypes' /\ OneOpenTurn' /\ GradesMatchAnswers'
    BY <1>1, <1>2, <2>2, <2>3, GradingKeepsRows
  <2>5. QED  BY <1>3, <2>4 DEF EvaluationInv, TypeOK, RowTypes, MachineTypes
<1>7. CASE PersistLastQuestion(t)
  <2>1. /\ turns[t].state = "EVALUATING"
        /\ evaluations' = evaluations \cup {t}
        /\ turns' = CompletedTurn(t)
        /\ status' = "COMPLETED" /\ index' \in Nat
    BY <1>7 DEF PersistLastQuestion, MayPersist, IsActive, RowTypes
  <2>2. RowTypes' /\ OneOpenTurn' /\ GradesMatchAnswers'
    BY <1>1, <1>2, <2>1, GradingKeepsRows
  <2>3. QED  BY <1>3, <2>2 DEF EvaluationInv, TypeOK, RowTypes, MachineTypes
<1>8. QED  BY <1>4, <1>5, <1>6, <1>7 DEF Persist

LEMMA FailKeepsInv ==
    ASSUME EvaluationInv, NEW j \in JobIds, FailEvaluation(j)
    PROVE  EvaluationInv'
<1> USE InvParts
<1> DEFINE t == j[1]
           v == [turns[t] EXCEPT !.state = "FAILED", !.failure = "EVALUATION_FAILED"]
<1>1. worker[j].at # "IDLE" /\ End(j) /\ UNCHANGED <<index, answers, scan, api>>
  BY DEF FailEvaluation
<1>2. /\ \E a \in answers : a.turn = t
      /\ t \in DOMAIN turns
      /\ turns[t] \in Turn
  BY <1>1, CoroutineHasAnswer
<1>3. MachineTypes' /\ ReferencesExist'
  BY <1>1, EndIsTyped, EndKeepsReferences DEF MachineTypes
<1>4. CASE status \in TerminalSession \/ turns[t].state \in TerminalTurn
  BY <1>1, <1>3, <1>4, RowsKept DEF FailEvaluation, db
<1>5. CASE ~(status \in TerminalSession \/ turns[t].state \in TerminalTurn)
  <2>1. /\ status' = "FAILED"
        /\ turns' = [turns EXCEPT ![t] = v]
        /\ evaluations' = evaluations \ {t}
    BY <1>5 DEF FailEvaluation
  <2>2. turns[t].state \in ActiveTurn
    BY <1>2, <1>5 DEF Turn, TurnStatus, ActiveTurn, TerminalTurn
  <2>3. v \in Turn /\ v.state = "FAILED"
    BY <1>2 DEF Turn, TurnStatus
  <2> HIDE DEF v
  <2>4. /\ turns' \in Seq(Turn)
        /\ DOMAIN turns' = DOMAIN turns
        /\ turns'[t] = v
        /\ \A u \in DOMAIN turns \ {t} :
              turns'[u] = turns[u] /\ turns[u].state = "COMPLETED"
    BY <1>2, <2>1, <2>2, <2>3, LastTurnReplaced
  <2>5. RowTypes'
    BY <1>1, <2>1, <2>4 DEF RowTypes, SessionStatus
  <2>6. OneOpenTurn'
    BY <2>1, <2>3, <2>4 DEF OneOpenTurn, TerminalTurn
  <2>7. GradesMatchAnswers'
    <3>1. evaluations' = DOMAIN turns \ {t}
      BY <1>2, <2>1, <2>2, <2>4 DEF GradesMatchAnswers, ActiveTurn
    <3>2. \A u \in DOMAIN turns : \E a \in answers : a.turn = u
      BY <1>2, <2>4 DEF GradesMatchAnswers
    <3>3. QED  BY <1>1, <2>3, <2>4, <3>1, <3>2 DEF GradesMatchAnswers
  <2>8. QED  BY <1>3, <2>5, <2>6, <2>7 DEF EvaluationInv, TypeOK, RowTypes, MachineTypes
<1>6. QED  BY <1>4, <1>5

\* The questions finish still has to skip are finitely many.
LEMMA UnaskedIsFinite ==
    Cardinality(UnaskedQuestions) \in Nat
<1>1. IsFiniteSet(1 .. NumQuestions)
  BY FS_Interval, EvaluationAssumption
<1>2. UnaskedQuestions \in SUBSET (1 .. NumQuestions)
  BY DEF UnaskedQuestions
<1>3. IsFiniteSet(UnaskedQuestions)
  BY <1>1, <1>2, FS_Subset
<1>4. QED  BY <1>3, FS_CardinalityType

LEMMA FinishKeepsInv ==
    ASSUME EvaluationInv, Finish
    PROVE  EvaluationInv'
<1> USE InvParts
<1> DEFINE n == Cardinality(UnaskedQuestions)
<1>1. n \in Nat
  BY UnaskedIsFinite
<1>2. PICK order \in [1 .. n -> UnaskedQuestions] :
        turns' = SkipUnfinished \o [i \in DOMAIN order |-> PrimaryTurn(order[i], "SKIPPED")]
  BY DEF Finish
<1> DEFINE tail == [i \in DOMAIN order |-> PrimaryTurn(order[i], "SKIPPED")]
           s == SkipUnfinished
<1>3. /\ tail \in Seq(Turn)
      /\ \A i \in 1 .. Len(tail) : tail[i].state = "SKIPPED"
  <2>1. \A i \in 1 .. n : /\ PrimaryTurn(order[i], "SKIPPED") \in Turn
                          /\ PrimaryTurn(order[i], "SKIPPED").state = "SKIPPED"
    BY QuestionIsTurn DEF UnaskedQuestions, TurnStatus
  <2>2. tail \in [1 .. n -> Turn]
    BY <2>1
  <2>3. tail \in Seq(Turn) /\ Len(tail) = n
    BY <1>1, <2>2
  <2>4. QED  BY <2>1, <2>3
<1>4. /\ s \in Seq(Turn) /\ Len(s) = Len(turns)
      /\ \A u \in DOMAIN turns :
            /\ turns[u].state \in ActiveTurn => s[u].state = "SKIPPED"
            /\ turns[u].state \notin ActiveTurn => s[u] = turns[u]
  <2>1. Len(turns) \in Nat /\ DOMAIN turns = 1 .. Len(turns)
    BY LenProperties DEF RowTypes
  <2>2. \A u \in DOMAIN turns : turns[u] \in Turn
    BY TurnIsTyped DEF RowTypes
  <2>3. s \in [1 .. Len(turns) -> Turn]
    BY <2>1, <2>2 DEF SkipUnfinished, Turn, TurnStatus
  <2>4. s \in Seq(Turn) /\ Len(s) = Len(turns)
    BY <2>1, <2>3
  <2>5. QED  BY <2>2, <2>4 DEF SkipUnfinished, Turn
<1> HIDE DEF tail, s
<1>5. /\ turns' \in Seq(Turn)
      /\ DOMAIN turns \subseteq DOMAIN turns'
      /\ \A u \in DOMAIN turns : turns'[u] = s[u]
      /\ \A u \in DOMAIN turns' \ DOMAIN turns : turns'[u].state = "SKIPPED"
  <2>1. /\ turns' = s \o tail
        /\ Len(s) \in Nat /\ Len(tail) \in Nat
        /\ DOMAIN turns = 1 .. Len(s)
    BY <1>2, <1>3, <1>4, LenProperties DEF tail, s, RowTypes
  <2>2. /\ turns' \in Seq(Turn)
        /\ Len(turns') = Len(s) + Len(tail)
        /\ \A i \in 1 .. Len(s) + Len(tail) :
              turns'[i] = IF i <= Len(s) THEN s[i] ELSE tail[i - Len(s)]
    BY <1>3, <1>4, <2>1, ConcatProperties
  <2>3. DOMAIN turns' = 1 .. Len(s) + Len(tail)
    BY <2>2, LenProperties
  <2>4. \A u \in DOMAIN turns' \ DOMAIN turns : u - Len(s) \in 1 .. Len(tail)
    BY <2>1, <2>3
  <2>5. QED  BY <1>3, <2>1, <2>2, <2>3, <2>4
<1>6. RowTypes'
  BY <1>5 DEF Finish, RowTypes, SessionStatus
<1>7. \A u \in DOMAIN turns : turns[u] \in Turn
  BY TurnIsTyped DEF RowTypes
<1>8. OneOpenTurn'
  <2>1. \A u \in DOMAIN turns' : turns'[u].state \in TerminalTurn
    <3>1. \A u \in DOMAIN turns : turns[u].state \in ActiveTurn \cup TerminalTurn
      BY <1>7 DEF Turn, TurnStatus, ActiveTurn, TerminalTurn
    <3>2. \A u \in DOMAIN turns : turns'[u].state \in TerminalTurn
      BY <1>4, <1>5, <3>1 DEF TerminalTurn
    <3>3. QED  BY <1>5, <3>2 DEF TerminalTurn
  <2>2. status' = "COMPLETED"
    BY DEF Finish
  <2>3. QED  BY <2>1, <2>2 DEF OneOpenTurn
<1>9. GradesMatchAnswers'
  <2>1. \A u \in DOMAIN turns' : turns'[u].state \in {"COMPLETED", "FAILED"} =>
           u \in DOMAIN turns /\ turns[u] = turns'[u]
    BY <1>4, <1>5
  <2>2. \A u \in DOMAIN turns' : turns'[u].state \notin ActiveTurn
    BY <1>4, <1>5 DEF ActiveTurn
  <2>3. \A u \in DOMAIN turns : turns[u].state = "COMPLETED" => turns'[u] = turns[u]
    BY <1>4, <1>5 DEF ActiveTurn
  <2>4. UNCHANGED <<answers, evaluations>>
    BY DEF Finish
  <2>5. evaluations' = {u \in DOMAIN turns' : turns'[u].state = "COMPLETED"}
    BY <1>5, <2>1, <2>3, <2>4 DEF GradesMatchAnswers
  <2>6. QED  BY <1>5, <2>1, <2>2, <2>4, <2>5 DEF GradesMatchAnswers, ActiveTurn
<1>10. MachineTypes' /\ ReferencesExist'
  BY DEF Finish, MachineTypes, ReferencesExist
<1>11. QED  BY <1>6, <1>8, <1>9, <1>10 DEF EvaluationInv, TypeOK, RowTypes, MachineTypes

-----------------------------------------------------------------------------
(* The theorems.                                                           *)

LEMMA InitEstablishesInv == Init => EvaluationInv
<1> SUFFICES ASSUME Init PROVE EvaluationInv
  OBVIOUS
<1>1. RowTypes
  BY DEF Init, RowTypes, SessionStatus
<1>2. MachineTypes
  BY DEF Init, MachineTypes, EmptyQueue, NoJob, Job, JobPhase, IdleWorker, WorkerStep, Client
<1>3. OneOpenTurn /\ GradesMatchAnswers
  BY DEF Init, OneOpenTurn, GradesMatchAnswers
<1>4. ReferencesExist
  BY DEF Init, ReferencesExist, EmptyQueue, NoJob, IdleWorker, IdleClient
<1>5. QED  BY <1>1, <1>2, <1>3, <1>4, TypeOKSplit DEF EvaluationInv

LEMMA NextKeepsInv == EvaluationInv /\ [Next]_vars => EvaluationInv'
<1> SUFFICES ASSUME EvaluationInv, [Next]_vars PROVE EvaluationInv'
  OBVIOUS
<1>1. CASE Session
  BY <1>1, StartKeepsInv, CancelKeepsInv, FinishKeepsInv DEF Session
<1>2. ASSUME NEW c \in Clients, Submission(c) PROVE EvaluationInv'
  BY <1>2, RequestKeepsInv, SubmitKeepsInv, MarkKeepsInv DEF Submission
<1>3. ASSUME NEW j \in JobIds, Evaluation(j) PROVE EvaluationInv'
  BY <1>3, JobKeepsInv, ClaimKeepsInv, PersistKeepsInv, FailKeepsInv DEF Evaluation
<1>4. CASE Recovery
  BY <1>4, RecoveryKeepsInv, StaleKeepsInv DEF Recovery
<1>5. CASE UNCHANGED vars
  BY <1>5, InvParts, RowsKept DEF vars, db, MachineTypes, ReferencesExist
<1>6. QED  BY <1>1, <1>2, <1>3, <1>4, <1>5 DEF Next

\* Every reachable state satisfies the inductive invariant.
THEOREM EvaluationInvariant == Spec => []EvaluationInv
  BY InitEstablishesInv, NextKeepsInv, PTL DEF Spec

\* Every variable keeps its type.
THEOREM TypeCorrect == Spec => []TypeOK
<1>1. EvaluationInv => TypeOK
  BY DEF EvaluationInv
<1>2. QED  BY <1>1, EvaluationInvariant, PTL

\* An interview in progress has one open turn, its last; one that has ended has
\* none, whatever jobs, tabs and recovery rounds race.
THEOREM OneTurnIsOpen == Spec => []OneOpenTurn
<1>1. EvaluationInv => OneOpenTurn
  BY DEF EvaluationInv
<1>2. QED  BY <1>1, EvaluationInvariant, PTL

\* Evaluations, answers and turns agree: no answer is doubled, lost or graded
\* for another turn.
THEOREM GradesAreConsistent == Spec => []GradesMatchAnswers
<1>1. EvaluationInv => GradesMatchAnswers
  BY DEF EvaluationInv
<1>2. QED  BY <1>1, EvaluationInvariant, PTL

-----------------------------------------------------------------------------
(* What a step may do to stored rows.                                      *)

Keeps ==
    /\ status \notin TerminalSession
    /\ evaluations \subseteq evaluations'
    /\ \A t \in DOMAIN turns : turns[t].state = "COMPLETED" => turns'[t] = turns[t]

\* Replacing an unfinished turn leaves the COMPLETED ones alone.
LEMMA ReplacingKeeps ==
    ASSUME EvaluationInv, NEW t \in DOMAIN turns, turns[t].state \in ActiveTurn, NEW v \in Turn
    PROVE  /\ status \notin TerminalSession
           /\ \A u \in DOMAIN turns : turns[u].state = "COMPLETED" =>
                 [turns EXCEPT ![t] = v][u] = turns[u]
<1>1. status = "IN_PROGRESS"
  BY InvParts, OpenTurnIsLast
<1>2. \A u \in DOMAIN turns \ {t} : [turns EXCEPT ![t] = v][u] = turns[u]
  BY InvParts, UpdateTurn DEF RowTypes
<1>3. QED  BY <1>1, <1>2 DEF TerminalSession, ActiveTurn

LEMMA SubmissionKeeps ==
    ASSUME EvaluationInv, NEW c \in Clients, Submission(c)
    PROVE  UNCHANGED db \/ Keeps
<1> DEFINE t == api[c].turn
<1>1. CASE Submit(c)
  <2>1. CASE UNCHANGED turns /\ UNCHANGED answers
    BY <1>1, <2>1 DEF Submit, db
  <2>2. CASE CanAnswer(t) /\ turns' = [turns EXCEPT ![t].state = "EVALUATING",
                                                    ![t].started = "NONE", ![t].failure = "NONE"]
    <3> DEFINE v == [turns[t] EXCEPT !.state = "EVALUATING", !.started = "NONE", !.failure = "NONE"]
    <3>1. t \in DOMAIN turns /\ turns[t].state \in ActiveTurn
      BY <2>2 DEF CanAnswer, IsCurrentTurn
    <3>2. turns[t] \in Turn
      BY <3>1, InvParts, TurnIsTyped DEF RowTypes
    <3>3. v \in Turn
      BY <3>2 DEF Turn, TurnStatus
    <3>4. turns' = [turns EXCEPT ![t] = v]
      BY <2>2
    <3> HIDE DEF v
    <3>5. UNCHANGED evaluations
      BY <1>1 DEF Submit
    <3>6. QED  BY <3>1, <3>3, <3>4, <3>5, ReplacingKeeps DEF Keeps
  <2>3. QED  BY <1>1, <2>1, <2>2 DEF Submit
<1>2. CASE MarkQueueUnavailable(c)
  <2>1. CASE turns[t].state = "EVALUATING"
    <3> DEFINE v == [turns[t] EXCEPT !.failure = "QUEUE_UNAVAILABLE"]
    <3>1. t \in DOMAIN turns /\ turns[t] \in Turn
      BY <1>2, InvParts, TurnIsTyped
      DEF MarkQueueUnavailable, ReferencesExist, GradesMatchAnswers, RowTypes
    <3>2. v \in Turn
      BY <3>1 DEF Turn
    <3>3. turns' = [turns EXCEPT ![t] = v] /\ UNCHANGED evaluations
      BY <1>2, <2>1 DEF MarkQueueUnavailable
    <3> HIDE DEF v
    <3>4. QED  BY <2>1, <3>1, <3>2, <3>3, ReplacingKeeps DEF Keeps, ActiveTurn
  <2>2. QED  BY <1>2, <2>1 DEF MarkQueueUnavailable, db
<1>3. QED
  BY <1>1, <1>2 DEF Submission, Receive, Check, EnqueueEvaluation, EnqueueFails, ApiCrash, db

LEMMA EvaluationKeeps ==
    ASSUME EvaluationInv, NEW j \in JobIds, Evaluation(j)
    PROVE  UNCHANGED db \/ Keeps
<1> DEFINE t == j[1]
<1>1. CASE Claim(j)
  <2> DEFINE v == [turns[t] EXCEPT !.started = "FRESH", !.attempts = @ + 1, !.failure = "NONE"]
  <2>1. turns[t].state = "EVALUATING" /\ \E a \in answers : a.turn = t
    BY <1>1 DEF Claim, MayClaim
  <2>2. t \in DOMAIN turns /\ turns[t] \in Turn
    BY <2>1, InvParts, TurnIsTyped DEF GradesMatchAnswers, RowTypes
  <2>3. v \in Turn
    BY <2>1, <2>2, ClaimedIsTyped
  <2>4. turns' = [turns EXCEPT ![t] = v] /\ UNCHANGED evaluations
    BY <1>1 DEF Claim
  <2> HIDE DEF v
  <2>5. QED  BY <2>1, <2>2, <2>3, <2>4, ReplacingKeeps DEF Keeps, ActiveTurn
<1>2. CASE Persist(j)
  <2>1. t \in DOMAIN turns /\ turns[t] \in Turn
    BY <1>2, CoroutineHasAnswer DEF Persist
  <2>2. CASE PersistNothing(t)
    BY <1>2, <2>2 DEF Persist, PersistNothing, db
  <2>3. CASE /\ MayPersist(t)
             /\ evaluations' = evaluations \cup {t}
             /\ turns' = CompletedTurn(t) \/ \E w \in Turn : turns' = Append(CompletedTurn(t), w)
    <3>1. PICK v \in Turn : CompletedTurn(t) = [turns EXCEPT ![t] = v]
      BY <2>1, CompletedIsUpdate
    <3>2. /\ CompletedTurn(t) \in Seq(Turn)
          /\ DOMAIN CompletedTurn(t) = DOMAIN turns
      BY <2>1, <3>1, InvParts, UpdateTurn DEF RowTypes
    <3>3. \A u \in DOMAIN turns : turns'[u] = CompletedTurn(t)[u]
      BY <2>3, <3>2, AppendTurn
    <3>4. QED
      BY <2>1, <2>3, <3>1, <3>3, ReplacingKeeps DEF Keeps, MayPersist, IsActive, ActiveTurn
  <2>4. CASE PersistFollowUp(t)
    BY <2>1, <2>3, <2>4, FollowUpIsTurn, InvParts DEF PersistFollowUp, RowTypes
  <2>5. CASE PersistNextQuestion(t)
    <3>1. index + 2 \in 1 .. NumQuestions
      BY <2>5, InvParts, EvaluationAssumption DEF PersistNextQuestion, RowTypes
    <3>2. PrimaryTurn(index + 2, "WAITING_ANSWER") \in Turn
      BY <3>1, QuestionIsTurn DEF TurnStatus
    <3>3. QED  BY <2>3, <2>5, <3>2 DEF PersistNextQuestion
  <2>6. CASE PersistLastQuestion(t)
    BY <2>3, <2>6 DEF PersistLastQuestion
  <2>7. QED  BY <1>2, <2>2, <2>4, <2>5, <2>6 DEF Persist
<1>3. CASE FailEvaluation(j)
  <2>1. CASE status \in TerminalSession \/ turns[t].state \in TerminalTurn
    BY <1>3, <2>1 DEF FailEvaluation, db
  <2>2. CASE ~(status \in TerminalSession \/ turns[t].state \in TerminalTurn)
    <3> DEFINE v == [turns[t] EXCEPT !.state = "FAILED", !.failure = "EVALUATION_FAILED"]
    <3>1. t \in DOMAIN turns /\ turns[t] \in Turn
      BY <1>3, CoroutineHasAnswer DEF FailEvaluation
    <3>2. turns[t].state \in ActiveTurn
      BY <2>2, <3>1 DEF Turn, TurnStatus, ActiveTurn, TerminalTurn
    <3>3. v \in Turn
      BY <3>1 DEF Turn, TurnStatus
    <3>4. turns' = [turns EXCEPT ![t] = v] /\ evaluations' = evaluations \ {t}
      BY <1>3, <2>2 DEF FailEvaluation
    <3>5. t \notin evaluations
      BY <3>2, InvParts DEF GradesMatchAnswers, ActiveTurn
    <3> HIDE DEF v
    <3>6. QED  BY <3>1, <3>2, <3>3, <3>4, <3>5, ReplacingKeeps DEF Keeps
  <2>3. QED  BY <2>1, <2>2
<1>4. QED
  BY <1>1, <1>2, <1>3
  DEF Evaluation, DropDelivery, LoseDelivery, Load, Evaluate, RejectOutput,
      TransientError, JobTimeout, WorkerCrash, db

LEMMA SkipKeepsCompleted ==
    ASSUME turns \in Seq(Turn), NEW tail, tail \in Seq(Turn)
    PROVE  \A t \in DOMAIN turns : turns[t].state = "COMPLETED" =>
              (SkipUnfinished \o tail)[t] = turns[t]
<1> DEFINE s == SkipUnfinished
<1>1. Len(turns) \in Nat /\ DOMAIN turns = 1 .. Len(turns)
  BY LenProperties
<1>2. \A u \in DOMAIN turns : turns[u] \in Turn
  BY TurnIsTyped
<1>3. s \in [1 .. Len(turns) -> Turn]
  BY <1>1, <1>2 DEF SkipUnfinished, Turn, TurnStatus
<1>4. s \in Seq(Turn) /\ Len(s) = Len(turns)
  BY <1>1, <1>3
<1>5. \A t \in DOMAIN turns : turns[t].state = "COMPLETED" => s[t] = turns[t]
  BY DEF SkipUnfinished, ActiveTurn
<1> HIDE DEF s
<1>6. \A i \in 1 .. Len(s) + Len(tail) :
         (s \o tail)[i] = IF i <= Len(s) THEN s[i] ELSE tail[i - Len(s)]
  BY <1>4, ConcatProperties
<1>7. Len(tail) \in Nat
  BY LenProperties
<1>8. \A t \in DOMAIN turns : (s \o tail)[t] = s[t]
  BY <1>1, <1>4, <1>6, <1>7
<1>9. QED  BY <1>5, <1>8 DEF s

LEMMA SessionKeeps ==
    ASSUME EvaluationInv, Session
    PROVE  Keeps
<1> USE InvParts
<1>1. CASE Start
  BY <1>1 DEF Start, OneOpenTurn, Keeps, TerminalSession
<1>2. CASE Cancel
  BY <1>2 DEF Cancel, Keeps, TerminalSession
<1>3. CASE Finish
  <2>1. PICK order \in [1 .. Cardinality(UnaskedQuestions) -> UnaskedQuestions] :
          turns' = SkipUnfinished \o [i \in DOMAIN order |-> PrimaryTurn(order[i], "SKIPPED")]
    BY <1>3 DEF Finish
  <2> DEFINE tail == [i \in DOMAIN order |-> PrimaryTurn(order[i], "SKIPPED")]
  <2>2. \A i \in DOMAIN order : PrimaryTurn(order[i], "SKIPPED") \in Turn
    BY QuestionIsTurn DEF UnaskedQuestions, TurnStatus
  <2>3. tail \in Seq(Turn)
    BY <2>2, UnaskedIsFinite
  <2>4. \A t \in DOMAIN turns : turns[t].state = "COMPLETED" => turns'[t] = turns[t]
    BY <2>1, <2>3, SkipKeepsCompleted DEF RowTypes
  <2>5. QED  BY <1>3, <2>4 DEF Finish, Keeps, TerminalSession
<1>4. QED  BY <1>1, <1>2, <1>3 DEF Session

LEMMA RecoveryKeeps ==
    ASSUME EvaluationInv, Recovery
    PROVE  UNCHANGED db \/ Keeps
<1>1. ASSUME NEW t \in DOMAIN turns, ClaimGoesStale(t)
      PROVE  Keeps
  <2> DEFINE v == [turns[t] EXCEPT !.started = "STALE"]
  <2>1. turns[t] \in Turn /\ turns[t].state = "EVALUATING"
    BY <1>1, InvParts, TurnIsTyped DEF ClaimGoesStale, RowTypes
  <2>2. v \in Turn
    BY <2>1 DEF Turn
  <2>3. turns' = [turns EXCEPT ![t] = v] /\ UNCHANGED evaluations
    BY <1>1 DEF ClaimGoesStale
  <2> HIDE DEF v
  <2>4. QED  BY <2>1, <2>2, <2>3, ReplacingKeeps DEF Keeps, ActiveTurn
<1>2. QED
  BY <1>1 DEF Recovery, RecoveryScan, RecoveryEnqueue, RecoveryFails, db

LEMMA StepKeeps == EvaluationInv /\ [Next]_vars => UNCHANGED db \/ Keeps
<1> SUFFICES ASSUME EvaluationInv, [Next]_vars PROVE UNCHANGED db \/ Keeps
  OBVIOUS
<1>1. CASE UNCHANGED vars
  BY <1>1 DEF vars, db
<1>2. QED
  BY <1>1, SessionKeeps, SubmissionKeeps, EvaluationKeeps, RecoveryKeeps DEF Next

\* No step takes a grade back or touches a COMPLETED turn.
THEOREM GradesNeverChange == Spec => GradesAreFinal
<1>1. EvaluationInv /\ [Next]_vars =>
         [/\ evaluations \subseteq evaluations'
          /\ \A t \in DOMAIN turns :
                turns[t].state = "COMPLETED" => turns'[t] = turns[t]]_vars
  BY StepKeeps DEF db, Keeps
<1>2. QED  BY <1>1, EvaluationInvariant, PTL DEF Spec, GradesAreFinal

\* No step changes the rows of an interview that has ended.
THEOREM EndedNeverChanges == Spec => EndedIsFinal
<1>1. EvaluationInv /\ [Next]_vars => [(status \in TerminalSession) => UNCHANGED db]_vars
  BY StepKeeps DEF Keeps
<1>2. QED  BY <1>1, EvaluationInvariant, PTL DEF Spec, EndedIsFinal

-----------------------------------------------------------------------------
(* What the API acknowledges.                                              *)

\* There is an answer with the requestId of every acknowledged request.
RequestIsStored ==
    \A c \in Clients : api[c].at \in {"ENQUEUE", "MARK", "OK"} =>
        \E a \in answers : a.request = api[c].request

\* Texts are stored under the requestIds they were sent with.
TextsInv ==
    /\ \A a \in answers : a.content \in Texts[a.request]
    /\ \A c \in Clients : api[c].at # "IDLE" => api[c].content \in Texts[api[c].request]

\* A request keeps its requestId until it is over, and from the commit of
\* submit_answer on the answer with that requestId is there.
LEMMA RequestsKeepTheirAnswer ==
    ASSUME EvaluationInv, RequestIsStored, answers \subseteq answers',
           NEW c \in Clients,
           \/ Reject(c)
           \/ /\ api'[c].at \in {"CHECK", "SUBMIT"}
              /\ \A b \in Clients \ {c} : api'[b] = api[b]
           \/ /\ api[c].at # "IDLE"
              /\ \E step \in ClientStep, t \in Nat : Goto(c, step, t)
              /\ \E a \in answers' : a.request = api[c].request
    PROVE  RequestIsStored'
<1>1. api \in [Clients -> Client]
  BY InvParts DEF MachineTypes
<1>2. \A b \in Clients \ {c} : api'[b] = api[b]
  BY <1>1 DEF Reject, Goto
<1>3. api'[c].at \in {"ENQUEUE", "MARK", "OK"} =>
         \E a \in answers' : a.request = api'[c].request
  <2>1. CASE Reject(c)
    BY <1>1, <2>1 DEF Reject, IdleClient
  <2>2. CASE api'[c].at \in {"CHECK", "SUBMIT"}
    BY <2>2
  <2>3. CASE /\ api[c].at # "IDLE"
             /\ \E step \in ClientStep, t \in Nat : Goto(c, step, t)
             /\ \E a \in answers' : a.request = api[c].request
    <3>1. api[c] \in [at : ClientStep, request : Requests, turn : Nat, content : Contents]
      BY <1>1, <2>3 DEF Client, IdleClient
    <3>2. api'[c].request = api[c].request
      BY <1>1, <2>3, <3>1 DEF Goto
    <3>3. QED  BY <2>3, <3>2
  <2>4. QED  BY <2>1, <2>2, <2>3
<1>4. QED  BY <1>2, <1>3 DEF RequestIsStored

LEMMA SubmissionKeepsAcknowledged ==
    ASSUME EvaluationInv, RequestIsStored, NEW c \in Clients, Submission(c)
    PROVE  RequestIsStored'
<1> USE InvParts
<1>1. CASE \E r \in Requests, t \in DOMAIN turns, d \in Contents : Receive(c, r, t, d)
  <2>1. /\ api'[c].at = "CHECK" /\ \A b \in Clients \ {c} : api'[b] = api[b]
        /\ UNCHANGED answers
    BY <1>1 DEF Receive, MachineTypes
  <2>2. QED  BY <2>1, RequestsKeepTheirAnswer
<1>2. CASE Check(c)
  <2>1. /\ api[c] \in [at : ClientStep, request : Requests, turn : Nat, content : Contents]
        /\ UNCHANGED answers
    BY <1>2 DEF Check, MachineTypes, Client, IdleClient
  <2>2. CASE Reject(c)
    BY <2>1, <2>2, RequestsKeepTheirAnswer
  <2>3. CASE Goto(c, "SUBMIT", api[c].turn)
    <3>1. api'[c].at = "SUBMIT" /\ \A b \in Clients \ {c} : api'[b] = api[b]
      BY <2>1, <2>3 DEF Goto, MachineTypes
    <3>2. QED  BY <2>1, <3>1, RequestsKeepTheirAnswer
  <2>4. CASE \E a \in answers : /\ a.request = api[c].request
                                /\ Goto(c, "ENQUEUE", a.turn) \/ Acknowledge(c)
    <3>1. \A a \in answers : a.turn \in Nat
      BY DEF RowTypes
    <3>2. \E step \in ClientStep, t \in Nat : Goto(c, step, t)
      BY <2>4, <3>1 DEF Acknowledge, ClientStep
    <3>3. api[c].at # "IDLE"
      BY <1>2 DEF Check
    <3>4. QED  BY <2>1, <2>4, <3>2, <3>3, RequestsKeepTheirAnswer
  <2>5. QED  BY <1>2, <2>2, <2>3, <2>4 DEF Check, AnswersFor
<1>3. CASE Submit(c)
  <2>1. /\ api[c] \in [at : ClientStep, request : Requests, turn : Nat, content : Contents]
        /\ api[c].at # "IDLE"
    BY <1>3 DEF Submit, MachineTypes, Client, IdleClient
  <2>2. CASE Reject(c) /\ UNCHANGED answers
    BY <2>2, RequestsKeepTheirAnswer
  <2>3. CASE /\ answers \subseteq answers'
             /\ \A a \in answers' : a.turn \in Nat
             /\ \E a \in answers' : a.request = api[c].request /\ Goto(c, "ENQUEUE", a.turn)
    BY <2>1, <2>3, RequestsKeepTheirAnswer DEF ClientStep
  <2>4. CASE /\ \E a \in AnswersFor(api[c].request) : Goto(c, "ENQUEUE", a.turn)
             /\ UNCHANGED answers
    <3>1. \A a \in answers' : a.turn \in Nat
      BY <2>4 DEF RowTypes
    <3>2. QED  BY <2>3, <2>4, <3>1 DEF AnswersFor
  <2>5. CASE /\ answers' = answers \cup {[turn |-> api[c].turn, request |-> api[c].request,
                                          content |-> api[c].content]}
             /\ Goto(c, "ENQUEUE", api[c].turn)
    <3> DEFINE a0 == [turn |-> api[c].turn, request |-> api[c].request,
                      content |-> api[c].content]
    <3>1. /\ answers \subseteq answers' /\ a0 \in answers'
          /\ a0.request = api[c].request /\ a0.turn = api[c].turn
      BY <2>5
    <3>2. \A a \in answers' : a.turn \in Nat
      BY <2>1, <2>5 DEF RowTypes
    <3> HIDE DEF a0
    <3>3. Goto(c, "ENQUEUE", a0.turn)
      BY <2>5, <3>1
    <3>4. QED  BY <2>3, <3>1, <3>2, <3>3
  <2>6. QED  BY <1>3, <2>2, <2>4, <2>5 DEF Submit
<1>4. CASE EnqueueEvaluation(c) \/ EnqueueFails(c)
  <2>1. /\ api[c].at = "ENQUEUE" /\ UNCHANGED answers
        /\ Goto(c, "OK", 0) \/ Goto(c, "MARK", api[c].turn)
    BY <1>4 DEF EnqueueEvaluation, EnqueueFails, Acknowledge
  <2>2. api[c].turn \in Nat
    BY <2>1 DEF MachineTypes, Client, IdleClient
  <2>3. \E step \in ClientStep, t \in Nat : Goto(c, step, t)
    BY <2>1, <2>2 DEF ClientStep
  <2>4. \E a \in answers : a.request = api[c].request
    BY <2>1 DEF RequestIsStored
  <2>5. QED  BY <2>1, <2>3, <2>4, RequestsKeepTheirAnswer
<1>5. CASE MarkQueueUnavailable(c) \/ ApiCrash(c)
  <2>1. Reject(c) /\ UNCHANGED answers
    BY <1>5 DEF MarkQueueUnavailable, ApiCrash, Reject
  <2>2. QED  BY <2>1, RequestsKeepTheirAnswer
<1>6. QED  BY <1>1, <1>2, <1>3, <1>4, <1>5 DEF Submission

LEMMA StepKeepsAcknowledged ==
    EvaluationInv /\ RequestIsStored /\ [Next]_vars => RequestIsStored'
<1> SUFFICES ASSUME EvaluationInv, RequestIsStored, [Next]_vars
             PROVE  RequestIsStored'
  OBVIOUS
<1>1. ASSUME NEW c \in Clients, Submission(c) PROVE RequestIsStored'
  BY <1>1, SubmissionKeepsAcknowledged
<1>2. CASE Session \/ Recovery \/ UNCHANGED vars
  <2>1. UNCHANGED <<answers, api>>
    BY <1>2 DEF Session, Start, Cancel, Finish, Recovery, RecoveryScan, RecoveryEnqueue,
         RecoveryFails, ClaimGoesStale, vars
  <2>2. QED  BY <2>1 DEF RequestIsStored
<1>3. ASSUME NEW j \in JobIds, Evaluation(j) PROVE RequestIsStored'
  <2>1. UNCHANGED <<answers, api>>
    BY <1>3 DEF Evaluation, Claim, DropDelivery, LoseDelivery, Load, Evaluate, RejectOutput,
         Persist, FailEvaluation, TransientError, JobTimeout, WorkerCrash
  <2>2. QED  BY <2>1 DEF RequestIsStored
<1>4. QED  BY <1>1, <1>2, <1>3 DEF Next

\* A request keeps its text with its requestId, and stores it under this id.
LEMMA SubmissionKeepsTexts ==
    ASSUME EvaluationInv, TextsInv, NEW c \in Clients, Submission(c)
    PROVE  TextsInv'
<1> USE InvParts
<1>1. ASSUME UNCHANGED answers, api' = api \/ Reject(c) PROVE TextsInv'
  BY <1>1 DEF TextsInv, Reject, MachineTypes, IdleClient
<1>2. ASSUME NEW step, NEW t, Goto(c, step, t), api[c].at # "IDLE",
             \/ UNCHANGED answers
             \/ answers' = answers \cup {[turn |-> api[c].turn, request |-> api[c].request,
                                          content |-> api[c].content]}
      PROVE  TextsInv'
  <2>1. api[c] \in [at : ClientStep, request : Requests, turn : Nat, content : Contents]
    BY <1>2 DEF MachineTypes, Client, IdleClient
  <2>2. /\ api'[c].request = api[c].request /\ api'[c].content = api[c].content
        /\ \A b \in Clients \ {c} : api'[b] = api[b]
    BY <1>2, <2>1 DEF Goto, MachineTypes
  <2>3. api[c].content \in Texts[api[c].request]
    BY <1>2 DEF TextsInv
  <2>4. \A a \in answers' : a.content \in Texts[a.request]
    BY <1>2, <2>3 DEF TextsInv
  <2>5. QED  BY <2>2, <2>3, <2>4 DEF TextsInv
<1>3. CASE \E r \in Requests, t \in DOMAIN turns, d \in Contents : Receive(c, r, t, d)
  <2>1. PICK r \in Requests, t \in DOMAIN turns, d \in Contents : Receive(c, r, t, d)
    BY <1>3
  <2>2. /\ api'[c].content \in Texts[api'[c].request]
        /\ \A b \in Clients \ {c} : api'[b] = api[b]
        /\ UNCHANGED answers
    BY <2>1 DEF Receive, MachineTypes
  <2>3. QED  BY <2>2 DEF TextsInv
<1>4. CASE Check(c)
  BY <1>1, <1>2, <1>4 DEF Check, Acknowledge
<1>5. CASE Submit(c)
  <2>1. api[c].at # "IDLE"
    BY <1>5 DEF Submit
  <2>2. CASE Reject(c) /\ UNCHANGED answers
    BY <1>1, <2>2
  <2>3. CASE \E a \in AnswersFor(api[c].request) : Goto(c, "ENQUEUE", a.turn) /\ UNCHANGED answers
    BY <1>2, <2>1, <2>3
  <2>4. CASE /\ answers' = answers \cup {[turn |-> api[c].turn, request |-> api[c].request,
                                          content |-> api[c].content]}
             /\ Goto(c, "ENQUEUE", api[c].turn)
    BY <1>2, <2>1, <2>4
  <2>5. QED  BY <1>5, <2>2, <2>3, <2>4 DEF Submit
<1>6. CASE EnqueueEvaluation(c) \/ EnqueueFails(c)
  BY <1>2, <1>6 DEF EnqueueEvaluation, EnqueueFails, Acknowledge
<1>7. CASE MarkQueueUnavailable(c) \/ ApiCrash(c)
  BY <1>1, <1>7 DEF MarkQueueUnavailable, ApiCrash, Reject
<1>8. QED  BY <1>3, <1>4, <1>5, <1>6, <1>7 DEF Submission

LEMMA StepKeepsTexts ==
    EvaluationInv /\ TextsInv /\ [Next]_vars => TextsInv'
<1> SUFFICES ASSUME EvaluationInv, TextsInv, [Next]_vars
             PROVE  TextsInv'
  OBVIOUS
<1>1. ASSUME NEW c \in Clients, Submission(c) PROVE TextsInv'
  BY <1>1, SubmissionKeepsTexts
<1>2. CASE Session \/ Recovery \/ UNCHANGED vars
  <2>1. UNCHANGED <<answers, api>>
    BY <1>2 DEF Session, Start, Cancel, Finish, Recovery, RecoveryScan, RecoveryEnqueue,
         RecoveryFails, ClaimGoesStale, vars
  <2>2. QED  BY <2>1 DEF TextsInv
<1>3. ASSUME NEW j \in JobIds, Evaluation(j) PROVE TextsInv'
  <2>1. UNCHANGED <<answers, api>>
    BY <1>3 DEF Evaluation, Claim, DropDelivery, LoseDelivery, Load, Evaluate, RejectOutput,
         Persist, FailEvaluation, TransientError, JobTimeout, WorkerCrash
  <2>2. QED  BY <2>1 DEF TextsInv
<1>4. QED  BY <1>1, <1>2, <1>3 DEF Next

\* An id with one text has stored that text.
LEMMA StoredTextIsOwn ==
    EvaluationInv /\ RequestIsStored /\ TextsInv => AcknowledgedIsStored
<1> SUFFICES ASSUME EvaluationInv, RequestIsStored, TextsInv, NEW c \in Clients,
                    api[c].at \in {"ENQUEUE", "MARK", "OK"}
             PROVE  \E a \in AnswersFor(api[c].request) :
                        a.content = api[c].content \/ SentWithOtherTexts(a.request)
  BY DEF AcknowledgedIsStored
<1>1. PICK a \in answers : a.request = api[c].request
  BY DEF RequestIsStored
<1>2. a.content \in Texts[a.request] /\ api[c].content \in Texts[a.request]
  BY <1>1 DEF TextsInv
<1>3. QED  BY <1>1, <1>2 DEF AnswersFor, SentWithOtherTexts

\* What the API acknowledged is stored, for every interleaving of repeated
\* requests, failed enqueues and API processes that die: under its requestId, and
\* with its text if clients send only that text under this id.
THEOREM AcknowledgedIsAlwaysStored == Spec => []AcknowledgedIsStored
<1>1. Init => RequestIsStored /\ TextsInv
  BY DEF Init, RequestIsStored, TextsInv, IdleClient
<1>2. QED
  BY EvaluationInvariant, StepKeepsAcknowledged, StepKeepsTexts, StoredTextIsOwn, <1>1, PTL
  DEF Spec

-----------------------------------------------------------------------------
(* Exclusive claims.  Each delivery of a job that is still alive has put    *)
(* its claim on attempt_count, unless it was lost before the claim: two     *)
(* jobs of a turn never hold more tries than the turn has attempts, so a    *)
(* job cannot follow the recorded attempt while another one is running.     *)

DeliveryInv ==
    /\ \A j \in JobIds :
          /\ jobs[j].phase = "RUNNING" => jobs[j].try >= 1
          /\ jobs[j].phase \notin {"QUEUED", "RUNNING"} => jobs[j].try = 0
          /\ worker[j].at # "IDLE" => turns[j[1]].started = "FRESH"
    /\ spent["LOST"] = 0 =>
          \A i, j \in JobIds : i # j /\ i[1] = j[1] =>
             /\ i[1] \in DOMAIN turns => jobs[i].try + jobs[j].try <= turns[i[1]].attempts
             /\ worker[i].at = "IDLE" \/ worker[j].at = "IDLE"

\* No stored turn gets another attempt, or another start while it is evaluated.
ClaimsKept ==
    \A t \in DOMAIN turns :
       /\ t \in DOMAIN turns'
       /\ turns'[t].attempts = turns[t].attempts
       /\ \/ turns'[t].started = turns[t].started
          \/ \A j \in JobIds : j[1] = t => worker'[j].at = "IDLE"

\* No job is delivered: it stays, ends, or goes back to the queue.
JobsQuiet ==
    \A j \in JobIds :
       /\ worker'[j].at # "IDLE" => worker[j].at # "IDLE"
       /\ jobs'[j].phase = "RUNNING" => jobs'[j] = jobs[j]
       /\ jobs'[j].phase \notin {"QUEUED", "RUNNING"} => jobs'[j].try = 0
       /\ jobs'[j].try <= jobs[j].try

\* A job that has been delivered works on a stored turn.
LEMMA TriedTurnsAreStored ==
    ASSUME EvaluationInv, DeliveryInv, NEW j \in JobIds,
           worker[j].at # "IDLE" \/ jobs[j].try # 0
    PROVE  j[1] \in DOMAIN turns
<1>1. jobs[j].phase \in {"QUEUED", "RUNNING"}
  BY InvParts DEF DeliveryInv, ReferencesExist
<1>2. QED  BY <1>1, InvParts DEF ReferencesExist, GradesMatchAnswers

LEMMA QuietStepKeepsDelivery ==
    ASSUME EvaluationInv, EvaluationInv', DeliveryInv, ClaimsKept, JobsQuiet,
           spent'["LOST"] = 0 => spent["LOST"] = 0
    PROVE  DeliveryInv'
<1> USE InvParts
<1>1. jobs \in [JobIds -> Job] /\ jobs' \in [JobIds -> Job]
  BY DEF EvaluationInv, TypeOK
<1>2. \A j \in JobIds : jobs[j].try \in Nat /\ jobs'[j].try \in Nat
  BY <1>1 DEF Job
<1>3. ASSUME NEW j \in JobIds
      PROVE  /\ jobs'[j].phase = "RUNNING" => jobs'[j].try >= 1
             /\ jobs'[j].phase \notin {"QUEUED", "RUNNING"} => jobs'[j].try = 0
             /\ worker'[j].at # "IDLE" => turns'[j[1]].started = "FRESH"
  <2>1. worker[j].at # "IDLE" => j[1] \in DOMAIN turns
    BY TriedTurnsAreStored
  <2>2. QED  BY <2>1 DEF DeliveryInv, JobsQuiet, ClaimsKept
<1>4. ASSUME spent'["LOST"] = 0, NEW i \in JobIds, NEW j \in JobIds, i # j, i[1] = j[1]
      PROVE  /\ i[1] \in DOMAIN turns' => jobs'[i].try + jobs'[j].try <= turns'[i[1]].attempts
             /\ worker'[i].at = "IDLE" \/ worker'[j].at = "IDLE"
  <2>1. worker'[i].at = "IDLE" \/ worker'[j].at = "IDLE"
    BY <1>4 DEF DeliveryInv, JobsQuiet
  <2>2. CASE i[1] \in DOMAIN turns
    <3>1. jobs[i].try + jobs[j].try <= turns[i[1]].attempts
      BY <1>4, <2>2 DEF DeliveryInv
    <3>2. jobs'[i].try <= jobs[i].try /\ jobs'[j].try <= jobs[j].try
      BY DEF JobsQuiet
    <3>3. turns'[i[1]].attempts = turns[i[1]].attempts /\ turns[i[1]].attempts \in Nat
      BY <2>2, TurnIsTyped DEF ClaimsKept, RowTypes, Turn
    <3>4. QED  BY <1>2, <2>1, <3>1, <3>2, <3>3
  <2>3. CASE i[1] \in DOMAIN turns' \ DOMAIN turns
    <3>1. jobs[i].try = 0 /\ jobs[j].try = 0
      BY <1>4, <2>3, TriedTurnsAreStored
    <3>2. jobs'[i].try = 0 /\ jobs'[j].try = 0
      BY <1>2, <3>1 DEF JobsQuiet
    <3>3. turns'[i[1]].attempts \in Nat
      <4>1. turns' \in Seq(Turn)
        BY DEF EvaluationInv, TypeOK
      <4>2. turns'[i[1]] \in Turn
        BY <2>3, <4>1, ElementOfSeq, LenProperties
      <4>3. QED  BY <4>2 DEF Turn
    <3>4. QED  BY <2>1, <3>2, <3>3
  <2>4. QED  BY <2>1, <2>2, <2>3
<1>5. QED  BY <1>3, <1>4 DEF DeliveryInv

\* A delivery and its claim.  Whoever runs already keeps the claim FRESH and
\* its own tries on attempt_count.
LEMMA ClaimKeepsDelivery ==
    ASSUME EvaluationInv, EvaluationInv', DeliveryInv, NEW j \in JobIds, Claim(j)
    PROVE  DeliveryInv'
<1> USE InvParts
<1> DEFINE t == j[1]
<1>1. /\ jobs \in [JobIds -> Job] /\ \A i \in JobIds : jobs[i].try \in Nat
      /\ jobs[j].phase = "QUEUED" /\ worker[j].at = "IDLE"
      /\ MayClaim(t, jobs[j].try + 1)
      /\ spent' = spent
  BY DEF Claim, CanDeliver, ReferencesExist, MachineTypes, Job
<1>2. t \in DOMAIN turns /\ turns[t] \in Turn /\ turns[t].attempts \in Nat
  <2>1. t \in DOMAIN turns
    BY <1>1 DEF MayClaim, GradesMatchAnswers
  <2>2. QED  BY <2>1, TurnIsTyped DEF RowTypes, Turn
<1>3. /\ DOMAIN turns' = DOMAIN turns
      /\ turns'[t].started = "FRESH" /\ turns'[t].attempts = turns[t].attempts + 1
      /\ \A u \in DOMAIN turns \ {t} : turns'[u] = turns[u]
  BY <1>2 DEF Claim, Turn
<1>4. /\ jobs'[j].phase = "RUNNING" /\ jobs'[j].try = jobs[j].try + 1
      /\ worker'[j].at = "LOAD"
      /\ \A i \in JobIds \ {j} : jobs'[i] = jobs[i] /\ worker'[i] = worker[i]
  BY <1>1 DEF Claim, Delivered, Step, MachineTypes
<1>5. ASSUME spent["LOST"] = 0, NEW i \in JobIds \ {j}, i[1] = t
      PROVE  worker[i].at = "IDLE"
  <2>1. SUFFICES ASSUME worker[i].at # "IDLE" PROVE FALSE
    OBVIOUS
  <2>2. turns[t].started = "FRESH"
    BY <1>5, <2>1 DEF DeliveryInv
  <2>3. turns[t].attempts = jobs[j].try
    BY <1>1, <1>2, <2>2 DEF MayClaim
  <2>4. jobs[i].try >= 1
    BY <2>1 DEF ReferencesExist, DeliveryInv
  <2>5. jobs[i].try + jobs[j].try <= turns[t].attempts
    BY <1>2, <1>5 DEF DeliveryInv
  <2>6. QED  BY <1>1, <2>3, <2>4, <2>5
<1>6. ASSUME NEW i \in JobIds
      PROVE  /\ jobs'[i].phase = "RUNNING" => jobs'[i].try >= 1
             /\ jobs'[i].phase \notin {"QUEUED", "RUNNING"} => jobs'[i].try = 0
             /\ worker'[i].at # "IDLE" => turns'[i[1]].started = "FRESH"
  <2>1. CASE i = j
    BY <1>1, <1>3, <1>4, <2>1
  <2>2. CASE i # j
    <3>1. worker[i].at # "IDLE" => i[1] \in DOMAIN turns
      BY TriedTurnsAreStored
    <3>2. QED  BY <1>3, <1>4, <2>2, <3>1 DEF DeliveryInv
  <2>3. QED  BY <2>1, <2>2
<1>7. ASSUME spent'["LOST"] = 0, NEW i \in JobIds, NEW k \in JobIds, i # k, i[1] = k[1]
      PROVE  /\ i[1] \in DOMAIN turns' => jobs'[i].try + jobs'[k].try <= turns'[i[1]].attempts
             /\ worker'[i].at = "IDLE" \/ worker'[k].at = "IDLE"
  <2>1. /\ spent["LOST"] = 0
        /\ i[1] \in DOMAIN turns => jobs[i].try + jobs[k].try <= turns[i[1]].attempts
        /\ worker[i].at = "IDLE" \/ worker[k].at = "IDLE"
    BY <1>1, <1>7 DEF DeliveryInv
  <2>2. CASE i[1] # t
    BY <1>3, <1>4, <2>1, <2>2, <1>7
  <2>3. CASE i[1] = t /\ i # j /\ k # j
    BY <1>1, <1>2, <1>3, <1>4, <2>1, <2>3
  <2>4. CASE i = j
    BY <1>1, <1>2, <1>3, <1>4, <1>5, <1>7, <2>1, <2>4
  <2>5. CASE k = j
    BY <1>1, <1>2, <1>3, <1>4, <1>5, <1>7, <2>1, <2>5
  <2>6. QED  BY <1>7, <2>2, <2>3, <2>4, <2>5
<1>8. QED  BY <1>6, <1>7 DEF DeliveryInv

\* One stored turn is rewritten, and perhaps a new one follows it.
LEMMA RewriteKeepsClaims ==
    ASSUME turns \in Seq(Turn), NEW t \in DOMAIN turns, NEW v \in Turn,
           v.attempts = turns[t].attempts,
           \/ v.started = turns[t].started
           \/ \A j \in JobIds : j[1] = t => worker'[j].at = "IDLE",
           LET s == [turns EXCEPT ![t] = v]
           IN  turns' = s \/ \E w \in Turn : turns' = Append(s, w)
    PROVE  ClaimsKept
<1> DEFINE s == [turns EXCEPT ![t] = v]
<1>1. /\ s \in Seq(Turn) /\ DOMAIN s = DOMAIN turns
      /\ s[t] = v /\ \A u \in DOMAIN turns \ {t} : s[u] = turns[u]
  BY UpdateTurn
<1>2. turns' = s \/ \E w \in Turn : turns' = Append(s, w)
  OBVIOUS
<1> HIDE DEF s
<1>3. \A u \in DOMAIN turns : u \in DOMAIN turns' /\ turns'[u] = s[u]
  BY <1>1, <1>2, AppendTurn
<1>4. QED  BY <1>1, <1>3 DEF ClaimsKept

LEMMA SameTurnsKeepClaims ==
    ASSUME UNCHANGED turns
    PROVE  ClaimsKept
  BY DEF ClaimsKept

LEMMA FinishKeepsClaims ==
    ASSUME EvaluationInv, Finish
    PROVE  ClaimsKept
<1> USE InvParts
<1>1. PICK order \in [1 .. Cardinality(UnaskedQuestions) -> UnaskedQuestions] :
        turns' = SkipUnfinished \o [i \in DOMAIN order |-> PrimaryTurn(order[i], "SKIPPED")]
  BY DEF Finish
<1> DEFINE s == SkipUnfinished
           tail == [i \in DOMAIN order |-> PrimaryTurn(order[i], "SKIPPED")]
<1>2. \A i \in DOMAIN order : PrimaryTurn(order[i], "SKIPPED") \in Turn
  BY QuestionIsTurn DEF UnaskedQuestions, TurnStatus
<1>3. tail \in Seq(Turn)
  BY <1>2, UnaskedIsFinite
<1>4. Len(turns) \in Nat /\ DOMAIN turns = 1 .. Len(turns)
  BY LenProperties DEF RowTypes
<1>5. \A u \in DOMAIN turns : turns[u] \in Turn
  BY TurnIsTyped DEF RowTypes
<1>6. s \in [1 .. Len(turns) -> Turn]
  BY <1>4, <1>5 DEF SkipUnfinished, Turn, TurnStatus
<1>7. s \in Seq(Turn) /\ Len(s) = Len(turns)
  BY <1>4, <1>6
<1>8. \A u \in DOMAIN turns :
         s[u].attempts = turns[u].attempts /\ s[u].started = turns[u].started
  BY <1>5 DEF SkipUnfinished, Turn
<1> HIDE DEF s, tail
<1>9. /\ Len(tail) \in Nat
      /\ DOMAIN (s \o tail) = 1 .. Len(s) + Len(tail)
      /\ \A i \in 1 .. Len(s) + Len(tail) :
            (s \o tail)[i] = IF i <= Len(s) THEN s[i] ELSE tail[i - Len(s)]
  BY <1>3, <1>7, ConcatProperties, LenProperties
<1>10. \A u \in DOMAIN turns : u \in DOMAIN turns' /\ turns'[u] = s[u]
  <2>1. turns' = s \o tail
    BY <1>1 DEF s, tail
  <2>2. QED  BY <1>4, <1>7, <1>9, <2>1
<1>11. QED  BY <1>8, <1>10 DEF ClaimsKept

\* The jobs of a request or of the recovery loop: at most one is enqueued.
LEMMA EnqueueIsQuiet ==
    ASSUME jobs \in [JobIds -> Job], UNCHANGED worker, NEW id,
           jobs' = jobs \/ jobs' \in EnqueueOutcomes(jobs, id), DeliveryInv
    PROVE  JobsQuiet
<1>1. \A j \in JobIds : jobs[j].try \in Nat /\ jobs[j].phase \in JobPhase
  BY DEF Job
<1>2. jobs' = jobs \/ jobs' = Enqueued(jobs, id)
  BY OutcomeIsTyped
<1>3. \A j \in JobIds : jobs'[j] = jobs[j] \/ jobs'[j] = [phase |-> "QUEUED", try |-> 0]
  BY <1>2 DEF Enqueued
<1>4. QED  BY <1>1, <1>3 DEF JobsQuiet, DeliveryInv

\* The job of a coroutine that ends, or of a delivery that is refused.
LEMMA LeavingIsQuiet ==
    ASSUME MachineTypes, DeliveryInv, NEW j \in JobIds,
           \/ jobs' = jobs
           \/ /\ jobs' \in {Finished(jobs, j), Requeued(jobs, j)}
              /\ worker' = worker => jobs[j].phase # "RUNNING",
           \/ worker' = worker \/ worker[j].at # "IDLE",
           \A i \in JobIds \ {j} : worker'[i] = worker[i]
    PROVE  JobsQuiet
<1>1. /\ jobs \in [JobIds -> Job]
      /\ \A i \in JobIds : jobs[i].try \in Nat /\ jobs[i].phase \in JobPhase
  BY DEF MachineTypes, Job
<1>2. \A i \in JobIds \ {j} : jobs'[i] = jobs[i]
  BY <1>1 DEF Finished, Requeued
<1>3. \/ jobs'[j] = jobs[j]
      \/ jobs'[j] = [phase |-> "FINISHED", try |-> 0]
      \/ jobs'[j].phase = "QUEUED" /\ jobs'[j].try = jobs[j].try
  BY <1>1 DEF Finished, Requeued, Job
<1>4. \A i \in JobIds : worker'[i].at # "IDLE" => worker[i].at # "IDLE"
  OBVIOUS
<1>5. QED  BY <1>1, <1>2, <1>3, <1>4 DEF JobsQuiet, DeliveryInv

LEMMA SpendingIsMonotone ==
    ASSUME spent \in [BoundedEvent -> Nat],
           UNCHANGED spent \/ \E kind \in BoundedEvent : Spend(kind)
    PROVE  spent'["LOST"] = 0 => spent["LOST"] = 0
<1>1. CASE UNCHANGED spent
  BY <1>1
<1>2. ASSUME NEW kind \in BoundedEvent, Spend(kind)
      PROVE  spent'["LOST"] = 0 => spent["LOST"] = 0
  <2>1. spent["LOST"] \in Nat /\ spent'["LOST"] \in {spent["LOST"], spent["LOST"] + 1}
    BY <1>2 DEF Spend, BoundedEvent
  <2>2. QED  BY <2>1
<1>3. QED  BY <1>1, <1>2

LEMMA SubmissionKeepsDelivery ==
    ASSUME EvaluationInv, EvaluationInv', DeliveryInv, NEW c \in Clients, Submission(c)
    PROVE  DeliveryInv'
<1> USE InvParts
<1> DEFINE t == api[c].turn
<1>1. ClaimsKept
  <2>1. CASE UNCHANGED turns
    BY <2>1, SameTurnsKeepClaims
  <2>2. CASE CanAnswer(t) /\ turns' = [turns EXCEPT ![t].state = "EVALUATING",
                                ![t].started = "NONE", ![t].failure = "NONE"]
    <3> DEFINE v == [turns[t] EXCEPT !.state = "EVALUATING", !.started = "NONE", !.failure = "NONE"]
    <3>1. t \in DOMAIN turns /\ turns[t] \in Turn
      BY <2>2, TurnIsTyped DEF CanAnswer, IsCurrentTurn, RowTypes
    <3>2. v \in Turn /\ v.attempts = turns[t].attempts
      BY <3>1 DEF Turn, TurnStatus
    <3>3. turns' = [turns EXCEPT ![t] = v]
      BY <2>2
    <3>4. UNCHANGED worker
      BY DEF Submission, Receive, Check, Submit, EnqueueEvaluation, EnqueueFails,
             MarkQueueUnavailable, ApiCrash
    <3>5. \A j \in JobIds : j[1] = t => worker'[j].at = "IDLE"
      BY <2>2, <3>4, CoroutineHasAnswer DEF CanAnswer
    <3> HIDE DEF v
    <3>6. QED  BY <3>1, <3>2, <3>3, <3>5, RewriteKeepsClaims DEF RowTypes
  <2>3. CASE MarkQueueUnavailable(c) /\ turns[t].state = "EVALUATING"
    <3> DEFINE v == [turns[t] EXCEPT !.failure = "QUEUE_UNAVAILABLE"]
    <3>1. t \in DOMAIN turns /\ turns[t] \in Turn
      BY <2>3, TurnIsTyped
      DEF MarkQueueUnavailable, ReferencesExist, GradesMatchAnswers, RowTypes
    <3>2. v \in Turn /\ v.attempts = turns[t].attempts /\ v.started = turns[t].started
      BY <3>1 DEF Turn
    <3>3. turns' = [turns EXCEPT ![t] = v]
      BY <2>3 DEF MarkQueueUnavailable
    <3> HIDE DEF v
    <3>4. QED  BY <3>1, <3>2, <3>3, RewriteKeepsClaims DEF RowTypes
  <2>4. CASE Submit(c)
    BY <2>1, <2>2, <2>4 DEF Submit
  <2>5. CASE MarkQueueUnavailable(c)
    BY <2>1, <2>3, <2>5 DEF MarkQueueUnavailable
  <2>6. QED
    BY <2>1, <2>4, <2>5 DEF Submission, Receive, Check, EnqueueEvaluation, EnqueueFails, ApiCrash
<1>2. /\ UNCHANGED worker
      /\ jobs' = jobs \/ jobs' \in EnqueueOutcomes(jobs, <<t, SubmitJob>>)
      /\ UNCHANGED spent \/ \E kind \in BoundedEvent : Spend(kind)
  BY DEF Submission, Receive, Check, Submit, EnqueueEvaluation, EnqueueFails,
         MarkQueueUnavailable, ApiCrash, BoundedEvent
<1>3. JobsQuiet
  BY <1>2, EnqueueIsQuiet DEF MachineTypes
<1>4. QED  BY <1>1, <1>2, <1>3, SpendingIsMonotone, QuietStepKeepsDelivery DEF MachineTypes

LEMMA EvaluationKeepsDelivery ==
    ASSUME EvaluationInv, EvaluationInv', DeliveryInv, NEW j \in JobIds, Evaluation(j)
    PROVE  DeliveryInv'
<1> USE InvParts
<1> DEFINE t == j[1]
<1>1. CASE Claim(j)
  BY <1>1, ClaimKeepsDelivery
<1>2. CASE LoseDelivery(j)
  <2>1. /\ worker' = worker /\ turns' = turns
        /\ jobs' = Requeued(Delivered(jobs, j), j)
        /\ spent' = [spent EXCEPT !["LOST"] = @ + 1]
        /\ jobs[j].phase = "QUEUED"
    BY <1>2 DEF LoseDelivery, Spend, CanDeliver
  <2>2. spent'["LOST"] # 0
    BY <2>1 DEF MachineTypes, BoundedEvent
  <2>3. /\ \A i \in JobIds \ {j} : jobs'[i] = jobs[i]
        /\ jobs'[j].phase = "QUEUED"
    BY <2>1 DEF MachineTypes, Requeued, Delivered
  <2>4. QED  BY <2>1, <2>2, <2>3 DEF DeliveryInv
<1>3. CASE DropDelivery(j)
  <2>1. JobsQuiet
    BY <1>3, LeavingIsQuiet DEF DropDelivery
  <2>2. QED  BY <1>3, <2>1, SameTurnsKeepClaims, QuietStepKeepsDelivery DEF DropDelivery
<1>4. CASE ~(Claim(j) \/ LoseDelivery(j) \/ DropDelivery(j))
  <2>1. /\ worker[j].at # "IDLE"
        /\ UNCHANGED jobs \/ jobs' \in {Finished(jobs, j), Requeued(jobs, j)}
        /\ UNCHANGED spent \/ \E kind \in BoundedEvent : Spend(kind)
        /\ \/ UNCHANGED turns \/ Persist(j) \/ FailEvaluation(j)
    BY <1>4 DEF Evaluation, Load, Evaluate, RejectOutput, Persist, FailEvaluation,
         TransientError, JobTimeout, WorkerCrash, End, BoundedEvent, InWorkflow
  <2>2. \E w : worker' = [worker EXCEPT ![j] = w]
    <3>1. (\E next : Step(j, next)) => \E w : worker' = [worker EXCEPT ![j] = w]
      <4> SUFFICES ASSUME NEW next, Step(j, next)
                   PROVE  worker' = [worker EXCEPT ![j] = [worker[j] EXCEPT !.at = next]]
        OBVIOUS
      <4> QED  BY DEF Step
    <3>2. QED
      BY <1>4, <3>1 DEF Evaluation, Load, Evaluate, RejectOutput, Persist, FailEvaluation,
         TransientError, JobTimeout, WorkerCrash, End
  <2>3. jobs[j].phase = "RUNNING" /\ \A i \in JobIds \ {j} : worker'[i] = worker[i]
    BY <2>1, <2>2 DEF ReferencesExist, MachineTypes
  <2>4. jobs' # jobs => worker' # worker
    <3>1. UNCHANGED jobs \/ worker' = [worker EXCEPT ![j] = IdleWorker]
      BY <1>4 DEF Evaluation, Load, Evaluate, RejectOutput, Persist, FailEvaluation,
           TransientError, JobTimeout, WorkerCrash, End
    <3>2. QED  BY <2>1, <3>1 DEF MachineTypes, IdleWorker
  <2>5. JobsQuiet
    BY <2>1, <2>3, <2>4, LeavingIsQuiet
  <2>6. t \in DOMAIN turns /\ turns[t] \in Turn
    BY <2>1, CoroutineHasAnswer
  <2>7. CASE Persist(j)
    <3> SUFFICES ClaimsKept
      BY <2>1, <2>5, SpendingIsMonotone, QuietStepKeepsDelivery DEF MachineTypes
    <3>1. CASE UNCHANGED turns
      BY <3>1, SameTurnsKeepClaims
    <3>2. CASE turns' = CompletedTurn(t) \/ \E w \in Turn : turns' = Append(CompletedTurn(t), w)
      <4> DEFINE v == [turns[t] EXCEPT !.state = "COMPLETED", !.failure = "NONE"]
      <4>1. v \in Turn /\ v.attempts = turns[t].attempts /\ v.started = turns[t].started
        BY <2>6 DEF Turn, TurnStatus
      <4>2. CompletedTurn(t) = [turns EXCEPT ![t] = v]
        BY DEF CompletedTurn
      <4> HIDE DEF v
      <4>3. QED  BY <2>6, <3>2, <4>1, <4>2, RewriteKeepsClaims DEF RowTypes
    <3>3. CASE PersistNextQuestion(t)
      <4>1. index + 2 \in 1 .. NumQuestions
        BY <3>3, EvaluationAssumption DEF PersistNextQuestion, RowTypes
      <4>2. PrimaryTurn(index + 2, "WAITING_ANSWER") \in Turn
        BY <4>1, QuestionIsTurn DEF TurnStatus
      <4>3. QED  BY <3>2, <3>3, <4>2 DEF PersistNextQuestion
    <3>4. CASE PersistFollowUp(t)
      BY <2>6, <3>2, <3>4, FollowUpIsTurn DEF PersistFollowUp, RowTypes
    <3>5. QED
      BY <2>7, <3>1, <3>2, <3>3, <3>4 DEF Persist, PersistNothing, PersistLastQuestion
  <2>8. CASE FailEvaluation(j)
    <3> SUFFICES ClaimsKept
      BY <2>1, <2>5, SpendingIsMonotone, QuietStepKeepsDelivery DEF MachineTypes
    <3>1. CASE UNCHANGED turns
      BY <3>1, SameTurnsKeepClaims
    <3>2. CASE turns' = [turns EXCEPT ![t].state = "FAILED", ![t].failure = "EVALUATION_FAILED"]
      <4> DEFINE v == [turns[t] EXCEPT !.state = "FAILED", !.failure = "EVALUATION_FAILED"]
      <4>1. v \in Turn /\ v.attempts = turns[t].attempts /\ v.started = turns[t].started
        BY <2>6 DEF Turn, TurnStatus
      <4>2. turns' = [turns EXCEPT ![t] = v]
        BY <3>2
      <4> HIDE DEF v
      <4>3. QED  BY <2>6, <4>1, <4>2, RewriteKeepsClaims DEF RowTypes
    <3>3. QED  BY <2>8, <3>1, <3>2 DEF FailEvaluation
  <2>9. CASE UNCHANGED turns
    BY <2>1, <2>5, <2>9, SameTurnsKeepClaims, SpendingIsMonotone, QuietStepKeepsDelivery
    DEF MachineTypes
  <2>10. QED  BY <2>1, <2>7, <2>8, <2>9
<1>5. QED  BY <1>1, <1>2, <1>3, <1>4

LEMMA StepKeepsDelivery ==
    ASSUME StaleAfterTimeout, EvaluationInv, EvaluationInv', DeliveryInv, [Next]_vars
    PROVE  DeliveryInv'
<1> USE InvParts
<1>1. ASSUME UNCHANGED <<jobs, worker, spent>>, ClaimsKept PROVE DeliveryInv'
  <2>1. JobsQuiet
    BY <1>1, EnqueueIsQuiet DEF MachineTypes
  <2>2. QED  BY <1>1, <2>1, QuietStepKeepsDelivery
<1>2. CASE Session
  <2>1. UNCHANGED <<jobs, worker, spent>>
    BY <1>2 DEF Session, Start, Cancel, Finish
  <2>2. CASE Start
    BY <1>1, <2>1, <2>2 DEF Start, OneOpenTurn, ClaimsKept
  <2>3. CASE Cancel
    BY <1>1, <2>1, <2>3, SameTurnsKeepClaims DEF Cancel
  <2>4. CASE Finish
    BY <1>1, <2>1, <2>4, FinishKeepsClaims
  <2>5. QED  BY <1>2, <2>2, <2>3, <2>4 DEF Session
<1>3. ASSUME NEW c \in Clients, Submission(c) PROVE DeliveryInv'
  BY <1>3, SubmissionKeepsDelivery
<1>4. ASSUME NEW j \in JobIds, Evaluation(j) PROVE DeliveryInv'
  BY <1>4, EvaluationKeepsDelivery
<1>5. ASSUME NEW t \in DOMAIN turns, ClaimGoesStale(t) PROVE DeliveryInv'
  <2> DEFINE v == [turns[t] EXCEPT !.started = "STALE"]
  <2>1. /\ turns[t] \in Turn /\ turns' = [turns EXCEPT ![t] = v]
        /\ UNCHANGED <<jobs, worker, spent>>
        /\ \A j \in JobIds : j[1] = t => worker'[j].at = "IDLE"
    BY <1>5, TurnIsTyped DEF ClaimGoesStale, RowTypes
  <2>2. v \in Turn /\ v.attempts = turns[t].attempts
    BY <2>1 DEF Turn
  <2> HIDE DEF v
  <2>3. ClaimsKept
    BY <2>1, <2>2, RewriteKeepsClaims DEF RowTypes
  <2>4. QED  BY <1>1, <2>1, <2>3
<1>6. CASE RecoveryScan \/ RecoveryFails \/ \E j \in JobIds : RecoveryEnqueue(j)
  <2>1. /\ UNCHANGED <<worker, turns>>
        /\ \E id : jobs' = jobs \/ jobs' \in EnqueueOutcomes(jobs, id)
        /\ UNCHANGED spent \/ \E kind \in BoundedEvent : Spend(kind)
    BY <1>6 DEF RecoveryScan, RecoveryFails, RecoveryEnqueue, BoundedEvent
  <2>2. JobsQuiet
    BY <2>1, EnqueueIsQuiet DEF MachineTypes
  <2>3. QED
    BY <2>1, <2>2, SameTurnsKeepClaims, SpendingIsMonotone, QuietStepKeepsDelivery
    DEF MachineTypes
<1>7. CASE UNCHANGED vars
  BY <1>1, <1>7, SameTurnsKeepClaims DEF vars
<1>8. QED  BY <1>2, <1>3, <1>4, <1>5, <1>6, <1>7 DEF Next, Recovery

\* As long as stale_seconds exceeds job_timeout, which the defaults do, no two
\* coroutines evaluate the same turn, whichever of its job ids they run under,
\* unless a delivery was lost between the queue and its claim.
THEOREM EvaluationClaimsAreExclusive ==
    ASSUME StaleAfterTimeout
    PROVE  Spec => []ClaimIsExclusive
<1>1. Init => DeliveryInv
  BY DEF Init, DeliveryInv, EmptyQueue, NoJob, IdleWorker
<1>2. EvaluationInv /\ EvaluationInv' /\ DeliveryInv /\ [Next]_vars => DeliveryInv'
  BY StepKeepsDelivery
<1>3. DeliveryInv => ClaimIsExclusive
  BY DEF DeliveryInv, ClaimIsExclusive
<1>4. QED  BY EvaluationInvariant, <1>1, <1>2, <1>3, PTL DEF Spec

-----------------------------------------------------------------------------
(* What a step does to the rows, without the jobs and requests around it:  *)
(* it starts, cancels or finishes the interview, or it replaces the open   *)
(* turn and, when that grades it, moves the interview on once.             *)

\* A coroutine that is about to store a follow-up still has room for it.
FollowUpsAreDue ==
    \A j \in JobIds :
        worker[j].at = "PERSIST" /\ worker[j].followUp /\ turns[j[1]].state \in ActiveTurn =>
            Decide(TRUE, turns[j[1]].depth, FollowUpCount)

SameQuestion(v, w) ==
    v.kind = w.kind /\ v.question = w.question /\ v.parent = w.parent /\ v.depth = w.depth

\* The open turn t becomes v, under evaluation.
Rewrites(t, v) ==
    /\ v.state = "EVALUATING"
    /\ turns' = [turns EXCEPT ![t] = v]
    /\ UNCHANGED <<status, index, evaluations>>

\* The evaluation of t fails and ends the interview.
Fails(t, v) ==
    /\ turns[t].state = "EVALUATING" /\ v.state = "FAILED"
    /\ turns' = [turns EXCEPT ![t] = v]
    /\ status' = "FAILED"
    /\ UNCHANGED <<index, evaluations>>

\* t is graded, and a follow-up, the next question or the end comes of it.
Grades(t, v) ==
    /\ turns[t].state = "EVALUATING" /\ v.state = "COMPLETED"
    /\ evaluations' = evaluations \cup {t}
    /\ \/ /\ Decide(TRUE, turns[t].depth, FollowUpCount)
          /\ turns' = Append([turns EXCEPT ![t] = v], FollowUpTurn(t))
          /\ UNCHANGED <<status, index>>
       \/ /\ index + 2 <= NumQuestions
          /\ turns' = Append([turns EXCEPT ![t] = v], PrimaryTurn(index + 2, "WAITING_ANSWER"))
          /\ index' = index + 1
          /\ UNCHANGED status
       \/ /\ index + 2 > NumQuestions
          /\ turns' = [turns EXCEPT ![t] = v]
          /\ status' = "COMPLETED"
          /\ UNCHANGED index

OpenTurnStep ==
    \E t \in DOMAIN turns, v \in Turn :
        /\ turns[t].state \in ActiveTurn
        /\ SameQuestion(v, turns[t])
        /\ Rewrites(t, v) \/ Fails(t, v) \/ Grades(t, v)

RowStep ==
    \/ UNCHANGED <<status, index, turns, evaluations>>
    \/ Start \/ Cancel \/ Finish
    \/ OpenTurnStep

LEMMA SubmissionIsRowStep ==
    ASSUME EvaluationInv, NEW c \in Clients, Submission(c)
    PROVE  RowStep
<1> USE InvParts
<1> DEFINE t == api[c].turn
<1>1. CASE UNCHANGED turns
  BY <1>1 DEF RowStep, Submission, Receive, Check, Submit, EnqueueEvaluation, EnqueueFails,
     MarkQueueUnavailable, ApiCrash
<1>2. CASE /\ CanAnswer(t)
           /\ turns' = [turns EXCEPT ![t].state = "EVALUATING",
                                     ![t].started = "NONE", ![t].failure = "NONE"]
           /\ UNCHANGED <<status, index, evaluations>>
  <2> DEFINE v == [turns[t] EXCEPT !.state = "EVALUATING", !.started = "NONE", !.failure = "NONE"]
  <2>1. t \in DOMAIN turns /\ turns[t] \in Turn /\ turns[t].state \in ActiveTurn
    BY <1>2, TurnIsTyped DEF CanAnswer, IsCurrentTurn, RowTypes
  <2>2. v \in Turn /\ v.state = "EVALUATING" /\ SameQuestion(v, turns[t])
    BY <2>1 DEF Turn, TurnStatus, SameQuestion
  <2>3. turns' = [turns EXCEPT ![t] = v]
    BY <1>2
  <2> HIDE DEF v
  <2>4. QED  BY <1>2, <2>1, <2>2, <2>3 DEF RowStep, OpenTurnStep, Rewrites
<1>3. CASE MarkQueueUnavailable(c) /\ turns[t].state = "EVALUATING"
  <2> DEFINE v == [turns[t] EXCEPT !.failure = "QUEUE_UNAVAILABLE"]
  <2>1. t \in DOMAIN turns /\ turns[t] \in Turn
    BY <1>3, TurnIsTyped
    DEF MarkQueueUnavailable, ReferencesExist, GradesMatchAnswers, RowTypes
  <2>2. v \in Turn /\ v.state = "EVALUATING" /\ SameQuestion(v, turns[t])
    BY <1>3, <2>1 DEF Turn, SameQuestion
  <2>3. turns' = [turns EXCEPT ![t] = v] /\ UNCHANGED <<status, index, evaluations>>
    BY <1>3 DEF MarkQueueUnavailable
  <2> HIDE DEF v
  <2>4. QED  BY <1>3, <2>1, <2>2, <2>3 DEF RowStep, OpenTurnStep, Rewrites, ActiveTurn
<1>4. CASE Submit(c)
  BY <1>1, <1>2, <1>4 DEF Submit
<1>5. CASE MarkQueueUnavailable(c)
  BY <1>1, <1>3, <1>5 DEF MarkQueueUnavailable
<1>6. QED
  BY <1>1, <1>4, <1>5 DEF Submission, Receive, Check, EnqueueEvaluation, EnqueueFails, ApiCrash

LEMMA PersistIsRowStep ==
    ASSUME EvaluationInv, FollowUpsAreDue, NEW j \in JobIds, Persist(j)
    PROVE  RowStep
<1> USE InvParts
<1> DEFINE t == j[1]
           v == [turns[t] EXCEPT !.state = "COMPLETED", !.failure = "NONE"]
<1>1. t \in DOMAIN turns /\ turns[t] \in Turn
  BY CoroutineHasAnswer DEF Persist
<1>2. v \in Turn /\ v.state = "COMPLETED" /\ SameQuestion(v, turns[t])
  BY <1>1 DEF Turn, TurnStatus, SameQuestion
<1>3. CompletedTurn(t) = [turns EXCEPT ![t] = v]
  BY DEF CompletedTurn
<1> HIDE DEF v
<1>4. CASE PersistNothing(t)
  BY <1>4 DEF PersistNothing, RowStep
<1>5. MayPersist(t) => turns[t].state = "EVALUATING" /\ turns[t].state \in ActiveTurn
  BY DEF MayPersist, IsActive, ActiveTurn
<1>6. CASE worker[j].followUp /\ PersistFollowUp(t)
  <2>1. Decide(TRUE, turns[t].depth, FollowUpCount)
    BY <1>5, <1>6 DEF FollowUpsAreDue, Persist, PersistFollowUp
  <2>2. Grades(t, v)
    BY <1>2, <1>3, <1>5, <1>6, <2>1 DEF PersistFollowUp, Grades
  <2>3. QED  BY <1>1, <1>2, <1>5, <1>6, <2>2 DEF PersistFollowUp, RowStep, OpenTurnStep
<1>7. CASE PersistNextQuestion(t)
  <2>1. Grades(t, v)
    BY <1>2, <1>3, <1>5, <1>7 DEF PersistNextQuestion, Grades
  <2>2. QED  BY <1>1, <1>2, <1>5, <1>7, <2>1 DEF PersistNextQuestion, RowStep, OpenTurnStep
<1>8. CASE PersistLastQuestion(t)
  <2>1. Grades(t, v)
    BY <1>2, <1>3, <1>5, <1>8 DEF PersistLastQuestion, Grades
  <2>2. QED  BY <1>1, <1>2, <1>5, <1>8, <2>1 DEF PersistLastQuestion, RowStep, OpenTurnStep
<1>9. QED  BY <1>4, <1>6, <1>7, <1>8 DEF Persist

LEMMA EvaluationIsRowStep ==
    ASSUME EvaluationInv, FollowUpsAreDue, NEW j \in JobIds, Evaluation(j)
    PROVE  RowStep
<1> USE InvParts
<1> DEFINE t == j[1]
<1>1. CASE UNCHANGED <<status, index, turns, evaluations>>
  BY <1>1 DEF RowStep
<1>2. CASE Claim(j)
  <2> DEFINE v == [turns[t] EXCEPT !.started = "FRESH", !.attempts = @ + 1, !.failure = "NONE"]
  <2>1. turns[t].state = "EVALUATING" /\ \E a \in answers : a.turn = t
    BY <1>2 DEF Claim, MayClaim
  <2>2. t \in DOMAIN turns /\ turns[t] \in Turn
    BY <2>1, TurnIsTyped DEF GradesMatchAnswers, RowTypes
  <2>3. v \in Turn /\ v.state = "EVALUATING"
    BY <2>1, <2>2, ClaimedIsTyped
  <2>4. SameQuestion(v, turns[t])
    BY <2>2 DEF Turn, SameQuestion
  <2>5. turns' = [turns EXCEPT ![t] = v] /\ UNCHANGED <<status, index, evaluations>>
    BY <1>2 DEF Claim
  <2> HIDE DEF v
  <2>6. QED  BY <2>1, <2>2, <2>3, <2>4, <2>5 DEF RowStep, OpenTurnStep, Rewrites, ActiveTurn
<1>3. CASE Persist(j)
  BY <1>3, PersistIsRowStep
<1>4. CASE FailEvaluation(j) /\ ~(status \in TerminalSession \/ turns[t].state \in TerminalTurn)
  <2> DEFINE v == [turns[t] EXCEPT !.state = "FAILED", !.failure = "EVALUATION_FAILED"]
  <2>1. t \in DOMAIN turns /\ turns[t] \in Turn /\ \E a \in answers : a.turn = t
    BY <1>4, CoroutineHasAnswer DEF FailEvaluation
  <2>2. turns[t].state = "EVALUATING"
    BY <1>4, <2>1 DEF GradesMatchAnswers, Turn, TurnStatus, TerminalTurn
  <2>3. v \in Turn /\ v.state = "FAILED" /\ SameQuestion(v, turns[t])
    BY <2>1 DEF Turn, TurnStatus, SameQuestion
  <2>4. t \notin evaluations
    BY <2>2 DEF GradesMatchAnswers
  <2>5. /\ turns' = [turns EXCEPT ![t] = v] /\ status' = "FAILED"
        /\ UNCHANGED <<index, evaluations>>
    BY <1>4, <2>4 DEF FailEvaluation
  <2> HIDE DEF v
  <2>6. QED  BY <2>1, <2>2, <2>3, <2>5 DEF RowStep, OpenTurnStep, Fails, ActiveTurn
<1>5. CASE FailEvaluation(j)
  BY <1>1, <1>4, <1>5 DEF FailEvaluation
<1>6. QED
  BY <1>1, <1>2, <1>3, <1>5
  DEF Evaluation, DropDelivery, LoseDelivery, Load, Evaluate, RejectOutput,
      TransientError, JobTimeout, WorkerCrash

LEMMA EveryStepIsARowStep ==
    ASSUME EvaluationInv, FollowUpsAreDue, [Next]_vars
    PROVE  RowStep
<1> USE InvParts
<1>1. ASSUME NEW t \in DOMAIN turns, ClaimGoesStale(t) PROVE RowStep
  <2> DEFINE v == [turns[t] EXCEPT !.started = "STALE"]
  <2>1. turns[t] \in Turn /\ turns[t].state = "EVALUATING"
    BY <1>1, TurnIsTyped DEF ClaimGoesStale, RowTypes
  <2>2. v \in Turn /\ v.state = "EVALUATING" /\ SameQuestion(v, turns[t])
    BY <2>1 DEF Turn, SameQuestion
  <2>3. turns' = [turns EXCEPT ![t] = v] /\ UNCHANGED <<status, index, evaluations>>
    BY <1>1 DEF ClaimGoesStale
  <2> HIDE DEF v
  <2>4. QED  BY <2>1, <2>2, <2>3 DEF RowStep, OpenTurnStep, Rewrites, ActiveTurn
<1>2. CASE Recovery
  BY <1>1, <1>2 DEF Recovery, RecoveryScan, RecoveryEnqueue, RecoveryFails, RowStep
<1>3. CASE Session \/ UNCHANGED vars
  BY <1>3 DEF Session, RowStep, vars
<1>4. QED
  BY <1>2, <1>3, SubmissionIsRowStep, EvaluationIsRowStep DEF Next

FollowUps == {t \in DOMAIN turns : turns[t].kind = "FOLLOW_UP"}

LEMMA FollowUpsAreFinite ==
    ASSUME turns \in Seq(Turn)
    PROVE  IsFiniteSet(FollowUps) /\ FollowUpCount = Cardinality(FollowUps) /\ FollowUpCount \in Nat
<1>1. DOMAIN turns = 1 .. Len(turns) /\ Len(turns) \in Nat
  BY LenProperties
<1>2. IsFiniteSet(DOMAIN turns)
  BY <1>1, FS_Interval
<1>3. FollowUps \in SUBSET DOMAIN turns
  BY DEF FollowUps
<1>4. IsFiniteSet(FollowUps)
  BY <1>2, <1>3, FS_Subset
<1>5. QED  BY <1>4, FS_CardinalityType DEF FollowUpCount, FollowUps

\* The open turn keeps its question, so the turns differ by what is appended.
LEMMA OpenTurnReplaced ==
    ASSUME EvaluationInv, NEW t \in DOMAIN turns, NEW v \in Turn,
           turns[t].state \in ActiveTurn, SameQuestion(v, turns[t])
    PROVE  LET s == [turns EXCEPT ![t] = v] IN
           /\ s \in Seq(Turn) /\ Len(s) = t /\ Len(turns) = t
           /\ DOMAIN s = DOMAIN turns /\ DOMAIN turns = 1 .. t /\ t \in Nat \ {0}
           /\ s[t] = v
           /\ \A u \in DOMAIN turns \ {t} : s[u] = turns[u] /\ turns[u].state = "COMPLETED"
           /\ \A u \in DOMAIN turns : SameQuestion(s[u], turns[u])
           /\ status = "IN_PROGRESS"
<1> USE InvParts
<1> DEFINE s == [turns EXCEPT ![t] = v]
<1>1. Len(turns) \in Nat /\ DOMAIN turns = 1 .. Len(turns)
  BY LenProperties DEF RowTypes
<1>2. /\ s \in Seq(Turn) /\ Len(s) = Len(turns) /\ DOMAIN s = DOMAIN turns /\ s[t] = v
      /\ \A u \in DOMAIN turns \ {t} : s[u] = turns[u]
  BY UpdateTurn DEF RowTypes
<1>3. /\ status = "IN_PROGRESS" /\ t = Len(turns)
      /\ \A u \in 1 .. (Len(turns) - 1) : turns[u].state = "COMPLETED"
  BY OpenTurnIsLast
<1> HIDE DEF s
<1>4. \A u \in DOMAIN turns : SameQuestion(s[u], turns[u])
  BY <1>2 DEF SameQuestion
<1>5. QED  BY <1>1, <1>2, <1>3, <1>4 DEF s

LEMMA ReplacingKeepsCounts ==
    ASSUME turns \in Seq(Turn), DOMAIN turns' = DOMAIN turns,
           \A u \in DOMAIN turns : SameQuestion(turns'[u], turns[u])
    PROVE  FollowUpCount' = FollowUpCount /\ PrimaryTurns' = PrimaryTurns
  BY DEF SameQuestion, FollowUpCount, PrimaryTurns

LEMMA AppendingCounts ==
    ASSUME turns \in Seq(Turn), NEW s \in Seq(Turn), NEW w \in Turn,
           NEW t \in Nat, Len(s) = t, DOMAIN turns = 1 .. t, turns' = Append(s, w),
           \A u \in DOMAIN turns : SameQuestion(s[u], turns[u])
    PROVE  /\ turns' \in Seq(Turn) /\ Len(turns') = t + 1 /\ DOMAIN turns' = 1 .. (t + 1)
           /\ turns'[t + 1] = w
           /\ \A u \in DOMAIN turns : turns'[u] = s[u] /\ SameQuestion(turns'[u], turns[u])
           /\ w.kind = "FOLLOW_UP" =>
                 FollowUpCount' = FollowUpCount + 1 /\ PrimaryTurns' = PrimaryTurns
           /\ w.kind = "PRIMARY" =>
                 FollowUpCount' = FollowUpCount /\ PrimaryTurns' = PrimaryTurns \cup {t + 1}
<1>1. /\ turns' \in Seq(Turn) /\ Len(turns') = t + 1 /\ turns'[t + 1] = w
      /\ DOMAIN turns' = DOMAIN s \cup {t + 1}
      /\ \A u \in DOMAIN s : turns'[u] = s[u]
  BY AppendTurn
<1>2. DOMAIN s = 1 .. t
  BY LenProperties
<1>3. DOMAIN turns' = 1 .. (t + 1)
  BY <1>1, <1>2
<1>4. \A u \in DOMAIN turns : turns'[u] = s[u] /\ SameQuestion(turns'[u], turns[u])
  BY <1>1, <1>2
<1>5. ASSUME w.kind = "FOLLOW_UP"
      PROVE  FollowUpCount' = FollowUpCount + 1 /\ PrimaryTurns' = PrimaryTurns
  <2>1. PrimaryTurns' = PrimaryTurns
    BY <1>1, <1>2, <1>4, <1>5 DEF PrimaryTurns, SameQuestion
  <2>2. FollowUps' = FollowUps \cup {t + 1} /\ t + 1 \notin FollowUps
    BY <1>1, <1>2, <1>4, <1>5 DEF FollowUps, SameQuestion
  <2>3. Cardinality(FollowUps') = Cardinality(FollowUps) + 1
    BY <2>2, FollowUpsAreFinite, FS_AddElement
  <2>4. FollowUpCount = Cardinality(FollowUps) /\ FollowUpCount' = Cardinality(FollowUps')
    BY DEF FollowUpCount, FollowUps
  <2>5. QED  BY <2>1, <2>3, <2>4
<1>6. ASSUME w.kind = "PRIMARY"
      PROVE  FollowUpCount' = FollowUpCount /\ PrimaryTurns' = PrimaryTurns \cup {t + 1}
  <2>1. PrimaryTurns' = PrimaryTurns \cup {t + 1}
    BY <1>1, <1>2, <1>4, <1>6 DEF PrimaryTurns, SameQuestion
  <2>2. FollowUps' = FollowUps
    BY <1>1, <1>2, <1>4, <1>6 DEF FollowUps, SameQuestion
  <2>3. QED  BY <2>1, <2>2 DEF FollowUpCount, FollowUps
<1>7. QED  BY <1>1, <1>3, <1>4, <1>5, <1>6

\* The turns finish leaves behind.
LEMMA FinishedTurns ==
    ASSUME EvaluationInv, Finish
    PROVE  LET n == Cardinality(UnaskedQuestions) IN
           /\ n \in Nat /\ Len(turns) \in Nat /\ DOMAIN turns = 1 .. Len(turns)
           /\ DOMAIN turns' = 1 .. (Len(turns) + n)
           /\ DOMAIN turns \subseteq DOMAIN turns'
           /\ \A u \in DOMAIN turns : SameQuestion(turns'[u], turns[u])
           /\ \E order \in [1 .. n -> UnaskedQuestions] :
                 /\ \A i, k \in 1 .. n : i < k => order[i] < order[k]
                 /\ \A i \in 1 .. n : turns'[Len(turns) + i] = PrimaryTurn(order[i], "SKIPPED")
<1> USE InvParts
<1> DEFINE n == Cardinality(UnaskedQuestions)
<1>1. n \in Nat /\ Len(turns) \in Nat /\ DOMAIN turns = 1 .. Len(turns)
  BY UnaskedIsFinite, LenProperties DEF RowTypes
<1>2. PICK order \in [1 .. n -> UnaskedQuestions] :
        /\ \A i, k \in DOMAIN order : i < k => order[i] < order[k]
        /\ turns' = SkipUnfinished \o [i \in DOMAIN order |-> PrimaryTurn(order[i], "SKIPPED")]
  BY DEF Finish
<1> DEFINE s == SkipUnfinished
           tail == [i \in DOMAIN order |-> PrimaryTurn(order[i], "SKIPPED")]
<1>3. \A i \in 1 .. n : PrimaryTurn(order[i], "SKIPPED") \in Turn
  BY QuestionIsTurn DEF UnaskedQuestions, TurnStatus
<1>4. /\ tail \in Seq(Turn) /\ Len(tail) = n
      /\ \A i \in 1 .. n : tail[i] = PrimaryTurn(order[i], "SKIPPED")
  BY <1>1, <1>3
<1>5. \A u \in DOMAIN turns : turns[u] \in Turn
  BY TurnIsTyped DEF RowTypes
<1>6. s \in [1 .. Len(turns) -> Turn]
  BY <1>1, <1>5 DEF SkipUnfinished, Turn, TurnStatus
<1>7. /\ s \in Seq(Turn) /\ Len(s) = Len(turns)
      /\ \A u \in DOMAIN turns : SameQuestion(s[u], turns[u])
  BY <1>1, <1>5, <1>6 DEF SkipUnfinished, SameQuestion, Turn
<1>8. turns' = s \o tail
  BY <1>2
<1> HIDE DEF s, tail
<1>9. /\ DOMAIN turns' = 1 .. (Len(turns) + n)
      /\ \A i \in 1 .. (Len(turns) + n) :
            turns'[i] = IF i <= Len(turns) THEN s[i] ELSE tail[i - Len(turns)]
  BY <1>1, <1>4, <1>7, <1>8, ConcatProperties, LenProperties
<1>10. \A u \in DOMAIN turns : SameQuestion(turns'[u], turns[u])
  <2>1. \A u \in DOMAIN turns : turns'[u] = s[u]
    BY <1>1, <1>9
  <2>2. QED  BY <1>7, <2>1
<1>11. \A i \in 1 .. n : turns'[Len(turns) + i] = PrimaryTurn(order[i], "SKIPPED")
  <2> TAKE i \in 1 .. n
  <2>1. /\ Len(turns) + i \in 1 .. (Len(turns) + n) /\ ~(Len(turns) + i <= Len(turns))
        /\ (Len(turns) + i) - Len(turns) = i
    BY <1>1
  <2>2. QED  BY <1>4, <1>9, <2>1
<1>12. DOMAIN turns \subseteq DOMAIN turns'
  BY <1>1, <1>9
<1>13. QED  BY <1>1, <1>2, <1>9, <1>10, <1>11, <1>12

\* A strictly increasing enumeration of as many questions as are unasked
\* reaches every one of them.
LEMMA OrderIsOnto ==
    ASSUME NEW order \in [1 .. Cardinality(UnaskedQuestions) -> UnaskedQuestions],
           \A i, k \in 1 .. Cardinality(UnaskedQuestions) : i < k => order[i] < order[k]
    PROVE  \A q \in UnaskedQuestions :
              \E i \in 1 .. Cardinality(UnaskedQuestions) : order[i] = q
<1> DEFINE U == UnaskedQuestions
           n == Cardinality(U)
<1>1. n \in Nat /\ IsFiniteSet(U) /\ U \subseteq Nat
  <2>1. IsFiniteSet(1 .. NumQuestions)
    BY FS_Interval, EvaluationAssumption
  <2>2. U \in SUBSET (1 .. NumQuestions)
    BY DEF UnaskedQuestions
  <2>3. IsFiniteSet(U)
    BY <2>1, <2>2, FS_Subset
  <2>4. U \subseteq Nat
    BY EvaluationAssumption DEF UnaskedQuestions
  <2>5. QED  BY <2>3, <2>4, UnaskedIsFinite
<1>2. order \in Injection(1 .. n, U)
  <2>1. \A i, k \in 1 .. n : order[i] = order[k] => i = k
    <3> TAKE i, k \in 1 .. n
    <3>1. i < k \/ k < i \/ i = k
      BY <1>1
    <3>2. order[i] \in Nat /\ order[k] \in Nat
      BY <1>1
    <3>3. QED  BY <3>1, <3>2
  <2>2. order \in [1 .. n -> U] /\ DOMAIN order = 1 .. n
    OBVIOUS
  <2>3. IsInjective(order)
    BY <2>1, <2>2 DEF IsInjective
  <2>4. QED  BY <2>2, <2>3 DEF Injection
<1>3. Cardinality(1 .. n) = n
  BY <1>1, FS_Interval
<1>4. order \in Surjection(1 .. n, U)
  BY <1>1, <1>2, <1>3, FS_Injection
<1>5. QED  BY <1>4 DEF Surjection

\* Steps of the jobs that let a coroutine reach PERSIST.
LEMMA StepKeepsDue ==
    ASSUME EvaluationInv, EvaluationInv', FollowUpsAreDue, [Next]_vars
    PROVE  FollowUpsAreDue'
<1> SUFFICES ASSUME NEW j \in JobIds, worker'[j].at = "PERSIST", worker'[j].followUp,
                    turns'[j[1]].state \in ActiveTurn
             PROVE  Decide(TRUE, turns'[j[1]].depth, FollowUpCount')
  BY DEF FollowUpsAreDue, Decide
<1> USE InvParts
<1> DEFINE t == j[1]
<1>1. worker'[j] = worker[j] \/ Evaluate(j)
  <2>1. CASE UNCHANGED worker
    BY <2>1
  <2>2. ASSUME NEW i \in JobIds, Evaluation(i) PROVE worker'[j] = worker[j] \/ Evaluate(j)
    <3>1. CASE i # j
      BY <2>2, <3>1 DEF Evaluation, Claim, DropDelivery, LoseDelivery, Load, Evaluate,
         RejectOutput, Persist, FailEvaluation, TransientError, JobTimeout, WorkerCrash,
         Step, End, MachineTypes
    <3>2. CASE i = j
      BY <2>2, <3>2 DEF Evaluation, Claim, DropDelivery, LoseDelivery, Load,
         RejectOutput, Persist, FailEvaluation, TransientError, JobTimeout, WorkerCrash,
         Step, End, MachineTypes, IdleWorker
    <3>3. QED  BY <3>1, <3>2
  <2>3. QED
    BY <2>1, <2>2 DEF Next, Session, Start, Cancel, Finish, Submission, Receive, Check, Submit,
       EnqueueEvaluation, EnqueueFails, MarkQueueUnavailable, ApiCrash, Recovery,
       RecoveryScan, RecoveryEnqueue, RecoveryFails, ClaimGoesStale, vars
<1>2. CASE Evaluate(j)
  <2>1. /\ UNCHANGED turns
        /\ \E warranted \in BOOLEAN :
              worker' = [worker EXCEPT ![j] =
                 [at |-> "PERSIST",
                  followUp |-> Decide(warranted, turns[t].depth, FollowUpCount)]]
    BY <1>2 DEF Evaluate
  <2>2. FollowUpCount' = FollowUpCount
    BY <2>1 DEF FollowUpCount
  <2>3. \E warranted \in BOOLEAN : Decide(warranted, turns[t].depth, FollowUpCount)
    BY <2>1 DEF MachineTypes
  <2>4. QED  BY <2>1, <2>2, <2>3 DEF Decide
<1>3. CASE worker'[j] = worker[j]
  <2>1. t \in DOMAIN turns
    BY <1>3, CoroutineHasAnswer
  <2>2. CASE turns' = turns
    BY <1>3, <2>2 DEF FollowUpsAreDue, FollowUpCount
  <2>3. CASE Start
    BY <2>1, <2>3 DEF Start, OneOpenTurn
  <2>4. CASE Finish
    <3>1. t \in DOMAIN turns' /\ status' = "COMPLETED"
      BY <2>1, <2>4, FinishedTurns DEF Finish
    <3>2. OneOpenTurn'
      BY DEF EvaluationInv
    <3>3. QED  BY <3>1, <3>2 DEF OneOpenTurn, ActiveTurn, TerminalTurn
  <2>5. CASE OpenTurnStep
    <3> PICK u \in DOMAIN turns, v \in Turn :
          /\ turns[u].state \in ActiveTurn
          /\ SameQuestion(v, turns[u])
          /\ Rewrites(u, v) \/ Fails(u, v) \/ Grades(u, v)
      BY <2>5 DEF OpenTurnStep
    <3> DEFINE s == [turns EXCEPT ![u] = v]
    <3>1. /\ s \in Seq(Turn) /\ Len(s) = u /\ DOMAIN s = DOMAIN turns /\ s[u] = v
          /\ DOMAIN turns = 1 .. u /\ u \in Nat
          /\ \A k \in DOMAIN turns \ {u} : s[k] = turns[k] /\ turns[k].state = "COMPLETED"
          /\ \A k \in DOMAIN turns : SameQuestion(s[k], turns[k])
      BY OpenTurnReplaced
    <3>2. CASE turns' = s
      <4>1. t = u /\ v.state \in ActiveTurn
        BY <2>1, <3>1, <3>2 DEF ActiveTurn
      <4>2. turns'[t].depth = turns[t].depth /\ FollowUpCount' = FollowUpCount
        BY <3>1, <3>2, <4>1, ReplacingKeepsCounts DEF RowTypes, SameQuestion
      <4>3. QED  BY <1>3, <4>1, <4>2 DEF FollowUpsAreDue, Decide
    <3>3. CASE \E w \in Turn : turns' = Append(s, w)
      <4>1. Grades(u, v)
        <5>1. \A w \in Turn : Len(Append(s, w)) # Len(s)
          BY <3>1, AppendTurn
        <5>2. turns' # s
          BY <3>3, <5>1
        <5>3. QED  BY <5>2 DEF Rewrites, Fails
      <4>2. turns'[t] = s[t]
        BY <2>1, <3>1, <3>3, AppendTurn
      <4>3. s[t].state = "COMPLETED"
        BY <2>1, <3>1, <4>1 DEF Grades
      <4>4. QED  BY <4>2, <4>3 DEF ActiveTurn
    <3> HIDE DEF s
    <3>4. turns' = s \/ \E w \in Turn : turns' = Append(s, w)
      <4>1. FollowUpTurn(u) \in Turn
        BY FollowUpIsTurn DEF RowTypes
      <4>2. ASSUME index + 2 <= NumQuestions
            PROVE  PrimaryTurn(index + 2, "WAITING_ANSWER") \in Turn
        <5>1. index + 2 \in 1 .. NumQuestions
          BY <4>2, EvaluationAssumption DEF RowTypes
        <5>2. QED  BY <5>1, QuestionIsTurn DEF TurnStatus
      <4>3. QED  BY <4>1, <4>2 DEF Rewrites, Fails, Grades, s
    <3>5. QED  BY <3>2, <3>3, <3>4
  <2>6. QED
    BY <2>2, <2>3, <2>4, <2>5, EveryStepIsARowStep DEF RowStep, Cancel
<1>4. QED  BY <1>1, <1>2, <1>3

\* What is stored about the questions that were asked.
QuestionsAsked == {turns[t].question : t \in PrimaryTurns}

OrderInv ==
    /\ QuestionsInOrder
    /\ status = "READY" => index = 0
    /\ \A t \in DOMAIN turns : turns[t].kind # "PRIMARY" => t > 1 /\ turns[t].question = 0
    /\ \A t \in PrimaryTurns : turns[t].question > 0
    /\ status = "IN_PROGRESS" =>
          index + 1 <= NumQuestions /\ QuestionsAsked = 1 .. (index + 1)

LEMMA ReplacingKeepsOrder ==
    ASSUME EvaluationInv, OrderInv, DOMAIN turns' = DOMAIN turns, index' = index,
           status = "IN_PROGRESS",
           \A u \in DOMAIN turns : SameQuestion(turns'[u], turns[u]),
           \/ status' \in {"IN_PROGRESS", "FAILED"}
           \/ status' = "COMPLETED" /\ index + 2 > NumQuestions
    PROVE  OrderInv'
<1> USE InvParts
<1>1. PrimaryTurns' = PrimaryTurns
  BY ReplacingKeepsCounts DEF RowTypes
<1>2. \A u \in DOMAIN turns :
         /\ turns'[u].kind = turns[u].kind /\ turns'[u].question = turns[u].question
         /\ turns'[u].parent = turns[u].parent /\ turns'[u].depth = turns[u].depth
  BY DEF SameQuestion
<1>3. PrimaryTurns \subseteq DOMAIN turns
  BY DEF PrimaryTurns
<1>4. QuestionsAsked' = QuestionsAsked
  BY <1>1, <1>2, <1>3 DEF QuestionsAsked
<1>5. DOMAIN turns = 1 .. Len(turns) /\ Len(turns) \in Nat
  BY LenProperties DEF RowTypes
<1>6. \A t \in DOMAIN turns \ PrimaryTurns : t - 1 \in DOMAIN turns
  BY <1>5 DEF OrderInv, PrimaryTurns
<1>7. QuestionsInOrder'
  <2>1. \A t, u \in PrimaryTurns' : t < u => turns'[t].question < turns'[u].question
    BY <1>1, <1>2, <1>3 DEF OrderInv, QuestionsInOrder
  <2>2. \A t \in DOMAIN turns' \ PrimaryTurns' :
           turns'[t].parent = t - 1 /\ turns'[t].depth = turns'[t - 1].depth + 1
    BY <1>1, <1>2, <1>6 DEF OrderInv, QuestionsInOrder
  <2>3. status' = "IN_PROGRESS" => Cardinality(PrimaryTurns') = index' + 1
    BY <1>1 DEF OrderInv, QuestionsInOrder
  <2>4. status' = "COMPLETED" => {turns'[t].question : t \in PrimaryTurns'} = 1 .. NumQuestions
    <3> SUFFICES ASSUME status' = "COMPLETED" PROVE QuestionsAsked' = 1 .. NumQuestions
      BY DEF QuestionsAsked
    <3>1. index + 1 = NumQuestions
      BY EvaluationAssumption DEF OrderInv, RowTypes
    <3>2. QED  BY <1>4, <3>1 DEF OrderInv
  <2>5. QED  BY <2>1, <2>2, <2>3, <2>4 DEF QuestionsInOrder
<1>8. QED  BY <1>1, <1>2, <1>3, <1>4, <1>7 DEF OrderInv

LEMMA StartKeepsOrder ==
    ASSUME EvaluationInv, OrderInv, Start
    PROVE  OrderInv'
<1>1. turns = << >> /\ index' = 0 /\ status' = "IN_PROGRESS"
  BY InvParts DEF Start, OneOpenTurn, OrderInv
<1>2. turns' = << PrimaryTurn(1, "WAITING_ANSWER") >>
  BY <1>1 DEF Start
<1>3. /\ DOMAIN turns' = {1} /\ turns'[1].kind = "PRIMARY" /\ turns'[1].question = 1
  BY <1>2 DEF PrimaryTurn
<1>4. PrimaryTurns' = {1}
  BY <1>3 DEF PrimaryTurns
<1>5. QuestionsAsked' = 1 .. 1 /\ index' + 1 <= NumQuestions
  BY <1>1, <1>3, <1>4, EvaluationAssumption DEF QuestionsAsked
<1>6. Cardinality(PrimaryTurns') = index' + 1
  <2>1. Cardinality({1}) = 1
    BY FS_Singleton
  <2>2. QED  BY <1>1, <1>4, <2>1
<1>7. QuestionsInOrder'
  <2>1. \A t, u \in PrimaryTurns' : ~(t < u)
    BY <1>4
  <2>2. DOMAIN turns' \ PrimaryTurns' = {}
    BY <1>3, <1>4
  <2>3. QED  BY <1>1, <1>6, <2>1, <2>2 DEF QuestionsInOrder
<1>8. /\ \A t \in DOMAIN turns' : turns'[t].kind = "PRIMARY"
      /\ \A t \in PrimaryTurns' : turns'[t].question > 0
  BY <1>3, <1>4
<1>9. QED
  BY <1>1, <1>5, <1>7, <1>8 DEF OrderInv

LEMMA AppendingKeepsOrder ==
    ASSUME EvaluationInv, OrderInv, UNCHANGED status, status = "IN_PROGRESS",
           NEW t \in DOMAIN turns, NEW v \in Turn,
           turns[t].state \in ActiveTurn, SameQuestion(v, turns[t]),
           \/ /\ turns' = Append([turns EXCEPT ![t] = v], FollowUpTurn(t))
              /\ index' = index
           \/ /\ index + 2 <= NumQuestions
              /\ turns' = Append([turns EXCEPT ![t] = v], PrimaryTurn(index + 2, "WAITING_ANSWER"))
              /\ index' = index + 1
    PROVE  OrderInv'
<1> USE InvParts
<1> DEFINE s == [turns EXCEPT ![t] = v]
<1>1. /\ s \in Seq(Turn) /\ Len(s) = t /\ t \in Nat \ {0} /\ DOMAIN turns = 1 .. t
      /\ \A u \in DOMAIN turns : SameQuestion(s[u], turns[u])
  BY OpenTurnReplaced
<1> HIDE DEF s
<1>2. PrimaryTurns \subseteq DOMAIN turns
  BY DEF PrimaryTurns
<1>3. \A u \in DOMAIN turns \ PrimaryTurns : u - 1 \in DOMAIN turns
  BY <1>1 DEF OrderInv, PrimaryTurns
<1>4. index \in Nat
  BY DEF RowTypes
<1>5. CASE turns' = Append(s, FollowUpTurn(t)) /\ index' = index
  <2>1. FollowUpTurn(t) \in Turn
    BY FollowUpIsTurn DEF RowTypes
  <2>2. /\ FollowUpTurn(t).kind = "FOLLOW_UP" /\ FollowUpTurn(t).question = 0
        /\ FollowUpTurn(t).parent = t /\ FollowUpTurn(t).depth = turns[t].depth + 1
    BY DEF FollowUpTurn
  <2>3. /\ DOMAIN turns' = 1 .. (t + 1) /\ turns'[t + 1] = FollowUpTurn(t)
        /\ \A u \in DOMAIN turns : SameQuestion(turns'[u], turns[u])
        /\ PrimaryTurns' = PrimaryTurns
    BY <1>1, <1>5, <2>1, <2>2, AppendingCounts DEF RowTypes
  <2>4. \A u \in DOMAIN turns :
           /\ turns'[u].kind = turns[u].kind /\ turns'[u].question = turns[u].question
           /\ turns'[u].parent = turns[u].parent /\ turns'[u].depth = turns[u].depth
    BY <2>3 DEF SameQuestion
  <2>5. QuestionsAsked' = QuestionsAsked
    BY <1>2, <2>3, <2>4 DEF QuestionsAsked
  <2>6. \A u \in DOMAIN turns' \ PrimaryTurns' :
           turns'[u].parent = u - 1 /\ turns'[u].depth = turns'[u - 1].depth + 1
    <3> TAKE u \in DOMAIN turns' \ PrimaryTurns'
    <3>1. CASE u = t + 1
      <4>1. u - 1 = t /\ t \in DOMAIN turns
        BY <1>1, <3>1
      <4>2. QED  BY <2>2, <2>3, <2>4, <3>1, <4>1
    <3>2. CASE u \in DOMAIN turns
      BY <1>3, <2>3, <2>4, <3>2 DEF OrderInv, QuestionsInOrder
    <3>3. QED  BY <1>1, <2>3, <3>1, <3>2
  <2>7. \A u \in DOMAIN turns' : turns'[u].kind # "PRIMARY" => u > 1 /\ turns'[u].question = 0
    <3> TAKE u \in DOMAIN turns'
    <3>1. CASE u = t + 1
      BY <1>1, <2>2, <2>3, <3>1
    <3>2. CASE u \in DOMAIN turns
      BY <2>4, <3>2 DEF OrderInv
    <3>3. QED  BY <1>1, <2>3, <3>1, <3>2
  <2>8. QuestionsInOrder'
    BY <1>2, <1>5, <2>3, <2>4, <2>6 DEF OrderInv, QuestionsInOrder
  <2>9. QED  BY <1>2, <1>5, <2>3, <2>4, <2>5, <2>7, <2>8 DEF OrderInv
<1>6. CASE /\ index + 2 <= NumQuestions
           /\ turns' = Append(s, PrimaryTurn(index + 2, "WAITING_ANSWER"))
           /\ index' = index + 1
  <2> DEFINE w == PrimaryTurn(index + 2, "WAITING_ANSWER")
  <2>1. index + 2 \in 1 .. NumQuestions
    BY <1>4, <1>6, EvaluationAssumption
  <2>2. w \in Turn /\ w.kind = "PRIMARY" /\ w.question = index + 2
    BY <2>1, QuestionIsTurn DEF TurnStatus, PrimaryTurn
  <2>3. turns' = Append(s, w)
    BY <1>6
  <2> HIDE DEF w
  <2>4. /\ DOMAIN turns' = 1 .. (t + 1) /\ turns'[t + 1] = w
        /\ \A u \in DOMAIN turns : SameQuestion(turns'[u], turns[u])
        /\ PrimaryTurns' = PrimaryTurns \cup {t + 1}
    BY <1>1, <2>2, <2>3, AppendingCounts DEF RowTypes
  <2>5. \A u \in DOMAIN turns :
           /\ turns'[u].kind = turns[u].kind /\ turns'[u].question = turns[u].question
           /\ turns'[u].parent = turns[u].parent /\ turns'[u].depth = turns[u].depth
    BY <2>4 DEF SameQuestion
  <2>6. QuestionsAsked = 1 .. (index + 1)
    BY DEF OrderInv
  <2>7. QuestionsAsked' = QuestionsAsked \cup {index + 2}
    BY <1>2, <2>2, <2>4, <2>5 DEF QuestionsAsked
  <2>8. QuestionsAsked' = 1 .. (index' + 1) /\ index' + 1 <= NumQuestions
    BY <1>4, <1>6, <2>6, <2>7
  <2>9. t + 1 \notin PrimaryTurns /\ Cardinality(PrimaryTurns') = index' + 1
    <3>1. t + 1 \notin PrimaryTurns
      BY <1>1, <1>2
    <3>2. IsFiniteSet(PrimaryTurns)
      <4>1. IsFiniteSet(1 .. t)
        BY <1>1, FS_Interval
      <4>2. PrimaryTurns \in SUBSET (1 .. t)
        BY <1>1, <1>2
      <4>3. QED  BY <4>1, <4>2, FS_Subset
    <3>3. Cardinality(PrimaryTurns) = index + 1
      BY DEF OrderInv, QuestionsInOrder
    <3>4. QED  BY <1>4, <1>6, <2>4, <3>1, <3>2, <3>3, FS_AddElement
  <2>10. \A u \in PrimaryTurns : turns[u].question <= index + 1 /\ u <= t
    <3>1. \A u \in PrimaryTurns : turns[u].question \in QuestionsAsked
      BY DEF QuestionsAsked
    <3>2. QED  BY <1>1, <1>2, <1>4, <2>6, <3>1
  <2>11. \A a, b \in PrimaryTurns' : a < b => turns'[a].question < turns'[b].question
    <3> TAKE a, b \in PrimaryTurns'
    <3>1. CASE a \in PrimaryTurns /\ b \in PrimaryTurns
      BY <1>2, <2>5, <3>1 DEF OrderInv, QuestionsInOrder
    <3>2. CASE a \in PrimaryTurns /\ b = t + 1
      <4>1. turns'[a].question = turns[a].question /\ turns'[b].question = index + 2
        BY <1>2, <2>2, <2>4, <2>5, <3>2
      <4>2. turns[a].question \in Nat
        BY <1>2, <3>2, TurnIsTyped, EvaluationAssumption DEF RowTypes, Turn
      <4>3. QED  BY <1>4, <2>10, <3>2, <4>1, <4>2
    <3>3. CASE a = t + 1
      BY <1>1, <2>4, <2>10, <3>3
    <3>4. QED  BY <2>4, <3>1, <3>2, <3>3
  <2>12. \A u \in DOMAIN turns' \ PrimaryTurns' :
           turns'[u].parent = u - 1 /\ turns'[u].depth = turns'[u - 1].depth + 1
    <3> TAKE u \in DOMAIN turns' \ PrimaryTurns'
    <3>1. u \in DOMAIN turns \ PrimaryTurns
      BY <1>1, <2>4
    <3>2. QED  BY <1>3, <2>5, <3>1 DEF OrderInv, QuestionsInOrder
  <2>13. \A u \in DOMAIN turns' : turns'[u].kind # "PRIMARY" => u > 1 /\ turns'[u].question = 0
    <3> TAKE u \in DOMAIN turns'
    <3>1. CASE u = t + 1
      BY <2>2, <2>4, <3>1
    <3>2. CASE u \in DOMAIN turns
      BY <2>5, <3>2 DEF OrderInv
    <3>3. QED  BY <1>1, <2>4, <3>1, <3>2
  <2>14. \A u \in PrimaryTurns' : turns'[u].question > 0
    BY <1>2, <1>4, <2>2, <2>4, <2>5 DEF OrderInv
  <2>15. QED
    BY <2>8, <2>9, <2>11, <2>12, <2>13, <2>14 DEF OrderInv, QuestionsInOrder
<1>7. QED  BY <1>5, <1>6 DEF s

LEMMA FinishKeepsOrder ==
    ASSUME EvaluationInv, OrderInv, Finish
    PROVE  OrderInv'
<1> USE InvParts
<1> DEFINE n == Cardinality(UnaskedQuestions)
           L == Len(turns)
<1>1. /\ n \in Nat /\ L \in Nat /\ DOMAIN turns = 1 .. L /\ DOMAIN turns' = 1 .. (L + n)
      /\ \A u \in DOMAIN turns : SameQuestion(turns'[u], turns[u])
  BY FinishedTurns
<1>2. PICK order \in [1 .. n -> UnaskedQuestions] :
         /\ \A i, k \in 1 .. n : i < k => order[i] < order[k]
         /\ \A i \in 1 .. n : turns'[L + i] = PrimaryTurn(order[i], "SKIPPED")
  BY FinishedTurns
<1>3. \A q \in UnaskedQuestions : \E i \in 1 .. n : order[i] = q
  BY <1>2, OrderIsOnto
<1> HIDE DEF n, L
<1>4. /\ index \in Nat /\ index + 1 <= NumQuestions /\ QuestionsAsked = 1 .. (index + 1)
      /\ status' = "COMPLETED" /\ NumQuestions \in Nat
  BY EvaluationAssumption DEF Finish, OrderInv, RowTypes
<1>5. \A u \in DOMAIN turns :
         /\ turns'[u].kind = turns[u].kind /\ turns'[u].question = turns[u].question
         /\ turns'[u].parent = turns[u].parent /\ turns'[u].depth = turns[u].depth
  BY <1>1 DEF SameQuestion
<1>6. \A u \in DOMAIN turns' \ DOMAIN turns :
         \E i \in 1 .. n : /\ u = L + i /\ turns'[u].kind = "PRIMARY"
                           /\ turns'[u].question = order[i]
  <2> TAKE u \in DOMAIN turns' \ DOMAIN turns
  <2>1. u - L \in 1 .. n /\ u = L + (u - L)
    BY <1>1
  <2>2. turns'[L + (u - L)] = PrimaryTurn(order[u - L], "SKIPPED")
    BY <1>2, <2>1
  <2>3. turns'[u].kind = "PRIMARY" /\ turns'[u].question = order[u - L]
    BY <2>1, <2>2 DEF PrimaryTurn
  <2>4. QED  BY <2>1, <2>3
<1>7. /\ PrimaryTurns \subseteq DOMAIN turns
      /\ \A u \in PrimaryTurns' : u \in PrimaryTurns \/ u \in DOMAIN turns' \ DOMAIN turns
      /\ \A u \in DOMAIN turns' \ DOMAIN turns : u \in PrimaryTurns'
      /\ PrimaryTurns \subseteq PrimaryTurns'
  BY <1>1, <1>5, <1>6 DEF PrimaryTurns
<1>8. \A q \in UnaskedQuestions : q \in 1 .. NumQuestions /\ q > index + 1
  <2>1. \A q \in 1 .. (index + 1) : \E u \in DOMAIN turns : turns[u].question = q
    BY <1>4, <1>7 DEF QuestionsAsked
  <2>2. QED  BY <1>4, <2>1 DEF UnaskedQuestions
<1>9. \A u \in PrimaryTurns : turns[u].question \in 1 .. (index + 1)
  BY <1>4 DEF QuestionsAsked
<1>10. \A a, b \in PrimaryTurns' : a < b => turns'[a].question < turns'[b].question
  <2> TAKE a, b \in PrimaryTurns'
  <2>1. CASE a \in PrimaryTurns /\ b \in PrimaryTurns
    BY <1>5, <1>7, <2>1 DEF OrderInv, QuestionsInOrder
  <2>2. CASE a \in PrimaryTurns /\ b \in DOMAIN turns' \ DOMAIN turns
    <3>1. turns'[a].question \in 1 .. (index + 1)
      BY <1>5, <1>7, <1>9, <2>2
    <3>2. turns'[b].question \in UnaskedQuestions
      BY <1>6, <2>2
    <3>3. QED  BY <1>4, <1>8, <3>1, <3>2
  <2>3. CASE a \in DOMAIN turns' \ DOMAIN turns /\ b \in PrimaryTurns
    BY <1>1, <1>7, <2>3
  <2>4. CASE a \in DOMAIN turns' \ DOMAIN turns /\ b \in DOMAIN turns' \ DOMAIN turns
    <3>1. PICK i \in 1 .. n : a = L + i /\ turns'[a].question = order[i]
      BY <1>6, <2>4
    <3>2. PICK k \in 1 .. n : b = L + k /\ turns'[b].question = order[k]
      BY <1>6, <2>4
    <3>3. a < b => i < k
      BY <1>1, <3>1, <3>2
    <3>4. QED  BY <1>2, <3>1, <3>2, <3>3
  <2>5. QED  BY <1>7, <2>1, <2>2, <2>3, <2>4
<1>11. \A u \in DOMAIN turns' \ PrimaryTurns' :
          turns'[u].parent = u - 1 /\ turns'[u].depth = turns'[u - 1].depth + 1
  <2> TAKE u \in DOMAIN turns' \ PrimaryTurns'
  <2>1. u \in DOMAIN turns \ PrimaryTurns
    BY <1>7
  <2>2. u - 1 \in DOMAIN turns
    BY <1>1, <2>1 DEF OrderInv, PrimaryTurns
  <2>3. QED  BY <1>5, <2>1, <2>2 DEF OrderInv, QuestionsInOrder
<1>12. \A u \in DOMAIN turns' : turns'[u].kind # "PRIMARY" => u > 1 /\ turns'[u].question = 0
  <2> TAKE u \in DOMAIN turns'
  <2>1. CASE u \in DOMAIN turns
    BY <1>5, <2>1 DEF OrderInv
  <2>2. CASE u \notin DOMAIN turns
    BY <1>6, <2>2
  <2>3. QED  BY <2>1, <2>2
<1>13. \A u \in PrimaryTurns' : turns'[u].question \in 1 .. NumQuestions
  <2> TAKE u \in PrimaryTurns'
  <2>1. CASE u \in PrimaryTurns
    BY <1>4, <1>5, <1>7, <1>9, <2>1
  <2>2. CASE u \in DOMAIN turns' \ DOMAIN turns
    BY <1>6, <1>8, <2>2
  <2>3. QED  BY <1>7, <2>1, <2>2
<1>14. \A q \in 1 .. NumQuestions : \E u \in PrimaryTurns' : turns'[u].question = q
  <2> TAKE q \in 1 .. NumQuestions
  <2>1. CASE q \in UnaskedQuestions
    <3>1. PICK i \in 1 .. n : order[i] = q
      BY <1>3, <2>1
    <3>2. L + i \in DOMAIN turns' \ DOMAIN turns
      BY <1>1
    <3>3. turns'[L + i].question = q
      <4>1. turns'[L + i] = PrimaryTurn(q, "SKIPPED")
        BY <1>2, <3>1
      <4>2. QED  BY <4>1 DEF PrimaryTurn
    <3>4. QED  BY <1>7, <3>2, <3>3
  <2>2. CASE q \notin UnaskedQuestions
    <3>1. PICK u \in DOMAIN turns : turns[u].question = q
      BY <2>2 DEF UnaskedQuestions
    <3>2. u \in PrimaryTurns
      BY <3>1 DEF OrderInv, PrimaryTurns
    <3>3. QED  BY <1>5, <1>7, <3>1, <3>2
  <2>3. QED  BY <2>1, <2>2
<1>15. {turns'[u].question : u \in PrimaryTurns'} = 1 .. NumQuestions
  BY <1>13, <1>14
<1>16. QuestionsInOrder'
  BY <1>4, <1>10, <1>11, <1>15 DEF QuestionsInOrder
<1>17. QED  BY <1>4, <1>12, <1>13, <1>16 DEF OrderInv

LEMMA RowStepKeepsOrder ==
    ASSUME EvaluationInv, OrderInv, RowStep
    PROVE  OrderInv'
<1>1. CASE UNCHANGED <<status, index, turns, evaluations>>
  BY <1>1 DEF OrderInv, QuestionsInOrder, PrimaryTurns, QuestionsAsked
<1>2. CASE Cancel
  BY <1>2 DEF Cancel, OrderInv, QuestionsInOrder, PrimaryTurns
<1>3. CASE OpenTurnStep
  <2> PICK t \in DOMAIN turns, v \in Turn :
        /\ turns[t].state \in ActiveTurn
        /\ SameQuestion(v, turns[t])
        /\ Rewrites(t, v) \/ Fails(t, v) \/ Grades(t, v)
    BY <1>3 DEF OpenTurnStep
  <2>1. LET s == [turns EXCEPT ![t] = v]
        IN  /\ DOMAIN s = DOMAIN turns /\ status = "IN_PROGRESS"
            /\ \A u \in DOMAIN turns : SameQuestion(s[u], turns[u])
    BY OpenTurnReplaced
  <2>2. CASE turns' = [turns EXCEPT ![t] = v] /\ index' = index
             /\ \/ status' \in {"IN_PROGRESS", "FAILED"}
                \/ status' = "COMPLETED" /\ index + 2 > NumQuestions
    BY <2>1, <2>2, ReplacingKeepsOrder
  <2>3. CASE /\ UNCHANGED status
             /\ \/ /\ turns' = Append([turns EXCEPT ![t] = v], FollowUpTurn(t))
                   /\ index' = index
                \/ /\ index + 2 <= NumQuestions
                   /\ turns' = Append([turns EXCEPT ![t] = v],
                                      PrimaryTurn(index + 2, "WAITING_ANSWER"))
                   /\ index' = index + 1
    BY <2>1, <2>3, AppendingKeepsOrder
  <2>4. QED  BY <2>1, <2>2, <2>3 DEF Rewrites, Fails, Grades
<1>4. QED  BY <1>1, <1>2, <1>3, StartKeepsOrder, FinishKeepsOrder DEF RowStep

LEMMA InitIsInOrder == Init => FollowUpsAreDue /\ OrderInv
<1> SUFFICES ASSUME Init PROVE FollowUpsAreDue /\ OrderInv
  OBVIOUS
<1>1. FollowUpsAreDue
  BY DEF Init, FollowUpsAreDue, IdleWorker
<1>2. OrderInv
  BY DEF Init, OrderInv, QuestionsInOrder, PrimaryTurns
<1>3. QED  BY <1>1, <1>2

\* Questions are asked in order and once each, whatever is repeated, lost or
\* recovered on the way, and a COMPLETED interview has a turn for every one.
THEOREM QuestionsComeInOrder == Spec => []QuestionsInOrder
<1>1. /\ EvaluationInv /\ EvaluationInv' /\ FollowUpsAreDue /\ OrderInv /\ [Next]_vars
      => FollowUpsAreDue' /\ OrderInv'
  BY StepKeepsDue, EveryStepIsARowStep, RowStepKeepsOrder
<1>2. OrderInv => QuestionsInOrder
  BY DEF OrderInv
<1>3. QED  BY EvaluationInvariant, InitIsInOrder, <1>1, <1>2, PTL DEF Spec

-----------------------------------------------------------------------------
(* The refinement: a step on the rows is a step of the plain interview.    *)

Asked == IF turns = << >> THEN 0 ELSE index + 1
OpenDepth == IF status = "IN_PROGRESS" THEN turns[Len(turns)].depth ELSE 0
Graded == Cardinality(GradedTurns)

\* The evaluation rows are the graded turns.
LEMMA GradedAreEvaluations ==
    ASSUME EvaluationInv
    PROVE  GradedTurns = evaluations /\ IsFiniteSet(evaluations)
<1> USE InvParts
<1>1. GradedTurns = evaluations
  BY DEF GradedTurns, GradesMatchAnswers
<1>2. DOMAIN turns = 1 .. Len(turns) /\ Len(turns) \in Nat
  BY LenProperties DEF RowTypes
<1>3. IsFiniteSet(DOMAIN turns)
  BY <1>2, FS_Interval
<1>4. evaluations \in SUBSET DOMAIN turns
  BY DEF GradesMatchAnswers
<1>5. QED  BY <1>1, <1>3, <1>4, FS_Subset

LEMMA GradingCounts ==
    ASSUME EvaluationInv, EvaluationInv', NEW t \in DOMAIN turns,
           turns[t].state # "COMPLETED", evaluations' = evaluations \cup {t}
    PROVE  Graded' = Graded + 1
<1>1. GradedTurns = evaluations /\ IsFiniteSet(evaluations)
  BY GradedAreEvaluations
<1>2. GradedTurns' = evaluations'
  <2>1. GradesMatchAnswers'
    BY DEF EvaluationInv
  <2>2. QED  BY <2>1 DEF GradedTurns, GradesMatchAnswers
<1>3. t \notin evaluations
  BY InvParts DEF GradesMatchAnswers
<1>4. Cardinality(evaluations') = Cardinality(evaluations) + 1
  BY <1>1, <1>3, FS_AddElement
<1>5. QED  BY <1>1, <1>2, <1>4 DEF Graded

LEMMA GradesKept ==
    ASSUME EvaluationInv, EvaluationInv', UNCHANGED evaluations
    PROVE  Graded' = Graded
<1>1. GradedTurns = evaluations
  BY GradedAreEvaluations
<1>2. GradedTurns' = evaluations'
  <2>1. GradesMatchAnswers'
    BY DEF EvaluationInv
  <2>2. QED  BY <2>1 DEF GradedTurns, GradesMatchAnswers
<1>3. QED  BY <1>1, <1>2 DEF Graded

\* The plain interview, seen through the mapping.
LEMMA Mapping ==
    /\ UNCHANGED Progress!vars <=>
          UNCHANGED <<status, Asked, FollowUpCount, OpenDepth, Graded, OpenPhase>>
    /\ Progress!Begin <=>
          /\ status = "READY" /\ status' = "IN_PROGRESS" /\ Asked' = 1 /\ OpenPhase' = "WAITING"
          /\ UNCHANGED <<FollowUpCount, OpenDepth, Graded>>
    /\ Progress!Answer <=>
          /\ OpenPhase = "WAITING" /\ OpenPhase' = "EVALUATING"
          /\ UNCHANGED <<status, Asked, FollowUpCount, OpenDepth, Graded>>
    /\ Progress!AskFollowUp <=>
          /\ OpenPhase = "EVALUATING" /\ Graded' = Graded + 1
          /\ OpenDepth < MaxDepth /\ FollowUpCount < MaxFollowUps
          /\ FollowUpCount' = FollowUpCount + 1 /\ OpenDepth' = OpenDepth + 1
          /\ OpenPhase' = "WAITING"
          /\ UNCHANGED <<status, Asked>>
    /\ Progress!AskNext <=>
          /\ OpenPhase = "EVALUATING" /\ Graded' = Graded + 1
          /\ Asked < NumQuestions /\ Asked' = Asked + 1 /\ OpenDepth' = 0
          /\ OpenPhase' = "WAITING"
          /\ UNCHANGED <<status, FollowUpCount>>
    /\ Progress!Complete <=>
          /\ OpenPhase = "EVALUATING" /\ Graded' = Graded + 1
          /\ Asked = NumQuestions
          /\ status' = "COMPLETED" /\ OpenPhase' = "NONE" /\ OpenDepth' = 0
          /\ UNCHANGED <<Asked, FollowUpCount>>
    /\ Progress!Fail <=>
          /\ OpenPhase = "EVALUATING"
          /\ status' = "FAILED" /\ OpenPhase' = "NONE" /\ OpenDepth' = 0
          /\ UNCHANGED <<Asked, FollowUpCount, Graded>>
    /\ Progress!FinishEarly <=>
          /\ OpenPhase \in {"WAITING", "EVALUATING"} /\ Graded > 0
          /\ status' = "COMPLETED" /\ OpenPhase' = "NONE" /\ OpenDepth' = 0
          /\ UNCHANGED <<Asked, FollowUpCount, Graded>>
  BY DEF Progress!vars, Progress!Begin, Progress!Answer, Progress!Grade, Progress!AskFollowUp,
     Progress!AskNext, Progress!Complete, Progress!End, Progress!Fail, Progress!FinishEarly,
     Asked, OpenDepth, Graded

LEMMA OpenTurnStepIsProgress ==
    ASSUME EvaluationInv, EvaluationInv', OrderInv, OpenTurnStep
    PROVE  [Progress!Next]_(Progress!vars)
<1> USE InvParts
<1> PICK t \in DOMAIN turns, v \in Turn :
      /\ turns[t].state \in ActiveTurn
      /\ SameQuestion(v, turns[t])
      /\ Rewrites(t, v) \/ Fails(t, v) \/ Grades(t, v)
  BY DEF OpenTurnStep
<1> DEFINE s == [turns EXCEPT ![t] = v]
<1>1. /\ s \in Seq(Turn) /\ Len(s) = t /\ Len(turns) = t
      /\ DOMAIN s = DOMAIN turns /\ DOMAIN turns = 1 .. t /\ t \in Nat \ {0}
      /\ s[t] = v /\ \A u \in DOMAIN turns : SameQuestion(s[u], turns[u])
      /\ status = "IN_PROGRESS"
  BY OpenTurnReplaced
<1> HIDE DEF s
<1>2. turns # << >> /\ s # << >>
  BY <1>1
<1>3. /\ index \in Nat /\ turns[t].depth \in Nat /\ v.depth = turns[t].depth
      /\ index + 1 <= NumQuestions /\ NumQuestions \in Nat
  <2>1. turns[t] \in Turn
    BY TurnIsTyped DEF RowTypes
  <2>2. index \in Nat /\ turns[t].depth \in Nat
    BY <2>1 DEF RowTypes, Turn
  <2>3. index + 1 <= NumQuestions /\ NumQuestions \in Nat
    BY <1>1, EvaluationAssumption DEF OrderInv
  <2>4. QED  BY <2>2, <2>3 DEF SameQuestion
<1>4. /\ Asked = index + 1 /\ OpenDepth = turns[t].depth
      /\ OpenPhase = IF turns[t].state = "EVALUATING" THEN "EVALUATING" ELSE "WAITING"
  BY <1>1, <1>2 DEF Asked, OpenDepth, OpenPhase
<1>5. ASSUME turns' = s
      PROVE  /\ turns' # << >> /\ FollowUpCount' = FollowUpCount
             /\ Len(turns') = t /\ turns'[t] = v
  BY <1>1, <1>2, <1>5, ReplacingKeepsCounts DEF RowTypes
<1>6. CASE Rewrites(t, v)
  <2>1. /\ turns' = s /\ UNCHANGED <<status, index, evaluations>> /\ v.state = "EVALUATING"
    BY <1>6 DEF Rewrites, s
  <2>2. /\ Asked' = Asked /\ OpenDepth' = OpenDepth /\ OpenPhase' = "EVALUATING"
        /\ FollowUpCount' = FollowUpCount
    BY <1>1, <1>3, <1>4, <1>5, <2>1 DEF Asked, OpenDepth, OpenPhase
  <2>3. Graded' = Graded
    BY <2>1, GradesKept
  <2>4. Progress!Answer \/ UNCHANGED Progress!vars
    <3>1. UNCHANGED <<status, Asked, FollowUpCount, OpenDepth, Graded>>
      BY <2>1, <2>2, <2>3
    <3>2. OpenPhase \in {"WAITING", "EVALUATING"} /\ OpenPhase' = "EVALUATING"
      BY <1>4, <2>2
    <3>3. CASE OpenPhase = "WAITING"
      BY <3>1, <3>2, <3>3, Mapping
    <3>4. CASE OpenPhase = "EVALUATING"
      BY <3>1, <3>2, <3>4, Mapping
    <3>5. QED  BY <3>2, <3>3, <3>4
  <2>5. QED  BY <2>4 DEF Progress!Next
<1>7. CASE Fails(t, v)
  <2>1. /\ turns' = s /\ UNCHANGED <<index, evaluations>> /\ status' = "FAILED"
        /\ turns[t].state = "EVALUATING"
    BY <1>7 DEF Fails, s
  <2>2. /\ Asked' = Asked /\ OpenDepth' = 0 /\ OpenPhase' = "NONE"
        /\ FollowUpCount' = FollowUpCount
    BY <1>4, <1>5, <2>1 DEF Asked, OpenDepth, OpenPhase
  <2>3. Progress!Fail
    BY <1>4, <2>1, <2>2, GradesKept, Mapping
  <2>4. QED  BY <2>3 DEF Progress!Next
<1>8. CASE Grades(t, v)
  <2>1. /\ turns[t].state = "EVALUATING" /\ OpenPhase = "EVALUATING"
        /\ Graded' = Graded + 1
    BY <1>4, <1>8, GradingCounts DEF Grades
  <2>2. CASE /\ Decide(TRUE, turns[t].depth, FollowUpCount)
             /\ turns' = Append(s, FollowUpTurn(t))
             /\ UNCHANGED <<status, index>>
    <3>1. FollowUpTurn(t) \in Turn /\ FollowUpTurn(t).state = "WAITING_ANSWER"
      BY FollowUpIsTurn DEF RowTypes
    <3>2. FollowUpTurn(t).kind = "FOLLOW_UP" /\ FollowUpTurn(t).depth = turns[t].depth + 1
      BY DEF FollowUpTurn
    <3>3. /\ Len(turns') = t + 1 /\ turns'[t + 1] = FollowUpTurn(t)
          /\ FollowUpCount' = FollowUpCount + 1 /\ turns' # << >>
      <4>1. /\ Len(turns') = t + 1 /\ turns'[t + 1] = FollowUpTurn(t)
            /\ FollowUpCount' = FollowUpCount + 1
        BY <1>1, <2>2, <3>1, <3>2, AppendingCounts DEF RowTypes
      <4>2. QED  BY <1>1, <4>1
    <3>4. /\ Asked' = Asked /\ OpenDepth' = OpenDepth + 1 /\ OpenPhase' = "WAITING"
      BY <1>1, <1>4, <2>2, <3>1, <3>2, <3>3 DEF Asked, OpenDepth, OpenPhase
    <3>5. Progress!AskFollowUp
      BY <1>4, <2>1, <2>2, <3>3, <3>4, Mapping DEF Decide
    <3>6. QED  BY <3>5 DEF Progress!Next
  <2>3. CASE /\ index + 2 <= NumQuestions
             /\ turns' = Append(s, PrimaryTurn(index + 2, "WAITING_ANSWER"))
             /\ index' = index + 1
             /\ UNCHANGED status
    <3> DEFINE w == PrimaryTurn(index + 2, "WAITING_ANSWER")
    <3>1. index + 2 \in 1 .. NumQuestions
      BY <1>3, <2>3
    <3>2. /\ w \in Turn /\ w.state = "WAITING_ANSWER" /\ w.kind = "PRIMARY" /\ w.depth = 0
      BY <3>1, QuestionIsTurn DEF TurnStatus, PrimaryTurn
    <3>3. turns' = Append(s, w)
      BY <2>3
    <3> HIDE DEF w
    <3>4. /\ Len(turns') = t + 1 /\ turns'[t + 1] = w
          /\ FollowUpCount' = FollowUpCount /\ turns' # << >>
      <4>1. /\ Len(turns') = t + 1 /\ turns'[t + 1] = w
            /\ FollowUpCount' = FollowUpCount
        BY <1>1, <3>2, <3>3, AppendingCounts DEF RowTypes
      <4>2. QED  BY <1>1, <4>1
    <3>5. /\ Asked' = Asked + 1 /\ OpenDepth' = 0 /\ OpenPhase' = "WAITING"
      BY <1>1, <1>3, <1>4, <2>3, <3>2, <3>4 DEF Asked, OpenDepth, OpenPhase
    <3>6. Asked < NumQuestions
      BY <1>3, <1>4, <2>3
    <3>7. Progress!AskNext
      BY <2>1, <2>3, <3>4, <3>5, <3>6, Mapping
    <3>8. QED  BY <3>7 DEF Progress!Next
  <2>4. CASE /\ index + 2 > NumQuestions
             /\ turns' = s
             /\ status' = "COMPLETED"
             /\ UNCHANGED index
    <3>1. /\ Asked' = Asked /\ OpenDepth' = 0 /\ OpenPhase' = "NONE"
          /\ FollowUpCount' = FollowUpCount
      BY <1>4, <1>5, <2>4 DEF Asked, OpenDepth, OpenPhase
    <3>2. Asked = NumQuestions
      BY <1>3, <1>4, <2>4
    <3>3. Progress!Complete
      BY <2>1, <2>4, <3>1, <3>2, Mapping
    <3>4. QED  BY <3>3 DEF Progress!Next
  <2>5. QED  BY <1>8, <2>2, <2>3, <2>4 DEF Grades, s
<1>9. QED  BY <1>6, <1>7, <1>8

LEMMA FinishIsProgress ==
    ASSUME EvaluationInv, EvaluationInv', Finish
    PROVE  Progress!FinishEarly
<1> USE InvParts
<1>1. /\ status = "IN_PROGRESS" /\ status' = "COMPLETED"
      /\ UNCHANGED <<index, evaluations>> /\ GradedTurns # {}
  BY DEF Finish
<1>2. turns # << >> /\ OpenPhase \in {"WAITING", "EVALUATING"}
  BY <1>1 DEF OneOpenTurn, OpenPhase
<1>3. DOMAIN turns # {}
  BY <1>1 DEF GradedTurns
<1>4. turns' # << >>
  <2>1. DOMAIN turns' # {}
    BY <1>3, FinishedTurns
  <2>2. QED  BY <2>1
<1>5. FollowUpCount' = FollowUpCount
  <2>1. /\ DOMAIN turns \subseteq DOMAIN turns'
        /\ \A u \in DOMAIN turns : turns'[u].kind = turns[u].kind
    BY FinishedTurns DEF SameQuestion
  <2>2. \A u \in DOMAIN turns' \ DOMAIN turns : turns'[u].kind = "PRIMARY"
    <3> DEFINE n == Cardinality(UnaskedQuestions)
               L == Len(turns)
    <3>1. /\ n \in Nat /\ L \in Nat /\ DOMAIN turns = 1 .. L /\ DOMAIN turns' = 1 .. (L + n)
          /\ \E order \in [1 .. n -> UnaskedQuestions] :
                \A i \in 1 .. n : turns'[L + i] = PrimaryTurn(order[i], "SKIPPED")
      BY FinishedTurns
    <3> HIDE DEF n, L
    <3> TAKE u \in DOMAIN turns' \ DOMAIN turns
    <3>2. u - L \in 1 .. n /\ u = L + (u - L)
      BY <3>1
    <3>3. \E q : turns'[u] = PrimaryTurn(q, "SKIPPED")
      BY <3>1, <3>2
    <3>4. QED  BY <3>3 DEF PrimaryTurn
  <2>3. FollowUps' = FollowUps
    BY <2>1, <2>2 DEF FollowUps
  <2>4. QED  BY <2>3 DEF FollowUps, FollowUpCount
<1>6. Graded' = Graded /\ Graded > 0
  <2>1. GradedTurns = evaluations /\ IsFiniteSet(evaluations)
    BY GradedAreEvaluations
  <2>2. Cardinality(GradedTurns) \in Nat /\ Cardinality(GradedTurns) # 0
    BY <1>1, <2>1, FS_CardinalityType, FS_EmptySet
  <2>3. QED  BY <1>1, <2>2, GradesKept DEF Graded
<1>7. /\ Asked' = Asked /\ OpenDepth' = 0 /\ OpenPhase' = "NONE"
  BY <1>1, <1>2, <1>4 DEF Asked, OpenDepth, OpenPhase
<1>8. QED  BY <1>1, <1>2, <1>5, <1>6, <1>7, Mapping

LEMMA RowStepIsProgress ==
    ASSUME EvaluationInv, EvaluationInv', OrderInv, RowStep
    PROVE  [Progress!Next]_(Progress!vars)
<1> USE InvParts
<1>1. CASE UNCHANGED <<status, index, turns, evaluations>>
  <2>1. UNCHANGED <<Asked, OpenDepth, OpenPhase, FollowUpCount>>
    BY <1>1 DEF Asked, OpenDepth, OpenPhase, FollowUpCount
  <2>2. QED  BY <1>1, <2>1, GradesKept, Mapping
<1>2. CASE Start
  <2>1. /\ status = "READY" /\ turns = << >> /\ index' = 0 /\ status' = "IN_PROGRESS"
        /\ turns' = << PrimaryTurn(1, "WAITING_ANSWER") >> /\ UNCHANGED evaluations
    BY <1>2 DEF Start, OneOpenTurn, OrderInv
  <2>2. /\ turns' # << >> /\ Len(turns') = 1 /\ DOMAIN turns' = {1}
        /\ turns'[1].depth = 0 /\ turns'[1].state = "WAITING_ANSWER"
        /\ turns'[1].kind = "PRIMARY"
    BY <2>1 DEF PrimaryTurn
  <2>3. OpenDepth = 0 /\ OpenDepth' = 0 /\ Asked' = 1 /\ OpenPhase' = "WAITING"
    BY <2>1, <2>2 DEF OpenDepth, Asked, OpenPhase
  <2>4. FollowUpCount' = FollowUpCount
    <3>1. FollowUps = {} /\ FollowUps' = {}
      BY <2>1, <2>2 DEF FollowUps
    <3>2. QED  BY <3>1 DEF FollowUps, FollowUpCount
  <2>5. Progress!Begin
    BY <2>1, <2>3, <2>4, GradesKept, Mapping
  <2>6. QED  BY <2>5 DEF Progress!Next
<1>3. CASE Cancel
  <2>1. Progress!Cancel
    <3>1. UNCHANGED <<Asked, FollowUpCount>> /\ Graded' = Graded
      BY <1>3, GradesKept DEF Cancel, Asked, FollowUpCount
    <3>2. UNCHANGED <<OpenDepth, OpenPhase>>
      BY <1>3 DEF Cancel, OpenDepth, OpenPhase
    <3>3. QED
      BY <1>3, <3>1, <3>2 DEF Cancel, Progress!Cancel, Asked, Graded, OpenDepth
  <2>2. QED  BY <2>1 DEF Progress!Next
<1>4. CASE Finish
  BY <1>4, FinishIsProgress DEF Progress!Next
<1>5. QED
  BY <1>1, <1>2, <1>3, <1>4, OpenTurnStepIsProgress DEF RowStep

\* Workers, retries, crashes, recovery and racing tabs together implement the
\* plain interview of InterviewProgress, for any number of each.
THEOREM ProgressIsImplemented == Spec => ImplementsProgress
<1>1. Init => FollowUpsAreDue /\ OrderInv
  BY InitIsInOrder
<1>2. Init => Progress!Init
  <2> SUFFICES ASSUME Init PROVE Progress!Init
    OBVIOUS
  <2>1. FollowUps = {} /\ GradedTurns = {}
    BY DEF Init, FollowUps, GradedTurns
  <2>2. FollowUpCount = 0 /\ Cardinality(GradedTurns) = 0
    BY <2>1, FS_EmptySet DEF FollowUpCount, FollowUps
  <2>3. QED  BY <2>2 DEF Init, Progress!Init, OpenPhase
<1>3. /\ EvaluationInv /\ EvaluationInv' /\ FollowUpsAreDue /\ OrderInv /\ [Next]_vars
      => FollowUpsAreDue' /\ OrderInv' /\ [Progress!Next]_(Progress!vars)
  BY StepKeepsDue, EveryStepIsARowStep, RowStepKeepsOrder, RowStepIsProgress
<1>4. QED
  BY EvaluationInvariant, <1>1, <1>2, <1>3, PTL DEF Spec, ImplementsProgress, Progress!Spec
=============================================================================
