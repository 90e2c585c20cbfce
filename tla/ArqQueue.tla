------------------------------ MODULE ArqQueue ------------------------------
(***************************************************************************)
(* The ARQ job queue as the workers and the API use it (app/workers/       *)
(* redis_queue.py and the Worker settings of app/workers/worker.py).  ARQ  *)
(* and Redis are external: only what the code relies on is modelled.       *)
(*                                                                         *)
(*  - enqueue_job with an explicit _job_id is dropped while that job is    *)
(*    queued or running, and while the result of an earlier run is kept;   *)
(*  - delivery is at least once: a job whose worker dies, or that is       *)
(*    cancelled by a worker shutdown, is delivered again;                  *)
(*  - every delivery increments job_try, and a delivery whose job_try      *)
(*    would exceed max_tries is dropped as failed;                         *)
(*  - Retry puts the job back in the queue, any other end (return,         *)
(*    exception, job_timeout) finishes it and keeps its result.            *)
(*                                                                         *)
(* A queue is a function from job ids to Job records.  The operators       *)
(* return the next queue; they hold no state of their own.                 *)
(***************************************************************************)
EXTENDS Naturals

JobPhase == {"ABSENT", "QUEUED", "RUNNING", "FINISHED"}

Job == [phase : JobPhase, try : Nat]

NoJob == [phase |-> "ABSENT", try |-> 0]

EmptyQueue(Ids) == [id \in Ids |-> NoJob]

\* A stored result expires after keep_result seconds, so a finished id is
\* either still blocked or free again: the caller picks.
Blocked(queue, id) == queue[id].phase \in {"QUEUED", "RUNNING"}
KeepsResult(queue, id) == queue[id].phase = "FINISHED"

Enqueued(queue, id) ==
    [queue EXCEPT ![id] = [phase |-> "QUEUED", try |-> 0]]

\* The queues enqueue_job may leave behind.
EnqueueOutcomes(queue, id) ==
    (IF Blocked(queue, id) \/ KeepsResult(queue, id) THEN {queue} ELSE {})
        \cup (IF Blocked(queue, id) THEN {} ELSE {Enqueued(queue, id)})

\* A worker takes the job; the try it runs under is the stored one plus one.
Delivered(queue, id) ==
    [queue EXCEPT ![id] = [phase |-> "RUNNING", try |-> queue[id].try + 1]]

\* Retry(defer=...), a crash or a shutdown: the same id is delivered again.
Requeued(queue, id) == [queue EXCEPT ![id].phase = "QUEUED"]

\* The coroutine returned or raised, or job_timeout cancelled it.
Finished(queue, id) ==
    [queue EXCEPT ![id] = [phase |-> "FINISHED", try |-> 0]]

\* The next delivery would be job_try > max_tries.
TriesExhausted(queue, id, maxTries) == queue[id].try >= maxTries
=============================================================================
