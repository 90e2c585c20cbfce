# Verification of the interview platform

TLA+ modules, TLC configurations and TLAPS proofs for 寻知智能模拟面试平台 (`src/`), a
FastAPI backend with PostgreSQL, Redis and ARQ workers, and a React frontend. A candidate has
an interview prepared from a resume, answers its questions one by one, and gets a report; a
model grades in background jobs. Beside it there is a chat over a knowledge base of PDFs,
speech in and out, and an analysis of camera pictures. The hard part of the program is not
what the models compute but the bookkeeping around them: requests that are repeated, jobs that
are retried, redelivered and recovered, callers that go away, and processes that die between a
commit and the next call. That is what is modelled here, commit by commit and await by await.

To check a run: `tlc -workers 2 -config <run>.cfg <MC module>.tla`; to check a proof:
`tlapm <module>_proofs.tla`. `PROJECT.json` lists the runs, the source lines of every
definition, the hazards with the properties that cover them, and the theorems.

## 1. The system

### Components

| Component | State it keeps | Operations | Hard behaviour |
|---|---|---|---|
| Interview preparation (`modules/interview/service.py`, `workflow.py`, `repository.py`) | `interview_sessions` until READY, its questions, `interview_resume_evaluations` | `POST sessions`, preparation job, resume evaluation job, recovery, start, cancel | a repeated requestId, jobs of several ids for one session, claims by count or by age |
| Answer evaluation (`answer_service.py`, `answer_workflow.py`, `follow_up.py`, `repository.py`) | `interview_sessions` from READY, turns, answers, evaluations | start, answer, finish, cancel; evaluation job; recovery | tabs racing with jobs and with each other; the follow-up count is read outside the lock; late failures |
| Report generation (`modules/report/service.py`, `repository.py`) | `interview_reports` with lease and fencing token | `POST report`, generation job, lease renewal task, recovery | two database sessions per job, leases that expire under a stalled event loop, attempts used up by timeouts |
| Knowledge import (`modules/knowledge/service.py`, `repository.py`, `infrastructure/`) | `knowledge_bases`, `knowledge_documents`, `knowledge_chunks`, the PDF on disk | upload, import job, deletion of a document or of its base, recovery at worker start | no row locks; three stores changed one after the other |
| Retrieval and splitting (`splitter.py`, `context.py`, `chat/context.py`, `retriever.py`, `_embed_chunks`) | local to one import or one question | split a PDF, embed in batches, search, assemble a prompt | progress and coverage of overlapping chunks, batch boundaries, a token budget |
| ARQ queue (`workers/redis_queue.py`, `worker.py`) | jobs and results in Redis | enqueue by job id, delivery, retry | at-least-once delivery, results that block an id for an hour, `max_tries`, `job_timeout` |
| Chat (`modules/chat`) | conversations, messages, citations | create, finish, delete; stream a reply; replay a request | next sequence read without a lock, two commits per request, cancelled streams |
| Authentication and sessions (`modules/auth`, `core/security.py`, `frontend/src/lib/request.ts`) | users, refresh tokens in Redis, the tokens of a browser in localStorage | login, refresh, logout (and register) | one-time refresh tokens shared by tabs, answers that are lost or late |
| Text to speech (`modules/speech/tts_service.py`, `infrastructure/speech/tts_xunfei.py`) | records, idempotency table, tasks under way, request times; all in memory | synthesize, get task | one task shared by callers that may be cancelled, expiry, the rate window, a polled provider |
| Speech recognition (`modules/speech/service.py`, `infrastructure/speech/xunfei.py`) | one websocket and the provider sessions it opens | start, audio, stop, ping, status | client, provider and deadline race to close; a restart while an earlier session finishes |
| Demeanor analysis (`demeanor_service.py`, `demeanor_repository.py`) | samples; two keys in Redis | analyse a picture | the slot across processes: refused requests, timeouts, crashes |
| Report aggregation (`modules/report/aggregation.py`) | none | pure functions on floats | roundings |
| Frontend | route, drafts, tokens | the pages; request queue with retry and refresh | auto save against submission, recovery of a route |
| AI providers, configuration, API routes, migrations, scripts, evaluation of RAG | none of their own | adapters and wiring | external calls that fail or hang |

### How they interact

API process and worker process share nothing but PostgreSQL, Redis and the upload directory. A
handler commits a row, then enqueues a job under an id made from the row; the job claims the
row with one conditional UPDATE, works without a lock, and commits its result under the row
lock, after a second look at the row. A job that fails raises `Retry`; a job whose process dies
is delivered again; and a loop in the worker process (every 60 s; for documents only at its
start) enqueues what has been waiting or claimed for too long, under a new id for interviews.
Preparation, evaluation and report follow each other on one session: the first ends where the
second begins (READY), the third begins where the second ends (COMPLETED), so the modules meet
in those states and are checked one by one. Import ends in the READY document whose chunks the
retrieval reads; the retrieval ends in the citations a chat stream stores. `SplitStep` to
`StoreChunks` of `KnowledgeRetrieval` is the inside of `Parse` and `StoreAndMarkReady` of
`KnowledgeImport`; `Retrieve` to `Answer` is the inside of `BuildContext` of `ChatStream`.

### What makes each component correct

* **Preparation**: one session per requestId; one set of questions, never replaced after
  READY; at most one worker at it; every queued preparation ends.
* **Evaluation**: one open turn; questions in order and once each; an answer is stored once,
  graded at most once and never for another turn; limits on follow-ups hold; an ended
  interview does not change; an answer does not stay under evaluation for ever.
* **Report**: one row per interview; only the latest claim writes; READY is final; one builder
  under a live lease; every requested report ends READY or FAILED.
* **Import**: chunks are there exactly for READY documents; nothing outlives a deletion; an
  outcome is final; every upload ends.
* **Splitting and retrieval**: the splitter ends; no word is lost between chunks or batches;
  the prompt keeps its budget and leaves out only what does not fit.
* **Chat**: a reply stands behind its question; what was shown complete stays stored, with its
  citations while the documents they name exist; a repeat returns the reply instead of a second one; no answer under way stays PENDING.
* **Sessions**: a login never has two live refresh tokens; a refusal has a cause; the stored
  token works.
* **Text to speech**: one synthesis per request id; nobody gets the audio of another text; no
  more syntheses per minute than allowed; everybody is answered.
* **Speech recognition**: provider sessions are closed; results belong to the recording the
  client was last told of; an idle connection ends.
* **Demeanor**: one analysis at a time, unless another request broke the slot or one is late by
  a whole interval; the slot comes free again.

## 2. The modules

| Module | Models |
|---|---|
| `ArqQueue` | the operators of the ARQ queue, shared by all jobs; ARQ is external and modelled from its use |
| `InterviewPreparation`, `PreparationLife` | a session from its request to READY; its life without machinery |
| `AnswerEvaluation`, `InterviewProgress` | a session from READY to its end; the plain interview |
| `ReportGeneration`, `ReportLife` | the report of a completed interview; its life without machinery |
| `KnowledgeImport` | one document from upload to deletion, with its base |
| `KnowledgeRetrieval` | the chunks of one document and one question about it |
| `ChatStream` | one conversation and the requests that stream into it |
| `AuthSession` | the refresh tokens of one user and the tabs of one browser |
| `TextToSpeech` | the requests of one user to the synthesis service of one process |
| `SpeechRecognition` | one websocket |
| `DemeanorAnalysis` | the pictures of one interview |
| `MC…` | the instances for TLC: symmetry sets, texts, small documents. `MCKnowledge` and `MCSpeech` hold two modules each that share no state: in a behaviour one of them runs while the other is at rest, so that one run covers both without their product |
| `…_proofs` | theorems and their proofs, one module per component; `Knowledge_proofs` is about import and retrieval, `Speech_proofs` about both directions of speech |

**Grain.** One committed transaction, Redis command or block under an asyncio lock is one
action; whatever runs between two awaits without touching shared state is part of the action
that follows or precedes it. In the interview and report modules every writing repository
method takes `SELECT … FOR UPDATE` on the session (or report) row and commits once; reads
without the lock, model calls and Redis calls between two transactions are steps of their own,
and what they read stays in the local state of the request or job. Chat and import lock
nothing, so there every repository call is a step. Where a method keeps a lock it should have
released, the lock is state (`ReportGeneration!held`).

**Clocks.** Ages are compared with a threshold only, so a time is NONE, FRESH or STALE, a
lease LIVE or EXPIRED, a record FRESH or EXPIRED, an admission inside or outside the last
minute. Whether a running claim can go stale is a constant (`StaleAfterTimeout`) where the
configuration decides it: the defaults (900 s against 300 s) justify TRUE, but no validator
enforces it. Only `DemeanorAnalysis` counts ticks, since two durations are compared there (the
timeout of an analysis and the life of its key).

**Faults.** Every fault is an action with a bound of its own (`Max…`, counted in `spent` or
`faults`; `MaxFaults` bounds all of them together): processes that die, jobs cut off by
`job_timeout`, deliveries lost before their claim, clients that go away, answers that are lost
or late, provider, database and Redis errors, and calls that fail after they have taken
effect. No fault is ever fair.

**Data.** Questions, texts, scores, narratives, audio and embeddings are left out except for
what a property compares: which text was sent under a requestId (`Texts` says which ones clients
send under it), which claim generated the questions, whether chunks exist, how much of an answer
a message has, which text a synthesis is of. In `KnowledgeRetrieval` a page is a sequence of word characters and separators, and the
content of a chunk is the set of positions of its words, because there the positions are the
question.

### State and actions

*InterviewPreparation*: `session` is the row with its questions, `resume` the status of the
resume evaluation, `worker` what each preparation coroutine knows, `scan` the job the
recovery loop is about to enqueue, `api` the requests. `CreateSession`, `BeginPreparing`,
`EnqueuePreparation`, `EnqueueFails`, `ReleaseForRetry` are the commits and calls of
`InterviewService.create_session`; `Claim` … `MarkFailed` those of
`process_interview_preparation` and the workflow; `ClaimResume`, `EndResume`, `CutResume` those of
the resume job; `StartSession`, `CancelSession` the user.

*AnswerEvaluation*: `status`, `index`, `turns`, `answers`, `evaluations` are the rows;
`worker` the coroutine of each job id, `scan` what recovery has read, `api` the
`POST answers` requests. `Check`, `Submit`, `EnqueueEvaluation`, `MarkQueueUnavailable` are
`submit_answer` step by step; `Claim`, `Load`, `Evaluate` (with the unlocked follow-up count),
`RejectOutput`, `Persist`, `FailEvaluation` the job; `Start`, `Cancel`, `Finish` the user.

*ReportGeneration*: `report` is the row, `claims` numbers the fencing tokens, `held` the job
whose lease session keeps the row lock, `round` the recovery loop with what it has read.
`CreatePending`, `ResetForRetry`, `MarkQueued`, `EnqueueReport`, `ClearQueued` are `generate`;
`Claim`, `Build`, `PersistReady`, `MarkFailed`, `Release`, `ReleaseCut` the job, and the
actions of `Leasing` the renewal task beside it.

*KnowledgeImport*: `document`, `chunks`, `file` are the three stores, `base` the row of the
base, `job` the only import coroutine (one job id per document), `process` the worker process
with its recovery at startup. `SavePdf` … `UnlinkUpload` are `upload_document`,
`DeleteChunks`, `UnlinkFile`, `DeleteRow` are `delete_document`, `ListBase` … `DropBase` are
`delete_base` (with what it has listed in `removal`), `Claim` … `MarkFailed` are
`process_document_job`.

*KnowledgeRetrieval*: `page`, `start`, `textChunks` are the loop variables and the result of
`split`; `batch` the batches of `_embed_chunks` that have their vectors; `score`, `waiting`,
`selected` the search result and the loop of `assemble`. `SplitStep` and `Assemble` are one
round of their loop each. The splitter's settings, the provider's batch limit and the document
are chosen once, in `RetrievalInit`. (Names it would share with `KnowledgeImport` carry
`Retrieval`, those of `TextToSpeech` shared with `SpeechRecognition` carry `Tts`, so that one
module can extend both.)

*ChatStream*: `question` and `reply` are the two messages a delivery may have inserted,
`delivery` the local state of each request handler, `told` the last event its client got,
`overlapped` (history only) the request ids two handlers had at a time. `Arrive` …
`ReadHistory` are the awaits of `stream_chat`; `BuildContext`, `Delta`, `EndStream`,
`StoreAnswer`, `StoreFailure`, `StoreCancelled` those of `_generate`; `Replay` is `_replay`;
`Disconnect` and `Crash` cut a stream. `cites` says whether the chunks a delivery retrieved are
there: `DeleteSources` is the deletion of a document or base as far as the chat sees it. By
`ON DELETE CASCADE` (`chat/models.py:81`) it takes the citations of stored answers with it, and an
answer still under way that cites a deleted chunk cannot be committed (`Completed`).

*AuthSession*: `active` are the keys in Redis, `storage` the token in localStorage, `calls`
the requests with how far server and client are; a token is named by the call that issued it
and `login` says which login it descends from. `Consume` is the GETDEL and `Rotate` the SET of
a refresh; `Receive` is the continuation of the promise in the tab, `GiveUp` its timeout of 10
seconds. One refresh per tab at a time (`refreshPromise`), any number of tabs.

*TextToSpeech*: `caller` are the requests, `synthesis` the shared tasks with their record and
their place in the last minute, `idempotency`, `inflight`, `recent` the three tables. `Submit`
is the locked block of `_synthesize_with_idempotency`; `CreateTask`, `TaskCompleted`,
`AudioArrives`, `ProviderFails` the provider; `StoreRecord`, `Link`, `Release` the locked
blocks at the end of a task; `Deliver` and `Cancel` what `asyncio.shield` does for a caller.

*SpeechRecognition*: `message` and `event` are the two completed tasks the loop may find,
`session` the provider sessions, `current` the one the handler holds and `listening` the one
its event task reads. `Take` is the branch for a message; `Start`, `SendAudio`, `Stop`,
`Decline`, `Fatal`, `Disconnect` are its outcomes; `Cleanup` is the `finally` clause.

*DemeanorAnalysis*: `rate` and `flight` are the keys in Redis, `request` the handlers. A request is
TAKEN from the moment Redis sets its in-flight key until `StartAnalysis`, when the reply has come
and the timeout starts; `core/redis.py` sets no socket timeout, so any number of ticks may pass in
between, and any number after the timeout, which a stalled event loop notices late. `late` counts
both, as far as the key has time to spare. `TakeRate`, `TakeFlight` and their refusals are `_acquire_request_slot`, `Release` is
`_release_request_slot`, which refusals run as well. The sets in the service's memory are not
variables: the dependency builds a new service for every request, so they are always empty.

## 3. The runs

| Run | Bounds | Distinct states | What it shows |
|---|---|---|---|
| `evaluation_workers` | 2 questions, follow-up depth 2 but one per session, 1 attempt, 2 tries, 2 posts, a crash, a transient error, claims may go stale while they run | 930 000 | whatever races, the turns stay in order and the session implements `InterviewProgress` |
| `evaluation_tabs` | 1 question without follow-up, 2 tabs, 2 request ids with a text each, 2 attempts; one API crash, one timeout, one Redis error, one delivery lost before its claim | 265 000 | answers are neither lost, doubled nor graded twice, the claim is exclusive, evaluation settles |
| `evaluation_repeat` | 2 tabs, one request id with two texts, no fault | — | the counterexample below |
| `preparation` | 2 requests with one id, 3 claims; one fault out of crash, lost delivery, timeout and error | 228 000 | one worker at a time, `PreparationLife` is implemented, a queued preparation ends |
| `report` | 2 requests, 2 attempts; two faults out of crash, timeout, error, invalid snapshot and stall | 512 000 | fencing keeps the report single and final, `ReportLife` is implemented, the report settles |
| `report_selflock` | 1 request, one stall | — | the counterexample below |
| `knowledge` | import: 2 attempts, 3 tries; 2 crashes, timeouts, errors and deletions, one late failure, one removal of the base; or retrieval: pages of up to 8 characters, chunk size 5, overlaps 0, 2, 4, batches of 1 and 2, budgets of 3 tokens | 679 000 | chunks and status agree, nothing outlives a deletion, outcomes are final, the document settles; the splitter ends and loses nothing, the context is the greedy best within its budget |
| `chat` | 2 deliveries, 2 request ids; 2 lost clients, 2 errors, one crash, deletions of cited documents at any time | 350 000 | replies follow their questions, shown is stored, repeats are replayed, answers settle |
| `sessions` | 2 tabs, 4 calls, 2 faults | 1.3 million | one live token per login, refusals have a cause, the stored token works |
| `speech` | speaking: 3 callers, 1 key, 2 texts, a limit of 2; or listening: 3 provider sessions, 2 units of audio | 940 000 | one synthesis per id, own audio, the rate is bounded, everybody is answered; sessions are released, results are current, an idle connection ends |
| `demeanor` | 3 requests, interval 2, timeout 2; a crash and an error, late replies and timeouts | 683 000 | overlaps have a cause, the slot comes free |
| `demeanor_duplicates` | the same without faults | — | the counterexample below |

The bounds are chosen so that each race has the actors it needs: two jobs of different ids
for one row (submit and recovery), two requests or tabs, a fault in either and a retry after
it. Two questions and one follow-up (`evaluation_workers`) are enough for every kind of step
between turns (next question, follow-up, last question); a third repeats the second. The tabs
race for one turn, which is all a tab ever sees; `GradesMatchAnswers` is proved for any number
of turns and tabs. Four calls are a login, two
racing refreshes and whatever follows them; a third caller is what joins, or starts anew, while
two others end, and what meets a limit of two; a third provider session is the restart of a
restart. Eight characters are a first chunk, a cut at a separator and an overlap. What depends
on counts (limits, attempts) is compared at its boundary, and the theorems below cover every
value.

Each property of these runs has a mutant in `PROJECT.json`: a change of one definition, of
the kind a slip in the code would be, under which TLC finds the property violated.

Three runs carry a counterexample, each for one property:

* `report_selflock`, `NeverWaitsForItself`: after a stall longer than the lease,
  `renew_generation_lease` returns False in an open transaction, and the job then waits for the
  row lock its own lease session keeps.
* `evaluation_repeat`, `OtherTextIsRefused`: a request that repeats a requestId with another text
  is acknowledged like a repeat and its text is dropped (`answer_service.py:77`); 说明书:430 and
  1265 promise a conflict.
* `demeanor_duplicates`, `DuplicatesAreBlocked`: a request refused by the rate limit releases the
  slot it never had, and with it the key of the analysis under way (`demeanor_service.py:194`);
  once the interval has passed, the next request starts a second analysis. 说明书:320 and 1341 and
  `test_demeanor.py:238` promise that it is refused; the test uses one service object, whose sets
  in memory would see it, while the program builds a service per request.

### Fairness and its reasons

Fairness is used by the liveness properties only (`FairSpec`; `KnowledgeSpec` and `SpeechSpec`
join the fairness of their two modules). Coroutines and requests go on
(asyncio runs what is ready), a queued job is delivered (the worker polls), the recovery loop
goes round, time passes. An enqueue under an id whose result is still kept is dropped; it is
retried every round and the result expires after an hour, hence strong fairness of an
accepted enqueue. Users and providers owe nothing: no property relies on a repeated request, a
deletion, an early finish or an answer. What ends a call that hangs is the timeout around it,
which is part of the fair step (`ProviderFails` in `TextToSpeech`, `Deadline` in
`SpeechRecognition`, `Tick` and `TimesOut` in `DemeanorAnalysis`).

* `EvaluationSettles` needs fewer faults than attempts (one timeout, two attempts): recovery
  skips a turn whose attempts are used up, and crashes and timeouts do not mark it FAILED. The
  documentation (说明书, section on recovery) describes only the case in which it recovers.
* `ReportSettles` is stated for fewer faults than attempts and no stall. Outside it, see the
  facts below.
* `DocumentSettles` assumes that the worker process is restarted again and again (its
  antecedent): documents are recovered nowhere else.
* `PreparationSettles` needs no such condition: recovery has no bound on attempts.
* `AnswerSettles` excepts a stream that was cut (crash, or a cancellation whose update fails):
  nothing repairs its message.
* `IdleConnectionEnds` is about connections on which nothing arrives any more. On others the
  deadline is looked at only when nothing is ready, so a steady stream keeps them open.
* `WaitersAreAnswered` holds although the adapter polls for as long as the provider says "in
  progress": `wait_for` is around the whole task.

### Properties with a condition

* `ClaimIsExclusive` (preparation and evaluation) is stated for runs without a delivery lost
  before its claim: such a delivery lets `job_try` run ahead of the attempt count, and the claim
  by count then matches while another job is working.
* `OneBuilder` is stated without a stall; with one, a second builder starts while the first
  sleeps, and `LatestClaimWins` is what remains.
* `SearchableExactlyWhenReady` and `SettledIsFinal` are stated while `OutcomesKnown`. Two
  cases lie outside, and both happen in the model: `mark_ready` commits and then raises
  (`LateError`), whereupon the retry branch deletes the chunks of a READY document; and an
  upload whose enqueue failed marks its row FAILED, and deletes the PDF, after a starting
  worker process has enqueued the same row.
* `SessionsAreReleased` names two exceptions: a session that was told to finish and then
  replaced by a restart, and one that was finishing when its client left. The second is a
  slip of the handler: it goes on after the disconnect, `receive()` raises, and the cleanup
  stops at the same exception before it comes to the session.
* `AcknowledgedIsStored` compares the text as well, except for a requestId under which clients
  send several (`SentWithOtherTexts`): that case is `evaluation_repeat`. In the
  passing runs every requestId has one text; the theorem is about any number.
* `ShownIsStored` claims the citations of a shown answer exactly while no document they name has
  been deleted.
* `OverlapHasCause` names two causes: a refused request released the slot of another
  (`demeanor_duplicates`), or an analysis is late by the whole interval, its reply from Redis and
  its end together (`TooLate`); so much the key has to spare and no more.
* `ContextIsBest` is about a search result in which a chunk is there once; the check for repeated
  chunks (`seen`, `context.py:39`) is not modelled.
* `RepeatIsReplayed` leaves out ids whose deliveries were handled at the same time: nothing is
  locked between the look-up and the insert.

### Facts the models show and no property states

Met while modelling. Those about rows, keys and sessions are behaviours of the modelled
actions and can be seen by asking TLC for their opposite; what is left out of the state (the
dimensions of a report, the history of a prompt) was read in the code.
Most are listed among the hazards.

* Report: two attempts cut off by `job_timeout`, out of two, leave the report PENDING for
  ever: given back, never failed, not recovered, not claimable, not reset by another request
  (`report/repository.py:290`; 说明书:92). The worker builds its report service without the
  demeanor repository (`worker.py:485`), so a generated report never has the dimension of
  说明书:321.
* Evaluation: crashes and timeouts that use up the attempts leave the turn EVALUATING, where
  recovery no longer selects it (`interview/repository.py:1195`).
* Preparation: a resume evaluation whose worker died stays EVALUATING
  (`interview/repository.py:268`; 说明书:1354). A crash between create and `begin_preparing`
  leaves CREATED for ever (`service.py:160`). An error of the resume enqueue overwrites the
  row without a look at it (`workflow.py:240`).
* Import: the PDF of a document uploaded behind the list of `delete_base` stays on disk as an
  orphan.
* Chat: an update that was committed and then cancelled, or whose read after the commit
  failed, turns a COMPLETED message into FAILED (before its client was told). A request's
  question may be in the history another request prompts with. Text generated after a client
  left is stored as a failure with what there was.
* Sessions: a logout beside a refresh deletes the old token and leaves the new one alive in
  Redis. The tab that loses a race clears the token the winner has stored.
* Text to speech: a record purged between `StoreRecord` and `Link` leaves an idempotency entry
  that no purge finds again; the next request replaces it.
* Speech recognition: a provider that fails after stop is reported as "completed", since the
  adapter yields None from its `finally` clause.
* Chat: an answer whose cited document is deleted while it streams ends as FAILED, though all of
  its text was shown.
* Demeanor: the sets in memory protect nothing (a service per request). A sample may be stored
  after the interview has ended.

## 4. The proofs

All theorems are for every value of the constants that satisfies the named assumption of the
module (`EvaluationAssumption`, `ReportAssumption`, `PreparationAssumption`,
`ImportAssumption`, `RetrievalAssumption`, `ChatAssumption`, `SessionAssumption`,
`SpeechAssumption`, `RecognitionAssumption`, `DemeanorAssumption`: positive attempts, `MaxTries`
at least as large, natural bounds, finite sets of requests, an overlap below the chunk size), so
in particular for any number of jobs, requests, tabs and faults, and for any document. Two of
them assume `StaleAfterTimeout` as well, which the default configuration justifies: the
exclusive claims of preparation and of evaluation.

| Module | Theorems | Argument |
|---|---|---|
| `AnswerEvaluation_proofs` | `EvaluationInvariant`, `TypeCorrect`, `OneTurnIsOpen`, `GradesAreConsistent`, `GradesNeverChange`, `EndedNeverChanges` | `EvaluationInv` joins typing, `OneOpenTurn`, `GradesMatchAnswers` and `ReferencesExist`. No part is inductive alone: that a late job finds its turn ended needs the one open turn, that a grade has its answer needs the references of queued jobs and of the recovery loop to be live |
| | `AcknowledgedIsAlwaysStored` | `TextsInv`: what a client sends, and what is stored under a requestId, is one of the texts of that id (`StoredTextIsOwn`); and a request between its commit and its response still finds its answer: no step removes one or changes its content. With one text for the id the two are equal |
| | `EvaluationClaimsAreExclusive` | `DeliveryInv`: every live delivery has put its claim on `attempt_count` (none was lost before), so all jobs of one turn together hold no more tries than the turn has attempts, and the `job_try` of any other job stays below the count. Neither the claim by count nor the claim by age can then match |
| | `QuestionsComeInOrder` | first a relation `RowStep` that every action satisfies on the rows; then `OrderInv`: the questions asked so far are 1 to `index + 1` with one opening turn each, so appending a turn, or the skipped ones of an early finish (whose number `Cardinality` counts), keeps the order. `FollowUpsAreDue`: a follow-up decided on by a count read without the lock still has room when it is stored, since only the open turn's coroutine adds one |
| | `ProgressIsImplemented` | every `RowStep` maps to a step of `InterviewProgress` or a stutter under the same invariants |
| `ReportGeneration_proofs` | `ReportInvariant`, `ReportTypeCorrect`, `OnlyTheLatestClaimWins`, `ReadyNeverChanges`, `LifeIsImplemented` | every coroutine holds a token of its own, the row holds the last one drawn exactly while GENERATING; so whoever passes the fencing test is the last claimer |
| | `OneBuilderAtATime`, `OnlyAfterAStallDoesAJobWaitForItself` | `LeasesAreHeld`: unless a stall happened, the coroutine whose renewal runs is the owner of the row and its lease is live, and no renewal has been refused. Two builders would own the row with one token, and `NeverWaitsForItself`, which `report_selflock` refutes, holds without a stall |
| `InterviewPreparation_proofs` | `PreparationInvariant`, `PreparationTypeCorrect`, `OnlyTheUnclaimedAreFlagged`, `QuestionsNeverChange`, `LifeIsImplemented`, `ClaimsAreExclusive` | a relation `RowStep` that every action satisfies, and the agreement of jobs, coroutines and requests with how far the row has come. `ClaimsAreExclusive` assumes `StaleAfterTimeout` and adds `DeliveryInv`: without lost deliveries `job_try` of any other job stays below the attempt count, so neither kind of claim can match |
| `Knowledge_proofs` | `ImportInvariant`, `ImportTypeCorrect`, `DeletionIsComplete`, `ReadyMeansSearchable`, `OutcomesNeverChange` | `LifeInv`: the requests bound the life of the row. `OutcomeInv`: unless somebody was mistaken about an outcome, a coroutine under way means PROCESSING or deleted |
| | `RetrievalInvariant`, `RetrievalTypeCorrect`, `NothingIsEverLost`, `EveryRoundMovesOn` | `SplitInv`: every word before `start` is in a chunk; the next chunk starts behind the start of this one (`NextStart` takes at least one step) and at or before its end, because a cut lies in the second half of a chunk, so nothing between two chunks is skipped. `EmbedInv`: the last batch ends at or behind the last chunk, by the arithmetic of the ceiling |
| | `ContextIsAlwaysBest` | `ContextInv`: what was taken fits the budget and is at least as similar as what waits; what was passed over does not fit beside its betters. The token count of a set is a sum over it, for which the first lemmas of the section show that one element less is its tokens less |
| `ChatStream_proofs` | `ChatInvariant`, `RepliesAlwaysFollow`, `ShownIsAlwaysStored`, `RepeatsAreAlwaysReplayed` | `RowsInv` ties the rows of a delivery to its await, `AnswerInv` says what is known of an answer before its update, `OverlapInv` is the inductive form of "a second question of one id means overlapping handlers" |
| | `TypedInvariant`, `ChatTypeCorrect`, `NumbersHaveNoGap` | that a number stays within its type is a count of the rows: `NumberInv` says that the numbers in use are 1 to some `m`, which the rows of all deliveries bound, and that no handler holds more than `m + 1`. Deletions of documents change `cited` and `cites` together (`DeletionChanges`), which is what `ShownIsAlwaysStored` needs of them |
| `AuthSession_proofs` | `SessionInvariant`, `SessionTypeCorrect`, `AlwaysOneLiveToken`, `RefusalsAlwaysHaveCause`, `StoredTokenAlwaysWorks` | `LiveInv` splits "one token or one exchange" into what each step can disturb; `SpentInv`: a token that left Redis before its time was used up by a call; `HandledInv`: tabs send and store only tokens whose answer was handled, which is why their own call cannot be the one that used them up |
| `Speech_proofs` | `RecognitionInvariant`, `RecognitionTypeCorrect`, `SessionsAreAlwaysReleased`, `ResultsAreAlwaysCurrent` | the flags of the handler agree with the state of the session it holds (`RunningInv`), every other one has been finished (`ForgottenInv`), and the event task reads the session that is held (`ListeningInv`) |
| | `SpeechInvariant`, `SpeechTypeCorrect`, `SynthesizedAtMostOnce`, `AudioIsAlwaysOwn`, `NobodyWaitsForNothing` | `InflightInv` and `LinkInv` say what the tables hold for a key at every step of the task they name; so a key that has a task under way or a kept record is found by the next request, and `OnceInv` follows |
| | `RateIsAlwaysBounded` | `RateInv`: `recent` lists the admissions in order of age, so pruning from its front leaves exactly those of the last minute |
| `DemeanorAnalysis_proofs` | `DemeanorInvariant`, `DemeanorTypeCorrect`, `OverlapAlwaysHasCause` | `SlotInv`: the key of an undisturbed analysis, or of one whose reply is still under way, is its own and has at least `LockTtl - (age + late)` left; a tick takes one from both sides (`KeyLosesOneTick`), and `LockTtl` exceeds the timeout by the interval, so the key is there until `late` has reached that (`SpareTime`) |

All three refinements (`InterviewProgress`, `ReportLife`, `PreparationLife`) are proved as well
as checked: the initial states map to initial states and, under the invariant, every step to a
step or a stutter.

Where a proof needs induction over data (the least element of a set, a sum over a set) it takes a
smallest counterexample instead, by the well-foundedness of the strict subsets of a finite set.

With this every invariant, action property and refinement of the passing runs is a theorem, and
so is the type invariant of every component. Only model-checked are the nine liveness
properties (`EvaluationSettles`, `PreparationSettles`, `ReportSettles`, `DocumentSettles`,
`SplittingEnds`, `AnswerSettles`, `WaitersAreAnswered`, `IdleConnectionEnds`,
`SlotComesFree`): liveness under fairness and `ENABLED` are beyond the prover. For two of them
the safety they rest on is a theorem: `EveryRoundMovesOn` (the splitter moves on in every round,
and the rest of a page is finite) and `NobodyWaitsForNothing` (whoever waits, waits for a
synthesis that has begun and that a repeated request would join). The three counterexamples are TLC's as well.

## 5. Not modelled, and why

* Score aggregation and the narrative of a report: arithmetic on floats with `round`
  (`aggregation.py:104`); TLA+ has integers, and a model in exact fractions would be another
  algorithm.
* Creation of knowledge bases, registration, passwords and access tokens, lists and titles:
  one commit each, guarded by a unique index.
* Recovery batches of more than one row. Known and not modelled: `mark_queued` raises
  `ValueError` for a report that failed since the query, and the rest of the batch waits for
  the next round (`worker.py:681`).
* Similarity search: a query of pgvector; its result is any scored list of at most `top_k`
  chunks of the document.
* Legacy paths: the in-process preparation that tests use when no queue is bound.
* Database errors that need a second look at the isolation level: PostgreSQL's READ COMMITTED
  with row locks is taken as given, and so is the uniqueness of indexes.
* Frontend presentation, the interview page, API routes and schemas, AI adapters and prompts,
  configuration, migrations, scripts, deployment, offline evaluation of RAG: no protocol of
  their own, or only as the requests of the modelled parts. AI calls appear as steps with
  every outcome.

## 6. Plan

Done, in the order of weight: `ArqQueue`, `AnswerEvaluation` with `InterviewProgress`,
`ReportGeneration` with `ReportLife`, `InterviewPreparation` with `PreparationLife`,
`KnowledgeImport` with the removal of its base, `ChatStream`, `AuthSession`, `TextToSpeech`,
`SpeechRecognition`, `KnowledgeRetrieval`, `DemeanorAnalysis`, and the theorems of all of
them.

What is left:

1. Theorems: the safety that the other liveness properties rest on, for instance that an
   answer under evaluation always has a job, a coroutine or a recovery round that will find it.
2. A second row in `ReportGeneration`'s recovery round, for the batch that stops in the middle.
3. The interview page: auto save against submission, and the recovery of a route, composed
   with the requests of `AnswerEvaluation`.
