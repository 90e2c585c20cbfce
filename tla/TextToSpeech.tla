---------------------------- MODULE TextToSpeech ----------------------------
(***************************************************************************)
(* TextToSpeechService for one user: the requests that share a synthesis   *)
(* by their requestId, the records that expire, and the rate limit.        *)
(*                                                                         *)
(* All state is in memory and guarded by one asyncio lock.  No block under *)
(* the lock awaits, so each of them is one action; between two blocks of   *)
(* one request any block of another may run.  Callers are numbered as they *)
(* arrive.  A caller starts at most one synthesis, known by its number:    *)
(* the provider's create, query and download calls and what follows them.  *)
(*                                                                         *)
(* No clock is kept.  A record expires at some moment after it was stored; *)
(* the admissions of the rate limit become a minute old one by one, in the *)
(* order in which they were made.  SpeechRecognition is the other half of  *)
(* the speech module; the names both would use carry Tts here.             *)
(***************************************************************************)
EXTENDS Integers, Sequences, FiniteSets

CONSTANTS
    Callers,       \* POST requests of the user, in the order of their arrival
    Keys,          \* the requestId values they may carry
    Fingerprints,  \* digests of text, voice and format
    Limit          \* tts_max_requests_per_minute

ASSUME SpeechAssumption ==
    /\ IsFiniteSet(Callers) /\ Callers \subseteq Nat \ {0}
    /\ "NONE" \notin Keys \union Fingerprints
    /\ Limit \in Nat \ {0}

VARIABLES
    caller,       \* local state of each request handler
    synthesis,    \* the synthesis each caller has started, with its record
    idempotency,  \* requestId -> fingerprint and synthesis
    inflight,     \* requestId -> running synthesis
    recent        \* the deque of admissions, by caller

ttsVars == <<caller, synthesis, idempotency, inflight, recent>>

-----------------------------------------------------------------------------

Key == Keys \union {"NONE"}
Fingerprint == Fingerprints \union {"NONE"}
NoOne == 0
Owner == Callers \union {NoOne}

\* REFUSED (invalid, or a conflict) and LIMITED are refusals, ERROR the failure
\* of the synthesis, AUDIO a record; GONE when the client has cancelled.
CallerStep == {"IDLE", "WAIT", "REFUSED", "LIMITED", "ERROR", "AUDIO", "GONE"}
Caller == [step : CallerStep, key : Key, fingerprint : Fingerprint, on : Owner]

\* CREATE, QUERY and DOWNLOAD are the calls of the provider's adapter, then one
\* step per acquisition of the lock.
ProviderStep == {"CREATE", "QUERY", "DOWNLOAD"}
SynthesisStep == ProviderStep \union {"NONE", "STORE", "LINK", "RELEASE", "DONE"}
\* The record in _tasks: EXPIRED ones are kept until somebody purges them.
RecordState == {"NONE", "FRESH", "EXPIRED", "PURGED"}
Synthesis == [step : SynthesisStep, key : Key, fingerprint : Fingerprint,
              record : RecordState, lastMinute : BOOLEAN]

NoCaller == [step |-> "IDLE", key |-> "NONE", fingerprint |-> "NONE", on |-> NoOne]
NoSynthesis == [step |-> "NONE", key |-> "NONE", fingerprint |-> "NONE",
                record |-> "NONE", lastMinute |-> FALSE]
NoLink == [fingerprint |-> "NONE", on |-> NoOne]

TtsTypeOK ==
    /\ caller \in [Callers -> Caller]
    /\ synthesis \in [Callers -> Synthesis]
    /\ idempotency \in [Keys -> [fingerprint : Fingerprint, on : Owner]]
    /\ inflight \in [Keys -> Owner]
    /\ recent \in Seq(Callers)

TtsInit ==
    /\ caller = [c \in Callers |-> NoCaller]
    /\ synthesis = [c \in Callers |-> NoSynthesis]
    /\ idempotency = [k \in Keys |-> NoLink]
    /\ inflight = [k \in Keys |-> NoOne]
    /\ recent = <<>>

-----------------------------------------------------------------------------

\* _purge_expired drops the expired records and the keys that lead to them.
Purged == [c \in Callers |->
              IF synthesis[c].record = "EXPIRED"
              THEN [synthesis[c] EXCEPT !.record = "PURGED"] ELSE synthesis[c]]
PurgedKeys == [k \in Keys |->
                  IF \E c \in Callers : /\ idempotency[k].on = c
                                        /\ synthesis[c].record = "EXPIRED"
                  THEN NoLink ELSE idempotency[k]]

\* Mutant: the oldest admission is popped whatever its age.
LastMinutePopped == IF recent = <<>> THEN <<>> ELSE Tail(recent)

\* _check_rate_limit pops the oldest admission for as long as that is a minute
\* old, and then counts what is left.
Popped == CHOOSE n \in 0 .. Len(recent) :
    /\ \A i \in 1 .. n : ~synthesis[recent[i]].lastMinute
    /\ n < Len(recent) => synthesis[recent[n + 1]].lastMinute
LastMinute == SubSeq(recent, Popped + 1, Len(recent))

\* The caller is gone, with nothing.
Ends(c, step) == caller' = [caller EXCEPT ![c] = [NoCaller EXCEPT !.step = step]]

\* The caller begins a synthesis, if the rate limit lets it.
Admit(c, key, fingerprint, known) ==
    IF Len(LastMinute) < Limit
    THEN /\ recent' = Append(LastMinute, c)
         /\ caller' = [caller EXCEPT ![c] =
                [step |-> "WAIT", key |-> key, fingerprint |-> fingerprint, on |-> c]]
         /\ synthesis' = [known EXCEPT ![c] =
                [NoSynthesis EXCEPT !.step = "CREATE", !.key = key,
                                    !.fingerprint = fingerprint, !.lastMinute = TRUE]]
         /\ inflight' = [k \in Keys |-> IF k = key THEN c ELSE inflight[k]]
    ELSE /\ recent' = LastMinute
         /\ synthesis' = known
         /\ Ends(c, "LIMITED")
         /\ UNCHANGED inflight

Arrives(c) ==
    /\ caller[c].step = "IDLE"
    /\ \A d \in Callers : d < c => caller[d].step # "IDLE"

\* _build_request: no text or too much of it, a format, voice or rate that is not
\* supported, no provider.
RefuseRequest(c) ==
    /\ Arrives(c)
    /\ Ends(c, "REFUSED")
    /\ UNCHANGED <<synthesis, idempotency, inflight, recent>>

SubmitWithoutKey(c) ==
    /\ Arrives(c)
    /\ Admit(c, "NONE", "NONE", synthesis)
    /\ UNCHANGED idempotency

\* The answer is waited for or, in on, already there.
Joins(c, key, fingerprint, step, on) ==
    caller' = [caller EXCEPT ![c] = [step |-> step, key |-> key,
                                     fingerprint |-> fingerprint, on |-> on]]

HasRecord(on) == on # NoOne /\ Purged[on].record \in {"FRESH", "EXPIRED"}

\* Mutant: a synthesis under way is not joined.
SubmitAlways(c) ==
    /\ Arrives(c)
    /\ idempotency' = PurgedKeys
    /\ \E k \in Keys, f \in Fingerprints :
        /\ PurgedKeys[k].on = NoOne
        /\ Admit(c, k, f, Purged)

\* Mutant: a synthesis under way is joined whatever its fingerprint.
SubmitUnchecked(c) ==
    /\ Arrives(c)
    /\ idempotency' = PurgedKeys
    /\ \E k \in Keys, f \in Fingerprints :
        IF inflight[k] = NoOne THEN Admit(c, k, f, Purged)
        ELSE /\ synthesis' = Purged
             /\ Joins(c, k, f, "WAIT", inflight[k])
             /\ UNCHANGED <<inflight, recent>>

\* The block of _synthesize_with_idempotency: a known key, a stored record, a
\* synthesis under way, or a new one.
Submit(c) ==
    /\ Arrives(c)
    /\ idempotency' = PurgedKeys
    /\ \E k \in Keys, f \in Fingerprints :
        LET link == PurgedKeys[k]
            other == inflight[k]
        IN \/ /\ \/ link.on # NoOne /\ link.fingerprint # f
                 \/ /\ ~HasRecord(link.on)
                    /\ other # NoOne /\ synthesis[other].fingerprint # f
              /\ synthesis' = Purged
              /\ Ends(c, "REFUSED")
              /\ UNCHANGED <<inflight, recent>>
           \/ /\ link.on # NoOne /\ link.fingerprint = f /\ HasRecord(link.on)
              /\ synthesis' = Purged
              /\ Joins(c, k, f, "AUDIO", link.on)
              /\ UNCHANGED <<inflight, recent>>
           \/ /\ link.on = NoOne \/ (link.fingerprint = f /\ ~HasRecord(link.on))
              /\ other # NoOne /\ synthesis[other].fingerprint = f
              /\ synthesis' = Purged
              /\ Joins(c, k, f, "WAIT", other)
              /\ UNCHANGED <<inflight, recent>>
           \/ /\ link.on = NoOne \/ (link.fingerprint = f /\ ~HasRecord(link.on))
              /\ other = NoOne
              /\ Admit(c, k, f, Purged)

-----------------------------------------------------------------------------
(* The synthesis: _run_idempotent_synthesis around _synthesize_and_store,  *)
(* or the latter alone when there is no requestId.                         *)

SynthesisAt(c, step) == synthesis' = [synthesis EXCEPT ![c].step = step]

\* A failure goes to the finally clause, or straight to the caller.
AfterFailure(c) == IF synthesis[c].key = "NONE" THEN "DONE" ELSE "RELEASE"

\* _create: the provider has taken the text and given a task id.
CreateTask(c) ==
    /\ synthesis[c].step = "CREATE"
    /\ SynthesisAt(c, "QUERY")
    /\ UNCHANGED <<caller, idempotency, inflight, recent>>

\* _query gives status 5 and the place of the audio; 1 and 3 ask again, for as
\* long as the provider gives them.
TaskCompleted(c) ==
    /\ synthesis[c].step = "QUERY"
    /\ SynthesisAt(c, "DOWNLOAD")
    /\ UNCHANGED <<caller, idempotency, inflight, recent>>

\* _download_audio, and an audio that _validate_result accepts.
AudioArrives(c) ==
    /\ synthesis[c].step = "DOWNLOAD"
    /\ SynthesisAt(c, "STORE")
    /\ UNCHANGED <<caller, idempotency, inflight, recent>>

\* Mutant: each call has a timeout, the loop around _query has none.
ProviderFailsOnCalls(c) ==
    /\ synthesis[c].step \in ProviderStep \ {"QUERY"}
    /\ SynthesisAt(c, AfterFailure(c))
    /\ UNCHANGED <<caller, idempotency, inflight, recent>>

\* A call fails, the provider gives another status or unusable audio, or wait_for
\* ends whichever call or sleep is under way.
ProviderFails(c) ==
    /\ synthesis[c].step \in ProviderStep
    /\ SynthesisAt(c, AfterFailure(c))
    /\ UNCHANGED <<caller, idempotency, inflight, recent>>

StoreRecord(c) ==
    /\ synthesis[c].step = "STORE"
    /\ synthesis' = [synthesis EXCEPT
            ![c].record = "FRESH",
            ![c].step = IF synthesis[c].key = "NONE" THEN "DONE" ELSE "LINK"]
    /\ UNCHANGED <<caller, idempotency, inflight, recent>>

Link(c) ==
    /\ synthesis[c].step = "LINK"
    /\ idempotency' = [idempotency EXCEPT ![synthesis[c].key] =
            [fingerprint |-> synthesis[c].fingerprint, on |-> c]]
    /\ SynthesisAt(c, "RELEASE")
    /\ UNCHANGED <<caller, inflight, recent>>

Release(c) ==
    /\ synthesis[c].step = "RELEASE"
    /\ inflight' = [k \in Keys |-> IF k = synthesis[c].key /\ inflight[k] = c
                                   THEN NoOne ELSE inflight[k]]
    /\ SynthesisAt(c, "DONE")
    /\ UNCHANGED <<caller, idempotency, recent>>

\* Everybody who waits for the task gets its record or its exception.
Deliver(c) ==
    /\ caller[c].step = "WAIT"
    /\ synthesis[caller[c].on].step = "DONE"
    /\ IF synthesis[caller[c].on].record = "NONE" THEN Ends(c, "ERROR")
       ELSE caller' = [caller EXCEPT ![c].step = "AUDIO"]
    /\ UNCHANGED <<synthesis, idempotency, inflight, recent>>

\* The task is shielded from its callers; without a requestId there is none.
Cancel(c) ==
    /\ caller[c].step = "WAIT"
    /\ Ends(c, "GONE")
    /\ IF caller[c].key = "NONE" THEN SynthesisAt(c, "DONE") ELSE UNCHANGED synthesis
    /\ UNCHANGED <<idempotency, inflight, recent>>

-----------------------------------------------------------------------------

\* get_task: whatever it returns, it purges.
GetTask ==
    /\ \E c \in Callers : synthesis[c].record = "EXPIRED"
    /\ synthesis' = Purged
    /\ idempotency' = PurgedKeys
    /\ UNCHANGED <<caller, inflight, recent>>

Expire(c) ==
    /\ synthesis[c].record = "FRESH"
    /\ synthesis' = [synthesis EXCEPT ![c].record = "EXPIRED"]
    /\ UNCHANGED <<caller, idempotency, inflight, recent>>

\* The oldest admission of the last minute becomes a minute old.
Age(c) ==
    /\ LastMinute # <<>>
    /\ c = Head(LastMinute)
    /\ synthesis' = [synthesis EXCEPT ![c].lastMinute = FALSE]
    /\ UNCHANGED <<caller, idempotency, inflight, recent>>

-----------------------------------------------------------------------------

TtsNext ==
    \/ \E c \in Callers :
        \/ RefuseRequest(c) \/ SubmitWithoutKey(c) \/ Submit(c)
        \/ CreateTask(c) \/ TaskCompleted(c) \/ AudioArrives(c) \/ ProviderFails(c)
        \/ StoreRecord(c) \/ Link(c) \/ Release(c)
        \/ Deliver(c) \/ Cancel(c)
        \/ Expire(c) \/ Age(c)
    \/ GetTask

TtsSpec == TtsInit /\ [][TtsNext]_ttsVars

\* wait_for ends a call that does not end by itself, and the event loop runs
\* what is ready.  The provider owes nothing.
Fairness ==
    \A c \in Callers :
        /\ WF_ttsVars(ProviderFails(c))
        /\ WF_ttsVars(StoreRecord(c) \/ Link(c) \/ Release(c))
        /\ WF_ttsVars(Deliver(c))

TtsFairSpec == TtsSpec /\ Fairness

-----------------------------------------------------------------------------
(* Properties.                                                             *)

Synthesizing(k) == {c \in Callers : /\ synthesis[c].key = k
                                    /\ synthesis[c].step \in SynthesisStep \ {"NONE", "DONE"}}
Kept(k) == {c \in Callers : /\ synthesis[c].key = k
                            /\ synthesis[c].step = "DONE"
                            /\ synthesis[c].record = "FRESH"}

\* A requestId is synthesized once: repeats that arrive during the synthesis, in
\* any gap between its locked blocks, after a cancelled caller or while the
\* record is kept start no second one; a failure or an expiry frees the key.
SynthesizedOnce == \A k \in Keys : Cardinality(Synthesizing(k) \union Kept(k)) <= 1

\* Nobody is given, or waits for, audio of another text: neither through the
\* key, nor through a synthesis he joined.
AudioIsOwn ==
    \A c \in Callers : caller[c].on # NoOne =>
        /\ synthesis[caller[c].on].fingerprint = caller[c].fingerprint
        /\ synthesis[caller[c].on].key = caller[c].key

\* However callers come, join, fail and cancel, no more than Limit syntheses were
\* begun within the last minute.
RateIsBounded ==
    Cardinality({c \in Callers : synthesis[c].lastMinute}) <= Limit

\* Every caller is answered or gone in the end, also those that joined a
\* synthesis whose provider never gets further than "in progress".
WaitersAreAnswered ==
    []<>(\A c \in Callers : caller[c].step # "WAIT")

=============================================================================
