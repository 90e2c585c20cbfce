---------------------------- MODULE Speech_proofs ----------------------------
(***************************************************************************)
(* Theorems about the speech module.                                       *)
(*                                                                         *)
(* SpeechRecognition, for any number of provider sessions and any limit of *)
(* audio.  RecognitionInv is the inductive invariant: the session that is  *)
(* in use is open or finishing, every other one has been finished or never *)
(* created, and the handler listens to the one in use.                     *)
(*                                                                         *)
(* TextToSpeech, for any number of callers, requestIds and texts and any   *)
(* rate limit.  SpeechInv is the inductive invariant: in every gap between *)
(* two locked blocks the table of running syntheses is exact, a requestId  *)
(* that leads to a synthesis leads to one of its own text, a fresh record  *)
(* is found under its requestId, and the deque of admissions is what is a  *)
(* minute old followed by what is not.                                     *)
(***************************************************************************)
EXTENDS SpeechRecognition, TextToSpeech, FiniteSetTheorems, SequenceTheorems, TLAPS

-----------------------------------------------------------------------------
(* SpeechRecognition: the invariant.                                       *)

\* As long as the handler runs, its variables and the sessions agree.
RunningInv ==
    handler # "ENDED" =>
        /\ current # 0 <=> started
        /\ finishing => started
        /\ started => session[current].state = IF finishing THEN "FINISHED" ELSE "OPEN"

ForgottenInv == \A s \in Session : s # current => session[s].state # "OPEN"

\* The frames of the session in use are counted in audio.
FramesInv ==
    /\ started => current # 0 /\ session[current].received = audio
    /\ \A s \in Session : session[s].state = "NONE" => session[s].received = 0

\* A disconnect is taken only from a client that has gone, and the loop goes on
\* after it only while a transcription finishes.
DisconnectInv ==
    /\ message = "DISCONNECT" => client = "GONE"
    /\ handler = "RECEIVED" => client = "GONE" /\ finishing

ListeningInv ==
    /\ listening = current
    /\ event # "NONE" => listening # 0

RecognitionInv ==
    /\ TypeOK
    /\ RunningInv
    /\ ForgottenInv
    /\ FramesInv
    /\ DisconnectInv
    /\ ListeningInv
    /\ ResultsAreCurrent
    /\ SessionsAreReleased

-----------------------------------------------------------------------------
(* Steps.                                                                  *)

\* However the handler ends, it leaves no session behind but one that was
\* finishing when the client left.
LEMMA CleanupReleases ==
    ASSUME RecognitionInv, handler # "ENDED", Cleanup, client' = client
    PROVE  /\ handler' = "ENDED"
           /\ session' \in [Session -> ProviderSession]
           /\ ForgottenInv' /\ RunningInv' /\ FramesInv' /\ SessionsAreReleased'
<1> USE DEF RecognitionInv, RunningInv, ForgottenInv, FramesInv, DisconnectInv, TypeOK
<1>1. session' \in [Session -> ProviderSession]
  BY DEF Cleanup, ProviderSession, SessionState
<1>2. CASE handler = "LOOP" /\ current # 0
  <2>1. session'[current].state = "CLOSED" /\ session'[current].received = session[current].received
        /\ \A s \in Session \ {current} : session'[s] = session[s]
    BY <1>2 DEF Cleanup, ProviderSession
  <2>2. QED
    BY <1>1, <1>2, <2>1 DEF Cleanup, SessionsAreReleased, ProviderSession, SessionState
<1>3. CASE handler = "LOOP" /\ current = 0
  BY <1>1, <1>3 DEF Cleanup, SessionsAreReleased, Session
<1>4. CASE handler = "RECEIVED"
  BY <1>1, <1>4 DEF Cleanup, SessionsAreReleased
<1>5. QED  BY <1>2, <1>3, <1>4 DEF HandlerStep

\* Every step that ends the handler, or only answers the client.
LEMMA EndingKeepsInvariant ==
    ASSUME RecognitionInv,
           Deadline \/ ProviderEnds \/ Fatal \/ ReceiveRaises
    PROVE  RecognitionInv'
<1>1. /\ handler # "ENDED" /\ Cleanup
      /\ UNCHANGED <<client, shown>>
      /\ message' \in {message, "NONE"} /\ event' \in {event, "NONE"}
  BY DEF Deadline, ProviderEnds, Fatal, ReceiveRaises, Take
<1>2. /\ handler' = "ENDED"
      /\ session' \in [Session -> ProviderSession]
      /\ ForgottenInv' /\ RunningInv' /\ FramesInv' /\ SessionsAreReleased'
  BY <1>1, CleanupReleases
<1>3. UNCHANGED <<current, listening, started, finishing, audio>>
  BY <1>1 DEF Cleanup
<1>4. TypeOK' /\ DisconnectInv'
  BY <1>1, <1>2, <1>3 DEF RecognitionInv, TypeOK, DisconnectInv, HandlerStep
<1>5. QED  BY <1>1, <1>2, <1>3, <1>4 DEF RecognitionInv, ListeningInv, ResultsAreCurrent

LEMMA SessionUpdate ==
    ASSUME RecognitionInv, NEW s \in Session, NEW r \in ProviderSession,
           session' = [session EXCEPT ![s] = r]
    PROVE  /\ session' \in [Session -> ProviderSession]
           /\ session'[s] = r
           /\ \A t \in Session \ {s} : session'[t] = session[t]
  BY DEF RecognitionInv, TypeOK

LEMMA StartKeepsInvariant ==
    ASSUME RecognitionInv, Start
    PROVE  RecognitionInv'
<1> USE DEF RecognitionInv
<1>1. PICK s \in Session :
        /\ session[s].state = "NONE"
        /\ session' = [session EXCEPT ![s] = [session[s] EXCEPT !.state = "OPEN"]]
        /\ current' = s /\ listening' = s
  BY DEF Start
<1>2. /\ handler = "LOOP" /\ handler' = "LOOP" /\ ~(started /\ ~finishing)
      /\ started' = TRUE /\ finishing' = FALSE /\ audio' = 0 /\ message' = "NONE"
      /\ UNCHANGED <<event, client, shown>>
  BY DEF Start, Take, Running
<1> DEFINE r == [session[s] EXCEPT !.state = "OPEN"]
<1>3. r \in ProviderSession /\ r.state = "OPEN" /\ r.received = 0
  BY <1>1 DEF TypeOK, ProviderSession, SessionState, FramesInv
<1>4. /\ session' \in [Session -> ProviderSession]
      /\ session'[s].state = "OPEN" /\ session'[s].received = 0
      /\ \A t \in Session \ {s} : session'[t] = session[t]
  BY <1>1, <1>3, SessionUpdate
<1>5. 0 \notin Session
  BY DEF Session
<1>6. TypeOK'
  <2>1. 0 \in 0 .. MaxAudio
    BY RecognitionAssumption
  <2>2. QED  BY <1>1, <1>2, <1>4, <2>1 DEF TypeOK, HandlerStep
<1>7. RunningInv' /\ FramesInv' /\ DisconnectInv'
  BY <1>1, <1>2, <1>4, <1>5 DEF RunningInv, FramesInv, DisconnectInv
<1>8. ForgottenInv'
  <2> SUFFICES ASSUME NEW t \in Session, t # s PROVE session[t].state # "OPEN"
    BY <1>1, <1>4 DEF ForgottenInv
  <2>1. CASE t = current
    BY <2>1, <1>2, <1>5 DEF RunningInv
  <2>2. CASE t # current
    BY <2>2 DEF ForgottenInv
  <2>3. QED  BY <2>1, <2>2
<1>9. QED  BY <1>1, <1>2, <1>5, <1>6, <1>7, <1>8 DEF ListeningInv, ResultsAreCurrent, SessionsAreReleased

\* Frames and the end of a transcription go to the session in use.
LEMMA CurrentSessionKeepsInvariant ==
    ASSUME RecognitionInv, SendAudio \/ Stop
    PROVE  RecognitionInv'
<1> USE DEF RecognitionInv
<1>1. /\ handler = "LOOP" /\ handler' = "LOOP" /\ started /\ ~finishing
      /\ message' = "NONE"
      /\ UNCHANGED <<current, listening, started, event, client, shown>>
  BY DEF SendAudio, Stop, Take, Running
<1>2. current \in Session /\ session[current].state = "OPEN"
      /\ session[current] \in ProviderSession
  BY <1>1 DEF RunningInv, TypeOK
<1>3. CASE SendAudio
  <2> DEFINE r == [session[current] EXCEPT !.received = @ + 1]
  <2>1. session' = [session EXCEPT ![current] = r] /\ audio' = audio + 1
        /\ audio < MaxAudio /\ finishing' = finishing
    BY <1>3 DEF SendAudio
  <2>2. r \in ProviderSession /\ r.state = "OPEN" /\ r.received = audio + 1
    BY <1>1, <1>2, <2>1, RecognitionAssumption DEF ProviderSession, FramesInv, TypeOK
  <2>3. /\ session' \in [Session -> ProviderSession]
        /\ session'[current].state = "OPEN" /\ session'[current].received = audio + 1
        /\ \A t \in Session \ {current} : session'[t] = session[t]
    BY <1>2, <2>1, <2>2, SessionUpdate
  <2>4. TypeOK'
    BY <1>1, <2>1, <2>3, RecognitionAssumption DEF TypeOK
  <2>5. QED
    BY <1>1, <2>1, <2>3, <2>4 DEF RunningInv, ForgottenInv, FramesInv, DisconnectInv, ListeningInv,
         ResultsAreCurrent, SessionsAreReleased
<1>4. CASE Stop
  <2> DEFINE r == [session[current] EXCEPT !.state = "FINISHED"]
  <2>1. session' = [session EXCEPT ![current] = r] /\ finishing' = TRUE /\ audio' = audio
    BY <1>4 DEF Stop
  <2>2. r \in ProviderSession /\ r.state = "FINISHED" /\ r.received = session[current].received
    BY <1>2 DEF ProviderSession, SessionState
  <2>3. /\ session' \in [Session -> ProviderSession]
        /\ session'[current].state = "FINISHED"
        /\ session'[current].received = session[current].received
        /\ \A t \in Session \ {current} : session'[t] = session[t]
    BY <1>2, <2>1, <2>2, SessionUpdate
  <2>4. QED
    BY <1>1, <2>1, <2>3 DEF TypeOK, RunningInv, ForgottenInv, FramesInv, DisconnectInv, ListeningInv,
         ResultsAreCurrent, SessionsAreReleased
<1>5. QED  BY <1>3, <1>4

\* The browser, the provider, and answers that change nothing else.
LEMMA OutsideKeepsInvariant ==
    ASSUME RecognitionInv,
           ClientSends \/ ClientLeaves \/ DisconnectArrives \/ ProviderSends \/ Decline
    PROVE  RecognitionInv'
<1> USE DEF RecognitionInv
<1>1. CASE ClientSends \/ ClientLeaves \/ DisconnectArrives \/ Decline
  <2>1. /\ UNCHANGED <<handler, transcription, shown>>
        /\ event' = event
        /\ client' \in {client, "GONE"} /\ message' \in MessageKind \union {"NONE"}
        /\ message' = "DISCONNECT" => message = "DISCONNECT" \/ client = "GONE"
    BY <1>1 DEF ClientSends, ClientLeaves, DisconnectArrives, Decline, Take, MessageKind, TypeOK
  <2>2. QED
    BY <2>1 DEF transcription, TypeOK, RunningInv, ForgottenInv, FramesInv, DisconnectInv, ListeningInv,
         ResultsAreCurrent, SessionsAreReleased
<1>2. CASE ProviderSends
  <2>1. /\ handler # "ENDED" /\ listening \in Session /\ listening # 0
        /\ UNCHANGED <<handler, message, client, current, listening, started, finishing,
                       audio, shown>>
        /\ event' \in EventKind
        /\ session' = [session EXCEPT ![listening] =
                          [session[listening] EXCEPT !.over = event' # "PARTIAL"]]
    BY <1>2 DEF ProviderSends, TypeOK, EventKind
  <2> DEFINE r == [session[listening] EXCEPT !.over = event' # "PARTIAL"]
  <2>2. r \in ProviderSession /\ r.state = session[listening].state
        /\ r.received = session[listening].received
    BY <2>1 DEF TypeOK, ProviderSession
  <2>3. /\ session' \in [Session -> ProviderSession]
        /\ session'[listening].state = session[listening].state
        /\ session'[listening].received = session[listening].received
        /\ \A t \in Session \ {listening} : session'[t] = session[t]
    BY <2>1, <2>2, SessionUpdate
  <2>4. QED
    BY <2>1, <2>3 DEF TypeOK, RunningInv, ForgottenInv, FramesInv, DisconnectInv, ListeningInv,
         ResultsAreCurrent, SessionsAreReleased
<1>3. QED  BY <1>1, <1>2

LEMMA ShowResultKeepsInvariant ==
    ASSUME RecognitionInv, ShowResult
    PROVE  RecognitionInv'
<1> USE DEF RecognitionInv
<1>1. /\ handler # "ENDED" /\ event' = "NONE"
      /\ UNCHANGED <<message, client>>
  BY DEF ShowResult
<1>2. CASE shown' = shown \union {<<listening, current>>} /\ UNCHANGED <<handler, transcription>>
  <2>1. listening \in Session /\ current \in Session \union {0}
    BY DEF ShowResult, ListeningInv, TypeOK
  <2>2. QED
    BY <1>1, <1>2, <2>1 DEF transcription, TypeOK, RunningInv, ForgottenInv, FramesInv,
         DisconnectInv, ListeningInv, ResultsAreCurrent, SessionsAreReleased
<1>3. CASE Cleanup /\ UNCHANGED shown
  <2>1. /\ handler' = "ENDED"
        /\ session' \in [Session -> ProviderSession]
        /\ ForgottenInv' /\ RunningInv' /\ FramesInv' /\ SessionsAreReleased'
    BY <1>1, <1>3, CleanupReleases
  <2>2. UNCHANGED <<current, listening, started, finishing, audio>>
    BY <1>3 DEF Cleanup
  <2>3. QED
    BY <1>1, <1>3, <2>1, <2>2 DEF TypeOK, DisconnectInv, HandlerStep, ListeningInv, ResultsAreCurrent
<1>4. QED  BY <1>2, <1>3 DEF ShowResult

\* While a transcription finishes, a disconnect is taken and the loop goes on.
LEMMA DisconnectKeepsInvariant ==
    ASSUME RecognitionInv, Disconnect
    PROVE  RecognitionInv'
<1> USE DEF RecognitionInv
<1>1. /\ handler = "LOOP" /\ client = "GONE" /\ message' = "NONE"
      /\ UNCHANGED <<event, client, shown>>
  BY DEF Disconnect, Take, DisconnectInv
<1>2. CASE finishing
  <2>1. handler' = "RECEIVED" /\ UNCHANGED transcription
    BY <1>2 DEF Disconnect
  <2>2. QED
    BY <1>1, <1>2, <2>1 DEF transcription, TypeOK, HandlerStep, RunningInv, ForgottenInv,
         FramesInv, DisconnectInv, ListeningInv, ResultsAreCurrent, SessionsAreReleased
<1>3. CASE ~finishing
  <2>1. Cleanup
    BY <1>3 DEF Disconnect
  <2>2. /\ handler' = "ENDED"
        /\ session' \in [Session -> ProviderSession]
        /\ ForgottenInv' /\ RunningInv' /\ FramesInv' /\ SessionsAreReleased'
    BY <1>1, <2>1, CleanupReleases
  <2>3. UNCHANGED <<current, listening, started, finishing, audio>>
    BY <2>1 DEF Cleanup
  <2>4. QED
    BY <1>1, <2>2, <2>3 DEF TypeOK, DisconnectInv, HandlerStep, ListeningInv, ResultsAreCurrent
<1>4. QED  BY <1>2, <1>3

-----------------------------------------------------------------------------
(* The theorems.                                                           *)

LEMMA InitHolds == Init => RecognitionInv
<1> SUFFICES ASSUME Init PROVE RecognitionInv
  OBVIOUS
<1>1. NoSession \in ProviderSession /\ NoSession.state = "NONE" /\ NoSession.received = 0
  BY RecognitionAssumption DEF NoSession, ProviderSession, SessionState
<1>2. \A s \in Session : session[s] = NoSession
  BY DEF Init
<1>3. TypeOK
  <2>1. 0 \in 0 .. MaxAudio
    BY RecognitionAssumption
  <2>2. session \in [Session -> ProviderSession]
    BY <1>1 DEF Init
  <2>3. QED  BY <2>1, <2>2 DEF Init, TypeOK, HandlerStep
<1>4. QED
  BY <1>1, <1>2, <1>3 DEF Init, RecognitionInv, RunningInv, ForgottenInv, FramesInv, DisconnectInv,
       ListeningInv, ResultsAreCurrent, SessionsAreReleased

\* The invariant holds in every reachable state, for every number of provider
\* sessions and every limit of audio.
THEOREM RecognitionInvariant == Spec => []RecognitionInv
<1>1. ASSUME RecognitionInv, [Next]_vars PROVE RecognitionInv'
  <2>1. CASE UNCHANGED vars
    BY <1>1, <2>1 DEF vars, transcription, RecognitionInv, TypeOK, RunningInv, ForgottenInv,
         FramesInv, DisconnectInv, ListeningInv, ResultsAreCurrent, SessionsAreReleased
  <2>2. QED
    BY <1>1, <2>1, EndingKeepsInvariant, StartKeepsInvariant, CurrentSessionKeepsInvariant,
       OutsideKeepsInvariant, ShowResultKeepsInvariant, DisconnectKeepsInvariant
       DEF Next, Handle
<1>2. QED  BY InitHolds, <1>1, PTL DEF Spec

\* Every variable keeps its type; what a session received stays within the limit.
THEOREM RecognitionTypeCorrect == Spec => []TypeOK
<1>1. RecognitionInv => TypeOK
  BY DEF RecognitionInv
<1>2. QED  BY RecognitionInvariant, <1>1, PTL

\* No way out of the handler leaves a provider session open, but for the one
\* that a client left while it was finishing.
THEOREM SessionsAreAlwaysReleased == Spec => []SessionsAreReleased
<1>1. RecognitionInv => SessionsAreReleased
  BY DEF RecognitionInv
<1>2. QED  BY RecognitionInvariant, <1>1, PTL

\* However often a transcription is restarted, a client never sees a result of
\* an earlier one.
THEOREM ResultsAreAlwaysCurrent == Spec => []ResultsAreCurrent
<1>1. RecognitionInv => ResultsAreCurrent
  BY DEF RecognitionInv
<1>2. QED  BY RecognitionInvariant, <1>1, PTL

-----------------------------------------------------------------------------
(* TextToSpeech: the invariant.                                            *)

\* A caller is known by what it has begun: nothing before it arrives, and what it
\* is given or waits for exists and is of its own text.
OwnInv ==
    /\ AudioIsOwn
    /\ \A c \in Callers :
        /\ caller[c].step = "IDLE" => synthesis[c].step = "NONE" /\ caller[c].on = NoOne
        /\ caller[c].on # NoOne => synthesis[caller[c].on].step # "NONE"
        /\ caller[c].step = "WAIT" =>
            IF caller[c].key = "NONE" THEN caller[c].on = c ELSE caller[c].on # NoOne

\* A record comes after the provider's calls, and only a synthesis with a
\* requestId goes through LINK and RELEASE.
ProgressInv ==
    \A c \in Callers :
        /\ synthesis[c].step \in ProviderStep \union {"NONE", "STORE"} =>
            synthesis[c].record = "NONE"
        /\ synthesis[c].step \in {"LINK", "RELEASE"} => synthesis[c].key \in Keys

\* The table of running syntheses is exact.
InflightInv ==
    \A k \in Keys : \A c \in Callers : inflight[k] = c <=> c \in Synthesizing(k)

\* A requestId leads to a stored synthesis of that requestId and fingerprint, and
\* whoever has a fresh record and a requestId is found under it.
LinkInv ==
    /\ \A k \in Keys : LET link == idempotency[k] IN
        link.on # NoOne =>
            /\ synthesis[link.on].key = k
            /\ synthesis[link.on].fingerprint = link.fingerprint
            /\ synthesis[link.on].step \in {"RELEASE", "DONE"}
    /\ \A c \in Callers :
        /\ synthesis[c].key \in Keys
        /\ synthesis[c].step \in {"RELEASE", "DONE"}
        /\ synthesis[c].record = "FRESH"
        => idempotency[synthesis[c].key].on = c

\* SynthesizedOnce without Cardinality.
OnceInv == \A k \in Keys : \A c, d \in Synthesizing(k) \union Kept(k) : c = d

\* The deque holds every caller at most once, first the admissions that are a
\* minute old and then the others, which are within the limit.
AgedAdmissions(n) ==
    \A i \in 1 .. Len(recent) : synthesis[recent[i]].lastMinute <=> i > n
RateInv ==
    /\ \E n \in 0 .. Len(recent) : AgedAdmissions(n) /\ Len(recent) - n <= Limit
    /\ \A i, j \in 1 .. Len(recent) : recent[i] = recent[j] => i = j
    /\ \A i \in 1 .. Len(recent) : caller[recent[i]].step # "IDLE"
    /\ \A c \in Callers : synthesis[c].lastMinute =>
        \E i \in 1 .. Len(recent) : recent[i] = c

SpeechInv ==
    TtsTypeOK /\ OwnInv /\ ProgressInv /\ InflightInv /\ LinkInv /\ OnceInv /\ RateInv

-----------------------------------------------------------------------------
(* The rate limit.                                                         *)

\* What the loop of _check_rate_limit pops is what is a minute old, all of it.
LEMMA PoppedIsAged ==
    ASSUME TtsTypeOK, NEW n \in 0 .. Len(recent), AgedAdmissions(n)
    PROVE  Popped = n
<1> DEFINE Good(m) == /\ \A i \in 1 .. m : ~synthesis[recent[i]].lastMinute
                      /\ m < Len(recent) => synthesis[recent[m + 1]].lastMinute
<1>1. Len(recent) \in Nat
  BY DEF TtsTypeOK
<1>2. Good(n)
  BY <1>1 DEF AgedAdmissions
<1>3. ASSUME NEW m \in 0 .. Len(recent), Good(m) PROVE m = n
  <2>1. CASE m < n
    <3>1. m + 1 \in 1 .. Len(recent) /\ ~(m + 1 > n) /\ m < Len(recent)
      BY <1>1, <2>1
    <3>2. QED  BY <1>3, <3>1 DEF AgedAdmissions
  <2>2. CASE m > n
    <3>1. n + 1 \in 1 .. Len(recent) /\ n + 1 > n /\ n + 1 \in 1 .. m
      BY <1>1, <2>2
    <3>2. QED  BY <1>3, <3>1 DEF AgedAdmissions
  <2>3. QED  BY <2>1, <2>2
<1>4. Popped = CHOOSE m \in 0 .. Len(recent) : Good(m)
  BY DEF Popped
<1> HIDE DEF Good
<1>5. Popped \in 0 .. Len(recent) /\ Good(Popped)
  BY <1>2, <1>4
<1>6. QED  BY <1>3, <1>5

\* The admissions that are left are the last ones of the deque.
LEMMA LastMinuteIsSuffix ==
    ASSUME SpeechInv
    PROVE  /\ LastMinute \in Seq(Callers)
           /\ \E n \in 0 .. Len(recent) :
                /\ AgedAdmissions(n) /\ Popped = n /\ Len(recent) - n <= Limit
                /\ Len(LastMinute) = Len(recent) - n
                /\ \A i \in 1 .. Len(LastMinute) : LastMinute[i] = recent[n + i]
<1>1. recent \in Seq(Callers) /\ Len(recent) \in Nat
  BY DEF SpeechInv, TtsTypeOK
<1>2. PICK n \in 0 .. Len(recent) : AgedAdmissions(n) /\ Len(recent) - n <= Limit
  BY DEF SpeechInv, RateInv
<1>3. Popped = n
  BY <1>2, PoppedIsAged DEF SpeechInv
<1>4. /\ n + 1 \in Int /\ Len(recent) \in Int
      /\ \A i \in n + 1 .. Len(recent) : recent[i] \in Callers
  BY <1>1, ElementOfSeq
<1>5. /\ LastMinute \in Seq(Callers)
      /\ Len(LastMinute) = IF n + 1 <= Len(recent) THEN Len(recent) - (n + 1) + 1 ELSE 0
      /\ \A i \in 1 .. Len(recent) - (n + 1) + 1 : LastMinute[i] = recent[n + 1 + i - 1]
  BY <1>3, <1>4, SubSeqProperties DEF LastMinute
<1>6. Len(LastMinute) = Len(recent) - n
  BY <1>1, <1>5
<1>7. ASSUME NEW i \in 1 .. Len(LastMinute) PROVE LastMinute[i] = recent[n + i]
  <2>1. i \in 1 .. Len(recent) - (n + 1) + 1 /\ n + 1 + i - 1 = n + i
    BY <1>1, <1>6
  <2>2. QED  BY <1>5, <2>1
<1>8. QED  BY <1>2, <1>3, <1>5, <1>6, <1>7

\* A step that admits nobody may prune the deque.
LEMMA PruningKeepsRate ==
    ASSUME SpeechInv, recent' \in {recent, LastMinute},
           \A c \in Callers : /\ synthesis'[c].lastMinute = synthesis[c].lastMinute
                              /\ caller[c].step # "IDLE" => caller'[c].step # "IDLE"
    PROVE  RateInv'
<1>1. recent \in Seq(Callers) /\ Len(recent) \in Nat
  BY DEF SpeechInv, TtsTypeOK
<1>2. \A i \in 1 .. Len(recent) : recent[i] \in Callers
  BY <1>1, ElementOfSeq
<1>3. CASE recent' = recent
  BY <1>1, <1>2, <1>3 DEF SpeechInv, RateInv, AgedAdmissions
<1>4. CASE recent' = LastMinute
  <2>1. PICK n \in 0 .. Len(recent) :
            /\ AgedAdmissions(n) /\ Len(recent) - n <= Limit
            /\ Len(LastMinute) = Len(recent) - n
            /\ \A i \in 1 .. Len(LastMinute) : LastMinute[i] = recent[n + i]
    BY LastMinuteIsSuffix
  <2>2. /\ Len(recent') = Len(recent) - n
        /\ \A i \in 1 .. Len(recent') : n + i \in 1 .. Len(recent) /\ recent'[i] = recent[n + i]
    BY <1>1, <1>4, <2>1
  <2>3. 0 \in 0 .. Len(recent') /\ AgedAdmissions(0)' /\ Len(recent') - 0 <= Limit
    <3>1. ASSUME NEW i \in 1 .. Len(recent')
          PROVE  synthesis'[recent'[i]].lastMinute /\ i > 0
      <4>1. n + i \in 1 .. Len(recent) /\ n + i > n /\ recent'[i] = recent[n + i]
        BY <1>1, <2>2
      <4>2. synthesis[recent[n + i]].lastMinute
        BY <2>1, <4>1 DEF AgedAdmissions
      <4>3. QED  BY <1>2, <4>1, <4>2
    <3>2. QED  BY <1>1, <2>1, <2>2, <3>1 DEF AgedAdmissions
  <2>4. \A i, j \in 1 .. Len(recent') : recent'[i] = recent'[j] => i = j
    <3> SUFFICES ASSUME NEW i \in 1 .. Len(recent'), NEW j \in 1 .. Len(recent'),
                        recent'[i] = recent'[j]
                 PROVE  i = j
      OBVIOUS
    <3>1. n + i = n + j
      BY <2>2 DEF SpeechInv, RateInv
    <3>2. QED  BY <1>1, <2>1, <2>2, <3>1
  <2>5. \A i \in 1 .. Len(recent') : caller'[recent'[i]].step # "IDLE"
    BY <1>2, <2>2 DEF SpeechInv, RateInv
  <2>6. ASSUME NEW c \in Callers, synthesis'[c].lastMinute
        PROVE  \E i \in 1 .. Len(recent') : recent'[i] = c
    <3>1. PICK j \in 1 .. Len(recent) : recent[j] = c
      BY <2>6 DEF SpeechInv, RateInv
    <3>2. j > n
      BY <2>1, <2>6, <3>1 DEF AgedAdmissions
    <3>3. j - n \in 1 .. Len(recent') /\ n + (j - n) = j
      BY <1>1, <2>2, <3>2
    <3>4. QED  BY <2>2, <3>1, <3>3
  <2>7. QED  BY <2>3, <2>4, <2>5, <2>6 DEF RateInv
<1>5. QED  BY <1>3, <1>4

\* An admission: there was room, and the caller was not in the deque.
LEMMA AdmissionKeepsRate ==
    ASSUME SpeechInv, NEW c \in Callers, caller[c].step = "IDLE",
           Len(LastMinute) < Limit, recent' = Append(LastMinute, c),
           synthesis'[c].lastMinute, caller'[c].step # "IDLE",
           \A d \in Callers \ {c} : /\ synthesis'[d].lastMinute = synthesis[d].lastMinute
                                    /\ caller[d].step # "IDLE" => caller'[d].step # "IDLE"
    PROVE  RateInv'
<1>1. recent \in Seq(Callers) /\ Len(recent) \in Nat /\ Limit \in Nat
  BY SpeechAssumption DEF SpeechInv, TtsTypeOK
<1>2. \A i \in 1 .. Len(recent) : recent[i] \in Callers
  BY <1>1, ElementOfSeq
<1>3. LastMinute \in Seq(Callers) /\ Len(LastMinute) \in Nat
  BY LastMinuteIsSuffix
<1>4. PICK n \in 0 .. Len(recent) :
          /\ AgedAdmissions(n)
          /\ Len(LastMinute) = Len(recent) - n
          /\ \A i \in 1 .. Len(LastMinute) : LastMinute[i] = recent[n + i]
  BY LastMinuteIsSuffix
<1> DEFINE m == Len(LastMinute)
<1>5. /\ Len(recent') = m + 1 /\ recent'[m + 1] = c
      /\ \A i \in 1 .. m : recent'[i] = LastMinute[i]
  BY <1>3, AppendProperties
<1>6. \A i \in 1 .. m : n + i \in 1 .. Len(recent) /\ recent'[i] = recent[n + i]
  BY <1>1, <1>4, <1>5
<1>7. \A i \in 1 .. Len(recent) : recent[i] # c
  BY DEF SpeechInv, RateInv
<1>8. 0 \in 0 .. Len(recent') /\ AgedAdmissions(0)' /\ Len(recent') - 0 <= Limit
  <2>1. ASSUME NEW i \in 1 .. m PROVE synthesis'[recent'[i]].lastMinute /\ i > 0
    <3>1. n + i \in 1 .. Len(recent) /\ n + i > n /\ recent'[i] = recent[n + i]
      BY <1>1, <1>6
    <3>2. synthesis[recent[n + i]].lastMinute
      BY <1>4, <3>1 DEF AgedAdmissions
    <3>3. QED  BY <1>2, <1>7, <3>1, <3>2
  <2>2. QED  BY <1>1, <1>3, <1>5, <2>1 DEF AgedAdmissions
<1>9. \A i, j \in 1 .. Len(recent') : recent'[i] = recent'[j] => i = j
  <2> SUFFICES ASSUME NEW i \in 1 .. m + 1, NEW j \in 1 .. m + 1, recent'[i] = recent'[j]
               PROVE  i = j
    BY <1>5
  <2>1. \A l \in 1 .. m : recent'[l] # c
    BY <1>6, <1>7
  <2>2. CASE i \in 1 .. m /\ j \in 1 .. m
    <3>1. n + i = n + j
      BY <1>6, <2>2 DEF SpeechInv, RateInv
    <3>2. QED  BY <3>1
  <2>3. QED  BY <1>3, <1>5, <2>1, <2>2
<1>10. \A i \in 1 .. Len(recent') : caller'[recent'[i]].step # "IDLE"
  <2>1. ASSUME NEW i \in 1 .. m PROVE caller'[recent'[i]].step # "IDLE"
    BY <1>2, <1>6, <1>7 DEF SpeechInv, RateInv
  <2>2. QED  BY <1>3, <1>5, <2>1
<1>11. ASSUME NEW d \in Callers, synthesis'[d].lastMinute
       PROVE  \E i \in 1 .. Len(recent') : recent'[i] = d
  <2>1. CASE d = c
    BY <1>3, <1>5, <2>1
  <2>2. CASE d # c
    <3>1. PICK j \in 1 .. Len(recent) : recent[j] = d
      BY <1>11, <2>2 DEF SpeechInv, RateInv
    <3>2. j > n
      BY <1>4, <1>11, <2>2, <3>1 DEF AgedAdmissions
    <3>3. j - n \in 1 .. m /\ n + (j - n) = j /\ j - n \in 1 .. Len(recent')
      BY <1>1, <1>4, <1>5, <3>2
    <3>4. QED  BY <1>6, <3>1, <3>3
  <2>3. QED  BY <2>1, <2>2
<1>12. QED  BY <1>8, <1>9, <1>10, <1>11 DEF RateInv

LEMMA AgeingKeepsRate ==
    ASSUME SpeechInv, NEW c \in Callers, Age(c)
    PROVE  RateInv'
<1>1. recent \in Seq(Callers) /\ Len(recent) \in Nat /\ recent' = recent /\ caller' = caller
  BY DEF SpeechInv, TtsTypeOK, Age
<1>2. \A i \in 1 .. Len(recent) : recent[i] \in Callers
  BY <1>1, ElementOfSeq
<1>3. PICK n \in 0 .. Len(recent) :
          /\ AgedAdmissions(n) /\ Len(recent) - n <= Limit
          /\ Len(LastMinute) = Len(recent) - n
          /\ \A i \in 1 .. Len(LastMinute) : LastMinute[i] = recent[n + i]
  BY LastMinuteIsSuffix
<1>4. LastMinute \in Seq(Callers) /\ LastMinute # <<>> /\ c = Head(LastMinute)
  BY LastMinuteIsSuffix DEF Age
<1>5. Len(LastMinute) \in Nat \ {0} /\ c = LastMinute[1]
  BY <1>4, EmptySeq
<1>6. n + 1 \in 1 .. Len(recent) /\ c = recent[n + 1]
  BY <1>1, <1>3, <1>5
<1>7. /\ ~synthesis'[c].lastMinute
      /\ \A d \in Callers \ {c} : synthesis'[d] = synthesis[d]
  BY DEF SpeechInv, TtsTypeOK, Synthesis, Age
<1>8. AgedAdmissions(n + 1)'
  <2> SUFFICES ASSUME NEW i \in 1 .. Len(recent)
               PROVE  synthesis'[recent[i]].lastMinute <=> i > n + 1
    BY <1>1 DEF AgedAdmissions
  <2>1. CASE i = n + 1
    BY <1>6, <1>7, <2>1
  <2>2. CASE i # n + 1
    <3>1. recent[i] # c
      BY <1>6, <2>2 DEF SpeechInv, RateInv
    <3>2. QED  BY <1>2, <1>3, <1>7, <2>2, <3>1 DEF AgedAdmissions
  <2>3. QED  BY <2>1, <2>2
<1>9. n + 1 \in 0 .. Len(recent') /\ Len(recent') - (n + 1) <= Limit
  BY <1>1, <1>3, <1>6, SpeechAssumption
<1>10. \A d \in Callers : synthesis'[d].lastMinute => synthesis[d].lastMinute
  BY <1>7
<1>11. QED  BY <1>1, <1>8, <1>9, <1>10 DEF SpeechInv, RateInv

-----------------------------------------------------------------------------
(* What the steps leave alone.                                             *)

LEMMA NoOneIsNobody == NoOne \notin Callers
  BY SpeechAssumption DEF NoOne

\* No step turns a synthesis into one of another text.
SameIdentity ==
    \A d \in Callers : /\ synthesis'[d].key = synthesis[d].key
                       /\ synthesis'[d].fingerprint = synthesis[d].fingerprint
                       /\ synthesis'[d].step = "NONE" <=> synthesis[d].step = "NONE"

LEMMA IdentityKeepsOwn ==
    ASSUME SpeechInv, SameIdentity, UNCHANGED caller
    PROVE  OwnInv'
<1>1. \A c \in Callers : caller[c].on # NoOne => caller[c].on \in Callers
  BY DEF SpeechInv, TtsTypeOK, Caller, Owner
<1>2. QED  BY <1>1 DEF SpeechInv, OwnInv, AudioIsOwn, SameIdentity

\* A step of the synthesis of one caller.
LEMMA OneSynthesis ==
    ASSUME TtsTypeOK, NEW c \in Callers, NEW s \in Synthesis,
           synthesis' = [synthesis EXCEPT ![c] = s]
    PROVE  /\ synthesis' \in [Callers -> Synthesis]
           /\ synthesis'[c] = s
           /\ \A d \in Callers \ {c} : synthesis'[d] = synthesis[d]
  BY DEF TtsTypeOK

LEMMA OneStep ==
    ASSUME TtsTypeOK, NEW c \in Callers, NEW step \in SynthesisStep,
           SynthesisAt(c, step)
    PROVE  /\ synthesis' \in [Callers -> Synthesis]
           /\ synthesis'[c] = [synthesis[c] EXCEPT !.step = step]
           /\ synthesis'[c].step = step
           /\ synthesis'[c].key = synthesis[c].key
           /\ synthesis'[c].fingerprint = synthesis[c].fingerprint
           /\ synthesis'[c].record = synthesis[c].record
           /\ synthesis'[c].lastMinute = synthesis[c].lastMinute
           /\ \A d \in Callers \ {c} : synthesis'[d] = synthesis[d]
<1> DEFINE s == [synthesis[c] EXCEPT !.step = step]
<1>1. s \in Synthesis
  BY DEF TtsTypeOK, Synthesis
<1>2. synthesis' = [synthesis EXCEPT ![c] = s]
  BY DEF SynthesisAt
<1>3. QED  BY <1>1, <1>2, OneSynthesis DEF TtsTypeOK, Synthesis

\* A step that starts nothing leaves a requestId at most the synthesis it had.
LEMMA NothingNewKeepsOnce ==
    ASSUME SpeechInv,
           \A c \in Callers : \A k \in Keys :
            c \in (Synthesizing(k) \union Kept(k))' => c \in Synthesizing(k) \union Kept(k)
    PROVE  OnceInv'
<1>1. \A k \in Keys : (Synthesizing(k) \union Kept(k))' \subseteq Callers
  BY DEF Synthesizing, Kept
<1>2. QED  BY <1>1 DEF SpeechInv, OnceInv

\* The provider's calls, what follows a failure of them, and what happens to a
\* record: steps of one synthesis that leave the tables alone.
LEMMA LocalStepKeepsInvariant ==
    ASSUME SpeechInv, NEW c \in Callers,
           \/ CreateTask(c) \/ TaskCompleted(c) \/ AudioArrives(c) \/ ProviderFails(c)
           \/ StoreRecord(c) \/ Expire(c)
    PROVE  SpeechInv'
<1>1. UNCHANGED <<caller, idempotency, inflight, recent>>
  BY DEF CreateTask, TaskCompleted, AudioArrives, ProviderFails, StoreRecord, Expire
<1>2. TtsTypeOK
  BY DEF SpeechInv
<1>3. synthesis[c] \in Synthesis
  BY <1>2 DEF TtsTypeOK
<1>4. /\ synthesis' \in [Callers -> Synthesis]
      /\ synthesis'[c].key = synthesis[c].key
      /\ synthesis'[c].fingerprint = synthesis[c].fingerprint
      /\ synthesis'[c].lastMinute = synthesis[c].lastMinute
      /\ \A d \in Callers \ {c} : synthesis'[d] = synthesis[d]
      /\ \/ /\ synthesis[c].step \in ProviderStep
            /\ synthesis'[c].record = synthesis[c].record
            /\ \/ synthesis'[c].step \in {"QUERY", "DOWNLOAD", "STORE"}
               \/ synthesis'[c].step = AfterFailure(c)
         \/ /\ synthesis[c].step = "STORE"
            /\ synthesis'[c].record = "FRESH"
            /\ synthesis'[c].step = IF synthesis[c].key = "NONE" THEN "DONE" ELSE "LINK"
         \/ /\ synthesis[c].record = "FRESH"
            /\ synthesis'[c].record = "EXPIRED"
            /\ synthesis'[c].step = synthesis[c].step
  <2>1. CASE CreateTask(c)
    <3>1. synthesis[c].step = "CREATE" /\ SynthesisAt(c, "QUERY") /\ "QUERY" \in SynthesisStep
      BY <2>1 DEF CreateTask, SynthesisStep, ProviderStep
    <3>2. QED  BY <1>2, <3>1, OneStep DEF ProviderStep
  <2>2. CASE TaskCompleted(c)
    <3>1. synthesis[c].step = "QUERY" /\ SynthesisAt(c, "DOWNLOAD") /\ "DOWNLOAD" \in SynthesisStep
      BY <2>2 DEF TaskCompleted, SynthesisStep, ProviderStep
    <3>2. QED  BY <1>2, <3>1, OneStep DEF ProviderStep
  <2>3. CASE AudioArrives(c)
    <3>1. synthesis[c].step = "DOWNLOAD" /\ SynthesisAt(c, "STORE") /\ "STORE" \in SynthesisStep
      BY <2>3 DEF AudioArrives, SynthesisStep, ProviderStep
    <3>2. QED  BY <1>2, <3>1, OneStep DEF ProviderStep
  <2>4. CASE ProviderFails(c)
    <3>1. /\ synthesis[c].step \in ProviderStep
          /\ SynthesisAt(c, AfterFailure(c)) /\ AfterFailure(c) \in SynthesisStep
      BY <2>4 DEF ProviderFails, AfterFailure, SynthesisStep
    <3>2. QED  BY <1>2, <3>1, OneStep
  <2>5. CASE StoreRecord(c)
    <3> DEFINE s == [synthesis[c] EXCEPT !.record = "FRESH",
                        !.step = IF synthesis[c].key = "NONE" THEN "DONE" ELSE "LINK"]
    <3>1. s \in Synthesis
      BY <1>3 DEF Synthesis, SynthesisStep, RecordState
    <3>2. synthesis[c].step = "STORE" /\ synthesis' = [synthesis EXCEPT ![c] = s]
      BY <1>2, <2>5 DEF StoreRecord, TtsTypeOK, Synthesis
    <3>3. QED  BY <1>2, <1>3, <3>1, <3>2, OneSynthesis DEF Synthesis
  <2>6. CASE Expire(c)
    <3> DEFINE s == [synthesis[c] EXCEPT !.record = "EXPIRED"]
    <3>1. s \in Synthesis
      BY <1>3 DEF Synthesis, RecordState
    <3>2. synthesis[c].record = "FRESH" /\ synthesis' = [synthesis EXCEPT ![c] = s]
      BY <2>6 DEF Expire
    <3>3. QED  BY <1>2, <1>3, <3>1, <3>2, OneSynthesis DEF Synthesis
  <2>7. QED  BY <2>1, <2>2, <2>3, <2>4, <2>5, <2>6
<1>5. /\ synthesis[c].step \in ProviderStep \union {"NONE", "STORE"} => synthesis[c].record = "NONE"
      /\ synthesis[c].step \in {"LINK", "RELEASE"} => synthesis[c].key \in Keys
      /\ synthesis[c].key \in Keys \/ synthesis[c].key = "NONE"
  BY <1>3 DEF SpeechInv, ProgressInv, Synthesis, Key
<1>6. AfterFailure(c) = IF synthesis[c].key = "NONE" THEN "DONE" ELSE "RELEASE"
  BY DEF AfterFailure
<1>7. /\ synthesis'[c].step \in ProviderStep \union {"NONE", "STORE"} => synthesis'[c].record = "NONE"
      /\ synthesis'[c].step \in {"LINK", "RELEASE"} => synthesis'[c].key \in Keys
      /\ synthesis'[c].step = "NONE" <=> synthesis[c].step = "NONE"
      /\ synthesis[c].step \in {"RELEASE", "DONE"} => synthesis'[c].step = synthesis[c].step
      /\ synthesis'[c].step \in {"RELEASE", "DONE"} /\ synthesis'[c].record = "FRESH"
         /\ synthesis[c].key \in Keys
         => synthesis[c].step \in {"RELEASE", "DONE"} /\ synthesis[c].record = "FRESH"
      /\ synthesis[c].key \in Keys =>
         (synthesis'[c].step \in {"NONE", "DONE"} <=> synthesis[c].step \in {"NONE", "DONE"})
  BY <1>4, <1>5, <1>6, SpeechAssumption DEF ProviderStep
<1>8. TtsTypeOK'
  BY <1>1, <1>2, <1>4 DEF TtsTypeOK
<1>9. OwnInv'
  BY <1>1, <1>4, <1>7, IdentityKeepsOwn DEF SameIdentity
<1>10. ProgressInv'
  BY <1>4, <1>7 DEF SpeechInv, ProgressInv
<1>11. \A k \in Keys : Synthesizing(k)' = Synthesizing(k)
  <2>1. \A d \in Callers : /\ synthesis[d].step \in SynthesisStep
                           /\ synthesis'[d].step \in SynthesisStep
    BY <1>2, <1>4 DEF TtsTypeOK, Synthesis
  <2>2. ASSUME NEW k \in Keys, NEW d \in Callers
        PROVE  d \in Synthesizing(k)' <=> d \in Synthesizing(k)
    BY <1>4, <1>7, <2>1 DEF Synthesizing
  <2>3. QED  BY <2>2 DEF Synthesizing
<1>12. InflightInv'
  BY <1>1, <1>11 DEF SpeechInv, InflightInv
<1>13. LinkInv'
  <2>1. \A k \in Keys : idempotency[k].on # NoOne => idempotency[k].on \in Callers
    BY <1>2 DEF TtsTypeOK, Owner
  <2>2. ASSUME NEW k \in Keys, idempotency[k].on # NoOne
        PROVE  /\ synthesis'[idempotency[k].on].key = k
               /\ synthesis'[idempotency[k].on].fingerprint = idempotency[k].fingerprint
               /\ synthesis'[idempotency[k].on].step \in {"RELEASE", "DONE"}
    BY <1>4, <1>7, <2>1, <2>2 DEF SpeechInv, LinkInv
  <2>3. ASSUME NEW d \in Callers, synthesis'[d].key \in Keys,
               synthesis'[d].step \in {"RELEASE", "DONE"}, synthesis'[d].record = "FRESH"
        PROVE  idempotency[synthesis'[d].key].on = d
    BY <1>4, <1>7, <2>3 DEF SpeechInv, LinkInv
  <2>4. QED  BY <1>1, <2>2, <2>3 DEF LinkInv
<1>14. OnceInv'
  <2>1. ASSUME NEW k \in Keys, NEW d \in Callers, d \in Kept(k)'
        PROVE  d \in Kept(k)
    BY <1>4, <1>5, <1>7, <2>1 DEF Kept, SpeechInv, ProgressInv, LinkInv
  <2>2. QED  BY <1>11, <2>1, NothingNewKeepsOnce
<1>15. RateInv'
  BY <1>1, <1>4, PruningKeepsRate
<1>16. QED  BY <1>8, <1>9, <1>10, <1>12, <1>13, <1>14, <1>15 DEF SpeechInv

-----------------------------------------------------------------------------
(* The end of a shared synthesis.                                          *)

LEMMA LinkKeepsInvariant ==
    ASSUME SpeechInv, NEW c \in Callers, Link(c)
    PROVE  SpeechInv'
<1> DEFINE key == synthesis[c].key
<1>1. /\ TtsTypeOK /\ synthesis[c].step = "LINK" /\ SynthesisAt(c, "RELEASE")
      /\ "RELEASE" \in SynthesisStep
      /\ UNCHANGED <<caller, inflight, recent>>
  BY DEF Link, SpeechInv, SynthesisStep
<1>2. /\ synthesis' \in [Callers -> Synthesis]
      /\ synthesis'[c].step = "RELEASE"
      /\ synthesis'[c].key = key
      /\ synthesis'[c].fingerprint = synthesis[c].fingerprint
      /\ synthesis'[c].record = synthesis[c].record
      /\ synthesis'[c].lastMinute = synthesis[c].lastMinute
      /\ \A d \in Callers \ {c} : synthesis'[d] = synthesis[d]
  BY <1>1, OneStep
<1>3. key \in Keys /\ synthesis[c].fingerprint \in Fingerprint
  BY <1>1 DEF SpeechInv, ProgressInv, TtsTypeOK, Synthesis
<1> DEFINE link == [fingerprint |-> synthesis[c].fingerprint, on |-> c]
<1>4. /\ idempotency' = [idempotency EXCEPT ![key] = link]
      /\ idempotency' \in [Keys -> [fingerprint : Fingerprint, on : Owner]]
      /\ idempotency'[key] = link
      /\ \A k \in Keys \ {key} : idempotency'[k] = idempotency[k]
  BY <1>1, <1>3 DEF Link, TtsTypeOK, Owner
<1>5. TtsTypeOK'
  BY <1>1, <1>2, <1>4 DEF TtsTypeOK
<1>6. OwnInv'
  BY <1>1, <1>2, IdentityKeepsOwn DEF SameIdentity
<1>7. ProgressInv'
  BY <1>1, <1>2, <1>3 DEF SpeechInv, ProgressInv, ProviderStep
<1>8. \A k \in Keys : Synthesizing(k)' = Synthesizing(k) /\ Kept(k)' = Kept(k)
  <2>1. \A k \in Keys : \A d \in Callers :
            /\ d \in Synthesizing(k)' <=> d \in Synthesizing(k)
            /\ d \in Kept(k)' <=> d \in Kept(k)
    BY <1>1, <1>2 DEF Synthesizing, Kept, SynthesisStep, ProviderStep
  <2>2. QED  BY <2>1 DEF Synthesizing, Kept
<1>9. InflightInv'
  BY <1>1, <1>8 DEF SpeechInv, InflightInv
<1>10. LinkInv'
  <2>1. ASSUME NEW k \in Keys, idempotency'[k].on # NoOne
        PROVE  /\ synthesis'[idempotency'[k].on].key = k
               /\ synthesis'[idempotency'[k].on].fingerprint = idempotency'[k].fingerprint
               /\ synthesis'[idempotency'[k].on].step \in {"RELEASE", "DONE"}
    <3>1. CASE k = key
      BY <1>2, <1>4, <3>1
    <3>2. CASE k # key
      <4>1. idempotency'[k] = idempotency[k] /\ idempotency[k].on \in Callers
        BY <1>1, <1>4, <2>1, <3>2 DEF TtsTypeOK, Owner
      <4>2. QED  BY <1>2, <2>1, <3>2, <4>1 DEF SpeechInv, LinkInv
    <3>3. QED  BY <3>1, <3>2
  <2>2. ASSUME NEW d \in Callers, synthesis'[d].key \in Keys,
               synthesis'[d].step \in {"RELEASE", "DONE"}, synthesis'[d].record = "FRESH"
        PROVE  idempotency'[synthesis'[d].key].on = d
    <3>1. CASE d = c
      BY <1>2, <1>4, <3>1
    <3>2. CASE d # c /\ synthesis[d].key # key
      BY <1>2, <1>4, <2>2, <3>2 DEF SpeechInv, LinkInv
    <3>3. CASE d # c /\ synthesis[d].key = key
      <4>1. c \in Synthesizing(key)
        BY <1>1 DEF Synthesizing, SynthesisStep
      <4>2. d \in Synthesizing(key) \union Kept(key)
        BY <1>2, <2>2, <3>3 DEF Synthesizing, Kept, SynthesisStep
      <4>3. QED  BY <1>3, <3>3, <4>1, <4>2 DEF SpeechInv, OnceInv
    <3>4. QED  BY <3>1, <3>2, <3>3
  <2>3. QED  BY <2>1, <2>2 DEF LinkInv
<1>11. OnceInv'
  BY <1>8, NothingNewKeepsOnce
<1>12. RateInv'
  BY <1>1, <1>2, PruningKeepsRate
<1>13. QED  BY <1>5, <1>6, <1>7, <1>9, <1>10, <1>11, <1>12 DEF SpeechInv

LEMMA ReleaseKeepsInvariant ==
    ASSUME SpeechInv, NEW c \in Callers, Release(c)
    PROVE  SpeechInv'
<1> DEFINE key == synthesis[c].key
<1>1. /\ TtsTypeOK /\ synthesis[c].step = "RELEASE" /\ SynthesisAt(c, "DONE")
      /\ "DONE" \in SynthesisStep
      /\ UNCHANGED <<caller, idempotency, recent>>
      /\ inflight' = [k \in Keys |-> IF k = key /\ inflight[k] = c THEN NoOne ELSE inflight[k]]
  BY DEF Release, SpeechInv, SynthesisStep
<1>2. /\ synthesis' \in [Callers -> Synthesis]
      /\ synthesis'[c].step = "DONE"
      /\ synthesis'[c].key = key
      /\ synthesis'[c].fingerprint = synthesis[c].fingerprint
      /\ synthesis'[c].record = synthesis[c].record
      /\ synthesis'[c].lastMinute = synthesis[c].lastMinute
      /\ \A d \in Callers \ {c} : synthesis'[d] = synthesis[d]
  BY <1>1, OneStep
<1>3. key \in Keys
  BY <1>1 DEF SpeechInv, ProgressInv
<1>4. TtsTypeOK'
  BY <1>1, <1>2 DEF TtsTypeOK, Owner
<1>5. OwnInv'
  BY <1>1, <1>2, IdentityKeepsOwn DEF SameIdentity
<1>6. ProgressInv'
  BY <1>1, <1>2 DEF SpeechInv, ProgressInv, ProviderStep
<1>7. InflightInv'
  <2> SUFFICES ASSUME NEW k \in Keys, NEW d \in Callers
               PROVE  inflight'[k] = d <=> d \in Synthesizing(k)'
    BY DEF InflightInv
  <2>1. CASE d = c
    <3>1. c \notin Synthesizing(k)' /\ (inflight[k] = c => k = key)
      BY <1>2 DEF Synthesizing, SpeechInv, InflightInv
    <3>2. QED  BY <1>1, <2>1, <3>1, NoOneIsNobody
  <2>2. CASE d # c
    <3>1. d \in Synthesizing(k)' <=> d \in Synthesizing(k)
      BY <1>2, <2>2 DEF Synthesizing
    <3>2. inflight'[k] = d <=> inflight[k] = d
      BY <1>1, <2>2, NoOneIsNobody
    <3>3. QED  BY <3>1, <3>2 DEF SpeechInv, InflightInv
  <2>3. QED  BY <2>1, <2>2
<1>8. LinkInv'
  <2>1. \A k \in Keys : idempotency[k].on # NoOne => idempotency[k].on \in Callers
    BY <1>1 DEF TtsTypeOK, Owner
  <2>2. QED  BY <1>1, <1>2, <2>1 DEF SpeechInv, LinkInv
<1>9. OnceInv'
  <2>1. ASSUME NEW k \in Keys, NEW d \in Callers, d \in (Synthesizing(k) \union Kept(k))'
        PROVE  d \in Synthesizing(k) \union Kept(k)
    BY <1>1, <1>2, <2>1 DEF Synthesizing, Kept, SynthesisStep
  <2>2. QED  BY <2>1, NothingNewKeepsOnce
<1>10. RateInv'
  BY <1>1, <1>2, PruningKeepsRate
<1>11. QED  BY <1>4, <1>5, <1>6, <1>7, <1>8, <1>9, <1>10 DEF SpeechInv

-----------------------------------------------------------------------------
(* Steps that touch neither a text, a key nor a record.                    *)

\* The tables and what they are about are as before.
LEMMA SameTablesKeepInvariant ==
    ASSUME SpeechInv, UNCHANGED <<idempotency, inflight>>,
           synthesis' \in [Callers -> Synthesis],
           \A d \in Callers :
            /\ synthesis'[d].key = synthesis[d].key
            /\ synthesis'[d].fingerprint = synthesis[d].fingerprint
            /\ synthesis'[d].record = synthesis[d].record
            /\ synthesis'[d].step = synthesis[d].step
               \/ (synthesis[d].key = "NONE" /\ synthesis'[d].step = "DONE")
    PROVE  ProgressInv' /\ InflightInv' /\ LinkInv' /\ OnceInv'
<1>1. "NONE" \notin Keys /\ TtsTypeOK
  BY SpeechAssumption DEF SpeechInv
<1>2. ProgressInv'
  BY <1>1 DEF SpeechInv, ProgressInv, ProviderStep
<1>3. \A k \in Keys : Synthesizing(k)' = Synthesizing(k) /\ Kept(k)' = Kept(k)
  <2>1. \A k \in Keys : \A d \in Callers :
            /\ d \in Synthesizing(k)' <=> d \in Synthesizing(k)
            /\ d \in Kept(k)' <=> d \in Kept(k)
    BY <1>1 DEF Synthesizing, Kept
  <2>2. QED  BY <2>1 DEF Synthesizing, Kept
<1>4. InflightInv'
  BY <1>3 DEF SpeechInv, InflightInv
<1>5. LinkInv'
  <2>1. \A k \in Keys : idempotency[k].on # NoOne => idempotency[k].on \in Callers
    BY <1>1 DEF TtsTypeOK, Owner
  <2>2. QED  BY <1>1, <2>1 DEF SpeechInv, LinkInv
<1>6. OnceInv'
  BY <1>3, NothingNewKeepsOnce
<1>7. QED  BY <1>2, <1>4, <1>5, <1>6

LEMMA AgeKeepsInvariant ==
    ASSUME SpeechInv, NEW c \in Callers, Age(c)
    PROVE  SpeechInv'
<1>1. TtsTypeOK /\ UNCHANGED <<caller, idempotency, inflight, recent>>
  BY DEF SpeechInv, Age
<1> DEFINE s == [synthesis[c] EXCEPT !.lastMinute = FALSE]
<1>2. s \in Synthesis /\ synthesis' = [synthesis EXCEPT ![c] = s]
  BY <1>1 DEF TtsTypeOK, Synthesis, Age
<1>3. /\ synthesis' \in [Callers -> Synthesis]
      /\ \A d \in Callers : /\ synthesis'[d].key = synthesis[d].key
                            /\ synthesis'[d].fingerprint = synthesis[d].fingerprint
                            /\ synthesis'[d].record = synthesis[d].record
                            /\ synthesis'[d].step = synthesis[d].step
  BY <1>1, <1>2, OneSynthesis DEF TtsTypeOK, Synthesis
<1>4. TtsTypeOK'
  BY <1>1, <1>3 DEF TtsTypeOK
<1>5. ProgressInv' /\ InflightInv' /\ LinkInv' /\ OnceInv'
  BY <1>1, <1>3, SameTablesKeepInvariant
<1>6. OwnInv' /\ RateInv'
  BY <1>1, <1>3, IdentityKeepsOwn, AgeingKeepsRate DEF SameIdentity
<1>7. QED  BY <1>4, <1>5, <1>6 DEF SpeechInv

\* A caller that leaves with nothing, from any step.
LEMMA EndingKeepsOwn ==
    ASSUME SpeechInv, NEW c \in Callers, NEW step \in CallerStep \ {"IDLE", "WAIT"},
           Ends(c, step),
           \A d \in Callers : /\ synthesis'[d].key = synthesis[d].key
                              /\ synthesis'[d].fingerprint = synthesis[d].fingerprint
                              /\ synthesis[d].step # "NONE" => synthesis'[d].step # "NONE"
                              /\ d # c /\ synthesis[d].step = "NONE" =>
                                 synthesis'[d].step = "NONE"
    PROVE  /\ caller' \in [Callers -> Caller]
           /\ \A d \in Callers : caller[d].step # "IDLE" => caller'[d].step # "IDLE"
           /\ OwnInv'
<1>1. /\ caller \in [Callers -> Caller]
      /\ \A d \in Callers : caller[d].on # NoOne => caller[d].on \in Callers
  BY DEF SpeechInv, TtsTypeOK, Caller, Owner
<1> DEFINE gone == [NoCaller EXCEPT !.step = step]
<1>2. gone \in Caller /\ gone.step = step /\ gone.on = NoOne
  BY DEF NoCaller, Caller, CallerStep, Key, Fingerprint, Owner
<1>3. /\ caller' \in [Callers -> Caller]
      /\ caller'[c] = gone
      /\ \A d \in Callers \ {c} : caller'[d] = caller[d]
  BY <1>1, <1>2 DEF Ends
<1> HIDE DEF gone
<1>4. OwnInv'
  <2> SUFFICES ASSUME NEW d \in Callers
               PROVE  /\ caller'[d].on # NoOne =>
                            /\ synthesis'[caller'[d].on].fingerprint = caller'[d].fingerprint
                            /\ synthesis'[caller'[d].on].key = caller'[d].key
                      /\ caller'[d].step = "IDLE" =>
                            synthesis'[d].step = "NONE" /\ caller'[d].on = NoOne
                      /\ caller'[d].on # NoOne => synthesis'[caller'[d].on].step # "NONE"
                      /\ caller'[d].step = "WAIT" =>
                            IF caller'[d].key = "NONE" THEN caller'[d].on = d
                            ELSE caller'[d].on # NoOne
    BY DEF OwnInv, AudioIsOwn
  <2>1. CASE d = c
    BY <1>2, <1>3, <2>1
  <2>2. CASE d # c
    BY <1>1, <1>3, <2>2 DEF SpeechInv, OwnInv, AudioIsOwn
  <2>3. QED  BY <2>1, <2>2
<1>5. QED  BY <1>2, <1>3, <1>4

LEMMA CancelKeepsInvariant ==
    ASSUME SpeechInv, NEW c \in Callers, Cancel(c)
    PROVE  SpeechInv'
<1>1. /\ TtsTypeOK /\ UNCHANGED <<idempotency, inflight, recent>>
      /\ caller[c].step = "WAIT" /\ Ends(c, "GONE")
  BY DEF SpeechInv, Cancel
<1>2. /\ synthesis' \in [Callers -> Synthesis]
      /\ \A d \in Callers : /\ synthesis'[d].key = synthesis[d].key
                            /\ synthesis'[d].fingerprint = synthesis[d].fingerprint
                            /\ synthesis'[d].record = synthesis[d].record
                            /\ synthesis'[d].lastMinute = synthesis[d].lastMinute
                            /\ \/ synthesis'[d].step = synthesis[d].step
                               \/ /\ d = c /\ synthesis[d].key = "NONE"
                                  /\ synthesis'[d].step = "DONE"
  <2>1. CASE caller[c].key = "NONE"
    <3>1. synthesis[c].key = "NONE"
      BY <1>1, <2>1, NoOneIsNobody DEF SpeechInv, OwnInv, AudioIsOwn
    <3>2. SynthesisAt(c, "DONE") /\ "DONE" \in SynthesisStep
      BY <2>1 DEF Cancel, SynthesisStep
    <3>3. /\ synthesis' \in [Callers -> Synthesis]
          /\ synthesis'[c].step = "DONE" /\ synthesis'[c].key = synthesis[c].key
          /\ synthesis'[c].fingerprint = synthesis[c].fingerprint
          /\ synthesis'[c].record = synthesis[c].record
          /\ synthesis'[c].lastMinute = synthesis[c].lastMinute
          /\ \A d \in Callers \ {c} : synthesis'[d] = synthesis[d]
      BY <1>1, <3>2, OneStep
    <3>4. QED  BY <3>1, <3>3
  <2>2. CASE caller[c].key # "NONE"
    BY <1>1, <2>2 DEF Cancel, TtsTypeOK
  <2>3. QED  BY <2>1, <2>2
<1>3. ProgressInv' /\ InflightInv' /\ LinkInv' /\ OnceInv'
  BY <1>1, <1>2, SameTablesKeepInvariant
<1>4. /\ caller' \in [Callers -> Caller]
      /\ \A d \in Callers : caller[d].step # "IDLE" => caller'[d].step # "IDLE"
      /\ OwnInv'
  <2>1. "GONE" \in CallerStep \ {"IDLE", "WAIT"}
    BY DEF CallerStep
  <2>2. \A d \in Callers : /\ synthesis[d].step # "NONE" => synthesis'[d].step # "NONE"
                           /\ d # c /\ synthesis[d].step = "NONE" => synthesis'[d].step = "NONE"
    BY <1>2
  <2>3. QED  BY <1>1, <1>2, <2>1, <2>2, EndingKeepsOwn
<1>5. TtsTypeOK' /\ RateInv'
  BY <1>1, <1>2, <1>4, PruningKeepsRate DEF TtsTypeOK
<1>6. QED  BY <1>3, <1>4, <1>5 DEF SpeechInv

LEMMA AnswerKeepsInvariant ==
    ASSUME SpeechInv, NEW c \in Callers, RefuseRequest(c) \/ Deliver(c)
    PROVE  SpeechInv'
<1>1. /\ TtsTypeOK /\ UNCHANGED <<synthesis, idempotency, inflight, recent>>
  BY DEF SpeechInv, RefuseRequest, Deliver
<1>2. /\ synthesis' \in [Callers -> Synthesis]
      /\ ProgressInv' /\ InflightInv' /\ LinkInv' /\ OnceInv'
  BY <1>1, SameTablesKeepInvariant DEF TtsTypeOK
<1>3. /\ caller' \in [Callers -> Caller]
      /\ \A d \in Callers : caller[d].step # "IDLE" => caller'[d].step # "IDLE"
      /\ OwnInv'
  <2>1. CASE Ends(c, "REFUSED")
    BY <1>1, <2>1, EndingKeepsOwn DEF CallerStep
  <2>2. CASE Ends(c, "ERROR")
    BY <1>1, <2>2, EndingKeepsOwn DEF CallerStep
  <2>3. CASE caller' = [caller EXCEPT ![c].step = "AUDIO"]
    <3>1. /\ caller' \in [Callers -> Caller]
          /\ caller'[c].step = "AUDIO" /\ caller'[c].key = caller[c].key
          /\ caller'[c].fingerprint = caller[c].fingerprint /\ caller'[c].on = caller[c].on
          /\ \A d \in Callers \ {c} : caller'[d] = caller[d]
      BY <1>1, <2>3 DEF TtsTypeOK, Caller, CallerStep
    <3>2. QED  BY <1>1, <3>1 DEF SpeechInv, OwnInv, AudioIsOwn
  <2>4. QED  BY <2>1, <2>2, <2>3 DEF RefuseRequest, Deliver
<1>4. TtsTypeOK' /\ RateInv'
  BY <1>1, <1>2, <1>3, PruningKeepsRate DEF TtsTypeOK
<1>5. QED  BY <1>2, <1>3, <1>4 DEF SpeechInv

-----------------------------------------------------------------------------
(* Purging and what a new request finds.                                   *)

\* known and links are the records and the keys, or what is left of them when
\* expired records and the keys that lead to them are dropped.
Tidied(known, links) ==
    /\ known \in [Callers -> Synthesis]
    /\ links \in [Keys -> [fingerprint : Fingerprint, on : Owner]]
    /\ \A c \in Callers :
        /\ known[c].step = synthesis[c].step
        /\ known[c].key = synthesis[c].key
        /\ known[c].fingerprint = synthesis[c].fingerprint
        /\ known[c].lastMinute = synthesis[c].lastMinute
        /\ known[c].record = "NONE" <=> synthesis[c].record = "NONE"
        /\ known[c].record = "FRESH" <=> synthesis[c].record = "FRESH"
    /\ \A k \in Keys :
        /\ links[k] \in {idempotency[k], NoLink}
        /\ \A c \in Callers : idempotency[k].on = c /\ synthesis[c].record = "FRESH" =>
            links[k] = idempotency[k]

LEMMA NothingPurged ==
    ASSUME TtsTypeOK
    PROVE  Tidied(synthesis, idempotency)
  BY DEF Tidied, TtsTypeOK

LEMMA PurgeTidies ==
    ASSUME TtsTypeOK
    PROVE  Tidied(Purged, PurgedKeys)
<1>1. NoLink \in [fingerprint : Fingerprint, on : Owner]
  BY DEF NoLink, Fingerprint, Owner
<1>2. ASSUME NEW c \in Callers
      PROVE  /\ Purged[c] \in Synthesis
             /\ Purged[c].step = synthesis[c].step
             /\ Purged[c].key = synthesis[c].key
             /\ Purged[c].fingerprint = synthesis[c].fingerprint
             /\ Purged[c].lastMinute = synthesis[c].lastMinute
             /\ Purged[c].record = "NONE" <=> synthesis[c].record = "NONE"
             /\ Purged[c].record = "FRESH" <=> synthesis[c].record = "FRESH"
  <2>1. CASE synthesis[c].record = "EXPIRED"
    <3>1. synthesis[c] \in Synthesis /\ Purged[c] = [synthesis[c] EXCEPT !.record = "PURGED"]
      BY <2>1 DEF TtsTypeOK, Purged
    <3>2. QED  BY <2>1, <3>1 DEF Synthesis, RecordState
  <2>2. CASE synthesis[c].record # "EXPIRED"
    BY <2>2 DEF TtsTypeOK, Purged
  <2>3. QED  BY <2>1, <2>2
<1>3. Purged \in [Callers -> Synthesis]
  BY <1>2 DEF Purged
<1>4. ASSUME NEW k \in Keys
      PROVE  /\ PurgedKeys[k] \in {idempotency[k], NoLink}
             /\ \A c \in Callers : idempotency[k].on = c /\ synthesis[c].record = "FRESH" =>
                PurgedKeys[k] = idempotency[k]
  BY DEF PurgedKeys
<1>5. PurgedKeys \in [Keys -> [fingerprint : Fingerprint, on : Owner]]
  BY <1>1 DEF PurgedKeys, TtsTypeOK
<1>6. QED  BY <1>2, <1>3, <1>4, <1>5 DEF Tidied

\* Tidying alone disturbs nothing.
LEMMA TidyingKeepsInvariant ==
    ASSUME SpeechInv, Tidied(synthesis', idempotency'), UNCHANGED inflight
    PROVE  ProgressInv' /\ InflightInv' /\ LinkInv' /\ OnceInv' /\ SameIdentity
<1>1. TtsTypeOK /\ NoLink.on = NoOne
  BY DEF SpeechInv, NoLink
<1>2. ProgressInv'
  BY DEF SpeechInv, ProgressInv, Tidied
<1>3. \A k \in Keys : Synthesizing(k)' = Synthesizing(k) /\ Kept(k)' = Kept(k)
  <2>1. \A k \in Keys : \A d \in Callers :
            /\ d \in Synthesizing(k)' <=> d \in Synthesizing(k)
            /\ d \in Kept(k)' <=> d \in Kept(k)
    BY DEF Synthesizing, Kept, Tidied
  <2>2. QED  BY <2>1 DEF Synthesizing, Kept
<1>4. InflightInv'
  BY <1>3 DEF SpeechInv, InflightInv
<1>5. LinkInv'
  <2>1. ASSUME NEW k \in Keys, idempotency'[k].on # NoOne
        PROVE  /\ synthesis'[idempotency'[k].on].key = k
               /\ synthesis'[idempotency'[k].on].fingerprint = idempotency'[k].fingerprint
               /\ synthesis'[idempotency'[k].on].step \in {"RELEASE", "DONE"}
    <3>1. idempotency'[k] = idempotency[k] /\ idempotency[k].on \in Callers
      BY <1>1, <2>1 DEF Tidied, TtsTypeOK, Owner
    <3>2. QED  BY <2>1, <3>1 DEF SpeechInv, LinkInv, Tidied
  <2>2. ASSUME NEW d \in Callers, synthesis'[d].key \in Keys,
               synthesis'[d].step \in {"RELEASE", "DONE"}, synthesis'[d].record = "FRESH"
        PROVE  idempotency'[synthesis'[d].key].on = d
    <3>1. /\ synthesis[d].key = synthesis'[d].key /\ synthesis[d].record = "FRESH"
          /\ synthesis[d].step \in {"RELEASE", "DONE"}
      BY <2>2 DEF Tidied
    <3>2. idempotency[synthesis[d].key].on = d
      BY <2>2, <3>1 DEF SpeechInv, LinkInv
    <3>3. QED  BY <2>2, <3>1, <3>2 DEF Tidied
  <2>3. QED  BY <2>1, <2>2 DEF LinkInv
<1>6. OnceInv'
  BY <1>3, NothingNewKeepsOnce
<1>7. QED  BY <1>2, <1>4, <1>5, <1>6 DEF SameIdentity, Tidied

\* A new synthesis starts where no other one of its requestId runs or is kept.
LEMMA AdmitKeepsInvariant ==
    ASSUME SpeechInv, NEW c \in Callers, Arrives(c),
           NEW key \in Key, NEW fingerprint \in Fingerprint, NEW known,
           Tidied(known, idempotency'), Admit(c, key, fingerprint, known),
           key \in Keys => /\ inflight[key] = NoOne
                           /\ \A d \in Callers : d \notin Kept(key)
    PROVE  SpeechInv'
<1>1. /\ TtsTypeOK /\ c # NoOne /\ NoLink.on = NoOne
      /\ caller[c].step = "IDLE" /\ synthesis[c].step = "NONE"
  BY NoOneIsNobody DEF SpeechInv, Arrives, OwnInv, NoLink
<1>2. LastMinute \in Seq(Callers)
  BY LastMinuteIsSuffix
<1>3. CASE ~(Len(LastMinute) < Limit)
  <2>1. /\ recent' = LastMinute /\ synthesis' = known
        /\ Ends(c, "LIMITED") /\ UNCHANGED inflight
    BY <1>3 DEF Admit
  <2>2. ProgressInv' /\ InflightInv' /\ LinkInv' /\ OnceInv' /\ SameIdentity
    BY <2>1, TidyingKeepsInvariant
  <2>3. /\ caller' \in [Callers -> Caller]
        /\ \A d \in Callers : caller[d].step # "IDLE" => caller'[d].step # "IDLE"
        /\ OwnInv'
    BY <2>1, <2>2, EndingKeepsOwn DEF CallerStep, SameIdentity
  <2>4. TtsTypeOK' /\ RateInv'
    BY <1>1, <1>2, <2>1, <2>3, PruningKeepsRate DEF TtsTypeOK, Tidied
  <2>5. QED  BY <2>2, <2>3, <2>4 DEF SpeechInv
<1>4. CASE Len(LastMinute) < Limit
  <2> DEFINE s == [NoSynthesis EXCEPT !.step = "CREATE", !.key = key,
                                      !.fingerprint = fingerprint, !.lastMinute = TRUE]
             w == [step |-> "WAIT", key |-> key, fingerprint |-> fingerprint, on |-> c]
  <2>1. /\ recent' = Append(LastMinute, c)
        /\ caller' = [caller EXCEPT ![c] = w]
        /\ synthesis' = [known EXCEPT ![c] = s]
        /\ inflight' = [k \in Keys |-> IF k = key THEN c ELSE inflight[k]]
    BY <1>4 DEF Admit
  <2>2. s \in Synthesis /\ w \in Caller
    BY DEF NoSynthesis, Synthesis, SynthesisStep, ProviderStep, RecordState, Caller,
           CallerStep, Owner, Key
  <2>3. /\ s.step = "CREATE" /\ s.key = key /\ s.fingerprint = fingerprint
        /\ s.record = "NONE" /\ s.lastMinute = TRUE
    BY DEF NoSynthesis
  <2>4. /\ w.step = "WAIT" /\ w.key = key /\ w.fingerprint = fingerprint /\ w.on = c
    OBVIOUS
  <2> HIDE DEF s, w
  <2>5. /\ synthesis' \in [Callers -> Synthesis] /\ synthesis'[c] = s
        /\ \A d \in Callers \ {c} : synthesis'[d] = known[d]
    BY <2>1, <2>2 DEF Tidied
  <2>6. /\ caller' \in [Callers -> Caller] /\ caller'[c] = w
        /\ \A d \in Callers \ {c} : caller'[d] = caller[d]
    BY <1>1, <2>1, <2>2 DEF TtsTypeOK
  <2>7. TtsTypeOK'
    <3>1. inflight' \in [Keys -> Owner]
      BY <1>1, <2>1 DEF TtsTypeOK, Owner
    <3>2. recent' \in Seq(Callers)
      BY <1>2, <2>1, AppendProperties
    <3>3. QED  BY <2>5, <2>6, <3>1, <3>2 DEF TtsTypeOK, Tidied
  <2>8. OwnInv'
    <3> SUFFICES ASSUME NEW d \in Callers
                 PROVE  /\ caller'[d].on # NoOne =>
                            /\ synthesis'[caller'[d].on].fingerprint = caller'[d].fingerprint
                            /\ synthesis'[caller'[d].on].key = caller'[d].key
                        /\ caller'[d].step = "IDLE" =>
                              synthesis'[d].step = "NONE" /\ caller'[d].on = NoOne
                        /\ caller'[d].on # NoOne => synthesis'[caller'[d].on].step # "NONE"
                        /\ caller'[d].step = "WAIT" =>
                              IF caller'[d].key = "NONE" THEN caller'[d].on = d
                              ELSE caller'[d].on # NoOne
      BY DEF OwnInv, AudioIsOwn
    <3>1. CASE d = c
      BY <1>1, <2>3, <2>4, <2>5, <2>6, <3>1
    <3>2. CASE d # c
      <4>1. caller'[d] = caller[d] /\ synthesis'[d] = known[d]
        BY <2>5, <2>6, <3>2
      <4>2. /\ caller[d].on # NoOne =>
                /\ caller[d].on \in Callers
                /\ synthesis[caller[d].on].step # "NONE"
                /\ synthesis[caller[d].on].fingerprint = caller[d].fingerprint
                /\ synthesis[caller[d].on].key = caller[d].key
            /\ caller[d].step = "IDLE" => synthesis[d].step = "NONE" /\ caller[d].on = NoOne
            /\ caller[d].step = "WAIT" =>
                IF caller[d].key = "NONE" THEN caller[d].on = d ELSE caller[d].on # NoOne
        BY <1>1 DEF SpeechInv, OwnInv, AudioIsOwn, TtsTypeOK, Caller, Owner
      <4>3. caller[d].on # NoOne => caller[d].on # c
        BY <1>1, <4>2
      <4>4. QED  BY <2>5, <4>1, <4>2, <4>3 DEF Tidied
    <3>3. QED  BY <3>1, <3>2
  <2>9. ProgressInv'
    <3>1. \A d \in Callers \ {c} :
            /\ synthesis'[d].step \in ProviderStep \union {"NONE", "STORE"} =>
                synthesis'[d].record = "NONE"
            /\ synthesis'[d].step \in {"LINK", "RELEASE"} => synthesis'[d].key \in Keys
      BY <2>5 DEF SpeechInv, ProgressInv, Tidied
    <3>2. QED  BY <2>3, <2>5, <3>1 DEF ProgressInv
  <2>10. \A k \in Keys : \A d \in Callers \ {c} :
            /\ d \in Synthesizing(k)' <=> d \in Synthesizing(k)
            /\ d \in Kept(k)' <=> d \in Kept(k)
    BY <2>5 DEF Synthesizing, Kept, Tidied
  <2>11. \A k \in Keys : /\ c \notin Synthesizing(k) /\ c \notin Kept(k)'
                         /\ c \in Synthesizing(k)' <=> k = key
    BY <1>1, <2>3, <2>5 DEF Synthesizing, Kept, SynthesisStep, ProviderStep
  <2>12. InflightInv'
    <3> SUFFICES ASSUME NEW k \in Keys, NEW d \in Callers
                 PROVE  inflight'[k] = d <=> d \in Synthesizing(k)'
      BY DEF InflightInv
    <3>1. inflight'[k] = IF k = key THEN c ELSE inflight[k]
      BY <2>1
    <3>2. inflight[k] = d <=> d \in Synthesizing(k)
      BY DEF SpeechInv, InflightInv
    <3>3. CASE d = c
      BY <2>11, <3>1, <3>2, <3>3
    <3>4. CASE d # c
      BY <2>10, <3>1, <3>2, <3>4, NoOneIsNobody
    <3>5. QED  BY <3>3, <3>4
  <2>13. LinkInv'
    <3>1. ASSUME NEW k \in Keys, idempotency'[k].on # NoOne
          PROVE  /\ synthesis'[idempotency'[k].on].key = k
                 /\ synthesis'[idempotency'[k].on].fingerprint = idempotency'[k].fingerprint
                 /\ synthesis'[idempotency'[k].on].step \in {"RELEASE", "DONE"}
      <4>1. idempotency'[k] = idempotency[k] /\ idempotency[k].on \in Callers
        BY <1>1, <3>1 DEF Tidied, TtsTypeOK, Owner
      <4>2. /\ synthesis[idempotency[k].on].key = k
            /\ synthesis[idempotency[k].on].fingerprint = idempotency[k].fingerprint
            /\ synthesis[idempotency[k].on].step \in {"RELEASE", "DONE"}
        BY <3>1, <4>1 DEF SpeechInv, LinkInv
      <4>3. idempotency[k].on # c
        BY <1>1, <4>2
      <4>4. QED  BY <2>5, <4>1, <4>2, <4>3 DEF Tidied
    <3>2. ASSUME NEW d \in Callers, synthesis'[d].key \in Keys,
                 synthesis'[d].step \in {"RELEASE", "DONE"}, synthesis'[d].record = "FRESH"
          PROVE  idempotency'[synthesis'[d].key].on = d
      <4>1. d # c
        BY <2>3, <2>5, <3>2
      <4>2. /\ synthesis[d].key = synthesis'[d].key /\ synthesis[d].record = "FRESH"
            /\ synthesis[d].step \in {"RELEASE", "DONE"}
        BY <2>5, <3>2, <4>1 DEF Tidied
      <4>3. idempotency[synthesis[d].key].on = d
        BY <3>2, <4>2 DEF SpeechInv, LinkInv
      <4>4. QED  BY <3>2, <4>2, <4>3 DEF Tidied
    <3>3. QED  BY <3>1, <3>2 DEF LinkInv
  <2>14. OnceInv'
    <3> SUFFICES ASSUME NEW k \in Keys, NEW d \in (Synthesizing(k) \union Kept(k))',
                        NEW e \in (Synthesizing(k) \union Kept(k))'
                 PROVE  d = e
      BY DEF OnceInv
    <3>1. d \in Callers /\ e \in Callers
      BY DEF Synthesizing, Kept
    <3>2. CASE k = key
      <4>1. \A x \in Callers \ {c} : x \notin Synthesizing(k) /\ x \notin Kept(k)
        BY <3>2, NoOneIsNobody DEF SpeechInv, InflightInv
      <4>2. QED  BY <2>10, <3>1, <4>1
    <3>3. CASE k # key
      <4>1. d # c /\ e # c
        BY <2>11, <3>3
      <4>2. d \in Synthesizing(k) \union Kept(k) /\ e \in Synthesizing(k) \union Kept(k)
        BY <2>10, <3>1, <4>1
      <4>3. QED  BY <4>2 DEF SpeechInv, OnceInv
    <3>4. QED  BY <3>2, <3>3
  <2>15. RateInv'
    <3>1. /\ synthesis'[c].lastMinute /\ caller'[c].step # "IDLE"
          /\ \A d \in Callers \ {c} :
                /\ synthesis'[d].lastMinute = synthesis[d].lastMinute
                /\ caller[d].step # "IDLE" => caller'[d].step # "IDLE"
      BY <2>3, <2>4, <2>5, <2>6 DEF Tidied
    <3>2. QED  BY <1>1, <1>4, <2>1, <3>1, AdmissionKeepsRate
  <2>16. QED  BY <2>7, <2>8, <2>9, <2>12, <2>13, <2>14, <2>15 DEF SpeechInv
<1>5. QED  BY <1>3, <1>4

\* A caller that is given a record, or waits for a synthesis under way, of the
\* text it has asked for.
LEMMA JoinKeepsInvariant ==
    ASSUME SpeechInv, NEW c \in Callers, NEW k \in Keys, NEW f \in Fingerprints,
           NEW step \in {"AUDIO", "WAIT"}, NEW on \in Callers,
           synthesis[on].key = k, synthesis[on].fingerprint = f,
           synthesis[on].step # "NONE",
           Joins(c, k, f, step, on),
           Tidied(synthesis', idempotency'), UNCHANGED <<inflight, recent>>
    PROVE  SpeechInv'
<1>1. TtsTypeOK /\ on # NoOne /\ "NONE" \notin Keys
  BY NoOneIsNobody, SpeechAssumption DEF SpeechInv
<1>2. ProgressInv' /\ InflightInv' /\ LinkInv' /\ OnceInv' /\ SameIdentity
  BY TidyingKeepsInvariant
<1> DEFINE w == [step |-> step, key |-> k, fingerprint |-> f, on |-> on]
<1>3. /\ w \in Caller /\ w.step = step /\ w.key = k /\ w.fingerprint = f /\ w.on = on
  BY DEF Caller, CallerStep, Key, Fingerprint, Owner
<1>4. caller' = [caller EXCEPT ![c] = w]
  BY DEF Joins
<1> HIDE DEF w
<1>5. /\ caller' \in [Callers -> Caller] /\ caller'[c] = w
      /\ \A d \in Callers \ {c} : caller'[d] = caller[d]
  BY <1>1, <1>3, <1>4 DEF TtsTypeOK
<1>6. OwnInv'
  <2> SUFFICES ASSUME NEW d \in Callers
               PROVE  /\ caller'[d].on # NoOne =>
                            /\ synthesis'[caller'[d].on].fingerprint = caller'[d].fingerprint
                            /\ synthesis'[caller'[d].on].key = caller'[d].key
                      /\ caller'[d].step = "IDLE" =>
                            synthesis'[d].step = "NONE" /\ caller'[d].on = NoOne
                      /\ caller'[d].on # NoOne => synthesis'[caller'[d].on].step # "NONE"
                      /\ caller'[d].step = "WAIT" =>
                            IF caller'[d].key = "NONE" THEN caller'[d].on = d
                            ELSE caller'[d].on # NoOne
    BY DEF OwnInv, AudioIsOwn
  <2>1. CASE d = c
    BY <1>1, <1>2, <1>3, <1>5, <2>1 DEF SameIdentity
  <2>2. CASE d # c
    <3>1. caller'[d] = caller[d] /\ (caller[d].on # NoOne => caller[d].on \in Callers)
      BY <1>1, <1>5, <2>2 DEF TtsTypeOK, Caller, Owner
    <3>2. QED  BY <1>2, <3>1 DEF SpeechInv, OwnInv, AudioIsOwn, SameIdentity
  <2>3. QED  BY <2>1, <2>2
<1>7. TtsTypeOK'
  BY <1>1, <1>5 DEF TtsTypeOK, Tidied
<1>8. RateInv'
  <2>1. \A d \in Callers : /\ synthesis'[d].lastMinute = synthesis[d].lastMinute
                           /\ caller[d].step # "IDLE" => caller'[d].step # "IDLE"
    BY <1>3, <1>5 DEF Tidied
  <2>2. QED  BY <2>1, PruningKeepsRate
<1>9. QED  BY <1>2, <1>6, <1>7, <1>8 DEF SpeechInv

LEMMA SubmitKeepsInvariant ==
    ASSUME SpeechInv, NEW c \in Callers, Submit(c)
    PROVE  SpeechInv'
<1>1. /\ TtsTypeOK /\ Arrives(c) /\ idempotency' = PurgedKeys
      /\ Tidied(Purged, PurgedKeys) /\ caller[c].step = "IDLE"
  BY PurgeTidies DEF SpeechInv, Submit, Arrives
<1>2. PICK k \in Keys, f \in Fingerprints :
        LET link == PurgedKeys[k]
            other == inflight[k]
        IN \/ /\ synthesis' = Purged
              /\ Ends(c, "REFUSED")
              /\ UNCHANGED <<inflight, recent>>
           \/ /\ link.on # NoOne /\ link.fingerprint = f /\ HasRecord(link.on)
              /\ synthesis' = Purged
              /\ Joins(c, k, f, "AUDIO", link.on)
              /\ UNCHANGED <<inflight, recent>>
           \/ /\ other # NoOne /\ synthesis[other].fingerprint = f
              /\ synthesis' = Purged
              /\ Joins(c, k, f, "WAIT", other)
              /\ UNCHANGED <<inflight, recent>>
           \/ /\ link.on = NoOne \/ (link.fingerprint = f /\ ~HasRecord(link.on))
              /\ other = NoOne
              /\ Admit(c, k, f, Purged)
  BY DEF Submit
<1> DEFINE link == PurgedKeys[k]
           other == inflight[k]
<1>3. /\ link.on # NoOne => link = idempotency[k] /\ link.on \in Callers
      /\ other # NoOne => other \in Callers
  BY <1>1 DEF Tidied, NoLink, TtsTypeOK, Owner
<1>4. CASE synthesis' = Purged /\ Ends(c, "REFUSED") /\ UNCHANGED <<inflight, recent>>
  <2>1. ProgressInv' /\ InflightInv' /\ LinkInv' /\ OnceInv' /\ SameIdentity
    BY <1>1, <1>4, TidyingKeepsInvariant
  <2>2. /\ caller' \in [Callers -> Caller]
        /\ \A d \in Callers : caller[d].step # "IDLE" => caller'[d].step # "IDLE"
        /\ OwnInv'
    BY <1>4, <2>1, EndingKeepsOwn DEF CallerStep, SameIdentity
  <2>3. TtsTypeOK'
    BY <1>1, <1>4, <2>2 DEF TtsTypeOK, Tidied
  <2>4. \A d \in Callers : synthesis'[d].lastMinute = synthesis[d].lastMinute
    BY <1>1, <1>4 DEF Tidied
  <2>5. RateInv'
    BY <1>4, <2>2, <2>4, PruningKeepsRate
  <2>6. QED  BY <2>1, <2>2, <2>3, <2>5 DEF SpeechInv
<1>5. CASE /\ link.on # NoOne /\ link.fingerprint = f
           /\ synthesis' = Purged
           /\ Joins(c, k, f, "AUDIO", link.on)
           /\ UNCHANGED <<inflight, recent>>
  <2>1. /\ synthesis[link.on].key = k /\ synthesis[link.on].fingerprint = f
        /\ synthesis[link.on].step # "NONE"
    BY <1>3, <1>5 DEF SpeechInv, LinkInv
  <2>2. QED  BY <1>1, <1>3, <1>5, <2>1, JoinKeepsInvariant
<1>6. CASE /\ other # NoOne /\ synthesis[other].fingerprint = f
           /\ synthesis' = Purged
           /\ Joins(c, k, f, "WAIT", other)
           /\ UNCHANGED <<inflight, recent>>
  <2>1. synthesis[other].key = k /\ synthesis[other].step # "NONE"
    BY <1>3, <1>6 DEF SpeechInv, InflightInv, Synthesizing
  <2>2. QED  BY <1>1, <1>3, <1>6, <2>1, JoinKeepsInvariant
<1>7. CASE /\ link.on = NoOne \/ (link.fingerprint = f /\ ~HasRecord(link.on))
           /\ other = NoOne
           /\ Admit(c, k, f, Purged)
  <2>1. ASSUME NEW d \in Callers, d \in Kept(k) PROVE FALSE
    <3>1. synthesis[d].record = "FRESH" /\ idempotency[k].on = d
      BY <2>1 DEF Kept, SpeechInv, LinkInv
    <3>2. link.on = d /\ Purged[d].record = "FRESH" /\ d # NoOne
      BY <1>1, <3>1, NoOneIsNobody DEF Tidied
    <3>3. QED  BY <1>7, <3>2 DEF HasRecord
  <2>2. k \in Key /\ f \in Fingerprint /\ Tidied(Purged, idempotency')
    BY <1>1 DEF Key, Fingerprint
  <2>3. QED  BY <1>1, <1>7, <2>1, <2>2, AdmitKeepsInvariant
<1>8. QED  BY <1>2, <1>4, <1>5, <1>6, <1>7

LEMMA SubmitWithoutKeyKeepsInvariant ==
    ASSUME SpeechInv, NEW c \in Callers, SubmitWithoutKey(c)
    PROVE  SpeechInv'
<1>1. /\ Arrives(c) /\ Admit(c, "NONE", "NONE", synthesis)
      /\ Tidied(synthesis, idempotency') /\ "NONE" \notin Keys
  BY NothingPurged, SpeechAssumption DEF SubmitWithoutKey, SpeechInv
<1>2. "NONE" \in Key /\ "NONE" \in Fingerprint
  BY DEF Key, Fingerprint
<1>3. QED  BY <1>1, <1>2, AdmitKeepsInvariant

LEMMA GetTaskKeepsInvariant ==
    ASSUME SpeechInv, GetTask
    PROVE  SpeechInv'
<1>1. /\ TtsTypeOK /\ Tidied(synthesis', idempotency') /\ UNCHANGED <<caller, inflight, recent>>
  BY PurgeTidies DEF SpeechInv, GetTask
<1>2. ProgressInv' /\ InflightInv' /\ LinkInv' /\ OnceInv' /\ SameIdentity
  BY <1>1, TidyingKeepsInvariant
<1>3. OwnInv'
  BY <1>1, <1>2, IdentityKeepsOwn
<1>4. TtsTypeOK' /\ RateInv'
  BY <1>1, PruningKeepsRate DEF TtsTypeOK, Tidied
<1>5. QED  BY <1>2, <1>3, <1>4 DEF SpeechInv

-----------------------------------------------------------------------------
(* The invariant, and what follows.                                        *)

\* SpeechInv is the inductive invariant of TextToSpeechService: the tables agree
\* with the syntheses they name in every gap between two locked blocks.
THEOREM SpeechInvariant == TtsSpec => []SpeechInv
<1>1. TtsInit => SpeechInv
  <2> SUFFICES ASSUME TtsInit PROVE SpeechInv
    OBVIOUS
  <2> USE DEF TtsInit
  <2>1. TtsTypeOK
    BY DEF TtsTypeOK, NoCaller, Caller, CallerStep, NoSynthesis, Synthesis, SynthesisStep,
           ProviderStep, RecordState, NoLink, Key, Fingerprint, Owner
  <2>2. OwnInv /\ ProgressInv /\ LinkInv
    BY DEF OwnInv, AudioIsOwn, ProgressInv, LinkInv, NoCaller, NoSynthesis, NoLink
  <2>3. \A k \in Keys : Synthesizing(k) = {} /\ Kept(k) = {}
    BY DEF Synthesizing, Kept, NoSynthesis
  <2>4. InflightInv /\ OnceInv
    BY <2>3, NoOneIsNobody DEF InflightInv, OnceInv
  <2>5. RateInv
    <3>1. Len(recent) = 0 /\ Limit \in Nat
      BY SpeechAssumption
    <3>2. QED  BY <3>1 DEF RateInv, AgedAdmissions, NoSynthesis
  <2>6. QED  BY <2>1, <2>2, <2>4, <2>5 DEF SpeechInv
<1>2. SpeechInv /\ [TtsNext]_ttsVars => SpeechInv'
  <2> SUFFICES ASSUME SpeechInv, [TtsNext]_ttsVars PROVE SpeechInv'
    OBVIOUS
  <2>1. CASE \E c \in Callers :
                \/ CreateTask(c) \/ TaskCompleted(c) \/ AudioArrives(c) \/ ProviderFails(c)
                \/ StoreRecord(c) \/ Expire(c)
    BY <2>1, LocalStepKeepsInvariant
  <2>2. CASE \E c \in Callers : RefuseRequest(c) \/ Deliver(c)
    BY <2>2, AnswerKeepsInvariant
  <2>3. CASE \E c \in Callers : Submit(c)
    BY <2>3, SubmitKeepsInvariant
  <2>4. CASE \E c \in Callers : SubmitWithoutKey(c)
    BY <2>4, SubmitWithoutKeyKeepsInvariant
  <2>5. CASE \E c \in Callers : Link(c)
    BY <2>5, LinkKeepsInvariant
  <2>6. CASE \E c \in Callers : Release(c)
    BY <2>6, ReleaseKeepsInvariant
  <2>7. CASE \E c \in Callers : Cancel(c)
    BY <2>7, CancelKeepsInvariant
  <2>8. CASE \E c \in Callers : Age(c)
    BY <2>8, AgeKeepsInvariant
  <2>9. CASE GetTask
    BY <2>9, GetTaskKeepsInvariant
  <2>10. CASE UNCHANGED ttsVars
    BY <2>10 DEF ttsVars, SpeechInv, TtsTypeOK, OwnInv, AudioIsOwn, ProgressInv, InflightInv,
                 LinkInv, OnceInv, RateInv, AgedAdmissions, Synthesizing, Kept
  <2>11. QED
    BY <2>1, <2>2, <2>3, <2>4, <2>5, <2>6, <2>7, <2>8, <2>9, <2>10 DEF TtsNext
<1>3. QED  BY <1>1, <1>2, PTL DEF TtsSpec

\* Every variable of TextToSpeechService keeps its type, for any number of
\* callers, requestIds and texts and any limit.
THEOREM SpeechTypeCorrect == TtsSpec => []TtsTypeOK
<1>1. SpeechInv => TtsTypeOK
  BY DEF SpeechInv
<1>2. QED  BY <1>1, SpeechInvariant, PTL

\* One synthesis per requestId, for any number of callers: no gap between the
\* blocks of _synthesize_with_idempotency and _run_idempotent_synthesis lets a
\* second one start.
THEOREM SynthesizedAtMostOnce == TtsSpec => []SynthesizedOnce
<1>1. ASSUME SpeechInv PROVE SynthesizedOnce
  <2> SUFFICES ASSUME NEW k \in Keys
               PROVE  Cardinality(Synthesizing(k) \union Kept(k)) <= 1
    BY DEF SynthesizedOnce
  <2> DEFINE S == Synthesizing(k) \union Kept(k)
  <2>1. \A c, d \in S : c = d
    BY <1>1 DEF SpeechInv, OnceInv
  <2>2. CASE S = {}
    BY <2>2, FS_EmptySet
  <2>3. CASE S # {}
    <3>1. PICK c : c \in S
      BY <2>3
    <3>2. S = {c}
      BY <2>1, <3>1
    <3>3. QED  BY <3>2, FS_Singleton
  <2>4. QED  BY <2>2, <2>3
<1>2. QED  BY <1>1, SpeechInvariant, PTL

\* A caller is given, or waits for, audio of its own text only.
THEOREM AudioIsAlwaysOwn == TtsSpec => []AudioIsOwn
<1>1. SpeechInv => AudioIsOwn
  BY DEF SpeechInv, OwnInv
<1>2. QED  BY <1>1, SpeechInvariant, PTL

\* However the admissions of _check_rate_limit age, there are never more than the
\* limit of the last minute.
THEOREM RateIsAlwaysBounded == TtsSpec => []RateIsBounded
<1>1. ASSUME SpeechInv PROVE RateIsBounded
  <2>1. PICK n \in 0 .. Len(recent) : AgedAdmissions(n) /\ Len(recent) - n <= Limit
    BY <1>1 DEF SpeechInv, RateInv
  <2>2. Len(recent) \in Nat /\ Limit \in Nat /\ \A i \in 1 .. Len(recent) : recent[i] \in Callers
    BY <1>1, ElementOfSeq, SpeechAssumption DEF SpeechInv, TtsTypeOK
  <2> DEFINE I == n + 1 .. Len(recent)
             T == {c \in Callers : synthesis[c].lastMinute}
             f == [i \in I |-> recent[i]]
  <2>3. \A i \in I : recent[i] \in T
    BY <2>1, <2>2 DEF AgedAdmissions
  <2>4. ASSUME NEW c \in T PROVE \E i \in I : f[i] = c
    <3>1. PICK i \in 1 .. Len(recent) : recent[i] = c
      BY <1>1 DEF SpeechInv, RateInv
    <3>2. i \in I
      BY <2>1, <2>2, <3>1 DEF AgedAdmissions
    <3>3. QED  BY <3>1, <3>2
  <2>5. f \in Surjection(I, T)
    BY <2>3, <2>4 DEF Surjection
  <2>6. /\ IsFiniteSet(I)
        /\ Cardinality(I) = IF n + 1 > Len(recent) THEN 0 ELSE Len(recent) - (n + 1) + 1
    <3>1. n + 1 \in Int /\ Len(recent) \in Int
      BY <2>2
    <3>2. QED  BY <3>1, FS_Interval
  <2>7. Cardinality(T) <= Cardinality(I) /\ IsFiniteSet(T)
    BY <2>5, <2>6, FS_Surjection
  <2>8. Cardinality(T) \in Nat
    BY <2>7, FS_CardinalityType
  <2>9. Cardinality(T) <= Limit
    BY <2>1, <2>2, <2>6, <2>7, <2>8
  <2>10. QED  BY <2>9 DEF RateIsBounded
<1>2. QED  BY <1>1, SpeechInvariant, PTL

\* Whom a caller waits for: a synthesis that has begun, and that, as long as it runs
\* under a requestId, whoever repeats the request joins as well.
WaitsForOne(c) ==
    LET s == caller[c].on IN
    /\ s \in Callers
    /\ synthesis[s].step # "NONE"
    /\ synthesis[s].step # "DONE" /\ caller[c].key \in Keys => inflight[caller[c].key] = s

\* What WaitersAreAnswered rests on: neither a failure nor the cancellation of the
\* caller that began a synthesis leaves another one waiting for nothing.
THEOREM NobodyWaitsForNothing ==
    TtsSpec => [](\A c \in Callers : caller[c].step = "WAIT" => WaitsForOne(c))
<1>1. SpeechInv => \A c \in Callers : caller[c].step = "WAIT" => WaitsForOne(c)
  <2> SUFFICES ASSUME SpeechInv, NEW c \in Callers, caller[c].step = "WAIT" PROVE WaitsForOne(c)
    OBVIOUS
  <2> DEFINE s == caller[c].on
  <2>1. s # NoOne
    BY SpeechAssumption DEF SpeechInv, OwnInv, NoOne
  <2>2. s \in Callers
    BY <2>1 DEF SpeechInv, TtsTypeOK, Caller, Owner
  <2>3. synthesis[s].step # "NONE" /\ synthesis[s].key = caller[c].key
    BY <2>1 DEF SpeechInv, OwnInv, AudioIsOwn
  <2>4. ASSUME synthesis[s].step # "DONE", caller[c].key \in Keys
        PROVE  inflight[caller[c].key] = s
    <3>1. synthesis[s].step \in SynthesisStep
      BY <2>2 DEF SpeechInv, TtsTypeOK, Synthesis
    <3>2. s \in Synthesizing(caller[c].key)
      BY <2>2, <2>3, <2>4, <3>1 DEF Synthesizing
    <3>3. QED  BY <2>2, <2>4, <3>2 DEF SpeechInv, InflightInv
  <2>5. QED  BY <2>2, <2>3, <2>4 DEF WaitsForOne
<1>2. QED  BY <1>1, SpeechInvariant, PTL

==============================================================================
