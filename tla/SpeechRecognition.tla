-------------------------- MODULE SpeechRecognition --------------------------
(***************************************************************************)
(* Speech to text: one websocket of SpeechService.handle_websocket between *)
(* a browser and the speech provider.  The handler waits for two tasks at  *)
(* a time, the next message of the client and the next event of the        *)
(* provider session, until the deadline; it closes the provider session    *)
(* when it ends.                                                           *)
(*                                                                         *)
(* A task that has a result is a message or an event that is there; the    *)
(* handler takes an event first.  Audio is counted in frames.  A result    *)
(* text is left out: what counts is which provider session it is from.     *)
(***************************************************************************)
EXTENDS Integers, FiniteSets

CONSTANTS
    MaxSessions,  \* bound: provider sessions one client can get
    MaxAudio      \* asr_max_audio_bytes, in frames

ASSUME RecognitionAssumption == MaxSessions \in Nat /\ MaxAudio \in Nat

VARIABLES
    handler,    \* the handler's loop
    message,    \* result of receive_task
    event,      \* result of provider_event_task
    client,     \* is the browser there
    session,    \* provider sessions, in the order of their creation
    current,    \* provider_session: its number, or 0
    listening,  \* the session provider_event_task reads, or 0
    started,
    finishing,
    audio,      \* audio_bytes
    shown       \* history: the sessions results came from, with the one the
                \* client was told had started

vars == <<handler, message, event, client, session, current, listening, started,
          finishing, audio, shown>>

transcription == <<session, current, listening, started, finishing, audio>>

-----------------------------------------------------------------------------

Session == 1 .. MaxSessions

\* RECEIVED: the disconnect message was taken and the loop goes on.
HandlerStep == {"LOOP", "RECEIVED", "ENDED"}

\* BADSTART asks for another audio format, BADAUDIO is a frame of odd size or
\* too large, OTHER any ping, status or invalid command, HUGE a control message
\* beyond 16 KiB.
MessageKind == {"START", "BADSTART", "AUDIO", "BADAUDIO", "STOP", "OTHER", "HUGE",
                "DISCONNECT"}

\* END is None or the end of the iterator, ERROR an exception.
EventKind == {"PARTIAL", "FINAL", "END", "ERROR"}

\* FINISHED after finish(); received counts frames; over after a final result.
SessionState == {"NONE", "OPEN", "FINISHED", "CLOSED"}
ProviderSession == [state : SessionState, received : 0 .. MaxAudio, over : BOOLEAN]
NoSession == [state |-> "NONE", received |-> 0, over |-> FALSE]

TypeOK ==
    /\ handler \in HandlerStep
    /\ message \in MessageKind \union {"NONE"}
    /\ event \in EventKind \union {"NONE"}
    /\ client \in {"HERE", "GONE"}
    /\ session \in [Session -> ProviderSession]
    /\ current \in Session \union {0}
    /\ listening \in Session \union {0}
    /\ started \in BOOLEAN
    /\ finishing \in BOOLEAN
    /\ audio \in 0 .. MaxAudio
    /\ shown \in SUBSET (Session \X (Session \union {0}))

Init ==
    /\ handler = "LOOP"
    /\ message = "NONE"
    /\ event = "NONE"
    /\ client = "HERE"
    /\ session = [s \in Session |-> NoSession]
    /\ current = 0
    /\ listening = 0
    /\ started = FALSE
    /\ finishing = FALSE
    /\ audio = 0
    /\ shown = {}

-----------------------------------------------------------------------------
(* The browser and the provider.                                           *)

ClientSends ==
    /\ handler # "ENDED"
    /\ client = "HERE" /\ message = "NONE"
    /\ message' \in MessageKind \ {"DISCONNECT"}
    /\ UNCHANGED <<handler, event, client, transcription, shown>>

\* What it has sent before is read before the disconnect.
ClientLeaves ==
    /\ client = "HERE"
    /\ client' = "GONE"
    /\ UNCHANGED <<handler, message, event, transcription, shown>>

DisconnectArrives ==
    /\ handler = "LOOP"
    /\ client = "GONE" /\ message = "NONE"
    /\ message' = "DISCONNECT"
    /\ UNCHANGED <<handler, event, client, transcription, shown>>

\* events() of the session that is listened to.  A failure of the provider also
\* ends in None: the finally clause of _read_events yields it.
ProviderSends ==
    /\ handler # "ENDED"
    /\ listening # 0 /\ event = "NONE"
    /\ event' \in IF session[listening].over THEN {"END"} ELSE EventKind
    /\ session' = [session EXCEPT ![listening].over = event' # "PARTIAL"]
    /\ UNCHANGED <<handler, message, client, current, listening, started, finishing,
                   audio, shown>>

-----------------------------------------------------------------------------
(* The handler.                                                            *)

\* Mutant: a session that was told to finish is taken to close by itself.
CleanupUnfinished ==
    /\ handler' = "ENDED"
    /\ session' = IF current # 0 /\ handler = "LOOP" /\ ~finishing
                  THEN [session EXCEPT ![current].state = "CLOSED"] ELSE session
    /\ UNCHANGED <<current, listening, started, finishing, audio>>

\* The finally clause: receive_task, then provider_event_task, then the session.
\* After a disconnect that was taken, receive() has raised and raises again
\* here, and the rest of the clause is skipped.
Cleanup ==
    /\ handler' = "ENDED"
    /\ session' = IF current # 0 /\ handler = "LOOP"
                  THEN [session EXCEPT ![current].state = "CLOSED"] ELSE session
    /\ UNCHANGED <<current, listening, started, finishing, audio>>

\* Mutant: the time counts for a transcription, not for the connection.
DeadlineOfTranscription ==
    /\ handler = "LOOP" /\ started
    /\ message = "NONE" /\ event = "NONE"
    /\ Cleanup
    /\ UNCHANGED <<message, event, client, shown>>

\* Nothing is there when the time is up.
Deadline ==
    /\ handler = "LOOP"
    /\ message = "NONE" /\ event = "NONE"
    /\ Cleanup
    /\ UNCHANGED <<message, event, client, shown>>

\* A result is shown and the next one awaited; the send fails only if the client
\* has gone.
ShowResult ==
    /\ handler # "ENDED"
    /\ event \in {"PARTIAL", "FINAL"}
    /\ event' = "NONE"
    /\ \/ /\ shown' = shown \union {<<listening, current>>}
          /\ UNCHANGED <<handler, transcription>>
       \/ /\ client = "GONE"
          /\ Cleanup
          /\ UNCHANGED shown
    /\ UNCHANGED <<message, client>>

\* completed, interrupted or failed: the websocket is closed.
ProviderEnds ==
    /\ handler # "ENDED"
    /\ event \in {"END", "ERROR"}
    /\ event' = "NONE"
    /\ Cleanup
    /\ UNCHANGED <<message, client, shown>>

Take(kinds) ==
    /\ handler = "LOOP"
    /\ event = "NONE"
    /\ message \in kinds
    /\ message' = "NONE"
    /\ UNCHANGED <<event, client, shown>>

Running == started /\ ~finishing

\* Answered with a message and nothing else: whatever does not fit the state.
Decline ==
    /\ \/ Take({"OTHER"})
       \/ Take({"START", "BADSTART"}) /\ Running
       \/ Take({"AUDIO", "BADAUDIO", "STOP"}) /\ ~Running
    /\ UNCHANGED <<handler, transcription>>

\* Fatal: create_session, send_audio and finish may also raise.
Fatal ==
    /\ \/ Take({"HUGE"})
       \/ Take({"START", "BADSTART"}) /\ ~Running
       \/ Take({"AUDIO", "BADAUDIO", "STOP"}) /\ Running
    /\ Cleanup

\* Mutant: a task that already waits for an event is kept.
StartListeningOn ==
    /\ Take({"START"})
    /\ ~Running
    /\ \E s \in Session :
        /\ session[s].state = "NONE"
        /\ \A earlier \in 1 .. s - 1 : session[earlier].state # "NONE"
        /\ session' = [session EXCEPT ![s].state = "OPEN"]
        /\ current' = s
        /\ listening' = IF listening = 0 THEN s ELSE listening
    /\ started' = TRUE
    /\ finishing' = FALSE
    /\ audio' = 0
    /\ UNCHANGED handler

\* start_transcription creates a session also while an earlier one finishes,
\* which is forgotten, and with it the task that waits for its result.
Start ==
    /\ Take({"START"})
    /\ ~Running
    /\ \E s \in Session :
        /\ session[s].state = "NONE"
        /\ \A earlier \in 1 .. s - 1 : session[earlier].state # "NONE"
        /\ session' = [session EXCEPT ![s].state = "OPEN"]
        /\ current' = s
        /\ listening' = s
    /\ started' = TRUE
    /\ finishing' = FALSE
    /\ audio' = 0
    /\ UNCHANGED handler

SendAudio ==
    /\ Take({"AUDIO"})
    /\ Running
    /\ audio < MaxAudio
    /\ audio' = audio + 1
    /\ session' = [session EXCEPT ![current].received = @ + 1]
    /\ UNCHANGED <<handler, current, listening, started, finishing>>

Stop ==
    /\ Take({"STOP"})
    /\ Running
    /\ finishing' = TRUE
    /\ session' = [session EXCEPT ![current].state = "FINISHED"]
    /\ UNCHANGED <<handler, current, listening, started, audio>>

\* While a transcription finishes the loop goes on after a disconnect.
Disconnect ==
    /\ Take({"DISCONNECT"})
    /\ IF finishing THEN handler' = "RECEIVED" /\ UNCHANGED transcription ELSE Cleanup

\* receive() has raised RuntimeError: result() raises it again.
ReceiveRaises ==
    /\ handler = "RECEIVED"
    /\ event = "NONE"
    /\ Cleanup
    /\ UNCHANGED <<message, event, client, shown>>

-----------------------------------------------------------------------------

Handle ==
    \/ ShowResult \/ ProviderEnds
    \/ Decline \/ Fatal \/ Start \/ SendAudio \/ Stop \/ Disconnect \/ ReceiveRaises

Next == ClientSends \/ ClientLeaves \/ DisconnectArrives \/ ProviderSends
        \/ Deadline \/ Handle

Spec == Init /\ [][Next]_vars

\* The event loop runs the handler when a task is done, and wakes it at the
\* deadline when none is; neither the client nor the provider has to do anything.
FairSpec == Spec /\ WF_vars(Handle) /\ WF_vars(Deadline)

-----------------------------------------------------------------------------
(* Properties.                                                             *)

\* When the handler has ended, the provider session in use is closed, however it
\* ended, unless the client left while a transcription was finishing; and no
\* session is left open but one that a restart in that time has replaced.
SessionsAreReleased ==
    handler = "ENDED" =>
        \A s \in Session : session[s].state \in {"OPEN", "FINISHED"} =>
            /\ session[s].state = "FINISHED"
            /\ s # current \/ client = "GONE"

\* A result the client is shown belongs to the transcription it was last told
\* had started, whatever an earlier session still sends.
ResultsAreCurrent == \A pair \in shown : pair[1] = pair[2]

\* A connection on which nothing arrives any more ends.
IdleConnectionEnds ==
    <>[](message = "NONE" /\ event = "NONE") => <>(handler = "ENDED")

=============================================================================
