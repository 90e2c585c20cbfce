------------------------------ MODULE MCSpeech ------------------------------
(* A small instance of TextToSpeech and SpeechRecognition for TLC.  The two *)
(* share nothing: a behaviour is of one of them, while the other is at rest *)
(* as before its first request or after its last connection.               *)
EXTENDS TextToSpeech, SpeechRecognition

NoConnection ==
    /\ handler = "ENDED" /\ client = "GONE"
    /\ message = "NONE" /\ event = "NONE"
    /\ session = [s \in Session |-> NoSession]
    /\ current = 0 /\ listening = 0 /\ audio = 0
    /\ started = FALSE /\ finishing = FALSE
    /\ shown = {}

SpeechInit == TtsInit /\ (Init \/ NoConnection)

SpeechNext ==
    \/ NoConnection /\ TtsNext /\ UNCHANGED vars
    \/ Next /\ UNCHANGED ttsVars

SpeechSpec ==
    /\ SpeechInit /\ [][SpeechNext]_<<vars, ttsVars>>
    /\ WF_vars(Handle) /\ WF_vars(Deadline)
    /\ Fairness
=============================================================================
