--------------------------- MODULE PreparationLife ---------------------------
(***************************************************************************)
(* What the preparation of an interview promises, without requests, jobs,  *)
(* claims and recovery: a session is queued once, gets one set of          *)
(* questions or fails without any, and may be cancelled until it has been  *)
(* started.  Nothing touches the questions after that.                     *)
(***************************************************************************)
EXTENDS Naturals

VARIABLES
    phase,      \* the session's status, ABSENT before it exists
    questions   \* which set of questions is stored, 0 for none

Create == /\ phase = "ABSENT"
          /\ phase' = "CREATED"
          /\ UNCHANGED questions

Queue == /\ phase = "CREATED"
         /\ phase' = "PREPARING"
         /\ UNCHANGED questions

Prepare == /\ phase = "PREPARING"
           /\ phase' = "READY"
           /\ questions = 0 /\ questions' \in Nat \ {0}

Fail == /\ phase = "PREPARING"
        /\ phase' = "FAILED"
        /\ UNCHANGED questions

Start == /\ phase = "READY"
         /\ phase' = "IN_PROGRESS"
         /\ UNCHANGED questions

Cancel == /\ phase \in {"CREATED", "PREPARING", "READY"}
          /\ phase' = "CANCELLED"
          /\ UNCHANGED questions

Init == phase = "ABSENT" /\ questions = 0
Next == Create \/ Queue \/ Prepare \/ Fail \/ Start \/ Cancel
Spec == Init /\ [][Next]_<<phase, questions>>
=============================================================================
