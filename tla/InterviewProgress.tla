-------------------------- MODULE InterviewProgress --------------------------
(***************************************************************************)
(* What one interview promises its candidate, without workers, retries,    *)
(* recovery or repeated requests: questions come one at a time, every      *)
(* answer is graded exactly once, a grade leads to exactly one of a        *)
(* follow-up, the next question or the end, and an ended interview stays   *)
(* ended.  AnswerEvaluation implements it under a refinement mapping.      *)
(***************************************************************************)
EXTENDS Naturals

CONSTANTS NumQuestions, MaxDepth, MaxFollowUps

VARIABLES
    status,    \* READY until the end
    asked,     \* questions asked
    followUps, \* follow-ups asked, over all questions
    depth,     \* follow-ups in a row under the question that is open
    graded,    \* answers graded
    phase      \* what is open: NONE, WAITING for an answer, EVALUATING it

vars == <<status, asked, followUps, depth, graded, phase>>

Init ==
    /\ status = "READY"
    /\ asked = 0 /\ followUps = 0 /\ depth = 0 /\ graded = 0
    /\ phase = "NONE"

Begin ==
    /\ status = "READY"
    /\ status' = "IN_PROGRESS"
    /\ asked' = 1
    /\ phase' = "WAITING"
    /\ UNCHANGED <<followUps, depth, graded>>

Cancel ==
    /\ status = "READY"
    /\ status' = "CANCELLED"
    /\ UNCHANGED <<asked, followUps, depth, graded, phase>>

Answer ==
    /\ phase = "WAITING"
    /\ phase' = "EVALUATING"
    /\ UNCHANGED <<status, asked, followUps, depth, graded>>

Grade == phase = "EVALUATING" /\ graded' = graded + 1

AskFollowUp ==
    /\ Grade
    /\ depth < MaxDepth /\ followUps < MaxFollowUps
    /\ followUps' = followUps + 1
    /\ depth' = depth + 1
    /\ phase' = "WAITING"
    /\ UNCHANGED <<status, asked>>

AskNext ==
    /\ Grade
    /\ asked < NumQuestions
    /\ asked' = asked + 1
    /\ depth' = 0
    /\ phase' = "WAITING"
    /\ UNCHANGED <<status, followUps>>

End(outcome) == status' = outcome /\ phase' = "NONE" /\ depth' = 0

Complete ==
    /\ Grade
    /\ asked = NumQuestions
    /\ End("COMPLETED")
    /\ UNCHANGED <<asked, followUps>>

Fail ==
    /\ phase = "EVALUATING"
    /\ End("FAILED")
    /\ UNCHANGED <<asked, followUps, graded>>

FinishEarly ==
    /\ phase \in {"WAITING", "EVALUATING"}
    /\ graded > 0
    /\ End("COMPLETED")
    /\ UNCHANGED <<asked, followUps, graded>>

Next ==
    \/ Begin \/ Cancel \/ Answer
    \/ AskFollowUp \/ AskNext \/ Complete
    \/ Fail \/ FinishEarly

Spec == Init /\ [][Next]_vars
=============================================================================
