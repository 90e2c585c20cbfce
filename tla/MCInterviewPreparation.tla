----------------------- MODULE MCInterviewPreparation -----------------------
(* A small instance of InterviewPreparation for TLC.                       *)
EXTENDS InterviewPreparation
=============================================================================
