------------------------- MODULE MCDemeanorAnalysis -------------------------
(* A small instance of DemeanorAnalysis for TLC.                           *)
EXTENDS DemeanorAnalysis
=============================================================================
