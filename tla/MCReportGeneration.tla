------------------------- MODULE MCReportGeneration -------------------------
(* Small instances of ReportGeneration for TLC.                            *)
EXTENDS ReportGeneration
=============================================================================
