--------------------------- MODULE MCReportQueue ---------------------------
(* Instances of ReportQueue for TLC.                                       *)
EXTENDS ReportQueue, TLC

CONSTANTS r1, r2, r3
=============================================================================
