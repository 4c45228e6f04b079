--------------------------- MODULE MCStageProcess ---------------------------
(* Three members for TLC: one answer longer than its pipe, two that fit.  *)
EXTENDS StageProcess

LongAndShort == <<3, 1, 2>>
=============================================================================
