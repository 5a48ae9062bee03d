--------------------------- MODULE MCCaseAttempts ---------------------------
(* CaseAttempts for TLC: the cases and the bounds are given in the .cfg.   *)
EXTENDS CaseAttempts, TLC
=============================================================================
