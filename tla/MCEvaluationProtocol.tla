------------------------ MODULE MCEvaluationProtocol ------------------------
(* EvaluationProtocol for TLC: ceiling and bounds are in the .cfg.         *)
EXTENDS EvaluationProtocol, TLC

(* A lane of three cases and one of one.                                   *)
UnevenLanes == <<3, 1>>
=============================================================================
