----------------------- MODULE MCSnapshotPublication -----------------------
(* Instances of SnapshotPublication for TLC.                               *)
EXTENDS SnapshotPublication, TLC

Symmetry == Permutations(Publishers)
=============================================================================
