-------------------------- MODULE MCSupersession --------------------------
(* Instances of Supersession for TLC.                                      *)
EXTENDS Supersession, TLC

Symmetry ==
  Permutations(Finishers) \cup Permutations(Readers) \cup Permutations(Runs)
=============================================================================
