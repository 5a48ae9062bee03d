------------------------ MODULE MCObservationStore ------------------------
(* Instances of ObservationStore for TLC.                                  *)
EXTENDS ObservationStore, TLC

Symmetry ==
  Permutations(Starters) \cup Permutations(Finishers)
    \cup Permutations(Invalidators) \cup Permutations(Runs)
=============================================================================
