-------------------------- MODULE MCStoreReaders --------------------------
(* Instances of StoreReaders for TLC.                                      *)
EXTENDS StoreReaders, TLC

(* Runs are interchangeable when the query selects all of them.            *)
Symmetry ==
  Permutations(Starters) \cup Permutations(Finishers)
    \cup Permutations(Invalidators) \cup Permutations(Runs)
=============================================================================
