------------------------ MODULE MCVersionPersistence ------------------------
(* Model checking of VersionPersistence. *)
EXTENDS VersionPersistence, TLC

Symmetry == Permutations(Changesets) \cup Permutations(Writers)
=============================================================================
