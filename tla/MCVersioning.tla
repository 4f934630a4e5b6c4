---------------------------- MODULE MCVersioning ----------------------------
(* Model checking of Versioning: symmetry over what is only compared.       *)
EXTENDS Versioning, TLC

Symmetry ==
  Permutations(Changesets) \cup Permutations(Blobs) \cup Permutations(Paths)
    \cup Permutations(Rollbacks) \cup Permutations(Assets)
=============================================================================
