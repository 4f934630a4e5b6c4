---------------------------- MODULE MCLockManager ----------------------------
(* Model checking of LockManager: the workloads of the runs. *)
EXTENDS LockManager, TLC

AllOps == {"acquire", "renew", "unlock", "force"}

\* Acquiring only, three requests at once; everything, one request at a time.
SafeWorkloads ==
  { [ops |-> {"acquire"}, atOnce |-> 3, waits |-> TRUE],
    [ops |-> AllOps, atOnce |-> 1, waits |-> TRUE] }

\* Two requests at once that acquire, renew and release.
OwnersWorkloads ==
  { [ops |-> {"acquire", "renew", "unlock"}, atOnce |-> 2, waits |-> TRUE] }

Symmetry == Permutations(Owners) \cup Permutations(Requests)
==============================================================================
