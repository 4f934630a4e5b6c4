--------------------------- MODULE MCRefreshTokens ---------------------------
(* Model checking of RefreshTokens and ApiKeys: the workloads of the runs. *)
EXTENDS RefreshTokens, TLC

Work(atOnce, keys, guarded, stamp, tokens) ==
  [atOnce |-> atOnce, keys |-> keys, guarded |-> guarded, stamp |-> stamp, tokens |-> tokens]

\* Administration by two at the same time, of three keys and without signatures.
KeyWorkloads == { Work(2, 3, FALSE, 0, FALSE) }

\* A signed request, of a client whose clock is right and of one whose clock is
\* ahead, that is sent again while it is worked on and later; two keys.
SignedWorkloads == { Work(2, 2, TRUE, stamp, FALSE) : stamp \in 0..1 }

\* Token requests, while the keys only expire.
TokenWorkloads == { Work(0, 1, FALSE, 0, TRUE) }

AuthWorkloads == KeyWorkloads \cup SignedWorkloads \cup TokenWorkloads

Symmetry == Permutations(Keys \ {Master}) \cup Permutations(Tokens)
            \cup Permutations(Handlers) \cup Permutations(Sessions)
==============================================================================
