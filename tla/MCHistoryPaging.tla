--------------------------- MODULE MCHistoryPaging ---------------------------
(* Model checking of HistoryPaging.  No symmetry: a liveness property is    *)
(* checked.                                                                  *)
EXTENDS HistoryPaging, TLC
==============================================================================
