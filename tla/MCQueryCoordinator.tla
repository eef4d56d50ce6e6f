------------------------- MODULE MCQueryCoordinator -------------------------
(***************************************************************************)
(* Small instances of QueryCoordinator: two rows, one of them beyond the   *)
(* replay budget in some runs, one or two documents and one frame target.  *)
(***************************************************************************)
EXTENDS QueryCoordinator, TLC

CONSTANTS r1, r2, r3, docA, docB, frame

MCSymmetry == Permutations(Rows \ BigRows)
=============================================================================
