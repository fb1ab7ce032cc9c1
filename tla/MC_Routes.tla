----------------------------- MODULE MC_Routes -----------------------------
(***************************************************************************)
(* Small instances of Routes for TLC.                                      *)
(***************************************************************************)
EXTENDS Routes, TLC

CONSTANTS n1, n2

Symmetry == Permutations({n1, n2})
=============================================================================
