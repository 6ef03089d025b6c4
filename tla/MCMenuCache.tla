----------------------------- MODULE MCMenuCache -----------------------------
(***************************************************************************)
(* Small instances of MenuCache.                                           *)
(***************************************************************************)
EXTENDS MenuCache, TLC

CONSTANTS r1, r2, w1, w2

Symmetry == Permutations(Readers) \cup Permutations(Writers)
=============================================================================
