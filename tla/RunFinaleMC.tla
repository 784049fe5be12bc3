---------------------------- MODULE RunFinaleMC ----------------------------
(* Small instances of RunFinale: two windows, one carry. *)
EXTENDS RunFinale, TLC

WindowSymmetry == Permutations(Windows)
=============================================================================
