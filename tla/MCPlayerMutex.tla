--------------------------- MODULE MCPlayerMutex ---------------------------
(***************************************************************************)
(* PlayerMutex for TLC: the bots are interchangeable.                      *)
(***************************************************************************)
EXTENDS PlayerMutex, TLC

Symmetry == Permutations(Bots)
=============================================================================
