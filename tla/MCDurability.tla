---------------------------- MODULE MCDurability ----------------------------
(* Two contents, interchangeable: no definition tells one from the other.  *)
EXTENDS Durability

ContentSymmetry == Permutations(Sha)
=============================================================================
