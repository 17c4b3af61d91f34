---------------------------- MODULE MCRecluster ----------------------------
(* Instance of Recluster for TLC.                                          *)
EXTENDS Recluster, TLC

ShaSymmetry == Permutations(Sha)
=============================================================================
