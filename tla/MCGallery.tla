----------------------------- MODULE MCGallery -----------------------------
(* Instance of Gallery for TLC.                                            *)
EXTENDS Gallery, TLC

ShaSymmetry == Permutations(Sha)
=============================================================================
