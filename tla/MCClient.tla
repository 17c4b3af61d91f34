------------------------------ MODULE MCClient ------------------------------
(* Two threads and two files; the same picture may be posted twice at      *)
(* once.  A run may follow another with the other model or against the     *)
(* other server.                                                           *)
EXTENDS Client

MCFiles == <<"profile", "face">>

(* The smaller model misses the face in the profile.                       *)
MCFaceless == {<<"small", "profile">>}
=============================================================================
