---------------------------- MODULE MCExtension ----------------------------
(* Four messages: two frames show the same image, one of them as bytes.    *)
EXTENDS Extension

MCTask   == {"a", "b", "c", "d"}
MCByUrl  == {"a", "c", "d"}
MCUrlOf  == [t \in MCTask |-> CASE t \in {"a", "b"} -> "same" [] t = "c" -> "third" [] t = "d" -> "fourth"]
MCServer == {"small", "large"}
MCJobsOf == [s \in MCServer |-> IF s = "small" THEN 1 ELSE 3]
=============================================================================
