------------------------------ MODULE MCEngine ------------------------------
(* Two workers.  Uploads: a picture, a larger copy of it, one that is only *)
(* roughly alike and larger still, one without a face, and rubbish.  The   *)
(* last two requests are PDFs: of two pages, and of one embedded picture.  *)
EXTENDS Engine

MCPixels == [c \in Content |-> CASE c = "small" -> 1 [] c = "large" -> 2 [] c = "crop" -> 3 [] OTHER -> 2]

MCHardAlike ==
    {<<"small", "large">>, <<"large", "small">>, <<"bare", "small">>, <<"small", "bare">>}
MCSoftAlike == {<<"crop", "small">>, <<"small", "crop">>}

Job(how, c) == [how |-> how, content |-> c]

MCRequests ==
    {<<Job("ingest", "small")>>, <<Job("ingest", "rubbish")>>, <<Job("processed", "large")>>,
     <<Job("processed", "crop")>>, <<Job("processed", "bare")>>,
     <<Job("look", "small")>>, <<Job("check", "small")>>,
     <<Job("delete", "small")>>, <<Job("delete", "large")>>,
     <<Job("ingest", "large"), Job("ingest", "crop")>>,
     <<Job("look", "crop"), Job("processed", "crop")>>}
=============================================================================
