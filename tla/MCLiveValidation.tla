--------------------------- MODULE MCLiveValidation ---------------------------
(* A rule that looks at one event, then one that counts two. *)
EXTENDS LiveValidation

MCSupported == <<"f1", "n1">>
===============================================================================
