------------------------------- MODULE MCClient -------------------------------
(* The whole client: it has no parameters.                                  *)
EXTENDS ClientProperties
===============================================================================
