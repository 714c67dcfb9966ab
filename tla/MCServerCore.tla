----------------------------- MODULE MCServerCore -----------------------------
(* Three clients and handlers, two addresses.  Clients and handlers are     *)
(* interchangeable; addresses are not, the pool lists them in order.        *)
EXTENDS CoreProperties, TLC

CONSTANTS a1, a2

SmallPool == <<a1, a2>>

Interchangeable == Permutations(Clients) \cup Permutations(Handlers)
================================================================================
