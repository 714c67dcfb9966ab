--------------------------- MODULE MCSessionRegistry ---------------------------
(* Two clients, two addresses, three handlers and an administrator: a       *)
(* client can have two handlers at once while another client arrives.       *)
EXTENDS RegistryProperties

CONSTANTS a1, a2

SmallPool == <<a1, a2>>
================================================================================
