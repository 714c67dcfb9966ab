------------------------------ MODULE MCVPNSystem ------------------------------
(* Both processes, every prefix of a family of Space addresses.             *)
EXTENDS SystemProperties
================================================================================
