------------------------------- MODULE MCXorFEC -------------------------------
(* Up to two blocks of two packets, of one or two bytes, and every pattern  *)
(* of losses.                                                               *)
EXTENDS XorFEC
===============================================================================
