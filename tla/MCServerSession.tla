--------------------------- MODULE MCServerSession ---------------------------
(* One client and one host behind the TUN device; packets of both versions  *)
(* between them, whole ones, those one byte too short, and another version. *)
EXTENDS SessionProperties

MCPackets ==
  {[length |-> h[1], version |-> h[2], src |-> s, dst |-> d] :
     h \in {<<20, 4>>, <<19, 4>>, <<40, 6>>, <<39, 6>>, <<40, 0>>},
     s \in Hosts, d \in Hosts}
===============================================================================
