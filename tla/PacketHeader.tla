----------------------------- MODULE PacketHeader -----------------------------
(***************************************************************************)
(* What the program reads of an IP packet: its version and two addresses.  *)
(* A packet is [length, version, src, dst]; a parser returns the set of the*)
(* addresses it finds, empty when it returns an error.  The server has a   *)
(* parser for each direction, the library a third one for both.            *)
(***************************************************************************)
EXTENDS Naturals

CONSTANT Hosts         \* addresses packets travel between

(* Mutant: the length test of an IPv6 packet is that of IPv4.  The bytes   *)
(* behind the packet are an earlier one's: the buffer is used again.       *)
parseDestinationIPUnchecked(packet) ==
  IF packet.length >= 20 /\ packet.version \in {4, 6} THEN {packet.dst} ELSE {}

parseDestinationIP(packet) ==
  IF \/ packet.version = 4 /\ packet.length >= 20
     \/ packet.version = 6 /\ packet.length >= 40
    THEN {packet.dst}
    ELSE {}

parseSourceIP(packet) ==
  IF \/ packet.version = 4 /\ packet.length >= 20
     \/ packet.version = 6 /\ packet.length >= 40
    THEN {packet.src}
    ELSE {}

(* common.GetIPAddresses of a whole packet; GetSourceIP and                *)
(* GetDestinationIP return its two halves.                                 *)
GetIPAddresses(packet) ==
  IF \/ packet.length < 20
     \/ packet.version = 6 /\ packet.length < 40
     \/ packet.version \notin {4, 6}
    THEN {}
    ELSE {[src |-> packet.src, dst |-> packet.dst]}

(* buffer[:n] after a ReadPacket(buffer, offset) of n bytes.  The device   *)
(* writes behind the offset; nothing ever writes before it, and a new      *)
(* buffer is zero.                                                         *)
FirstBytes(packet, offset) ==
  IF offset = 0 THEN packet ELSE [packet EXCEPT !.version = 0]
===============================================================================
