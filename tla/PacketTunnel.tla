----------------------------- MODULE PacketTunnel -----------------------------
(***************************************************************************)
(* What a MASQUE connection promises its two ends: packets may be lost,    *)
(* but none is duplicated, invented or overtaken.                          *)
(***************************************************************************)
EXTENDS Sequences, SequencesExt

CONSTANT Packets

VARIABLES inFlight,    \* accepted by WritePacket and neither lost nor read
          received     \* returned by ReadPacket, in order

TunnelInit == inFlight = <<>> /\ received = <<>>

Accept(p) ==
  /\ inFlight' = Append(inFlight, p)
  /\ UNCHANGED received

Deliver ==
  /\ inFlight # <<>>
  /\ received' = Append(received, Head(inFlight))
  /\ inFlight' = Tail(inFlight)

Lose(i) ==
  /\ inFlight' = RemoveAt(inFlight, i)
  /\ UNCHANGED received

TunnelNext ==
  \/ \E p \in Packets : Accept(p)
  \/ Deliver
  \/ \E i \in DOMAIN inFlight : Lose(i)

TunnelSpec == TunnelInit /\ [][TunnelNext]_<<inFlight, received>>
===============================================================================
