-------------------------- MODULE SessionProperties --------------------------
(***************************************************************************)
(* What the goroutines of a session owe each other.                        *)
(***************************************************************************)
EXTENDS ServerSession

(* The variables have their types, and every proxy that ended has reported *)
(* once: what is in errChan, and the one report the handler may have read. *)
(* With FEC enabled every packet looked up for the client stays buffered.  *)
SessionTypeOK ==
  /\ inFlight \in Seq(Packets) /\ received \in Seq(Packets)
  /\ connClosed \in BOOLEAN /\ routed \in BOOLEAN
  /\ tunDev \in {"open", "closed", "none"} /\ ctxDone \in BOOLEAN
  /\ hpc \in {"waiting", "cleaning", "returning", "ended"}
  /\ errChan \in Seq({"nil", "error"}) /\ Len(errChan) <= 2
  /\ tpc \in {"parked", "loop", "reading", "ended"}
  /\ cpc \in {"parked", "loop", "calling", "reading", "writing", "ended"}
  /\ outbound \in Seq(Packets) /\ toSend \in Seq(Packets)
  /\ cpc = "writing" <=> outbound # <<>>
  /\ forwarded \in 0 .. MaxPackets
  /\ fecEnabled \in BOOLEAN
  /\ packetBuffer \in Nat /\ Len(toSend) <= 1
  /\ packetBuffer = IF fecEnabled THEN forwarded - Len(toSend) ELSE 0
  /\ cause \subseteq {"tun", "expired", "disconnected", "closed"}
  /\ hpc = "waiting" =>
       Len(errChan) = (IF tpc = "ended" THEN 1 ELSE 0) + (IF cpc = "ended" THEN 1 ELSE 0)

(* The tunnel of the server ends in its own reader: what processPackets    *)
(* took from the TUN device comes back to proxyClientToTun, and may go     *)
(* round.  No lap makes two packets of one: each that was taken is in one  *)
(* hand, buffer or channel at most and is read back once at most, whatever *)
(* fails on the way.  And nothing goes back to the device but what names   *)
(* the client as its source and as its destination, which two goroutines   *)
(* test, one at either end of the tunnel.                                  *)
LoopNeverMultiplies ==
  /\ Len(toSend) + packetBuffer + Len(inFlight) + Len(received) <= forwarded
  /\ \A i \in DOMAIN outbound :
       outbound[i].src = clientIP /\ outbound[i].dst = clientIP

(* Every packet on its way to the client or back has a whole header of a   *)
(* known version.  The buffers are used again without being cleared, and a *)
(* slice of one may reach behind its length: an address read beyond the end*)
(* of a short packet would be a stale one, of an earlier packet.           *)
CompletePackets ==
  {p \in Packets : \/ p.version = 4 /\ p.length >= 20
                   \/ p.version = 6 /\ p.length >= 40}

HeadersAreComplete ==
  /\ inFlight \in Seq(CompletePackets)
  /\ toSend \in Seq(CompletePackets)
  /\ outbound \in Seq(CompletePackets)

(* Closing the connection ends the session: its handler cleans up, within  *)
(* no timer's delay, although the other proxy may be blocked on the TUN    *)
(* device for ever.  Without a TUN device it only ends with its context.   *)
CloseEndsHandler ==
  (connClosed /\ tunDev # "none") \/ ctxDone ~> hpc = "ended"

(* A session that ended leaves no goroutine in its connection.             *)
ClientProxyEnds == hpc = "ended" ~> cpc = "ended"

(* As long as packets arrive at the TUN device, none is left in it either. *)
TunProxyEnds ==
  WF_vars(\E p \in Packets : TunProxyRead(p)) => (hpc = "ended" ~> tpc = "ended")

-------------------------------------------------------------------------------
(* A session ends for a reason: the client was disconnected, the server    *)
(* closed, the TUN device failed or a day went by.  An idle client loses   *)
(* nothing: timeouts are ignored (masque_handler.go, proxyClientToTun).    *)
EndsForCause == hpc # "waiting" => cause # {}

(* A packet for the client that its proxy reads from the TUN device is     *)
(* passed to its connection (masque_handler.go, proxyTunToClient).         *)
TunPacketsReachClient ==
  [][ \A p \in Packets :
        TunProxyRead(p) /\ clientIP \in parseDestinationIP(p) => inFlight' = Append(inFlight, p) ]_vars
===============================================================================
