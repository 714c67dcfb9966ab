---------------------------- MODULE ConnProperties ----------------------------
(***************************************************************************)
(* What a MASQUEConn must guarantee to the goroutines that share it.       *)
(***************************************************************************)
EXTENDS MASQUEConn, SequencesExt

(* The variables have their types; the channels keep to their capacity,    *)
(* are closed with the flag, readChan first, and only under the lock.      *)
ConnTypeOK ==
  /\ closed \in BOOLEAN /\ closing \subseteq Closers
  /\ readChan \in Seq(Packets) /\ writeChan \in Seq(Packets)
  /\ Len(readChan) <= ChanCap /\ Len(writeChan) <= ChanCap
  /\ readClosed \in BOOLEAN /\ writeClosed \in BOOLEAN
  /\ relay \in {"receive", "forward", "exited", "panicked"}
  /\ held \in Seq(Packets) /\ Len(held) <= 1
  /\ wpc \in [Writers -> {"idle", "sending", "panicked"}]
  /\ sent \in [Writers -> 0 .. MaxPackets]
  /\ \A w \in Writers : wpc[w] = "sending" => sent[w] > 0
  /\ rpc \in {"idle", "receiving"}
  /\ received \in Seq(Packets)
  /\ cpc \in [Closers -> {"idle", "between", "done"}]
  /\ closing = {k \in Closers : cpc[k] = "between"}
  /\ \A j, k \in closing : j = k
  /\ closing # {} => closed
  /\ readClosed = closed
  /\ writeClosed = (closed /\ LockFree)
  /\ relay = "forward" => Len(held) = 1
  /\ relay \in {"receive", "exited"} => held = <<>>

(* No operation panics: what follows a Close is an error, also for a call  *)
(* that began before it and for the relay (tests/masque_integration_test).*)
NoPanic == ~Crashed /\ \A w \in Writers : wpc[w] # "panicked"

(* A connection is a lossy first-in first-out tunnel, drops, timeouts,     *)
(* several writers and Close included.                                     *)
Tunnel == INSTANCE PacketTunnel WITH inFlight <- readChan \o held \o writeChan
TunnelSpec == Tunnel!TunnelSpec

(* A writer's packets come out of ReadPacket in the order it wrote them and*)
(* none twice, although its timeouts, the relay's drops and Close take some*)
(* from anywhere between and the other writers' packets are among them.    *)
InOrder(s) ==
  \A i, j \in DOMAIN s : i < j /\ s[i][1] = s[j][1] => s[i][2] < s[j][2]

WritersKeepOrder == InOrder(received)

(* A reader that does not read never blocks a writer: the relay drains     *)
(* writeChan whether or not readChan has room.  The write timeout plays no *)
(* part in it.                                                             *)
SlowReaderNeverBlocksWriters ==
  \A w \in Writers : wpc[w] = "sending" ~> wpc[w] # "sending" \/ Crashed

(* Close wakes a ReadPacket that is blocked, without its 30-second timer.  *)
CloseWakesReader == closed /\ rpc = "receiving" ~> rpc = "idle" \/ Crashed

(* Close ends the relay goroutine.                                         *)
CloseEndsRelay == closed ~> relay = "exited" \/ Crashed
===============================================================================
