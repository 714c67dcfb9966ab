--------------------------- MODULE SystemProperties ---------------------------
(***************************************************************************)
(* What starting, stopping and restarting the server guarantees, to its    *)
(* operator and to the client.                                             *)
(***************************************************************************)
EXTENDS VPNSystem

Before == {"configuring", "listing", "creating", "addressing"}

(* The variables have their types, the device and the listener follow the  *)
(* stage, and the process at the other end is there while the client does  *)
(* not know better.                                                        *)
ServerTypeOK ==
  /\ network \in [addr : Ip, size : Sizes, gateway : Ip] /\ serverTun \in BOOLEAN
  /\ ip \in Ip /\ ips \in Seq(Ip)
  /\ stage \in Before \cup {"created", "running", "serving", "exited"}
  /\ stopRequested \in BOOLEAN
  /\ device \in {"none", "bare", "up"}
  /\ listener \in {"none", "starting", "listening", "ended"}
  /\ runErr \in {<<>>, <<"error">>} /\ restarts \in 0 .. MaxRestarts
  /\ stage \in {"creating", "addressing"} => serverTun
  /\ device = "bare" <=> stage = "addressing"
  /\ device = "up" <=> serverTun /\ stage \in {"created", "running", "serving"}
  /\ listener # "none" <=> stage = "serving"
  /\ runErr # <<>> <=> listener = "ended"
  /\ stopRequested => stage \in {"running", "serving"}
  /\ peer = "none" => quic = "none"
  /\ peer = "here" => stage = "serving"

(* The host addresses of a network in order: all but its own address and   *)
(* the gateway's.  The last one, for IPv4 the broadcast address, is there. *)
Hosts(n) == [i \in 1 .. n.size - 2 |-> n.addr + 1 + i]

(* A server that gets past NewIPPool has listed exactly the hosts of its   *)
(* network, each once and in order, whatever the prefix: the loop compares *)
(* after an increment that wraps, and a /31 or /32 has no host at all.     *)
(* IPPool's assumption on InitialPool rests on it.                         *)
PoolListsHosts ==
  stage \in {"creating", "addressing", "created", "running", "serving"} =>
    ips = Hosts(network)

(* SIGTERM ends the server, wherever Run stands: the listener may not have *)
(* started, or have failed in the same moment.                             *)
SignalStopsServer == stopRequested ~> stage = "exited"

(* A server that does not listen does not stay: whatever fails between its *)
(* start and its listener, and when the listener is lost later, the process*)
(* ends and can be started again.                                          *)
NoDeadServer == stage # "exited" ~> stage = "exited" \/ listener = "listening"

(* A client never outlives the server process it was connected to: it ends *)
(* in every phase, although it reads the response without a deadline and   *)
(* its proxies block on the device.  It does not come back by itself, also *)
(* when the server was started again.  A client without a device waits for *)
(* a signal only (main.go, test mode).                                     *)
ServerStopEndsClient == peer = "gone" /\ tunName ~> phase = "done"
===============================================================================
