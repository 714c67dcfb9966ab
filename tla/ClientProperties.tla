--------------------------- MODULE ClientProperties ---------------------------
(***************************************************************************)
(* What the client owes the user who starts and stops it.                  *)
(***************************************************************************)
EXTENDS ClientLifecycle

(* The variables have their types, and the resources follow the phase: a   *)
(* device and an open stream exist exactly in between their creation and   *)
(* the cleanup.                                                            *)
ClientTypeOK ==
  /\ phase \in {"dialing", "opening", "awaiting", "configuring", "done"} \cup Established
  /\ ctxDone \in BOOLEAN /\ connClosed \in BOOLEAN /\ tunName \in BOOLEAN
  /\ quic \in {"none", "up", "dead"}
  /\ stream \in {"none", "open", "closed"}
  /\ tun \in {"none", "open", "closed"}
  /\ errChan \in Seq({"nil", "error"}) /\ Len(errChan) <= 2
  /\ t2m \in {"off", "reading", "writing", "ended"}
  /\ m2t \in {"off", "calling", "reading", "writing", "ended"}
  /\ stream = "open" <=> phase \in {"awaiting", "configuring", "running", "closingConn"}
  /\ tun = "open" <=> tunName /\ phase \in {"running", "closingConn", "closingTun"}
  /\ t2m = "off" <=> tun = "none"
  /\ m2t = "off" <=> tun = "none"

(* Whatever failed and whenever the signal came, the client never exits    *)
(* with a stream half open, a TUN device configured or a proxy running on  *)
(* a device that was closed under it.                                      *)
CleanExit ==
  phase = "done" =>
    /\ stream # "open"
    /\ tun # "open"
    /\ t2m \in {"off", "ended"}
    /\ m2t \in {"off", "ended"}

(* Once the tunnel is up, a signal ends the client, with its proxies       *)
(* blocked in the TUN device, in the stream or in neither.                 *)
SignalStopsTunnel == ctxDone /\ phase \in Established ~> phase = "done"

(* A proxy that ends takes the whole client with it: no tunnel stays up    *)
(* that works in one direction only.                                       *)
ProxyFailureStopsClient == t2m = "ended" \/ m2t = "ended" ~> phase = "done"

-------------------------------------------------------------------------------
(* A signal always ends the client (main.go, the graceful shutdown         *)
(* context).                                                               *)
GracefulShutdown == ctxDone ~> phase = "done"
===============================================================================
