---------------------------- MODULE ServerSession ----------------------------
(***************************************************************************)
(* One client session of the server (masque_handler.go): the handler, its  *)
(* two proxies and the errChan between them, processPackets, which feeds   *)
(* the connection from the TUN device, and an administrator's disconnect.  *)
(*                                                                         *)
(* The MASQUEConn is the tunnel it implements (PacketTunnel) and a closed  *)
(* flag.  The TUN device is external: a read returns any packet, or fails, *)
(* as a write may, and does fail once the device is closed.  The server    *)
(* also runs without one.                                                  *)
(***************************************************************************)
EXTENDS PacketTunnel, PacketHeader

CONSTANTS clientIP,    \* the session's own address
          MaxPackets   \* packets processPackets forwards: bounds the model

ASSUME SessionAssumption ==
  /\ clientIP \in Hosts
  /\ Packets \subseteq [length : Nat, version : Nat, src : Hosts, dst : Hosts]
  /\ MaxPackets \in Nat

VARIABLES connClosed,  \* the MASQUEConn was closed
          routed,      \* IPConnMap holds the session
          tunDev,      \* the TUN device: "open", "closed" or "none" (optional)
          ctxDone,     \* the handler's context: cancelled or 24 hours old
          hpc,         \* handler: "waiting", "cleaning", "returning", "ended"
          errChan,     \* what the proxies reported and the handler did not read
          tpc,         \* proxyTunToClient: "parked", "loop", "reading", "ended"
          cpc,         \* proxyClientToTun: "parked", "loop", "calling", "reading",
                       \* "writing", "ended"
          outbound,    \* the packet proxyClientToTun is about to write, if any
          toSend,      \* the packet processPackets is about to send, if any
          forwarded,   \* packets processPackets has looked up so far
          fecEnabled,  \* session.FecEnabled, from the configuration
          packetBuffer, \* how many packets session.PacketBuffer holds
          cause        \* why the session had to end: {} while nothing did

connVars == <<inFlight, received>>
sharedVars == <<connClosed, routed, tunDev, ctxDone>>
feedVars == <<toSend, forwarded, fecEnabled, packetBuffer>>
vars == <<connVars, sharedVars, feedVars, hpc, errChan, tpc, cpc, outbound, cause>>

Init ==
  /\ TunnelInit
  /\ connClosed = FALSE /\ routed = TRUE
  /\ tunDev \in {"open", "none"} /\ ctxDone = FALSE
  /\ hpc = "waiting" /\ errChan = <<>>
  /\ tpc = IF tunDev = "none" THEN "parked" ELSE "loop"
  /\ cpc = IF tunDev = "none" THEN "parked" ELSE "loop"
  /\ outbound = <<>>
  /\ toSend = <<>> /\ forwarded = 0
  /\ fecEnabled \in BOOLEAN /\ packetBuffer = 0
  /\ cause = {}

(* errChan <- err, on a channel of capacity two.                           *)
ReportUnbuffered(err) == errChan = <<>> /\ errChan' = <<err>>

Report(err) == Len(errChan) < 2 /\ errChan' = Append(errChan, err)
-------------------------------------------------------------------------------
(* processPackets reads p and looks its session up under the read lock.    *)
(* A packet that cannot be parsed or has no session is dropped.            *)
ProcessPacket(p) ==
  /\ tunDev = "open" /\ toSend = <<>> /\ forwarded < MaxPackets
  /\ clientIP \in parseDestinationIP(p) /\ routed
  /\ toSend' = <<p>>
  /\ forwarded' = forwarded + 1
  /\ UNCHANGED <<connVars, sharedVars, hpc, errChan, tpc, cpc, outbound, fecEnabled,
                 packetBuffer, cause>>

(* Mutant: a write that timed out is tried again, but the channel had taken*)
(* the packet.                                                             *)
ForwardPacketRetried ==
  /\ toSend # <<>> /\ ~fecEnabled /\ ~connClosed
  /\ Accept(Head(toSend))
  /\ UNCHANGED <<sharedVars, hpc, errChan, tpc, cpc, outbound, feedVars, cause>>

(* WritePacket after the unlock, on a connection that may be closed by     *)
(* now: it succeeds,                                                       *)
ForwardPacket ==
  /\ toSend # <<>> /\ ~fecEnabled /\ ~connClosed
  /\ Accept(Head(toSend))
  /\ toSend' = <<>>
  /\ UNCHANGED <<sharedVars, hpc, errChan, tpc, cpc, outbound, forwarded,
                 fecEnabled, packetBuffer, cause>>

(* or returns an error (closed, write timeout), which is logged.           *)
ForwardFails ==
  /\ toSend # <<>> /\ ~fecEnabled
  /\ toSend' = <<>>
  /\ UNCHANGED <<connVars, sharedVars, hpc, errChan, tpc, cpc, outbound, forwarded,
                 fecEnabled, packetBuffer, cause>>

(* forwardPacketWithFEC.  The handler creates its session without an       *)
(* Encoder, so no block is ever full: the packet stays in the buffer, even *)
(* that of a connection that is closed.                                    *)
BufferPacket ==
  /\ toSend # <<>> /\ fecEnabled
  /\ packetBuffer' = packetBuffer + 1
  /\ toSend' = <<>>
  /\ UNCHANGED <<connVars, sharedVars, hpc, errChan, tpc, cpc, outbound, forwarded,
                 fecEnabled, cause>>

(* The relay drops a packet it has no room for.                            *)
ConnLoses ==
  /\ \E i \in DOMAIN inFlight : Lose(i)
  /\ UNCHANGED <<sharedVars, hpc, errChan, tpc, cpc, outbound, feedVars, cause>>

-------------------------------------------------------------------------------
(* Without a TUN device both proxies only wait for the context.            *)
TunProxyParked ==
  /\ tpc = "parked" /\ ctxDone
  /\ tpc' = "ended"
  /\ Report("nil")
  /\ UNCHANGED <<connVars, sharedVars, hpc, cpc, outbound, feedVars, cause>>

ClientProxyParked ==
  /\ cpc = "parked" /\ ctxDone
  /\ cpc' = "ended"
  /\ Report("nil")
  /\ UNCHANGED <<connVars, sharedVars, hpc, tpc, outbound, feedVars, cause>>

(* proxyTunToClient: the top of its loop.                                  *)
TunProxyLoop ==
  /\ tpc = "loop"
  /\ IF ctxDone
       THEN tpc' = "ended" /\ Report("nil")
       ELSE tpc' = "reading" /\ UNCHANGED errChan
  /\ UNCHANGED <<connVars, sharedVars, hpc, cpc, outbound, feedVars, cause>>

(* TunDev.ReadPacket(buffer, 100): the second argument is an offset.  What *)
(* is not for the client is skipped, the rest sent, unless that fails.     *)
TunProxyRead(p) ==
  LET packetData == FirstBytes(p, 100)
  IN  /\ tpc = "reading" /\ tunDev = "open"
      /\ IF clientIP \notin parseDestinationIP(packetData)
           THEN tpc' = "loop" /\ UNCHANGED <<connVars, errChan>>
           ELSE \/ ~connClosed /\ Accept(packetData) /\ tpc' = "loop" /\ UNCHANGED errChan
                \/ Report("error") /\ tpc' = "ended" /\ UNCHANGED connVars
      /\ UNCHANGED <<sharedVars, hpc, cpc, outbound, feedVars, cause>>

(* Mutant: the proxy ends without a report.                                *)
TunProxyReadFailsSilently ==
  /\ tpc = "reading" /\ tunDev = "closed"
  /\ tpc' = "ended"
  /\ UNCHANGED <<connVars, sharedVars, hpc, errChan, cpc, outbound, feedVars, cause>>

(* The error a closed device returns is not one isNetworkClosed knows.     *)
TunProxyReadFails ==
  /\ tpc = "reading" /\ tunDev = "closed"
  /\ tpc' = "ended"
  /\ Report("error")
  /\ UNCHANGED <<connVars, sharedVars, hpc, cpc, outbound, feedVars, cause>>

(* A read of an open device may fail as well, with any error.              *)
TunProxyReadBreaks ==
  /\ tpc = "reading" /\ tunDev = "open"
  /\ tpc' = "ended"
  /\ \E err \in {"nil", "error"} : Report(err)
  /\ cause' = cause \cup {"tun"}
  /\ UNCHANGED <<connVars, sharedVars, hpc, cpc, outbound, feedVars>>

-------------------------------------------------------------------------------
(* proxyClientToTun: the top of its loop.                                  *)
ClientProxyLoop ==
  /\ cpc = "loop"
  /\ IF ctxDone
       THEN cpc' = "ended" /\ Report("nil")
       ELSE cpc' = "calling" /\ UNCHANGED errChan
  /\ UNCHANGED <<connVars, sharedVars, hpc, tpc, outbound, feedVars, cause>>

(* Mutant: io.EOF is taken for one of the errors to ignore.                *)
ClientProxyCallIgnoringEOF ==
  /\ cpc = "calling"
  /\ cpc' = IF connClosed THEN "loop" ELSE "reading"
  /\ UNCHANGED <<connVars, sharedVars, hpc, errChan, tpc, outbound, feedVars, cause>>

(* ReadPacket: a closed connection returns io.EOF, which ends the proxy.   *)
ClientProxyCall ==
  /\ cpc = "calling"
  /\ IF connClosed
       THEN cpc' = "ended" /\ Report("nil")
       ELSE cpc' = "reading" /\ UNCHANGED errChan
  /\ UNCHANGED <<connVars, sharedVars, hpc, tpc, outbound, feedVars, cause>>

(* It returns a packet; one that cannot be parsed or does not come from the*)
(* client's address is skipped.                                            *)
ClientProxyReceive ==
  /\ cpc = "reading"
  /\ Deliver
  /\ IF clientIP \in parseSourceIP(Head(inFlight))
       THEN cpc' = "writing" /\ outbound' = <<Head(inFlight)>>
       ELSE cpc' = "loop" /\ UNCHANGED outbound
  /\ UNCHANGED <<sharedVars, hpc, errChan, tpc, feedVars, cause>>

(* It was blocked when the connection was closed: zero bytes, no error.    *)
ClientProxyWoken ==
  /\ cpc = "reading" /\ connClosed
  /\ cpc' = "loop"
  /\ UNCHANGED <<connVars, sharedVars, hpc, errChan, tpc, outbound, feedVars, cause>>

(* It times out after 30 idle seconds with an error that is no net.Error,  *)
(* so the test for a timeout fails and the proxy ends.                     *)
ClientProxyTimeout ==
  /\ cpc = "reading"
  /\ cpc' = "ended"
  /\ Report("error")
  /\ UNCHANGED <<connVars, sharedVars, hpc, tpc, outbound, feedVars, cause>>

(* TunDev.WritePacket.                                                     *)
ClientProxyWrite ==
  /\ cpc = "writing" /\ tunDev = "open"
  /\ cpc' = "loop" /\ outbound' = <<>>
  /\ UNCHANGED <<connVars, sharedVars, hpc, errChan, tpc, feedVars, cause>>

(* It fails: no error for the handler if isNetworkClosed knows it.         *)
ClientProxyWriteFails ==
  /\ cpc = "writing"
  /\ cpc' = "ended" /\ outbound' = <<>>
  /\ \E err \in {"nil", "error"} : Report(err)
  /\ cause' = cause \cup {"tun"}
  /\ UNCHANGED <<connVars, sharedVars, hpc, tpc, feedVars>>

-------------------------------------------------------------------------------
(* The select of handleClientConnection: a proxy reported,                 *)
HandlerHears ==
  /\ hpc = "waiting" /\ errChan # <<>>
  /\ errChan' = Tail(errChan)
  /\ hpc' = "cleaning"
  /\ UNCHANGED <<connVars, sharedVars, tpc, cpc, outbound, feedVars, cause>>

(* or the context is done.                                                 *)
HandlerExpires ==
  /\ hpc = "waiting" /\ ctxDone
  /\ hpc' = "cleaning"
  /\ UNCHANGED <<connVars, sharedVars, errChan, tpc, cpc, outbound, feedVars, cause>>

(* cleanupClientSession, when its session is the one stored.               *)
HandlerCleans ==
  /\ hpc = "cleaning"
  /\ hpc' = "returning"
  /\ connClosed' = (connClosed \/ routed)
  /\ routed' = FALSE
  /\ UNCHANGED <<connVars, tunDev, ctxDone, errChan, tpc, cpc, outbound, feedVars,
                 cause>>

(* Mutant: the context is not cancelled.                                   *)
HandlerReturnsUncancelled ==
  /\ hpc = "returning"
  /\ hpc' = "ended"
  /\ UNCHANGED <<connVars, sharedVars, errChan, tpc, cpc, outbound, feedVars, cause>>

(* The deferred cancel().                                                  *)
HandlerReturns ==
  /\ hpc = "returning"
  /\ hpc' = "ended" /\ ctxDone' = TRUE
  /\ UNCHANGED <<connVars, connClosed, routed, tunDev, errChan, tpc, cpc, outbound,
                 feedVars, cause>>

(* context.WithTimeout(24 h).                                              *)
ContextExpires ==
  /\ ~ctxDone
  /\ ctxDone' = TRUE
  /\ cause' = cause \cup {"expired"}
  /\ UNCHANGED <<connVars, connClosed, routed, tunDev, hpc, errChan, tpc, cpc,
                 outbound, feedVars>>

(* disconnectClient closes the connection and forgets the session.         *)
Disconnect ==
  /\ routed
  /\ connClosed' = TRUE /\ routed' = FALSE
  /\ cause' = cause \cup {"disconnected"}
  /\ UNCHANGED <<connVars, tunDev, ctxDone, hpc, errChan, tpc, cpc, outbound, feedVars>>

(* Server.Close closes the connection of a client that is still listed and *)
(* then the TUN device.  processPackets does not take the error of a       *)
(* closed device for the end either: it logs it for ever.                  *)
CloseServer ==
  /\ connClosed' = (connClosed \/ routed)
  /\ tunDev' = IF tunDev = "open" THEN "closed" ELSE tunDev
  /\ cause' = cause \cup {"closed"}
  /\ UNCHANGED <<connVars, routed, ctxDone, hpc, errChan, tpc, cpc, outbound, feedVars>>

TunProxyStep == TunProxyParked \/ TunProxyLoop \/ TunProxyReadFails
ClientProxyStep ==
  \/ ClientProxyParked \/ ClientProxyLoop \/ ClientProxyCall
  \/ ClientProxyReceive \/ ClientProxyWoken
  \/ ClientProxyWrite \/ ClientProxyWriteFails
HandlerStep == HandlerHears \/ HandlerExpires \/ HandlerCleans \/ HandlerReturns

Next ==
  \/ \E p \in Packets : ProcessPacket(p)
  \/ ForwardPacket \/ ForwardFails \/ BufferPacket \/ ConnLoses
  \/ TunProxyStep \/ TunProxyReadBreaks \/ \E p \in Packets : TunProxyRead(p)
  \/ ClientProxyStep \/ ClientProxyTimeout
  \/ HandlerStep
  \/ ContextExpires \/ Disconnect \/ CloseServer

(* A goroutine that can go on does.  No packet has to arrive, no timer to  *)
(* fire and nobody to disconnect the client.                               *)
Fairness ==
  /\ WF_vars(TunProxyStep)
  /\ WF_vars(ClientProxyStep)
  /\ WF_vars(HandlerStep)
  /\ WF_vars(ForwardPacket \/ ForwardFails \/ BufferPacket)

Spec == Init /\ [][Next]_vars /\ Fairness
===============================================================================
