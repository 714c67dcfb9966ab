--------------------------- MODULE ClientLifecycle ---------------------------
(***************************************************************************)
(* The VPN client (vpn_client/main.go): the goroutine that connects, runs  *)
(* the tunnel and cleans up, the two proxies of common/masque_proxy.go,    *)
(* and the context a signal cancels.  main only waits for that goroutine.  *)
(*                                                                         *)
(* Here a MASQUEConn works on a QUIC stream.  Its Close closes the sending *)
(* side only: a Read that is blocked goes on until its deadline.  The QUIC *)
(* connection, the server and the TUN device are the environment.          *)
(***************************************************************************)
EXTENDS Naturals, Sequences

VARIABLES phase,       \* "dialing", "opening", "awaiting", "configuring", "running",
                       \* "closingConn", "closingTun", "joining", "done"
          ctxDone,     \* a signal came, or stop() was called
          quic,        \* the QUIC connection: "none", "up", "dead"
          stream,      \* the sending side of its stream: "none", "open", "closed"
          connClosed,  \* the closed flag of the MASQUEConn
          tunName,     \* the configuration asks for a TUN device
          tun,         \* the device: "none", "open", "closed"
          errChan,     \* what the proxies reported and nobody read
          t2m,         \* ProxyFromTunToMASQUE: "off", "reading", "writing", "ended"
          m2t          \* ProxyFromMASQUEToTun: "off", "calling", "reading", "writing",
                       \* "ended"

netVars == <<quic, stream, connClosed>>
proxyVars == <<errChan, t2m, m2t>>
vars == <<phase, ctxDone, netVars, tunName, tun, proxyVars>>

Init ==
  /\ phase = "dialing" /\ ctxDone = FALSE
  /\ quic = "none" /\ stream = "none" /\ connClosed = FALSE
  /\ tunName \in BOOLEAN /\ tun = "none"
  /\ errChan = <<>> /\ t2m = "off" /\ m2t = "off"

Established == {"running", "closingConn", "closingTun", "joining"}
-------------------------------------------------------------------------------
(* SIGINT or SIGTERM.                                                      *)
Signal ==
  /\ ctxDone' = TRUE
  /\ UNCHANGED <<phase, netVars, tunName, tun, proxyVars>>

(* The peer is gone for a minute (MaxIdleTimeout), or closed.              *)
QuicDies ==
  /\ quic = "up"
  /\ quic' = "dead"
  /\ UNCHANGED <<phase, ctxDone, stream, connClosed, tunName, tun, proxyVars>>

(* establishAndConfigure returned an error: stop() and return.             *)
GiveUp == phase' = "done" /\ ctxDone' = TRUE

(* Up to quic.Dial, which takes 15 seconds at most.                        *)
Dial ==
  /\ phase = "dialing"
  /\ phase' = "opening" /\ quic' = "up"
  /\ UNCHANGED <<ctxDone, stream, connClosed, tunName, tun, proxyVars>>

DialFails ==
  /\ phase = "dialing"
  /\ GiveUp
  /\ UNCHANGED <<netVars, tunName, tun, proxyVars>>

(* ConnectIP: OpenStreamSync, which takes 10 seconds at most, and the      *)
(* request.                                                                *)
OpenStream ==
  /\ phase = "opening" /\ quic = "up" /\ ~ctxDone
  /\ phase' = "awaiting" /\ stream' = "open"
  /\ UNCHANGED <<ctxDone, quic, connClosed, tunName, tun, proxyVars>>

OpenStreamFails ==
  /\ phase = "opening"
  /\ GiveUp
  /\ UNCHANGED <<netVars, tunName, tun, proxyVars>>

(* ConnectIP: stream.Read of the response, without a deadline and deaf to  *)
(* the context.  The server accepts,                                       *)
ResponseAccepts ==
  /\ phase = "awaiting" /\ quic = "up"
  /\ phase' = "configuring"
  /\ UNCHANGED <<ctxDone, netVars, tunName, tun, proxyVars>>

(* or answers anything else, or the connection dies: the stream is closed. *)
ResponseFails ==
  /\ phase = "awaiting"
  /\ stream' = "closed"
  /\ GiveUp
  /\ UNCHANGED <<quic, connClosed, tunName, tun, proxyVars>>

(* CreateTunDevice, if the configuration names a device, and the start of  *)
(* the proxies.                                                            *)
Configure ==
  /\ phase = "configuring"
  /\ phase' = "running"
  /\ IF tunName
       THEN tun' = "open" /\ t2m' = "reading" /\ m2t' = "calling"
       ELSE UNCHANGED <<tun, t2m, m2t>>
  /\ UNCHANGED <<ctxDone, netVars, tunName, errChan>>

(* Mutant: an error of CreateTunDevice is returned as it is.               *)
ConfigureFailsUnclosed ==
  /\ phase = "configuring" /\ tunName
  /\ GiveUp
  /\ UNCHANGED <<netVars, tunName, tun, proxyVars>>

(* CreateTunDevice fails: masqueConn.Close().                              *)
ConfigureFails ==
  /\ phase = "configuring" /\ tunName
  /\ connClosed' = TRUE /\ stream' = "closed"
  /\ GiveUp
  /\ UNCHANGED <<quic, tunName, tun, proxyVars>>

-------------------------------------------------------------------------------
(* errChan <- err, on a channel of capacity two.                           *)
ReportUnbuffered(err) == errChan = <<>> /\ errChan' = <<err>>

Report(err) == Len(errChan) < 2 /\ errChan' = Append(errChan, err)

(* ProxyFromTunToMASQUE reads a packet,                                    *)
TunRead ==
  /\ t2m = "reading" /\ tun = "open"
  /\ t2m' = "writing"
  /\ UNCHANGED <<phase, ctxDone, netVars, tunName, tun, errChan, m2t>>

(* or an error, which every read of a closed device returns.               *)
TunReadFails ==
  /\ t2m = "reading"
  /\ t2m' = "ended"
  /\ Report("error")
  /\ UNCHANGED <<phase, ctxDone, netVars, tunName, tun, m2t>>

(* WritePacket on the stream, with a deadline of ten seconds.              *)
StreamWrite ==
  /\ t2m = "writing" /\ ~connClosed /\ quic = "up"
  /\ t2m' = "reading"
  /\ UNCHANGED <<phase, ctxDone, netVars, tunName, tun, errChan, m2t>>

(* Mutant: the proxy returns without a report.                             *)
StreamWriteFailsSilently ==
  /\ t2m = "writing"
  /\ t2m' = "ended"
  /\ UNCHANGED <<phase, ctxDone, netVars, tunName, tun, errChan, m2t>>

StreamWriteFails ==
  /\ t2m = "writing"
  /\ t2m' = "ended"
  /\ Report("error")
  /\ UNCHANGED <<phase, ctxDone, netVars, tunName, tun, m2t>>

(* ProxyFromMASQUEToTun calls ReadPacket: io.EOF when it is closed.        *)
ReadCall ==
  /\ m2t = "calling"
  /\ IF connClosed
       THEN m2t' = "ended" /\ Report("nil")
       ELSE m2t' = "reading" /\ UNCHANGED errChan
  /\ UNCHANGED <<phase, ctxDone, netVars, tunName, tun, t2m>>

(* Stream.Read returns a packet, closed or not,                            *)
StreamRead ==
  /\ m2t = "reading" /\ quic = "up"
  /\ m2t' = "writing"
  /\ UNCHANGED <<phase, ctxDone, netVars, tunName, tun, errChan, t2m>>

(* Mutant: the proxy goes on after an error.                               *)
StreamReadRetried ==
  /\ m2t = "reading"
  /\ m2t' = "calling"
  /\ UNCHANGED <<phase, ctxDone, netVars, tunName, tun, errChan, t2m>>

(* or an error: the connection's, or the deadline of 30 seconds.  Either   *)
(* ends the proxy.                                                         *)
StreamReadFails ==
  /\ m2t = "reading"
  /\ m2t' = "ended"
  /\ Report("error")
  /\ UNCHANGED <<phase, ctxDone, netVars, tunName, tun, t2m>>

TunWrite ==
  /\ m2t = "writing" /\ tun = "open"
  /\ m2t' = "calling"
  /\ UNCHANGED <<phase, ctxDone, netVars, tunName, tun, errChan, t2m>>

TunWriteFails ==
  /\ m2t = "writing"
  /\ m2t' = "ended"
  /\ Report("error")
  /\ UNCHANGED <<phase, ctxDone, netVars, tunName, tun, t2m>>

-------------------------------------------------------------------------------
(* The select: a proxy reported, or the context is done.                   *)
ProxyReported ==
  /\ phase = "running" /\ errChan # <<>>
  /\ errChan' = Tail(errChan)
  /\ phase' = "closingConn"
  /\ UNCHANGED <<ctxDone, netVars, tunName, tun, t2m, m2t>>

ShutdownReceived ==
  /\ phase = "running" /\ ctxDone
  /\ phase' = "closingConn"
  /\ UNCHANGED <<ctxDone, netVars, tunName, tun, proxyVars>>

CloseConn ==
  /\ phase = "closingConn"
  /\ phase' = "closingTun"
  /\ connClosed' = TRUE /\ stream' = "closed"
  /\ UNCHANGED <<ctxDone, quic, tunName, tun, proxyVars>>

(* Mutant: the device is left to the end of the process.                   *)
CloseTunSkipped ==
  /\ phase = "closingTun"
  /\ phase' = "joining"
  /\ UNCHANGED <<ctxDone, netVars, tunName, tun, proxyVars>>

CloseTun ==
  /\ phase = "closingTun"
  /\ phase' = "joining"
  /\ tun' = IF tun = "open" THEN "closed" ELSE tun
  /\ UNCHANGED <<ctxDone, netVars, tunName, proxyVars>>

(* proxyWg.Wait().  Without a device it waits for a goroutine that waits   *)
(* for the context.                                                        *)
Join ==
  /\ phase = "joining"
  /\ IF tunName THEN t2m = "ended" /\ m2t = "ended" ELSE ctxDone
  /\ phase' = "done"
  /\ UNCHANGED <<ctxDone, netVars, tunName, tun, proxyVars>>

-------------------------------------------------------------------------------
Connecting ==
  \/ Dial \/ DialFails \/ OpenStream \/ OpenStreamFails \/ Configure \/ ConfigureFails
TunToMasque == TunRead \/ TunReadFails \/ StreamWrite \/ StreamWriteFails
MasqueToTun == ReadCall \/ StreamRead \/ StreamReadFails \/ TunWrite \/ TunWriteFails
Stopping == ProxyReported \/ ShutdownReceived \/ CloseConn \/ CloseTun \/ Join

Next ==
  \/ Signal \/ QuicDies
  \/ Connecting \/ ResponseAccepts \/ ResponseFails
  \/ TunToMasque \/ MasqueToTun \/ Stopping

(* A goroutine that can go on does.  Dial and OpenStreamSync have a        *)
(* timeout and the calls on the stream a deadline, so each returns.  The   *)
(* response may never come, and an open device may have no packet.         *)
Fairness ==
  /\ WF_vars(Connecting)
  /\ WF_vars(quic = "dead" /\ ResponseFails)
  /\ WF_vars(tun = "closed" /\ TunReadFails)
  /\ WF_vars(StreamWrite \/ StreamWriteFails)
  /\ WF_vars(MasqueToTun)
  /\ WF_vars(Stopping)

Spec == Init /\ [][Next]_vars /\ Fairness
===============================================================================
