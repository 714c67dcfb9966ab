------------------------------ MODULE ServerCore ------------------------------
(***************************************************************************)
(* The server with a TUN device: the session registry, and the goroutines  *)
(* that use its entries outside the lock.  processPackets looks a session  *)
(* up and sends after the unlock.  proxyClientToTun of a session compares  *)
(* the source of a packet with the address the session was started with,   *)
(* and writes the packet to the TUN device; it outlives its handler.  The  *)
(* gauge of active connections is kept by the handlers.                    *)
(*                                                                         *)
(* A slot of Handlers stands for a request, its session and its proxies:   *)
(* it serves another request when no goroutine refers to it any more.      *)
(* What happens inside one session is ServerSession's subject.             *)
(***************************************************************************)
EXTENDS SessionRegistry, Integers

VARIABLES counted,     \* the handler is between RecordConnection and its return
          proxy,       \* proxyClientToTun: "off", "loop", "calling", "reading",
                       \* "writing"
          proxyIP,     \* its argument clientIP
          late,        \* history: packets it wrote after its connection was closed
          inHand,      \* the session processPackets is about to send to
          dest,        \* the address of the packet it holds
          gauge        \* Metrics.ActiveConnections

proxyVars == <<proxy, proxyIP, late>>
feedVars == <<inHand, dest>>
metricVars == <<counted, gauge>>
coreVars == <<vars, proxyVars, feedVars, metricVars>>

CoreInit ==
  /\ Init
  /\ counted = [h \in Handlers |-> FALSE]
  /\ proxy = [h \in Handlers |-> "off"]
  /\ proxyIP = [h \in Handlers |-> Nobody]
  /\ late = [h \in Handlers |-> 0]
  /\ inHand = Nobody /\ dest = Nobody
  /\ gauge = 0

(* Prometheus gauges: each call is atomic.                                 *)
RecordConnection == gauge' = gauge + 1
RecordDisconnection == gauge' = gauge - 1

Unreferenced(h) == ~counted[h] /\ proxy[h] = "off" /\ inHand # h
-------------------------------------------------------------------------------
Admit(h) ==
  /\ Unreferenced(h)
  /\ \E c \in Clients : ReuseAssignment(h, c) \/ AssignNew(h, c)
  /\ UNCHANGED <<proxyVars, feedVars, metricVars>>

Store(h) ==
  /\ StoreSession(h)
  /\ UNCHANGED <<proxyVars, feedVars, metricVars>>

(* Mutant: the proxies are started before the session is stored.           *)
StartSessionEarly(h) ==
  /\ pc[h] = "assigned" /\ ~counted[h]
  /\ counted' = [counted EXCEPT ![h] = TRUE]
  /\ RecordConnection
  /\ proxy' = [proxy EXCEPT ![h] = "loop"]
  /\ proxyIP' = [proxyIP EXCEPT ![h] = assignedIP[h]]
  /\ late' = [late EXCEPT ![h] = 0]
  /\ UNCHANGED <<vars, feedVars>>

(* RecordConnection, then handleClientConnection starts the proxies.       *)
StartSession(h) ==
  /\ pc[h] = "serving" /\ ~counted[h]
  /\ counted' = [counted EXCEPT ![h] = TRUE]
  /\ RecordConnection
  /\ proxy' = [proxy EXCEPT ![h] = "loop"]
  /\ proxyIP' = [proxyIP EXCEPT ![h] = assignedIP[h]]
  /\ late' = [late EXCEPT ![h] = 0]
  /\ UNCHANGED <<vars, feedVars>>

(* handleClientConnection heard of an end, or waited for 24 hours.         *)
CleanupSession(h) ==
  /\ counted[h]
  /\ Cleanup(h)
  /\ UNCHANGED <<proxyVars, feedVars, metricVars>>

(* Mutant: RecordDisconnection is not deferred but called where the proxies*)
(* report, and a handler whose context expired does not pass there.        *)
HandlerReturnsUncounted(h) ==
  /\ counted[h] /\ pc[h] = "idle"
  /\ counted' = [counted EXCEPT ![h] = FALSE]
  /\ UNCHANGED <<vars, proxyVars, feedVars, gauge>>

(* The deferred calls: cancel, on which the proxy's context is done, and   *)
(* RecordDisconnection.                                                    *)
HandlerReturns(h) ==
  /\ counted[h] /\ pc[h] = "idle"
  /\ counted' = [counted EXCEPT ![h] = FALSE]
  /\ RecordDisconnection
  /\ UNCHANGED <<vars, proxyVars, feedVars>>

-------------------------------------------------------------------------------
(* processPackets reads a packet for a and looks the session up under the  *)
(* read lock.                                                              *)
LookUp(a) ==
  /\ inHand = Nobody
  /\ IPConnMap[a] # Nobody
  /\ inHand' = IPConnMap[a] /\ dest' = a
  /\ UNCHANGED <<vars, proxyVars, metricVars>>

Forget ==
  /\ inHand' = Nobody /\ dest' = Nobody
  /\ UNCHANGED <<vars, proxyVars, metricVars>>

(* Mutant: WritePacket does not ask whether the connection is closed.      *)
ForwardUnchecked == inHand # Nobody /\ Forget

(* WritePacket takes the packet: the connection is open at that moment.    *)
(* Between its closed test and the send a Close makes it panic and ends the*)
(* server (MASQUEConn): the two are one step here.                         *)
Forward ==
  /\ inHand # Nobody /\ connOpen[inHand]
  /\ Forget

(* It returns an error, or the write times out, or the session has FEC     *)
(* enabled and the packet stays in its buffer (ServerSession).             *)
ForwardFails == inHand # Nobody /\ Forget

-------------------------------------------------------------------------------
Proxy(h, from, to) ==
  /\ proxy[h] = from
  /\ proxy' = [proxy EXCEPT ![h] = to]
  /\ UNCHANGED <<vars, proxyIP, feedVars, metricVars>>

(* The top of the loop: the context is done once the handler returned, or  *)
(* after 24 hours.                                                         *)
ProxyLoop(h) ==
  \/ counted[h] /\ Proxy(h, "loop", "calling") /\ UNCHANGED late
  \/ Proxy(h, "loop", "off") /\ UNCHANGED late

(* Mutant: ReadPacket does not look at the closed flag, and the packets    *)
(* still in the channel come out one by one.                               *)
ProxyCallUnchecked(h) == Proxy(h, "calling", "reading") /\ UNCHANGED late

(* ReadPacket: io.EOF if the connection is closed.                         *)
ProxyCall(h) ==
  /\ Proxy(h, "calling", IF connOpen[h] THEN "reading" ELSE "off")
  /\ UNCHANGED late

(* It returns a packet from proxyIP[h], one that was in the channel when   *)
(* the connection was closed included;                                     *)
ProxyReceive(h) == Proxy(h, "reading", "writing") /\ UNCHANGED late

(* a packet from another source or, woken by the close, nothing: skipped;  *)
ProxySkip(h) == Proxy(h, "reading", "loop") /\ UNCHANGED late

(* the error of its timeout.                                               *)
ProxyTimeout(h) == Proxy(h, "reading", "off") /\ UNCHANGED late

(* TunDev.WritePacket.                                                     *)
ProxyWrite(h) ==
  /\ Proxy(h, "writing", "loop")
  /\ late' = IF connOpen[h] THEN late ELSE [late EXCEPT ![h] = @ + 1]

ProxyWriteFails(h) == Proxy(h, "writing", "off") /\ UNCHANGED late

ProxyStep(h) ==
  \/ ProxyLoop(h) \/ ProxyCall(h)
  \/ ProxyReceive(h) \/ ProxySkip(h) \/ ProxyTimeout(h)
  \/ ProxyWrite(h) \/ ProxyWriteFails(h)

Others ==
  /\ (\E d \in Admins : AdminStep(d)) \/ CloseServer
  /\ UNCHANGED <<proxyVars, feedVars, metricVars>>

CoreNext ==
  \/ \E h \in Handlers :
       \/ Admit(h) \/ Store(h) \/ StartSession(h)
       \/ CleanupSession(h) \/ HandlerReturns(h)
       \/ ProxyStep(h)
  \/ \E a \in Addresses : LookUp(a)
  \/ Forward \/ ForwardFails
  \/ Others

CoreSpec == CoreInit /\ [][CoreNext]_coreVars
===============================================================================
