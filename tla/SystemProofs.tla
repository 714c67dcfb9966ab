----------------------------- MODULE SystemProofs -----------------------------
(***************************************************************************)
(* The client on its own, and the two processes, for a family of addresses *)
(* of any size and any of its prefixes: the loop of NewIPPool lists the    *)
(* hosts of the network, the server's resources follow its stage, and a    *)
(* server that comes and goes takes nothing from what the client keeps.    *)
(***************************************************************************)
EXTENDS SystemProperties, ClientProperties, SequenceTheorems, TLAPS

(* There is no device before the configuration phase, nor without a name.  *)
NoEarlyDevice ==
  ~tunName \/ phase \in {"dialing", "opening", "awaiting", "configuring"} => tun = "none"

ClientInv == ClientTypeOK /\ CleanExit /\ NoEarlyDevice

LEMMA StepKeepsClientInv ==
  ASSUME ClientInv, [Next]_vars
  PROVE  ClientInv'
<1> USE DEF ClientInv, ClientTypeOK, CleanExit, NoEarlyDevice, Established
<1>1. ASSUME Signal PROVE ClientInv'
  BY <1>1 DEF Signal, netVars, proxyVars
<1>2. ASSUME QuicDies PROVE ClientInv'
  BY <1>2 DEF QuicDies, proxyVars
<1>3. ASSUME Dial \/ DialFails PROVE ClientInv'
  BY <1>3 DEF Dial, DialFails, GiveUp, netVars, proxyVars
<1>4. ASSUME OpenStream \/ OpenStreamFails PROVE ClientInv'
  BY <1>4 DEF OpenStream, OpenStreamFails, GiveUp, netVars, proxyVars
<1>5. ASSUME ResponseAccepts \/ ResponseFails PROVE ClientInv'
  BY <1>5 DEF ResponseAccepts, ResponseFails, GiveUp, netVars, proxyVars
<1>6. ASSUME Configure PROVE ClientInv'
  BY <1>6 DEF Configure, netVars
<1>7. ASSUME ConfigureFails PROVE ClientInv'
  BY <1>7 DEF ConfigureFails, GiveUp, proxyVars
<1>8. ASSUME TunRead \/ StreamWrite \/ StreamRead \/ TunWrite PROVE ClientInv'
  BY <1>8 DEF TunRead, StreamWrite, StreamRead, TunWrite, netVars
<1>9. ASSUME NEW err \in {"nil", "error"}, Report(err)
      PROVE  errChan' \in Seq({"nil", "error"}) /\ Len(errChan') <= 2
  BY <1>9 DEF Report
<1>10. ASSUME TunReadFails PROVE ClientInv'
  BY <1>9, <1>10 DEF TunReadFails, netVars
<1>11. ASSUME StreamWriteFails PROVE ClientInv'
  BY <1>9, <1>11 DEF StreamWriteFails, netVars
<1>12. ASSUME ReadCall PROVE ClientInv'
  BY <1>9, <1>12 DEF ReadCall, netVars
<1>13. ASSUME StreamReadFails PROVE ClientInv'
  BY <1>9, <1>13 DEF StreamReadFails, netVars
<1>14. ASSUME TunWriteFails PROVE ClientInv'
  BY <1>9, <1>14 DEF TunWriteFails, netVars
<1>15. ASSUME ProxyReported PROVE ClientInv'
  <2>1. errChan' \in Seq({"nil", "error"}) /\ Len(errChan') <= 2
    BY <1>15 DEF ProxyReported
  <2>2. /\ phase = "running" /\ phase' = "closingConn"
        /\ UNCHANGED <<ctxDone, quic, stream, connClosed, tunName, tun, t2m, m2t>>
    BY <1>15 DEF ProxyReported, netVars
  <2>. QED BY <2>1, <2>2
<1>16. ASSUME ShutdownReceived \/ CloseConn PROVE ClientInv'
  <2>1. CASE ShutdownReceived
    BY <2>1 DEF ShutdownReceived, netVars, proxyVars
  <2>2. CASE CloseConn
    BY <2>2 DEF CloseConn, netVars, proxyVars
  <2>. QED BY <1>16, <2>1, <2>2
<1>17. ASSUME CloseTun PROVE ClientInv'
  BY <1>17 DEF CloseTun, netVars, proxyVars
<1>18. ASSUME Join PROVE ClientInv'
  <2>1. /\ phase = "joining" /\ phase' = "done"
        /\ UNCHANGED <<ctxDone, quic, stream, connClosed, tunName, tun, errChan, t2m, m2t>>
    BY <1>18 DEF Join, netVars, proxyVars
  <2>2. t2m \in {"off", "ended"} /\ m2t \in {"off", "ended"}
    BY <1>18 DEF Join
  <2>. QED BY <2>1, <2>2
<1>19. ASSUME UNCHANGED vars PROVE ClientInv'
  BY <1>19 DEF vars, netVars, proxyVars
<1>. QED BY <1>1, <1>2, <1>3, <1>4, <1>5, <1>6, <1>7, <1>8, <1>10, <1>11, <1>12, <1>13,
            <1>14, <1>15, <1>16, <1>17, <1>18, <1>19
         DEF Next, Connecting, TunToMasque, MasqueToTun, Stopping

LEMMA ClientInvHolds == Spec => []ClientInv
<1>1. Init => ClientInv
  <2>1. <<>> \in Seq({"nil", "error"}) /\ Len(<<>>) <= 2
    OBVIOUS
  <2>. QED BY <2>1 DEF Init, ClientInv, ClientTypeOK, CleanExit, NoEarlyDevice, Established
<1>2. ClientInv /\ [Next]_vars => ClientInv'
  BY StepKeepsClientInv
<1>. QED BY <1>1, <1>2, PTL DEF Spec

(* ClientTypeOK: devices, streams and proxies exist in their phases only.  *)
THEOREM ClientTypeHolds == Spec => []ClientTypeOK
<1>1. ClientInv => ClientTypeOK
  BY DEF ClientInv
<1>. QED BY <1>1, ClientInvHolds, PTL

(* CleanExit: on no path out of the client is anything left open.          *)
THEOREM ClientExitsCleanly == Spec => []CleanExit
<1>1. ClientInv => CleanExit
  BY DEF ClientInv
<1>. QED BY <1>1, ClientInvHolds, PTL

-------------------------------------------------------------------------------

(* nextIP is the successor, but for the last address.                      *)
LEMMA NextIP ==
  ASSUME NEW a \in Ip
  PROVE  nextIP(a) \in Ip /\ (a + 1 < Space => nextIP(a) = a + 1)
<1>1. Space \in Nat /\ Space > 0 /\ a \in Nat /\ a < Space
  BY RangeAssumption DEF Ip
<1>2. (a + 1) % Space \in 0 .. Space - 1
  BY <1>1
<1>3. ASSUME a + 1 < Space PROVE (a + 1) % Space = a + 1
  BY <1>1, <1>3
<1>. QED BY <1>2, <1>3 DEF nextIP, Ip

(* What NewNetworkInfo returns: the network lies within the family.        *)
NetworkOK ==
  /\ network.size \in Sizes
  /\ network.addr \in 0 .. Space - network.size
  /\ network.gateway = nextIP(network.addr)

LEMMA NetworkBounds ==
  ASSUME NetworkOK
  PROVE  /\ Space \in Nat \ {0} /\ network.size \in 1 .. Space
         /\ network.addr \in Ip /\ LastIP(network) \in network.addr .. Space - 1
         /\ network.gateway \in Ip
         /\ network.addr + 1 < Space => network.gateway = network.addr + 1
<1>1. Space \in Nat \ {0} /\ network.size \in 1 .. Space
  BY RangeAssumption DEF NetworkOK
<1>2. network.addr \in Ip /\ LastIP(network) \in network.addr .. Space - 1
  BY <1>1 DEF NetworkOK, Ip, LastIP
<1>. QED BY <1>1, <1>2, NextIP DEF NetworkOK

LEMMA NetworkInit == ASSUME RangeInit PROVE NetworkOK
<1>1. PICK cidr \in [addr : Ip, size : Sizes] : network = NewNetworkInfo(cidr)
  BY DEF RangeInit
<1>2. cidr.addr - (cidr.addr % cidr.size) \in 0 .. Space - cidr.size
  BY <1>1, RangeAssumption DEF Ip
<1>. QED BY <1>1, <1>2 DEF NewNetworkInfo, NetworkOK

-------------------------------------------------------------------------------
(* A ramp of numbers, and the one that is one number longer.               *)
Ramp(a, n) == [i \in 1 .. n |-> a + i]

LEMMA EmptyRamp ==
  ASSUME NEW a \in Int, NEW n \in Int, n < 1
  PROVE  Ramp(a, n) = <<>>
<1>1. 1 .. n = {}
  OBVIOUS
<1>. QED BY <1>1 DEF Ramp

LEMMA LongerRamp ==
  ASSUME NEW a \in Int, NEW n \in Nat
  PROVE  Append(Ramp(a, n), a + n + 1) = Ramp(a, n + 1)
<1>1. Ramp(a, n) \in Seq(Int) /\ Len(Ramp(a, n)) = n
  BY DEF Ramp
<1>2. Ramp(a, n + 1) \in Seq(Int) /\ Len(Ramp(a, n + 1)) = n + 1
  BY DEF Ramp
<1>3. a + n + 1 \in Int
  OBVIOUS
<1>. DEFINE s == Append(Ramp(a, n), a + n + 1)
<1>4. /\ s \in Seq(Int) /\ Len(s) = n + 1
      /\ \A i \in 1 .. n : s[i] = Ramp(a, n)[i]
      /\ s[n + 1] = a + n + 1
  BY <1>1, <1>3, AppendProperties
<1>5. \A i \in 1 .. n + 1 : s[i] = Ramp(a, n + 1)[i]
  BY <1>4 DEF Ramp
<1>6. s = Ramp(a, n + 1)
  <2>. HIDE DEF s
  <2>. QED BY <1>2, <1>4, <1>5, SeqEqual
<1>. QED BY <1>6

(* The addresses of a network from its first host on, up to before b.      *)
HostsBefore(b) == Ramp(network.addr + 1, b - network.addr - 2)

(* The invariant of the loop.  In a network that ends in the last address  *)
(* of its family nothing is said of the list: the loop never ends.         *)
ListInv ==
  stage = "listing" /\ LastIP(network) < Space - 1 =>
    /\ ip \in network.addr + 1 .. LastIP(network) + 1
    /\ ips = HostsBefore(ip)

RangeInv == NetworkOK /\ ListInv /\ PoolListsHosts

LEMMA StartKeepsRange ==
  ASSUME RangeInv, ReadConfiguration
  PROVE  RangeInv'
<1>1. /\ network' = network /\ ip' = nextIP(network.addr) /\ ips' = <<>>
      /\ stage' = "listing"
  BY DEF ReadConfiguration, StartListing, GoTo
<1>2. ASSUME LastIP(network) < Space - 1
      PROVE  /\ ip' \in network.addr + 1 .. LastIP(network) + 1
             /\ ips' = HostsBefore(ip')
  <2>1. ip' = network.addr + 1
    BY <1>1, <1>2, NetworkBounds, NextIP DEF RangeInv, Ip
  <2>2. ips' = HostsBefore(ip')
    <3>1. /\ network.addr + 1 \in Int /\ ip' - network.addr - 2 \in Int
          /\ ip' - network.addr - 2 < 1
      BY <2>1, NetworkBounds DEF RangeInv, Ip
    <3>. QED BY <1>1, <3>1, EmptyRamp DEF HostsBefore
  <2>. QED BY <1>2, <2>1, <2>2, NetworkBounds DEF RangeInv, Ip, LastIP
<1>. QED BY <1>1, <1>2
         DEF RangeInv, NetworkOK, ListInv, PoolListsHosts, HostsBefore, LastIP

LEMMA ListKeepsRange ==
  ASSUME RangeInv, ServerTypeOK, ListPool
  PROVE  RangeInv'
<1>1. /\ network' = network /\ ip' = nextIP(ip) /\ stage = "listing" /\ stage' = stage
      /\ ip <= LastIP(network) /\ ip \in Ip
      /\ ips' = IF ip \in {network.gateway, network.addr} THEN ips ELSE Append(ips, ip)
  BY NetworkBounds DEF ListPool, ListAddress, Listed, RangeInv, ServerTypeOK, Ip
<1>2. ASSUME LastIP(network) < Space - 1
      PROVE  /\ ip' \in network.addr + 1 .. LastIP(network) + 1
             /\ ips' = HostsBefore(ip')
  <2>. DEFINE a == network.addr
  <2>1. /\ a \in Nat /\ LastIP(network) \in Nat /\ Space \in Nat /\ ip \in Nat
        /\ ip >= a + 1 /\ ip <= LastIP(network)
        /\ ips = Ramp(a + 1, ip - a - 2)
    BY <1>1, <1>2, NetworkBounds DEF RangeInv, ListInv, HostsBefore, Ip
  <2>2. ip' = ip + 1 /\ network.gateway = a + 1
    BY <1>1, <1>2, <2>1, NextIP, NetworkBounds DEF RangeInv
  <2>3. HostsBefore(ip') = Ramp(a + 1, ip' - a - 2)
    BY <1>1 DEF HostsBefore
  <2>4. ASSUME ip = a + 1 PROVE ips' = HostsBefore(ip')
    <3>1. ips' = ips
      BY <1>1, <2>2, <2>4
    <3>2. /\ a + 1 \in Int
          /\ ip - a - 2 \in Int /\ ip - a - 2 < 1
          /\ ip' - a - 2 \in Int /\ ip' - a - 2 < 1
      BY <2>1, <2>2, <2>4
    <3>. QED BY <2>1, <2>3, <3>1, <3>2, EmptyRamp
  <2>5. ASSUME ip > a + 1 PROVE ips' = HostsBefore(ip')
    <3>1. ips' = Append(ips, ip)
      BY <1>1, <2>1, <2>2, <2>5
    <3>. DEFINE n == ip - a - 2
    <3>2. a + 1 \in Int /\ n \in Nat /\ ip = (a + 1) + n + 1 /\ ip' - a - 2 = n + 1
      BY <2>1, <2>2, <2>5
    <3>3. ips = Ramp(a + 1, n)
      BY <2>1
    <3>. HIDE DEF n
    <3>. QED BY <2>3, <3>1, <3>2, <3>3, LongerRamp
  <2>6. ip' \in a + 1 .. LastIP(network) + 1
    BY <2>1, <2>2
  <2>. QED BY <2>1, <2>4, <2>5, <2>6
<1>. QED BY <1>1, <1>2
         DEF RangeInv, NetworkOK, ListInv, PoolListsHosts, HostsBefore, LastIP

(* The loop ends only in a network before the last address, with the       *)
(* variable one behind it.                                                 *)
LEMMA EndKeepsRange ==
  ASSUME RangeInv, ServerTypeOK, PoolListed
  PROVE  RangeInv'
<1>1. /\ UNCHANGED <<network, ip, ips>> /\ stage = "listing" /\ ip > LastIP(network)
      /\ stage' \in {"creating", "created"}
  BY DEF PoolListed, GoTo, Listed, rangeVars
<1>2. /\ LastIP(network) < Space - 1 /\ LastIP(network) \in Nat /\ ip \in Nat
      /\ network.addr \in Nat /\ network.size \in Nat
  BY <1>1, NetworkBounds DEF ServerTypeOK, RangeInv, Ip
<1>3. ip = LastIP(network) + 1
  BY <1>1, <1>2 DEF RangeInv, ListInv
<1>4. ip - network.addr - 2 = network.size - 2
  BY <1>2, <1>3 DEF LastIP
<1>5. ips = Hosts(network)
  BY <1>1, <1>2, <1>4 DEF RangeInv, ListInv, HostsBefore, Hosts, Ramp
<1>. QED BY <1>1, <1>5
         DEF RangeInv, NetworkOK, ListInv, PoolListsHosts, HostsBefore, LastIP, Hosts

(* Elsewhere the list stays as it is, and the server has it complete or    *)
(* starts anew.                                                            *)
Complete == {"creating", "addressing", "created", "running", "serving"}

LEMMA RestKeepsRange ==
  ASSUME RangeInv, UNCHANGED rangeVars,
         stage' = stage \/ stage' \in {"exited", "configuring"} \/ {stage, stage'} \subseteq Complete
  PROVE  RangeInv'
<1>1. UNCHANGED <<network, ip, ips>>
  BY DEF rangeVars
<1>. QED BY <1>1
         DEF RangeInv, NetworkOK, ListInv, PoolListsHosts, HostsBefore, LastIP, Hosts, Complete

LEMMA ServerKeepsRange ==
  ASSUME RangeInv, ServerTypeOK, ServerNext
  PROVE  RangeInv'
<1>1. ASSUME Exit PROVE RangeInv'
  BY <1>1, RestKeepsRange DEF Exit
<1>2. ASSUME CreateDevice \/ AddressDevice \/ HandleSignals \/ StartServing PROVE RangeInv'
  BY <1>2, RestKeepsRange
     DEF CreateDevice, AddressDevice, HandleSignals, StartServing, GoTo, Complete
<1>3. ASSUME Listen \/ ListenFails \/ Restart PROVE RangeInv'
  BY <1>3, RestKeepsRange DEF Listen, ListenFails, Restart
<1>4. ASSUME SignalServer PROVE RangeInv'
  BY <1>1, <1>4, RestKeepsRange DEF SignalServer
<1>. QED BY <1>1, <1>2, <1>3, <1>4, StartKeepsRange, ListKeepsRange, EndKeepsRange
         DEF ServerNext, ServerStep, ConfigurationFails, OutOfMemory, DeviceFails,
             SetupTLSFails, RunHearsError, RunHearsSignal, Crash

-------------------------------------------------------------------------------
LEMMA ServerKeepsTypes ==
  ASSUME ServerTypeOK, RangeInv, ServerProcess
  PROVE  ServerTypeOK'
<1>1. quic' = quic /\ peer' = IF peer = "here" /\ stage' = "exited" THEN "gone" ELSE peer
  BY DEF ServerProcess, vars, netVars
<1> USE DEF ServerTypeOK, Before
<1>2. ASSUME Exit PROVE ServerTypeOK'
  BY <1>1, <1>2 DEF Exit, rangeVars
<1>3. ASSUME ReadConfiguration PROVE ServerTypeOK'
  <2>1. /\ network' \in [addr : Ip, size : Sizes, gateway : Ip]
        /\ ip' \in Ip /\ ips' \in Seq(Ip)
    BY <1>3, NextIP DEF ReadConfiguration, StartListing
  <2>2. /\ UNCHANGED <<serverTun, stopRequested, device, listener, runErr, restarts>>
        /\ stage = "configuring" /\ stage' = "listing"
    BY <1>3 DEF ReadConfiguration, GoTo, processVars
  <2>. QED BY <1>1, <2>1, <2>2
<1>4. ASSUME ListPool PROVE ServerTypeOK'
  <2>1. /\ network' \in [addr : Ip, size : Sizes, gateway : Ip]
        /\ ip' \in Ip /\ ips' \in Seq(Ip)
    BY <1>4, NextIP DEF ListPool, ListAddress
  <2>2. UNCHANGED <<serverTun, stage, stopRequested, device, listener, runErr, restarts>>
    BY <1>4 DEF ListPool, processVars
  <2>. QED BY <1>1, <2>1, <2>2
<1>5. ASSUME PoolListed \/ HandleSignals PROVE ServerTypeOK'
  BY <1>1, <1>5 DEF PoolListed, HandleSignals, GoTo, rangeVars, processVars
<1>6. ASSUME CreateDevice PROVE ServerTypeOK'
  BY <1>1, <1>6 DEF CreateDevice, GoTo, rangeVars
<1>7. ASSUME AddressDevice PROVE ServerTypeOK'
  BY <1>1, <1>7 DEF AddressDevice, GoTo, rangeVars
<1>8. ASSUME StartServing PROVE ServerTypeOK'
  BY <1>1, <1>8 DEF StartServing, GoTo, rangeVars
<1>9. ASSUME Listen PROVE ServerTypeOK'
  BY <1>1, <1>9 DEF Listen, rangeVars
<1>10. ASSUME ListenFails PROVE ServerTypeOK'
  BY <1>1, <1>10 DEF ListenFails, rangeVars
<1>11. ASSUME SignalServer PROVE ServerTypeOK'
  BY <1>1, <1>2, <1>11 DEF SignalServer, rangeVars
<1>12. ASSUME Restart PROVE ServerTypeOK'
  BY <1>1, <1>12, ServerAssumption DEF Restart, rangeVars, processVars
<1>. QED BY <1>2, <1>3, <1>4, <1>5, <1>6, <1>7, <1>8, <1>9, <1>10, <1>11, <1>12
         DEF ServerProcess, ServerNext, ServerStep, ConfigurationFails, OutOfMemory,
             DeviceFails, SetupTLSFails, RunHearsError, RunHearsSignal, Crash

(* A client without a connection gets one from Dial only.                  *)
LEMMA ClientStepIsNext ==
  ASSUME ClientStep
  PROVE  Next /\ (quic = "none" => quic' = "none")
<1>1. Next
  BY DEF ClientStep, Next, Connecting
<1>2. quic' = quic \/ quic = "up"
  BY DEF ClientStep, Signal, QuicDies, DialFails, GiveUp, OpenStream, OpenStreamFails,
         Configure, ConfigureFails, ResponseAccepts, ResponseFails,
         TunToMasque, TunRead, TunReadFails, StreamWrite, StreamWriteFails,
         MasqueToTun, ReadCall, StreamRead, StreamReadFails, TunWrite, TunWriteFails,
         Stopping, ProxyReported, ShutdownReceived, CloseConn, CloseTun, Join, netVars
<1>. QED BY <1>1, <1>2

SystemInv == ServerTypeOK /\ RangeInv /\ ClientInv

LEMMA SystemStepKeepsInv ==
  ASSUME SystemInv, [SystemNext]_systemVars
  PROVE  SystemInv'
<1> USE DEF SystemInv
<1>1. ASSUME UNCHANGED serverVars PROVE RangeInv'
  BY <1>1, RestKeepsRange DEF serverVars
<1>2. CASE Connect
  <2>1. Next /\ UNCHANGED serverVars /\ quic' = "up" /\ peer' = "here" /\ stage = "serving"
    BY <1>2 DEF Connect, Next, Connecting, Dial, ServerTypeOK
  <2>2. ClientInv'
    BY <2>1, StepKeepsClientInv
  <2>3. ServerTypeOK'
    BY <2>1 DEF serverVars, rangeVars, processVars, ServerTypeOK, Before
  <2>. QED BY <1>1, <2>1, <2>2, <2>3
<1>3. CASE ClientStep
  <2>1. UNCHANGED <<serverVars, peer>>
    BY <1>3 DEF ClientStep
  <2>2. ClientInv'
    BY <1>3, ClientStepIsNext, StepKeepsClientInv
  <2>3. ServerTypeOK'
    BY <1>3, <2>1, ClientStepIsNext DEF serverVars, rangeVars, processVars, ServerTypeOK, Before
  <2>. QED BY <1>1, <2>1, <2>2, <2>3
<1>4. CASE ServerProcess
  <2>1. ServerTypeOK'
    BY <1>4, ServerKeepsTypes
  <2>2. RangeInv'
    BY <1>4, ServerKeepsRange DEF ServerProcess
  <2>3. ClientInv'
    BY <1>4, StepKeepsClientInv DEF ServerProcess
  <2>. QED BY <2>1, <2>2, <2>3
<1>5. CASE UNCHANGED systemVars
  <2>1. UNCHANGED <<vars, serverVars, peer>>
    BY <1>5 DEF systemVars
  <2>2. ClientInv'
    BY <2>1, StepKeepsClientInv
  <2>3. ServerTypeOK'
    BY <2>1 DEF serverVars, rangeVars, processVars, vars, netVars, ServerTypeOK, Before
  <2>. QED BY <1>1, <2>1, <2>2, <2>3
<1>. QED BY <1>2, <1>3, <1>4, <1>5 DEF SystemNext

LEMMA SystemInvHolds == SystemSpec => []SystemInv
<1>1. SystemInit => SystemInv
  <2>. SUFFICES ASSUME SystemInit PROVE SystemInv
    OBVIOUS
  <2>1. ClientInv
    <3>1. <<>> \in Seq({"nil", "error"}) /\ Len(<<>>) <= 2
      OBVIOUS
    <3>. QED BY <3>1 DEF SystemInit, Init, ClientInv, ClientTypeOK, CleanExit, NoEarlyDevice, Established
  <2>2. RangeInv
    BY NetworkInit DEF SystemInit, ServerInit, RangeInv, ListInv, PoolListsHosts
  <2>3. network \in [addr : Ip, size : Sizes, gateway : Ip]
    <3>1. PICK cidr \in [addr : Ip, size : Sizes] : network = NewNetworkInfo(cidr)
      BY DEF SystemInit, ServerInit, RangeInit
    <3>. QED BY <2>2, <3>1, NetworkBounds DEF NewNetworkInfo, RangeInv, NetworkOK
  <2>4. 0 \in Ip /\ <<>> \in Seq(Ip) /\ 0 \in 0 .. MaxRestarts
    BY RangeAssumption, ServerAssumption DEF Ip
  <2>5. ServerTypeOK
    BY <2>3, <2>4 DEF SystemInit, Init, ServerInit, RangeInit, ServerTypeOK, Before
  <2>. QED BY <2>1, <2>2, <2>5 DEF SystemInv
<1>2. SystemInv /\ [SystemNext]_systemVars => SystemInv'
  BY SystemStepKeepsInv
<1>. QED BY <1>1, <1>2, PTL DEF SystemSpec

(* ServerTypeOK: the device, the listener and the peer follow the stage.   *)
THEOREM ServerTypeHolds == SystemSpec => []ServerTypeOK
<1>1. SystemInv => ServerTypeOK
  BY DEF SystemInv
<1>. QED BY <1>1, SystemInvHolds, PTL

(* PoolListsHosts: the loop lists the hosts of any prefix of any family,   *)
(* or does not end.                                                        *)
THEOREM PoolIsComplete == SystemSpec => []PoolListsHosts
<1>1. SystemInv => PoolListsHosts
  BY DEF SystemInv, RangeInv
<1>. QED BY <1>1, SystemInvHolds, PTL

(* ClientTypeOK and CleanExit do not rest on the server: they hold beside  *)
(* one that crashes and restarts.                                          *)
THEOREM ClientSafeBesideServer == SystemSpec => [](ClientTypeOK /\ CleanExit)
<1>1. SystemInv => ClientTypeOK /\ CleanExit
  BY DEF SystemInv, ClientInv
<1>. QED BY <1>1, SystemInvHolds, PTL

(* The hosts of a network are addresses of the family, each once, and      *)
(* neither the network's own nor the gateway's: what IPPool assumes of the *)
(* pool it starts with.                                                    *)
THEOREM HostsAreAssignable ==
  ASSUME NetworkOK
  PROVE  /\ \A i \in 1 .. network.size - 2 :
              Hosts(network)[i] \in Ip \ {network.addr, network.gateway}
         /\ \A i, j \in 1 .. network.size - 2 :
              Hosts(network)[i] = Hosts(network)[j] => i = j
<1>1. /\ Space \in Nat /\ network.size \in Nat /\ network.addr \in Nat
      /\ network.addr + network.size <= Space
      /\ network.size > 1 => network.gateway = network.addr + 1
  BY NetworkBounds DEF Ip, LastIP, NetworkOK
<1>2. ASSUME NEW i \in 1 .. network.size - 2
      PROVE  Hosts(network)[i] = network.addr + 1 + i
  BY DEF Hosts
<1>3. ASSUME NEW i \in 1 .. network.size - 2
      PROVE  Hosts(network)[i] \in Ip \ {network.addr, network.gateway}
  BY <1>1, <1>2 DEF Ip
<1>4. ASSUME NEW i \in 1 .. network.size - 2, NEW j \in 1 .. network.size - 2,
             Hosts(network)[i] = Hosts(network)[j]
      PROVE  i = j
  BY <1>1, <1>2, <1>4
<1>. QED BY <1>3, <1>4

-------------------------------------------------------------------------------
(* errChan has room for every proxy that still has to report, wherever the *)
(* connecting goroutine stands and whether or not anybody will read it: a  *)
(* proxy of the client never blocks in its last send.                      *)
Ended(p) == IF p = "ended" THEN 1 ELSE 0
ClientReports == Len(errChan) <= Ended(t2m) + Ended(m2t)
RoomForReports == t2m # "ended" \/ m2t # "ended" => Len(errChan) < 2

LEMMA StepKeepsReports ==
  ASSUME ClientInv, ClientReports, [Next]_vars
  PROVE  ClientReports'
<1>. errChan \in Seq({"nil", "error"}) /\ Len(errChan) \in Nat
  BY DEF ClientInv, ClientTypeOK
<1>. USE DEF ClientReports, Ended
<1>1. ASSUME UNCHANGED <<errChan, t2m, m2t>> PROVE ClientReports'
  BY <1>1
<1>2. ASSUME NEW err, Report(err) PROVE Len(errChan') = Len(errChan) + 1
  BY <1>2 DEF Report
<1>3. ASSUME TunToMasque PROVE ClientReports'
  <2>1. ASSUME TunRead \/ StreamWrite PROVE ClientReports'
    BY <2>1 DEF TunRead, StreamWrite
  <2>2. ASSUME TunReadFails \/ StreamWriteFails PROVE ClientReports'
    BY <1>2, <2>2 DEF TunReadFails, StreamWriteFails
  <2>. QED BY <1>3, <2>1, <2>2 DEF TunToMasque
<1>4. ASSUME MasqueToTun PROVE ClientReports'
  <2>1. ASSUME StreamRead \/ TunWrite PROVE ClientReports'
    BY <2>1 DEF StreamRead, TunWrite
  <2>2. ASSUME StreamReadFails \/ TunWriteFails PROVE ClientReports'
    BY <1>2, <2>2 DEF StreamReadFails, TunWriteFails
  <2>3. ASSUME ReadCall PROVE ClientReports'
    BY <1>2, <2>3 DEF ReadCall
  <2>. QED BY <1>4, <2>1, <2>2, <2>3 DEF MasqueToTun
<1>5. ASSUME ProxyReported PROVE ClientReports'
  BY <1>5 DEF ProxyReported
<1>6. ASSUME Configure PROVE ClientReports'
  <2>1. t2m = "off" /\ m2t = "off" /\ errChan' = errChan
    BY <1>6 DEF Configure, ClientInv, ClientTypeOK, NoEarlyDevice
  <2>. QED BY <2>1
<1>7. ASSUME \/ Signal \/ QuicDies \/ Dial \/ DialFails \/ OpenStream \/ OpenStreamFails
             \/ ConfigureFails \/ ResponseAccepts \/ ResponseFails
             \/ ShutdownReceived \/ CloseConn \/ CloseTun \/ Join \/ UNCHANGED vars
      PROVE  UNCHANGED <<errChan, t2m, m2t>>
  BY <1>7 DEF Signal, QuicDies, Dial, DialFails, OpenStream, OpenStreamFails,
              ConfigureFails, ResponseAccepts, ResponseFails, GiveUp,
              ShutdownReceived, CloseConn, CloseTun, Join, vars, proxyVars
<1>. QED BY <1>1, <1>3, <1>4, <1>5, <1>6, <1>7 DEF Next, Connecting, Stopping

THEOREM ClientProxiesNeverBlockReporting == Spec => []RoomForReports
<1>1. Init => ClientReports
  <2>1. Len(<<>>) = 0
    OBVIOUS
  <2>. QED BY <2>1 DEF Init, ClientReports, Ended
<1>2. ClientInv /\ ClientReports /\ [Next]_vars => ClientReports'
  BY StepKeepsReports
<1>3. ClientInv /\ ClientReports => RoomForReports
  BY DEF ClientInv, ClientTypeOK, ClientReports, RoomForReports, Ended
<1>. QED BY <1>1, <1>2, <1>3, ClientInvHolds, PTL DEF Spec

-------------------------------------------------------------------------------
(* The composition implements both processes.  Every step of the system is *)
(* a step of the client, or of the server, or of both when the client dials*)
(* and the server does not move; so what is shown of the client with a     *)
(* network that may do anything holds beside this server, fairness         *)
(* included.                                                               *)
LEMMA SystemStepIsClientStep == ASSUME [SystemNext]_systemVars PROVE [Next]_vars
<1>1. ASSUME Connect PROVE Next
  BY <1>1 DEF Connect, Next, Connecting
<1>2. ASSUME ClientStep PROVE Next
  BY <1>2, ClientStepIsNext
<1>3. ASSUME ServerProcess PROVE UNCHANGED vars
  BY <1>3 DEF ServerProcess
<1>4. ASSUME UNCHANGED systemVars PROVE UNCHANGED vars
  BY <1>4 DEF systemVars
<1>. QED BY <1>1, <1>2, <1>3, <1>4 DEF SystemNext

LEMMA SystemStepIsServerStep ==
  ASSUME [SystemNext]_systemVars PROVE [ServerNext]_serverVars
<1>1. ASSUME Connect \/ ClientStep PROVE UNCHANGED serverVars
  BY <1>1 DEF Connect, ClientStep
<1>2. ASSUME ServerProcess PROVE ServerNext
  BY <1>2 DEF ServerProcess
<1>3. ASSUME UNCHANGED systemVars PROVE UNCHANGED serverVars
  BY <1>3 DEF systemVars
<1>. QED BY <1>1, <1>2, <1>3 DEF SystemNext

THEOREM SystemImplementsClient == SystemSpec => Spec
<1>1. SystemInit => Init
  BY DEF SystemInit
<1>2. SystemFairness => Fairness
  BY PTL DEF SystemFairness
<1>. QED BY <1>1, <1>2, SystemStepIsClientStep, PTL DEF SystemSpec, Spec

THEOREM SystemImplementsServer == SystemSpec => ServerSpec
<1>1. SystemInit => ServerInit
  BY DEF SystemInit
<1>2. SystemFairness => ServerFairness
  BY PTL DEF SystemFairness
<1>. QED BY <1>1, <1>2, SystemStepIsServerStep, PTL DEF SystemSpec, ServerSpec

-------------------------------------------------------------------------------
(* A server whose network ends with the last address of its family never   *)
(* gets past NewIPPool, restarted as often as one likes: the loop variable *)
(* wraps before it exceeds LastIP, so the loop only ends with the process. *)
StuckInPool == LastIP(network) = Space - 1 => stage \in {"configuring", "listing", "exited"}

LEMMA LoopNeverEnds ==
  ASSUME ServerTypeOK, RangeInv, PoolListed
  PROVE  LastIP(network) # Space - 1
<1>1. ip \in Ip /\ ip > LastIP(network) /\ Space \in Nat /\ LastIP(network) \in Int
  BY NetworkBounds DEF ServerTypeOK, PoolListed, Listed, RangeInv
<1>. QED BY <1>1 DEF Ip

LEMMA StepKeepsStuck ==
  ASSUME SystemInv, StuckInPool, [SystemNext]_systemVars
  PROVE  StuckInPool'
<1>. USE DEF StuckInPool
<1>. ServerTypeOK /\ RangeInv
  BY DEF SystemInv
<1>1. ASSUME UNCHANGED serverVars PROVE StuckInPool'
  BY <1>1 DEF serverVars, rangeVars
<1>2. ASSUME PoolListed PROVE StuckInPool'
  BY <1>2, LoopNeverEnds DEF PoolListed, rangeVars, LastIP
<1>3. ASSUME Exit \/ ListenFails \/ Listen \/ SignalServer PROVE StuckInPool'
  BY <1>3 DEF Exit, ListenFails, Listen, SignalServer, rangeVars, LastIP
<1>4. ASSUME ReadConfiguration \/ ListPool \/ Restart PROVE StuckInPool'
  BY <1>4 DEF ReadConfiguration, StartListing, ListPool, ListAddress, Restart, GoTo,
              rangeVars, LastIP
<1>5. ASSUME CreateDevice \/ AddressDevice \/ HandleSignals \/ StartServing
      PROVE  StuckInPool'
  BY <1>5 DEF CreateDevice, AddressDevice, HandleSignals, StartServing, GoTo,
              rangeVars, LastIP
<1>. QED BY SystemStepIsServerStep, <1>1, <1>2, <1>3, <1>4, <1>5
         DEF ServerNext, ServerStep, ConfigurationFails, OutOfMemory, DeviceFails,
             SetupTLSFails, RunHearsError, RunHearsSignal, Crash

THEOREM LastNetworkNeverServes == SystemSpec => []StuckInPool
<1>1. SystemInit => StuckInPool
  BY DEF SystemInit, ServerInit, StuckInPool
<1>2. SystemInv /\ StuckInPool /\ [SystemNext]_systemVars => StuckInPool'
  BY StepKeepsStuck
<1>. QED BY <1>1, <1>2, SystemInvHolds, PTL DEF SystemSpec
===============================================================================
