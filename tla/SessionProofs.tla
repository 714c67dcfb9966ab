---------------------------- MODULE SessionProofs ----------------------------
(***************************************************************************)
(* One session: the accounting of the proxies' reports, the packets the    *)
(* goroutines hold and what becomes of them in the loop through the TUN    *)
(* device, for any set of hosts.                                           *)
(***************************************************************************)
EXTENDS SessionProperties, SequenceTheorems, TLAPS

LEMMA RemoveAtType ==
  ASSUME NEW S, NEW s \in Seq(S), NEW i \in DOMAIN s
  PROVE  RemoveAt(s, i) \in Seq(S)
<1>1. i \in Nat /\ Len(s) \in Nat /\ i >= 1 /\ i <= Len(s)
  OBVIOUS
<1>2. SubSeq(s, 1, i - 1) \in Seq(S)
  BY <1>1, SubSeqProperties
<1>3. SubSeq(s, i + 1, Len(s)) \in Seq(S)
  BY <1>1, SubSeqProperties
<1>. QED BY <1>2, <1>3, ConcatProperties DEF RemoveAt

LEMMA RemoveAtLength ==
  ASSUME NEW S, NEW s \in Seq(S), NEW i \in DOMAIN s
  PROVE  Len(RemoveAt(s, i)) = Len(s) - 1
<1>1. i \in Nat /\ Len(s) \in Nat /\ i >= 1 /\ i <= Len(s)
  OBVIOUS
<1>. DEFINE front == SubSeq(s, 1, i - 1)
            back == SubSeq(s, i + 1, Len(s))
<1>2. front \in Seq(S) /\ Len(front) = i - 1
  BY <1>1, SubSeqProperties
<1>3. back \in Seq(S) /\ Len(back) = Len(s) - i
  BY <1>1, SubSeqProperties
<1>4. RemoveAt(s, i) = front \o back
  BY DEF RemoveAt
<1>. HIDE DEF front, back
<1>5. Len(front \o back) = Len(front) + Len(back)
  BY <1>2, <1>3, ConcatProperties
<1>. QED BY <1>1, <1>2, <1>3, <1>4, <1>5

LEMMA ReportType ==
  ASSUME NEW err \in {"nil", "error"}, SessionTypeOK, Report(err)
  PROVE  /\ errChan' \in Seq({"nil", "error"})
         /\ Len(errChan') <= 2 /\ Len(errChan') = Len(errChan) + 1
BY DEF Report, SessionTypeOK

LEMMA OneElement ==
  ASSUME NEW S, NEW s \in Seq(S), s # <<>>, Len(s) <= 1
  PROVE  Len(s) = 1
<1>1. Len(s) \in Nat /\ Len(s) # 0
  BY EmptySeq
<1>. QED BY <1>1

LEMMA EmptyLength == Len(<<>>) = 0
OBVIOUS

(* The server's two parsers and the library's read the same addresses from *)
(* every packet and refuse the same packets.                               *)
THEOREM ParsersAgree ==
  ASSUME NEW packet \in [length : Nat, version : Nat, src : Hosts, dst : Hosts]
  PROVE  /\ parseSourceIP(packet) = {r.src : r \in GetIPAddresses(packet)}
         /\ parseDestinationIP(packet) = {r.dst : r \in GetIPAddresses(packet)}
<1>. DEFINE both == [src |-> packet.src, dst |-> packet.dst]
<1>1. {r.src : r \in {both}} = {packet.src} /\ {r.dst : r \in {both}} = {packet.dst}
  OBVIOUS
<1>2. CASE \/ packet.length >= 20 /\ packet.version = 4
           \/ packet.length >= 40 /\ packet.version = 6
  <2>1. GetIPAddresses(packet) = {both}
    BY <1>2 DEF GetIPAddresses
  <2>2. parseSourceIP(packet) = {packet.src} /\ parseDestinationIP(packet) = {packet.dst}
    BY <1>2 DEF parseSourceIP, parseDestinationIP
  <2>. QED BY <1>1, <2>1, <2>2
<1>3. CASE ~(packet.length >= 20 /\ packet.version = 4)
           /\ ~(packet.length >= 40 /\ packet.version = 6)
  <2>1. GetIPAddresses(packet) = {}
    BY <1>3 DEF GetIPAddresses
  <2>2. parseSourceIP(packet) = {} /\ parseDestinationIP(packet) = {}
    BY <1>3 DEF parseSourceIP, parseDestinationIP
  <2>. QED BY <2>1, <2>2
<1>. QED BY <1>2, <1>3

(* An address the server reads is that of a packet with a whole header.    *)
LEMMA ParsedIsComplete ==
  ASSUME NEW packet \in [length : Nat, version : Nat, src : Hosts, dst : Hosts],
         NEW a, a \in parseSourceIP(packet) \/ a \in parseDestinationIP(packet)
  PROVE  /\ a \in parseSourceIP(packet) => packet.src = a
         /\ \/ packet.version = 4 /\ packet.length >= 20
            \/ packet.version = 6 /\ packet.length >= 40
BY DEF parseSourceIP, parseDestinationIP

(* proxyTunToClient finds no address in what it reads.                     *)
LEMMA ShiftedIsRefused ==
  ASSUME NEW packet \in [length : Nat, version : Nat, src : Hosts, dst : Hosts]
  PROVE  parseDestinationIP(FirstBytes(packet, 100)) = {}
<1>1. /\ FirstBytes(packet, 100).version = 0
      /\ FirstBytes(packet, 100).length = packet.length /\ packet.length \in Nat
  BY DEF FirstBytes
<1>. QED BY <1>1 DEF parseDestinationIP

LEMMA TunProxyReadSkips ==
  ASSUME NEW p \in Packets, TunProxyRead(p)
  PROVE  /\ tpc = "reading" /\ tpc' = "loop"
         /\ UNCHANGED <<connVars, errChan, sharedVars, hpc, cpc, outbound, feedVars, cause>>
<1>1. parseDestinationIP(FirstBytes(p, 100)) = {}
  BY SessionAssumption, ShiftedIsRefused
<1>. QED BY <1>1 DEF TunProxyRead

LEMMA StepKeepsSession ==
  ASSUME SessionTypeOK, [Next]_vars
  PROVE  SessionTypeOK'
<1> USE DEF SessionTypeOK
<1>1. ASSUME NEW p \in Packets, ProcessPacket(p) PROVE SessionTypeOK'
  <2>1. MaxPackets \in Nat
    BY SessionAssumption
  <2>. QED BY <1>1, <2>1 DEF ProcessPacket, connVars, sharedVars, feedVars
<1>2. ASSUME ForwardPacket PROVE SessionTypeOK'
  <2>1. inFlight' \in Seq(Packets)
    <3>1. Head(toSend) \in Packets
      BY <1>2 DEF ForwardPacket
    <3>2. inFlight' = Append(inFlight, Head(toSend))
      BY <1>2 DEF ForwardPacket, Accept
    <3>. QED BY <3>1, <3>2
  <2>. QED BY <1>2, <2>1 DEF ForwardPacket, Accept, sharedVars
<1>3. ASSUME ForwardFails PROVE SessionTypeOK'
  BY <1>3 DEF ForwardFails, connVars, sharedVars, feedVars
<1>4. ASSUME ConnLoses PROVE SessionTypeOK'
  <2>1. inFlight' \in Seq(Packets)
    BY <1>4, RemoveAtType DEF ConnLoses, Lose
  <2>. QED BY <1>4, <2>1 DEF ConnLoses, Lose, sharedVars, feedVars
<1>5. ASSUME TunProxyParked PROVE SessionTypeOK'
  <2>1. /\ errChan' \in Seq({"nil", "error"})
        /\ Len(errChan') <= 2 /\ Len(errChan') = Len(errChan) + 1
    BY <1>5, ReportType DEF TunProxyParked
  <2>. QED BY <1>5, <2>1, SMTT(30) DEF TunProxyParked, connVars, sharedVars, feedVars
<1>6. ASSUME TunProxyLoop PROVE SessionTypeOK'
  <2>1. CASE ctxDone
    <3>1. /\ errChan' \in Seq({"nil", "error"})
          /\ Len(errChan') <= 2 /\ Len(errChan') = Len(errChan) + 1
      BY <1>6, <2>1, ReportType DEF TunProxyLoop
    <3>. QED BY <1>6, <2>1, <3>1, SMTT(30)
           DEF TunProxyLoop, connVars, sharedVars, feedVars
  <2>2. CASE ~ctxDone
    <3>1. tpc = "loop" /\ tpc' = "reading" /\ errChan' = errChan
      BY <1>6, <2>2 DEF TunProxyLoop
    <3>2. /\ UNCHANGED <<connVars, sharedVars, hpc, cpc, outbound>>
          /\ UNCHANGED <<feedVars, cause>>
      BY <1>6 DEF TunProxyLoop
    <3>. QED BY <3>1, <3>2 DEF connVars, sharedVars, feedVars
  <2>. QED BY <2>1, <2>2
<1>7. ASSUME TunProxyReadFails PROVE SessionTypeOK'
  <2>1. /\ errChan' \in Seq({"nil", "error"})
        /\ Len(errChan') <= 2 /\ Len(errChan') = Len(errChan) + 1
    BY <1>7, ReportType DEF TunProxyReadFails
  <2>. QED BY <1>7, <2>1, SMTT(30) DEF TunProxyReadFails, connVars, sharedVars, feedVars
<1>8. ASSUME NEW p \in Packets, TunProxyRead(p) PROVE SessionTypeOK'
  <2>1. /\ tpc = "reading" /\ tpc' = "loop"
        /\ UNCHANGED <<connVars, errChan, sharedVars, hpc, cpc, outbound, feedVars, cause>>
    BY <1>8, TunProxyReadSkips
  <2>. QED BY <2>1 DEF connVars, sharedVars, feedVars
<1>9. ASSUME ClientProxyParked PROVE SessionTypeOK'
  <2>1. /\ errChan' \in Seq({"nil", "error"})
        /\ Len(errChan') <= 2 /\ Len(errChan') = Len(errChan) + 1
    BY <1>9, ReportType DEF ClientProxyParked
  <2>. QED BY <1>9, <2>1, SMTT(30) DEF ClientProxyParked, connVars, sharedVars, feedVars
<1>10. ASSUME ClientProxyLoop PROVE SessionTypeOK'
  <2>1. CASE ctxDone
    <3>1. /\ errChan' \in Seq({"nil", "error"})
          /\ Len(errChan') <= 2 /\ Len(errChan') = Len(errChan) + 1
      BY <1>10, <2>1, ReportType DEF ClientProxyLoop
    <3>. QED BY <1>10, <2>1, <3>1, SMTT(30)
           DEF ClientProxyLoop, connVars, sharedVars, feedVars
  <2>2. CASE ~ctxDone
    <3>1. cpc = "loop" /\ cpc' = "calling" /\ errChan' = errChan
      BY <1>10, <2>2 DEF ClientProxyLoop
    <3>2. /\ UNCHANGED <<connVars, sharedVars, hpc, tpc, outbound>>
          /\ UNCHANGED <<feedVars, cause>>
      BY <1>10 DEF ClientProxyLoop
    <3>. QED BY <3>1, <3>2 DEF connVars, sharedVars, feedVars
  <2>. QED BY <2>1, <2>2
<1>11. ASSUME ClientProxyCall PROVE SessionTypeOK'
  <2>1. CASE connClosed
    <3>1. /\ errChan' \in Seq({"nil", "error"})
          /\ Len(errChan') <= 2 /\ Len(errChan') = Len(errChan) + 1
      BY <1>11, <2>1, ReportType DEF ClientProxyCall
    <3>. QED BY <1>11, <2>1, <3>1, SMTT(30)
           DEF ClientProxyCall, connVars, sharedVars, feedVars
  <2>2. CASE ~connClosed
    <3>1. cpc = "calling" /\ cpc' = "reading" /\ errChan' = errChan
      BY <1>11, <2>2 DEF ClientProxyCall
    <3>2. /\ UNCHANGED <<connVars, sharedVars, hpc, tpc, outbound>>
          /\ UNCHANGED <<feedVars, cause>>
      BY <1>11 DEF ClientProxyCall
    <3>. QED BY <3>1, <3>2 DEF connVars, sharedVars, feedVars
  <2>. QED BY <2>1, <2>2
<1>12. ASSUME ClientProxyReceive PROVE SessionTypeOK'
  <2>1. /\ Head(inFlight) \in Packets
        /\ inFlight' = Tail(inFlight) /\ received' = Append(received, Head(inFlight))
    BY <1>12 DEF ClientProxyReceive, Deliver
  <2>2. inFlight' \in Seq(Packets) /\ received' \in Seq(Packets)
    BY <1>12, <2>1 DEF ClientProxyReceive, Deliver
  <2>3. CASE clientIP \in parseSourceIP(Head(inFlight))
    <3>1. /\ outbound' = <<Head(inFlight)>> /\ cpc' = "writing"
      BY <1>12, <2>3 DEF ClientProxyReceive
    <3>2. outbound' \in Seq(Packets) /\ outbound' # <<>>
      BY <2>1, <3>1
    <3>. QED BY <1>12, <2>2, <3>1, <3>2, SMTT(30)
           DEF ClientProxyReceive, sharedVars, feedVars
  <2>4. CASE clientIP \notin parseSourceIP(Head(inFlight))
    <3>1. cpc = "reading" /\ cpc' = "loop" /\ outbound' = outbound
      BY <1>12, <2>4 DEF ClientProxyReceive
    <3>2. /\ UNCHANGED <<sharedVars, hpc, errChan, tpc>>
          /\ UNCHANGED <<feedVars, cause>>
      BY <1>12 DEF ClientProxyReceive
    <3>. QED BY <2>2, <3>1, <3>2 DEF sharedVars, feedVars
  <2>. QED BY <2>3, <2>4
<1>13. ASSUME ClientProxyWoken PROVE SessionTypeOK'
  BY <1>13 DEF ClientProxyWoken, connVars, sharedVars, feedVars
<1>14. ASSUME ClientProxyTimeout PROVE SessionTypeOK'
  <2>1. /\ errChan' \in Seq({"nil", "error"})
        /\ Len(errChan') <= 2 /\ Len(errChan') = Len(errChan) + 1
    BY <1>14, ReportType DEF ClientProxyTimeout
  <2>. QED BY <1>14, <2>1, SMTT(30) DEF ClientProxyTimeout, connVars, sharedVars, feedVars
<1>15. ASSUME ClientProxyWrite PROVE SessionTypeOK'
  BY <1>15 DEF ClientProxyWrite, connVars, sharedVars, feedVars
<1>16. ASSUME ClientProxyWriteFails PROVE SessionTypeOK'
  <2>1. /\ errChan' \in Seq({"nil", "error"})
        /\ Len(errChan') <= 2 /\ Len(errChan') = Len(errChan) + 1
    <3>1. PICK err \in {"nil", "error"} : Report(err)
      BY <1>16 DEF ClientProxyWriteFails
    <3>. QED BY <3>1, ReportType
  <2>2. /\ cpc = "writing" /\ cpc' = "ended" /\ outbound' = <<>>
        /\ cause' = cause \cup {"tun"}
        /\ UNCHANGED <<connVars, sharedVars, hpc, tpc, feedVars>>
    BY <1>16 DEF ClientProxyWriteFails
  <2>. QED BY <2>1, <2>2, SMTT(30) DEF connVars, sharedVars, feedVars
<1>17. ASSUME HandlerHears PROVE SessionTypeOK'
  <2>1. errChan' \in Seq({"nil", "error"}) /\ Len(errChan') <= 2
    BY <1>17 DEF HandlerHears
  <2>. QED BY <1>17, <2>1 DEF HandlerHears, connVars, sharedVars, feedVars
<1>18. ASSUME HandlerExpires PROVE SessionTypeOK'
  BY <1>18 DEF HandlerExpires, connVars, sharedVars, feedVars
<1>19. ASSUME HandlerCleans PROVE SessionTypeOK'
  BY <1>19 DEF HandlerCleans, connVars, feedVars
<1>20. ASSUME HandlerReturns PROVE SessionTypeOK'
  BY <1>20 DEF HandlerReturns, connVars, feedVars
<1>21. ASSUME ContextExpires PROVE SessionTypeOK'
  BY <1>21 DEF ContextExpires, connVars, feedVars
<1>22. ASSUME Disconnect PROVE SessionTypeOK'
  <2>1. /\ connClosed' \in BOOLEAN /\ routed' \in BOOLEAN
        /\ cause' \subseteq {"tun", "expired", "disconnected", "closed"}
    BY <1>22 DEF Disconnect
  <2>2. /\ UNCHANGED <<inFlight, received, tunDev, ctxDone, hpc, errChan, tpc, cpc, outbound>>
        /\ UNCHANGED <<toSend, forwarded, fecEnabled, packetBuffer>>
    BY <1>22 DEF Disconnect, connVars, feedVars
  <2>. QED BY <2>1, <2>2
<1>23. ASSUME CloseServer PROVE SessionTypeOK'
  BY <1>23 DEF CloseServer, connVars, feedVars
<1>24. ASSUME UNCHANGED vars PROVE SessionTypeOK'
  BY <1>24 DEF vars, connVars, sharedVars, feedVars
<1>25. ASSUME BufferPacket PROVE SessionTypeOK'
  <2>1. toSend # <<>> /\ Len(toSend) = 1 /\ toSend' = <<>> /\ Len(toSend') = 0
    <3>1. toSend # <<>> /\ toSend' = <<>>
      BY <1>25 DEF BufferPacket
    <3>2. toSend \in Seq(Packets) /\ Len(toSend) <= 1
      OBVIOUS
    <3> HIDE DEF SessionTypeOK
    <3>3. Len(toSend) = 1
      BY <3>1, <3>2, OneElement
    <3>. QED BY <3>1, <3>3, EmptyLength
  <2>2. packetBuffer' = IF fecEnabled' THEN forwarded' - Len(toSend') ELSE 0
    <3>1. fecEnabled /\ fecEnabled' /\ forwarded' = forwarded /\ forwarded \in Nat
      BY <1>25, SessionAssumption DEF BufferPacket
    <3>2. packetBuffer = forwarded - Len(toSend)
      BY <3>1
    <3>3. packetBuffer' = packetBuffer + 1
      BY <1>25 DEF BufferPacket
    <3>4. packetBuffer' = forwarded' - Len(toSend')
      <4> HIDE DEF SessionTypeOK
      <4>. QED BY <2>1, <3>1, <3>2, <3>3
    <3>. QED BY <3>1, <3>4
  <2>3. packetBuffer' \in Nat
    BY <1>25 DEF BufferPacket
  <2>4. toSend' \in Seq(Packets)
    BY <2>1
  <2>. QED BY <1>25, <2>1, <2>2, <2>3, <2>4 DEF BufferPacket, connVars, sharedVars
<1>26. ASSUME TunProxyReadBreaks PROVE SessionTypeOK'
  <2>1. /\ errChan' \in Seq({"nil", "error"})
        /\ Len(errChan') <= 2 /\ Len(errChan') = Len(errChan) + 1
    <3>1. PICK err \in {"nil", "error"} : Report(err)
      BY <1>26 DEF TunProxyReadBreaks
    <3>. QED BY <3>1, ReportType
  <2>2. /\ tpc = "reading" /\ tpc' = "ended" /\ cause' = cause \cup {"tun"}
        /\ UNCHANGED <<connVars, sharedVars, hpc, cpc, outbound, feedVars>>
    BY <1>26 DEF TunProxyReadBreaks
  <2>. QED BY <2>1, <2>2, SMTT(30) DEF connVars, sharedVars, feedVars
<1>. QED BY <1>1, <1>2, <1>3, <1>4, <1>5, <1>6, <1>7, <1>8, <1>9, <1>10, <1>11, <1>12,
            <1>13, <1>14, <1>15, <1>16, <1>17, <1>18, <1>19, <1>20, <1>21, <1>22,
            <1>23, <1>24, <1>25, <1>26
         DEF Next, TunProxyStep, ClientProxyStep, HandlerStep

LEMMA StepKeepsHeaders ==
  ASSUME SessionTypeOK, HeadersAreComplete, [Next]_vars
  PROVE  HeadersAreComplete'
<1>. USE DEF HeadersAreComplete
<1>. DEFINE Reads == <<inFlight, toSend, outbound>>
<1>1. ASSUME NEW p \in Packets, ProcessPacket(p) PROVE HeadersAreComplete'
  <2>1. p \in CompletePackets
    BY <1>1, SessionAssumption, ParsedIsComplete DEF ProcessPacket, CompletePackets
  <2>. QED BY <1>1, <2>1 DEF ProcessPacket, connVars
<1>2. ASSUME ForwardPacket PROVE HeadersAreComplete'
  BY <1>2 DEF ForwardPacket, Accept
<1>3. ASSUME ConnLoses PROVE HeadersAreComplete'
  <2>1. inFlight' \in Seq(CompletePackets)
    BY <1>3, RemoveAtType DEF ConnLoses, Lose
  <2>. QED BY <1>3, <2>1 DEF ConnLoses, feedVars
<1>4. ASSUME ClientProxyReceive PROVE HeadersAreComplete'
  <2>1. Head(inFlight) \in CompletePackets /\ inFlight' = Tail(inFlight)
    BY <1>4 DEF ClientProxyReceive, Deliver
  <2>2. outbound' = <<Head(inFlight)>> \/ outbound' = outbound
    BY <1>4 DEF ClientProxyReceive
  <2>3. inFlight' \in Seq(CompletePackets)
    BY <1>4, <2>1 DEF ClientProxyReceive, Deliver
  <2>4. outbound' \in Seq(CompletePackets)
    <3>1. <<Head(inFlight)>> \in Seq(CompletePackets)
      BY <2>1
    <3>. QED BY <2>2, <3>1
  <2>5. toSend' = toSend
    BY <1>4 DEF ClientProxyReceive, feedVars
  <2>. QED BY <2>3, <2>4, <2>5
<1>5. ASSUME ForwardFails \/ BufferPacket PROVE HeadersAreComplete'
  <2>1. UNCHANGED <<inFlight, outbound>> /\ toSend' = <<>>
    BY <1>5 DEF ForwardFails, BufferPacket, connVars
  <2>2. <<>> \in Seq(CompletePackets)
    OBVIOUS
  <2>. QED BY <2>1, <2>2
<1>6. ASSUME ClientProxyWrite \/ ClientProxyWriteFails PROVE HeadersAreComplete'
  <2>1. UNCHANGED <<inFlight, toSend>> /\ outbound' = <<>>
    BY <1>6 DEF ClientProxyWrite, ClientProxyWriteFails, connVars, feedVars
  <2>2. <<>> \in Seq(CompletePackets)
    OBVIOUS
  <2>. QED BY <2>1, <2>2
<1>7. ASSUME NEW p \in Packets, TunProxyRead(p) PROVE HeadersAreComplete'
  <2>1. UNCHANGED <<connVars, outbound, feedVars>>
    BY <1>7, TunProxyReadSkips
  <2>. QED BY <2>1 DEF connVars, feedVars
<1>8. ASSUME \/ TunProxyStep \/ TunProxyReadBreaks \/ HandlerStep
             \/ ClientProxyParked \/ ClientProxyLoop \/ ClientProxyCall \/ ClientProxyWoken \/ ClientProxyTimeout
             \/ ContextExpires \/ Disconnect \/ CloseServer \/ UNCHANGED vars
      PROVE  HeadersAreComplete'
  <2>1. UNCHANGED Reads
    BY <1>8
    DEF vars, TunProxyStep, TunProxyParked, TunProxyLoop, TunProxyReadFails,
        TunProxyReadBreaks, HandlerStep, HandlerHears, HandlerExpires, HandlerCleans, HandlerReturns,
        ClientProxyParked, ClientProxyLoop, ClientProxyCall, ClientProxyWoken,
        ClientProxyTimeout, ContextExpires, Disconnect, CloseServer, connVars, feedVars
  <2>. QED BY <2>1
<1>. QED BY <1>1, <1>2, <1>3, <1>4, <1>5, <1>6, <1>7, <1>8 DEF Next, ClientProxyStep

LEMMA SessionInit ==
  ASSUME Init
  PROVE  SessionTypeOK
<1>1. <<>> \in Seq(Packets) /\ <<>> \in Seq({"nil", "error"}) /\ Len(<<>>) = 0
  OBVIOUS
<1>2. /\ inFlight \in Seq(Packets) /\ received \in Seq(Packets)
      /\ outbound \in Seq(Packets) /\ toSend \in Seq(Packets)
      /\ errChan \in Seq({"nil", "error"}) /\ Len(errChan) = 0
  BY <1>1 DEF Init, TunnelInit
<1>3. /\ tpc \in {"parked", "loop"} /\ cpc \in {"parked", "loop"}
      /\ outbound = <<>> /\ DOMAIN outbound = {}
  BY DEF Init
<1>4. 0 \in 0 .. MaxPackets
  BY SessionAssumption
<1>5. /\ connClosed \in BOOLEAN /\ routed \in BOOLEAN /\ ctxDone \in BOOLEAN
      /\ tunDev \in {"open", "closed", "none"}
      /\ hpc \in {"waiting", "cleaning", "returning", "ended"}
      /\ forwarded \in 0 .. MaxPackets
      /\ cause \subseteq {"tun", "expired", "disconnected", "closed"}
  BY <1>4 DEF Init
<1>6. /\ tpc \in {"parked", "loop", "reading", "ended"} /\ tpc # "ended"
      /\ cpc \in {"parked", "loop", "calling", "reading", "writing", "ended"}
      /\ cpc # "ended" /\ cpc # "writing"
  BY <1>3
<1>7. Len(errChan) <= 2
  BY <1>2
<1>8. Len(errChan) = (IF tpc = "ended" THEN 1 ELSE 0) + (IF cpc = "ended" THEN 1 ELSE 0)
  BY <1>2, <1>6
<1>9. cpc = "writing" <=> outbound # <<>>
  BY <1>3, <1>6
<1>10. /\ fecEnabled \in BOOLEAN
       /\ packetBuffer \in Nat /\ Len(toSend) <= 1
       /\ packetBuffer = IF fecEnabled THEN forwarded - Len(toSend) ELSE 0
  <2>1. toSend = <<>> /\ forwarded = 0 /\ packetBuffer = 0 /\ fecEnabled \in BOOLEAN
    BY DEF Init
  <2>2. Len(toSend) = 0
    BY <1>1, <2>1
  <2>3. 0 \in Nat /\ 0 - 0 = 0 /\ 0 <= 1
    OBVIOUS
  <2>. QED BY <2>1, <2>2, <2>3
<1>. QED BY <1>2, <1>5, <1>6, <1>7, <1>8, <1>9, <1>10, Zenon DEF SessionTypeOK

LEMMA HeadersInit ==
  ASSUME Init
  PROVE  HeadersAreComplete
<1>1. <<>> \in Seq(CompletePackets)
  OBVIOUS
<1>. QED BY <1>1 DEF Init, TunnelInit, HeadersAreComplete

(* SessionTypeOK: while the handler waits, errChan holds one report per    *)
(* ended proxy, so that a report always finds room.                        *)
THEOREM ReportsAreAccounted == Spec => []SessionTypeOK
<1>1. SessionTypeOK /\ [Next]_vars => SessionTypeOK'
  BY StepKeepsSession
<1>. QED BY <1>1, SessionInit, PTL DEF Spec

(* HeadersAreComplete: no address is ever read beyond the end of a packet. *)
THEOREM NothingStaleIsParsed == Spec => []HeadersAreComplete
<1>1. SessionTypeOK /\ HeadersAreComplete /\ [Next]_vars => HeadersAreComplete'
  BY StepKeepsHeaders
<1>. QED BY <1>1, HeadersInit, ReportsAreAccounted, PTL DEF Spec

-------------------------------------------------------------------------------
(* What is left of the loop through the TUN device.  The source test sees  *)
(* to one address of a packet that goes back; that the other one is the    *)
(* client's too is because processPackets looked the session up by it and  *)
(* nothing else puts packets into the connection.                          *)
ToClient == {p \in Packets : p.dst = clientIP}

LoopInv ==
  /\ inFlight \in Seq(ToClient) /\ toSend \in Seq(ToClient)
  /\ LoopNeverMultiplies

LEMMA ParsedAddresses ==
  ASSUME NEW p \in Packets
  PROVE  /\ clientIP \in parseDestinationIP(p) => p \in ToClient
         /\ clientIP \in parseSourceIP(p) => p.src = clientIP
BY DEF parseDestinationIP, parseSourceIP, ToClient

LEMMA StepKeepsLoop ==
  ASSUME SessionTypeOK, LoopInv, [Next]_vars
  PROVE  LoopInv'
<1>. DEFINE Hold == Len(toSend) + packetBuffer + Len(inFlight) + Len(received)
            Own(s) == \A i \in DOMAIN s : s[i].src = clientIP /\ s[i].dst = clientIP
<1>0. /\ inFlight \in Seq(ToClient) /\ toSend \in Seq(ToClient)
      /\ received \in Seq(Packets) /\ forwarded \in Nat /\ packetBuffer \in Nat
      /\ Len(inFlight) \in Nat /\ Len(toSend) \in Nat /\ Len(received) \in Nat
      /\ Len(toSend) <= 1 /\ Hold <= forwarded /\ Own(outbound)
      /\ \A x \in ToClient : x \in Packets
  BY SessionAssumption DEF SessionTypeOK, LoopInv, LoopNeverMultiplies, ToClient
<1>1. ASSUME NEW p \in Packets, ProcessPacket(p) PROVE LoopInv'
  <2>1. p \in ToClient
    BY <1>1, ParsedAddresses DEF ProcessPacket
  <2>2. /\ toSend = <<>> /\ toSend' = <<p>> /\ forwarded' = forwarded + 1
        /\ UNCHANGED <<inFlight, received, outbound, packetBuffer>>
    BY <1>1 DEF ProcessPacket, connVars
  <2>3. Len(<<p>>) = 1 /\ <<p>> \in Seq(ToClient)
    BY <2>1
  <2>. QED BY <1>0, <2>2, <2>3, EmptyLength DEF LoopInv, LoopNeverMultiplies
<1>2. ASSUME ForwardPacket PROVE LoopInv'
  <2>1. /\ toSend # <<>> /\ toSend' = <<>> /\ inFlight' = Append(inFlight, Head(toSend))
        /\ UNCHANGED <<received, outbound, packetBuffer, forwarded>>
    BY <1>2 DEF ForwardPacket, Accept
  <2>2. Len(toSend) = 1
    BY <1>0, <2>1, OneElement
  <2>3. Len(inFlight') = Len(inFlight) + 1 /\ inFlight' \in Seq(ToClient)
    BY <1>0, <2>1
  <2>4. <<>> \in Seq(ToClient)
    OBVIOUS
  <2>. QED BY <1>0, <2>1, <2>2, <2>3, <2>4, EmptyLength DEF LoopInv, LoopNeverMultiplies
<1>3. ASSUME BufferPacket PROVE LoopInv'
  <2>1. /\ toSend # <<>> /\ toSend' = <<>> /\ packetBuffer' = packetBuffer + 1
        /\ UNCHANGED <<inFlight, received, outbound, forwarded>>
    BY <1>3 DEF BufferPacket, connVars
  <2>2. Len(toSend) = 1
    BY <1>0, <2>1, OneElement
  <2>3. <<>> \in Seq(ToClient)
    OBVIOUS
  <2>. QED BY <1>0, <2>1, <2>2, <2>3, EmptyLength DEF LoopInv, LoopNeverMultiplies
<1>4. ASSUME ForwardFails PROVE LoopInv'
  <2>1. toSend' = <<>> /\ UNCHANGED <<inFlight, received, outbound, packetBuffer, forwarded>>
    BY <1>4 DEF ForwardFails, connVars
  <2>2. <<>> \in Seq(ToClient)
    OBVIOUS
  <2>. QED BY <1>0, <2>1, <2>2, EmptyLength DEF LoopInv, LoopNeverMultiplies
<1>5. ASSUME ConnLoses PROVE LoopInv'
  <2>1. PICK i \in DOMAIN inFlight : inFlight' = RemoveAt(inFlight, i)
    BY <1>5 DEF ConnLoses, Lose
  <2>2. inFlight' \in Seq(ToClient) /\ Len(inFlight') = Len(inFlight) - 1
    BY <1>0, <2>1, RemoveAtType, RemoveAtLength
  <2>3. UNCHANGED <<toSend, received, outbound, packetBuffer, forwarded>>
    BY <1>5 DEF ConnLoses, Lose, feedVars
  <2>. QED BY <1>0, <2>2, <2>3 DEF LoopInv, LoopNeverMultiplies
<1>6. ASSUME ClientProxyReceive PROVE LoopInv'
  <2>1. /\ inFlight # <<>> /\ inFlight' = Tail(inFlight)
        /\ received' = Append(received, Head(inFlight))
    BY <1>6 DEF ClientProxyReceive, Deliver
  <2>2. Head(inFlight) \in ToClient /\ Head(inFlight) \in Packets
    BY <1>0, <2>1
  <2>3. /\ inFlight' \in Seq(ToClient) /\ Len(inFlight') = Len(inFlight) - 1
        /\ Len(received') = Len(received) + 1
    BY <1>0, <2>1, <2>2
  <2>4. Own(outbound')
    <3>1. CASE clientIP \in parseSourceIP(Head(inFlight))
      <4>1. outbound' = <<Head(inFlight)>>
        BY <1>6, <3>1 DEF ClientProxyReceive
      <4>2. Head(inFlight).src = clientIP /\ Head(inFlight).dst = clientIP
        BY <2>2, <3>1, ParsedAddresses DEF ToClient
      <4>. QED BY <4>1, <4>2
    <3>2. CASE clientIP \notin parseSourceIP(Head(inFlight))
      <4>1. outbound' = outbound
        BY <1>6, <3>2 DEF ClientProxyReceive
      <4>. QED BY <1>0, <4>1
    <3>. QED BY <3>1, <3>2
  <2>5. UNCHANGED <<toSend, packetBuffer, forwarded>>
    BY <1>6 DEF ClientProxyReceive, feedVars
  <2>. QED BY <1>0, <2>3, <2>4, <2>5 DEF LoopInv, LoopNeverMultiplies
<1>7. ASSUME ClientProxyWrite \/ ClientProxyWriteFails PROVE LoopInv'
  <2>1. outbound' = <<>> /\ UNCHANGED <<inFlight, received, toSend, packetBuffer, forwarded>>
    BY <1>7 DEF ClientProxyWrite, ClientProxyWriteFails, connVars, feedVars
  <2>. QED BY <1>0, <2>1 DEF LoopInv, LoopNeverMultiplies
<1>8. ASSUME UNCHANGED <<connVars, outbound, feedVars>> PROVE LoopInv'
  BY <1>0, <1>8 DEF connVars, feedVars, LoopInv, LoopNeverMultiplies
<1>9. ASSUME NEW p \in Packets, TunProxyRead(p) PROVE LoopInv'
  BY <1>8, <1>9, TunProxyReadSkips
<1>10. ASSUME \/ TunProxyStep \/ TunProxyReadBreaks \/ HandlerStep
              \/ ClientProxyParked \/ ClientProxyLoop \/ ClientProxyCall
              \/ ClientProxyWoken \/ ClientProxyTimeout
              \/ ContextExpires \/ Disconnect \/ CloseServer \/ UNCHANGED vars
       PROVE  UNCHANGED <<connVars, outbound, feedVars>>
  BY <1>10
  DEF vars, TunProxyStep, TunProxyParked, TunProxyLoop, TunProxyReadFails,
      TunProxyReadBreaks, HandlerStep, HandlerHears, HandlerExpires, HandlerCleans,
      HandlerReturns, ClientProxyParked, ClientProxyLoop, ClientProxyCall,
      ClientProxyWoken, ClientProxyTimeout, ContextExpires, Disconnect, CloseServer
<1>. QED BY <1>1, <1>2, <1>3, <1>4, <1>5, <1>6, <1>7, <1>8, <1>9, <1>10
         DEF Next, ClientProxyStep

(* LoopNeverMultiplies: whatever fails, is closed or is lost, a packet that*)
(* processPackets took comes back once at most, and what the server writes *)
(* to the TUN device for a session is from that client and to it.          *)
THEOREM LoopStaysHarmless == Spec => []LoopNeverMultiplies
<1>1. Init => LoopInv
  <2>. SUFFICES ASSUME Init PROVE LoopInv
    OBVIOUS
  <2>1. /\ inFlight = <<>> /\ received = <<>> /\ toSend = <<>> /\ outbound = <<>>
        /\ packetBuffer = 0 /\ forwarded = 0
    BY DEF Init, TunnelInit
  <2>2. <<>> \in Seq(ToClient)
    OBVIOUS
  <2>. QED BY <2>1, <2>2, EmptyLength DEF LoopInv, LoopNeverMultiplies
<1>2. SessionTypeOK /\ LoopInv /\ [Next]_vars => LoopInv'
  BY StepKeepsLoop
<1>3. LoopInv => LoopNeverMultiplies
  BY DEF LoopInv
<1>. QED BY <1>1, <1>2, <1>3, ReportsAreAccounted, PTL DEF Spec

-------------------------------------------------------------------------------
(* errChan has room for every proxy that still has to report, also after   *)
(* the handler read one report and stopped reading: a proxy that outlives  *)
(* its handler does not block in its last send.                            *)
Ended(p) == IF p = "ended" THEN 1 ELSE 0
ReportsInv == Len(errChan) <= Ended(tpc) + Ended(cpc)
RoomForReports == tpc # "ended" \/ cpc # "ended" => Len(errChan) < 2

LEMMA StepKeepsReports ==
  ASSUME SessionTypeOK, ReportsInv, [Next]_vars
  PROVE  ReportsInv'
<1>. errChan \in Seq({"nil", "error"}) /\ Len(errChan) \in Nat
  BY DEF SessionTypeOK
<1>. USE DEF ReportsInv, Ended
<1>1. ASSUME UNCHANGED <<errChan, tpc, cpc>> PROVE ReportsInv'
  BY <1>1
<1>2. ASSUME NEW err, Report(err) PROVE Len(errChan') = Len(errChan) + 1
  BY <1>2 DEF Report
<1>3. ASSUME TunProxyParked \/ TunProxyReadFails \/ TunProxyReadBreaks
      PROVE  ReportsInv'
  BY <1>2, <1>3 DEF TunProxyParked, TunProxyReadFails, TunProxyReadBreaks
<1>4. ASSUME TunProxyLoop PROVE ReportsInv'
  BY <1>2, <1>4 DEF TunProxyLoop
<1>5. ASSUME NEW p \in Packets, TunProxyRead(p) PROVE ReportsInv'
  BY <1>5, TunProxyReadSkips
<1>6. ASSUME ClientProxyParked \/ ClientProxyTimeout \/ ClientProxyWriteFails
      PROVE  ReportsInv'
  BY <1>2, <1>6 DEF ClientProxyParked, ClientProxyTimeout, ClientProxyWriteFails
<1>7. ASSUME ClientProxyLoop \/ ClientProxyCall PROVE ReportsInv'
  BY <1>2, <1>7 DEF ClientProxyLoop, ClientProxyCall
<1>8. ASSUME ClientProxyReceive \/ ClientProxyWoken \/ ClientProxyWrite PROVE ReportsInv'
  BY <1>8 DEF ClientProxyReceive, ClientProxyWoken, ClientProxyWrite
<1>9. ASSUME HandlerHears PROVE ReportsInv'
  BY <1>9 DEF HandlerHears
<1>10. ASSUME NEW p \in Packets, ProcessPacket(p) PROVE UNCHANGED <<errChan, tpc, cpc>>
  BY <1>10 DEF ProcessPacket
<1>11. ASSUME \/ ForwardPacket \/ ForwardFails \/ BufferPacket \/ ConnLoses
              \/ HandlerExpires \/ HandlerCleans \/ HandlerReturns
              \/ ContextExpires \/ Disconnect \/ CloseServer \/ UNCHANGED vars
       PROVE  UNCHANGED <<errChan, tpc, cpc>>
  BY <1>11 DEF ForwardPacket, ForwardFails, BufferPacket, ConnLoses, HandlerExpires,
               HandlerCleans, HandlerReturns, ContextExpires, Disconnect, CloseServer, vars
<1>. QED BY <1>1, <1>3, <1>4, <1>5, <1>6, <1>7, <1>8, <1>9, <1>10, <1>11
         DEF Next, TunProxyStep, ClientProxyStep, HandlerStep

THEOREM ProxiesNeverBlockReporting == Spec => []RoomForReports
<1>1. Init => ReportsInv
  <2>1. Len(<<>>) = 0
    OBVIOUS
  <2>. QED BY <2>1 DEF Init, ReportsInv, Ended
<1>2. SessionTypeOK /\ ReportsInv /\ [Next]_vars => ReportsInv'
  BY StepKeepsReports
<1>3. SessionTypeOK /\ ReportsInv => RoomForReports
  BY DEF SessionTypeOK, ReportsInv, RoomForReports, Ended
<1>. QED BY <1>1, <1>2, <1>3, ReportsAreAccounted, PTL DEF Spec

-------------------------------------------------------------------------------
(* Only three steps touch the tunnel.                                      *)
LEMMA TunnelSteps ==
  ASSUME [Next]_vars
  PROVE  \/ ForwardPacket \/ ConnLoses \/ ClientProxyReceive
         \/ UNCHANGED <<inFlight, received>>
<1>1. ASSUME NEW p \in Packets, ProcessPacket(p) PROVE UNCHANGED <<inFlight, received>>
  BY <1>1 DEF ProcessPacket, connVars
<1>2. ASSUME NEW p \in Packets, TunProxyRead(p) PROVE UNCHANGED <<inFlight, received>>
  <2>1. UNCHANGED connVars
    BY <1>2, TunProxyReadSkips
  <2>. QED BY <2>1 DEF connVars
<1>3. ASSUME ForwardFails \/ BufferPacket PROVE UNCHANGED <<inFlight, received>>
  BY <1>3 DEF ForwardFails, BufferPacket, connVars
<1>4. ASSUME TunProxyStep \/ TunProxyReadBreaks PROVE UNCHANGED <<inFlight, received>>
  BY <1>4 DEF TunProxyStep, TunProxyParked, TunProxyLoop, TunProxyReadFails,
              TunProxyReadBreaks, connVars
<1>5. ASSUME \/ ClientProxyParked \/ ClientProxyLoop \/ ClientProxyCall
             \/ ClientProxyWoken \/ ClientProxyTimeout
             \/ ClientProxyWrite \/ ClientProxyWriteFails
      PROVE  UNCHANGED <<inFlight, received>>
  BY <1>5 DEF ClientProxyParked, ClientProxyLoop, ClientProxyCall, ClientProxyWoken,
              ClientProxyTimeout, ClientProxyWrite, ClientProxyWriteFails, connVars
<1>6. ASSUME HandlerStep \/ ContextExpires \/ Disconnect \/ CloseServer
      PROVE  UNCHANGED <<inFlight, received>>
  BY <1>6 DEF HandlerStep, HandlerHears, HandlerExpires, HandlerCleans, HandlerReturns,
              ContextExpires, Disconnect, CloseServer, connVars
<1>7. ASSUME UNCHANGED vars PROVE UNCHANGED <<inFlight, received>>
  BY <1>7 DEF vars, connVars
<1>. QED BY <1>1, <1>2, <1>3, <1>4, <1>5, <1>6, <1>7 DEF Next, ClientProxyStep

(* A session uses its connection as PacketTunnel allows and no other way:  *)
(* what MASQUEConn is shown to implement is all its user assumes.          *)
THEOREM SessionUsesTunnel == Spec => TunnelSpec
<1>1. Init => TunnelInit
  BY DEF Init
<1>2. SessionTypeOK /\ [Next]_vars => [TunnelNext]_<<inFlight, received>>
  <2>. SUFFICES ASSUME SessionTypeOK, [Next]_vars
                PROVE  TunnelNext \/ UNCHANGED <<inFlight, received>>
    OBVIOUS
  <2>1. ASSUME ForwardPacket PROVE TunnelNext
    <3>1. Head(toSend) \in Packets /\ Accept(Head(toSend))
      BY <2>1 DEF ForwardPacket, SessionTypeOK
    <3>. QED BY <3>1 DEF TunnelNext
  <2>2. ASSUME ConnLoses \/ ClientProxyReceive PROVE TunnelNext
    BY <2>2 DEF ConnLoses, ClientProxyReceive, TunnelNext
  <2>. QED BY <2>1, <2>2, TunnelSteps
<1>. QED BY <1>1, <1>2, ReportsAreAccounted, PTL DEF Spec, TunnelSpec

(* All a client is ever sent, processPackets sends: proxyTunToClient, which*)
(* reads the same device, never passes a packet on, for it reads behind an *)
(* offset of 100 bytes and finds no header.                                *)
OnlyProcessPacketsSends == Len(inFlight') > Len(inFlight) => ForwardPacket

THEOREM TunProxySendsNothing == Spec => [][OnlyProcessPacketsSends]_vars
<1>1. SessionTypeOK /\ [Next]_vars => [OnlyProcessPacketsSends]_vars
  <2>. SUFFICES ASSUME SessionTypeOK, [Next]_vars, Len(inFlight') > Len(inFlight)
                PROVE  ForwardPacket
    BY DEF OnlyProcessPacketsSends
  <2>1. inFlight \in Seq(Packets) /\ Len(inFlight) \in Nat
    BY DEF SessionTypeOK
  <2>2. ASSUME ConnLoses PROVE FALSE
    <3>1. PICK i \in DOMAIN inFlight : inFlight' = RemoveAt(inFlight, i)
      BY <2>2 DEF ConnLoses, Lose
    <3>2. Len(RemoveAt(inFlight, i)) = Len(inFlight) - 1
      BY <2>1, RemoveAtLength
    <3>. QED BY <2>1, <3>1, <3>2
  <2>3. ASSUME ClientProxyReceive PROVE FALSE
    <3>1. inFlight # <<>> /\ inFlight' = Tail(inFlight)
      BY <2>3 DEF ClientProxyReceive, Deliver
    <3>. QED BY <2>1, <3>1
  <2>4. ASSUME UNCHANGED <<inFlight, received>> PROVE FALSE
    BY <2>1, <2>4
  <2>. QED BY <2>2, <2>3, <2>4, TunnelSteps
<1>. QED BY <1>1, ReportsAreAccounted, PTL DEF Spec

(* With FEC enabled a client gets no packet at all: the handler creates    *)
(* the session without an encoder, so each stays in PacketBuffer.          *)
FECSendsNothing == fecEnabled => inFlight = <<>> /\ received = <<>>

LEMMA FECStaysEnabled == ASSUME [Next]_vars PROVE fecEnabled' = fecEnabled
<1>1. ASSUME NEW p \in Packets, ProcessPacket(p) PROVE fecEnabled' = fecEnabled
  BY <1>1 DEF ProcessPacket
<1>2. ASSUME NEW p \in Packets, TunProxyRead(p) PROVE fecEnabled' = fecEnabled
  BY <1>2, TunProxyReadSkips DEF feedVars
<1>3. ASSUME ForwardPacket \/ ForwardFails \/ BufferPacket \/ ConnLoses
      PROVE  fecEnabled' = fecEnabled
  BY <1>3 DEF ForwardPacket, ForwardFails, BufferPacket, ConnLoses, feedVars
<1>4. ASSUME TunProxyStep \/ TunProxyReadBreaks PROVE fecEnabled' = fecEnabled
  BY <1>4 DEF TunProxyStep, TunProxyParked, TunProxyLoop, TunProxyReadFails,
              TunProxyReadBreaks, feedVars
<1>5. ASSUME ClientProxyStep \/ ClientProxyTimeout PROVE fecEnabled' = fecEnabled
  BY <1>5 DEF ClientProxyStep, ClientProxyParked, ClientProxyLoop, ClientProxyCall,
              ClientProxyReceive, ClientProxyWoken, ClientProxyTimeout,
              ClientProxyWrite, ClientProxyWriteFails, feedVars
<1>6. ASSUME HandlerStep \/ ContextExpires \/ Disconnect \/ CloseServer
      PROVE  fecEnabled' = fecEnabled
  BY <1>6 DEF HandlerStep, HandlerHears, HandlerExpires, HandlerCleans, HandlerReturns,
              ContextExpires, Disconnect, CloseServer, feedVars
<1>7. ASSUME UNCHANGED vars PROVE fecEnabled' = fecEnabled
  BY <1>7 DEF vars, feedVars
<1>. QED BY <1>1, <1>2, <1>3, <1>4, <1>5, <1>6, <1>7 DEF Next

THEOREM FECSessionsAreSilent == Spec => []FECSendsNothing
<1>1. Init => FECSendsNothing
  BY DEF Init, TunnelInit, FECSendsNothing
<1>2. FECSendsNothing /\ [Next]_vars => FECSendsNothing'
  <2>. SUFFICES ASSUME FECSendsNothing, [Next]_vars, fecEnabled
                PROVE  UNCHANGED <<inFlight, received>>
    BY FECStaysEnabled DEF FECSendsNothing
  <2>1. inFlight = <<>>
    BY DEF FECSendsNothing
  <2>2. ~ ForwardPacket /\ ~ ConnLoses /\ ~ ClientProxyReceive
    BY <2>1 DEF ForwardPacket, ConnLoses, ClientProxyReceive, Deliver
  <2>. QED BY <2>2, TunnelSteps
<1>. QED BY <1>1, <1>2, PTL DEF Spec

-------------------------------------------------------------------------------
(* EndsForCause does not hold, and the read timeout that proxyClientToTun  *)
(* does not recognise is the only reason: without it nothing ends a session*)
(* whose client was not disconnected, whose server runs, whose device works*)
(* and whose day is not over.  What a proxy or the context reports goes    *)
(* back to a recorded cause.                                               *)
NeverIdleSpec == Init /\ [][Next /\ ~ClientProxyTimeout]_vars

ReportedInv ==
  hpc # "waiting" \/ errChan # <<>> \/ ctxDone \/ connClosed \/ tunDev = "closed" =>
    cause # {}

LEMMA StepKeepsReported ==
  ASSUME ReportedInv, [Next]_vars, ~ClientProxyTimeout
  PROVE  ReportedInv'
<1>. USE DEF ReportedInv
<1>0. ASSUME cause' = cause, hpc' = hpc, UNCHANGED sharedVars,
             errChan' = errChan \/ cause # {}
      PROVE  ReportedInv'
  BY <1>0 DEF sharedVars
<1>1. ASSUME NEW p \in Packets, ProcessPacket(p) PROVE ReportedInv'
  BY <1>0, <1>1 DEF ProcessPacket
<1>2. ASSUME NEW p \in Packets, TunProxyRead(p) PROVE ReportedInv'
  BY <1>0, <1>2, TunProxyReadSkips
<1>3. ASSUME ForwardPacket \/ ForwardFails \/ BufferPacket \/ ConnLoses
      PROVE  ReportedInv'
  BY <1>0, <1>3 DEF ForwardPacket, ForwardFails, BufferPacket, ConnLoses
<1>4. ASSUME TunProxyStep PROVE ReportedInv'
  BY <1>0, <1>4 DEF TunProxyStep, TunProxyParked, TunProxyLoop, TunProxyReadFails
<1>5. ASSUME \/ ClientProxyParked \/ ClientProxyLoop \/ ClientProxyCall
             \/ ClientProxyReceive \/ ClientProxyWoken \/ ClientProxyWrite
      PROVE  ReportedInv'
  BY <1>0, <1>5 DEF ClientProxyParked, ClientProxyLoop, ClientProxyCall,
                    ClientProxyReceive, ClientProxyWoken, ClientProxyWrite
<1>6. ASSUME ClientProxyWriteFails \/ TunProxyReadBreaks PROVE ReportedInv'
  <2>1. cause' # {}
    BY <1>6 DEF ClientProxyWriteFails, TunProxyReadBreaks
  <2>. QED BY <2>1
<1>7. ASSUME HandlerHears \/ HandlerExpires \/ HandlerCleans \/ HandlerReturns
      PROVE  ReportedInv'
  <2>1. cause # {}
    BY <1>7 DEF HandlerHears, HandlerExpires, HandlerCleans, HandlerReturns
  <2>2. cause' = cause
    BY <1>7 DEF HandlerHears, HandlerExpires, HandlerCleans, HandlerReturns
  <2>. QED BY <2>1, <2>2
<1>8. ASSUME ContextExpires \/ Disconnect \/ CloseServer PROVE ReportedInv'
  <2>1. cause' # {}
    BY <1>8 DEF ContextExpires, Disconnect, CloseServer
  <2>. QED BY <2>1
<1>9. ASSUME UNCHANGED vars PROVE ReportedInv'
  BY <1>0, <1>9 DEF vars
<1>. QED BY <1>1, <1>2, <1>3, <1>4, <1>5, <1>6, <1>7, <1>8, <1>9
         DEF Next, ClientProxyStep, HandlerStep

THEOREM OnlyIdleSessionsEndUncaused == NeverIdleSpec => []EndsForCause
<1>1. Init => ReportedInv
  BY DEF Init, ReportedInv
<1>2. ReportedInv /\ [Next /\ ~ClientProxyTimeout]_vars => ReportedInv'
  <2>1. ASSUME ReportedInv, UNCHANGED vars PROVE ReportedInv'
    BY <2>1 DEF ReportedInv, vars, sharedVars
  <2>. QED BY <2>1, StepKeepsReported
<1>3. ReportedInv => EndsForCause
  BY DEF ReportedInv, EndsForCause
<1>. QED BY <1>1, <1>2, <1>3, PTL DEF NeverIdleSpec
===============================================================================
