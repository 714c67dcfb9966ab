--------------------------- MODULE MASQUEConnProofs ---------------------------
(***************************************************************************)
(* For every channel capacity and any number of writers and closers, a     *)
(* MASQUEConn keeps its locking discipline and implements the packet       *)
(* tunnel: it loses packets and never duplicates or reorders them.         *)
(***************************************************************************)
EXTENDS ConnProperties, SequenceTheorems, TLAPS

LEMMA ConcatAppend ==
  ASSUME NEW S, NEW s \in Seq(S), NEW t \in Seq(S), NEW e \in S
  PROVE  s \o Append(t, e) = Append(s \o t, e)
OBVIOUS

LEMMA ConcatHeadTail ==
  ASSUME NEW S, NEW s \in Seq(S), NEW t \in Seq(S), s # <<>>
  PROVE  /\ s \o t # <<>>
         /\ Head(s \o t) = Head(s)
         /\ Tail(s \o t) = Tail(s) \o t
OBVIOUS

LEMMA ConcatMove ==
  ASSUME NEW S, NEW s \in Seq(S), NEW t \in Seq(S), t # <<>>
  PROVE  (s \o <<Head(t)>>) \o Tail(t) = (s \o <<>>) \o t
OBVIOUS

(* Removing the element between s and t.                                   *)
LEMMA ConcatRemove ==
  ASSUME NEW S, NEW s \in Seq(S), NEW m \in Seq(S), NEW t \in Seq(S), Len(m) = 1
  PROVE  /\ Len(s) + 1 \in DOMAIN ((s \o m) \o t)
         /\ RemoveAt((s \o m) \o t, Len(s) + 1) = (s \o <<>>) \o t
<1> DEFINE n == Len(s)
           q == (s \o m) \o t
           r == (s \o <<>>) \o t
<1>1. n \in Nat /\ Len(t) \in Nat
  OBVIOUS
<1>2. /\ s \o m \in Seq(S) /\ Len(s \o m) = n + 1
      /\ \A i \in 1 .. n : (s \o m)[i] = s[i]
  <2>1. /\ s \o m \in Seq(S) /\ Len(s \o m) = n + Len(m)
        /\ \A i \in 1 .. n + Len(m) : (s \o m)[i] = IF i <= n THEN s[i] ELSE m[i - n]
    BY ConcatProperties
  <2> HIDE DEF n
  <2>. QED BY <1>1, <2>1
<1>3. /\ q \in Seq(S) /\ Len(q) = n + 1 + Len(t)
      /\ \A i \in 1 .. n : q[i] = s[i]
      /\ \A i \in 1 .. Len(t) : q[n + 1 + i] = t[i]
  <2>1. /\ q \in Seq(S) /\ Len(q) = Len(s \o m) + Len(t)
        /\ \A i \in 1 .. Len(s \o m) + Len(t) :
             q[i] = IF i <= Len(s \o m) THEN (s \o m)[i] ELSE t[i - Len(s \o m)]
    BY <1>2, ConcatProperties
  <2> HIDE DEF q
  <2>2. \A i \in 1 .. n : q[i] = s[i]
    BY <1>1, <1>2, <2>1
  <2>3. ASSUME NEW i \in 1 .. Len(t) PROVE q[n + 1 + i] = t[i]
    <3>1. /\ n + 1 + i \in 1 .. (n + 1) + Len(t)
          /\ ~(n + 1 + i <= n + 1)
          /\ (n + 1 + i) - (n + 1) = i
      BY <1>1
    <3>. QED BY <1>1, <1>2, <2>1, <3>1
  <2>. QED BY <1>1, <1>2, <2>1, <2>2, <2>3
<1>4. /\ r \in Seq(S) /\ Len(r) = n + Len(t)
      /\ \A i \in 1 .. n : r[i] = s[i]
      /\ \A i \in 1 .. Len(t) : r[n + i] = t[i]
  <2>1. r = s \o t
    BY ConcatEmptySeq
  <2>2. /\ s \o t \in Seq(S) /\ Len(s \o t) = n + Len(t)
        /\ \A i \in 1 .. n + Len(t) : (s \o t)[i] = IF i <= n THEN s[i] ELSE t[i - n]
    BY ConcatProperties
  <2>3. \A i \in 1 .. Len(t) : n + i \in 1 .. n + Len(t) /\ ~(n + i <= n) /\ (n + i) - n = i
    BY <1>1
  <2> HIDE DEF r
  <2>. QED BY <1>1, <2>1, <2>2, <2>3
<1> HIDE DEF n, q, r
<1> DEFINE front == SubSeq(q, 1, (n + 1) - 1)
           back == SubSeq(q, (n + 1) + 1, Len(q))
<1>5. /\ front \in Seq(S) /\ Len(front) = n
      /\ \A i \in 1 .. n : front[i] = q[i]
  <2>1. \A i \in 1 .. (n + 1) - 1 : q[i] \in S
    BY <1>1, <1>3
  <2>2. /\ front \in Seq(S)
        /\ Len(front) = IF 1 <= (n + 1) - 1 THEN ((n + 1) - 1) - 1 + 1 ELSE 0
        /\ \A i \in 1 .. ((n + 1) - 1) - 1 + 1 : front[i] = q[1 + i - 1]
    BY <1>1, <2>1, SubSeqProperties
  <2> HIDE DEF front
  <2>. QED BY <1>1, <2>2
<1>6. /\ back \in Seq(S) /\ Len(back) = Len(t)
      /\ \A i \in 1 .. Len(t) : back[i] = q[n + 1 + i]
  <2>1. \A i \in (n + 1) + 1 .. Len(q) : q[i] \in S
    BY <1>1, <1>3
  <2>2. /\ back \in Seq(S)
        /\ Len(back) = IF (n + 1) + 1 <= Len(q) THEN Len(q) - ((n + 1) + 1) + 1 ELSE 0
        /\ \A i \in 1 .. Len(q) - ((n + 1) + 1) + 1 : back[i] = q[(n + 1) + 1 + i - 1]
    BY <1>1, <1>3, <2>1, SubSeqProperties
  <2> HIDE DEF back
  <2>3. /\ Len(q) - ((n + 1) + 1) + 1 = Len(t)
        /\ ((n + 1) + 1 <= Len(q)) = (Len(t) > 0)
    BY <1>1, <1>3
  <2>4. Len(back) = Len(t)
    BY <1>1, <2>2, <2>3
  <2>5. ASSUME NEW i \in 1 .. Len(t) PROVE back[i] = q[n + 1 + i]
    <3>1. (n + 1) + 1 + i - 1 = n + 1 + i
      BY <1>1
    <3>. QED BY <2>2, <2>3, <3>1
  <2>. QED BY <2>2, <2>4, <2>5
<1> HIDE DEF front, back
<1>7. front \o back = r
  <2>1. /\ front \o back \in Seq(S) /\ Len(front \o back) = n + Len(t)
        /\ \A i \in 1 .. n + Len(t) :
             (front \o back)[i] = IF i <= n THEN front[i] ELSE back[i - n]
    BY <1>5, <1>6, ConcatProperties
  <2> DEFINE f == front \o back
  <2> HIDE DEF f
  <2>2. ASSUME NEW i \in 1 .. Len(r) PROVE f[i] = r[i]
    <3>1. CASE i <= n
      BY <1>1, <1>3, <1>4, <1>5, <2>1, <3>1 DEF f
    <3>2. CASE i > n
      <4>1. i - n \in 1 .. Len(t) /\ n + (i - n) = i
        BY <1>1, <1>4, <3>2
      <4>2. f[i] = back[i - n]
        BY <1>1, <1>4, <2>1, <3>2 DEF f
      <4>. QED BY <1>3, <1>4, <1>6, <4>1, <4>2
    <3>. QED BY <1>1, <1>4, <3>1, <3>2
  <2>. QED BY <1>4, <2>1, <2>2, SeqEqual DEF f
<1>8. RemoveAt(q, n + 1) = front \o back
  BY DEF RemoveAt, front, back
<1>9. n + 1 \in DOMAIN q
  BY <1>1, <1>3
<1>. QED BY <1>7, <1>8, <1>9 DEF n, q, r

(* Every step keeps the types and the locking discipline.                  *)
LEMMA StepKeepsConnType ==
  ASSUME ConnTypeOK, [Next]_vars
  PROVE  ConnTypeOK'
<1> USE ConnAssumption DEF ConnTypeOK, LockFree
<1>1. ASSUME NEW w \in Writers, WriteCheck(w) PROVE ConnTypeOK'
  BY <1>1 DEF WriteCheck, lockVars, chanVars, relayVars
<1>2. ASSUME NEW w \in Writers, WriteSend(w) PROVE ConnTypeOK'
  <2>1. <<w, sent[w]>> \in Packets
    BY <1>2 DEF WriteSend, Packets
  <2>2. /\ Append(writeChan, <<w, sent[w]>>) \in Seq(Packets)
        /\ Len(Append(writeChan, <<w, sent[w]>>)) <= ChanCap
    BY <1>2, <2>1 DEF WriteSend
  <2>. QED BY <1>2, <2>2 DEF WriteSend, lockVars, relayVars
<1>3. ASSUME NEW w \in Writers, WritePanic(w) PROVE ConnTypeOK'
  BY <1>3 DEF WritePanic, lockVars, chanVars, relayVars
<1>4. ASSUME NEW w \in Writers, WriteTimeout(w) PROVE ConnTypeOK'
  BY <1>4 DEF WriteTimeout, lockVars, chanVars, relayVars
<1>5. ASSUME RelayReceive PROVE ConnTypeOK'
  <2>1. /\ <<Head(writeChan)>> \in Seq(Packets) /\ Len(<<Head(writeChan)>>) = 1
        /\ Tail(writeChan) \in Seq(Packets) /\ Len(Tail(writeChan)) <= ChanCap
    BY <1>5 DEF RelayReceive
  <2>. QED BY <1>5, <2>1 DEF RelayReceive, lockVars, callVars
<1>6. ASSUME RelayExit PROVE ConnTypeOK'
  BY <1>6 DEF RelayExit, lockVars, chanVars, callVars
<1>7. ASSUME RelayForward PROVE ConnTypeOK'
  <2>1. readChan' \in Seq(Packets) /\ Len(readChan') <= ChanCap
    BY <1>7 DEF RelayForward
  <2>. QED BY <1>7, <2>1 DEF RelayForward, lockVars, callVars
<1>8. ASSUME RelayPanic PROVE ConnTypeOK'
  BY <1>8 DEF RelayPanic, lockVars, chanVars, callVars
<1>9. ASSUME ReadCheck PROVE ConnTypeOK'
  BY <1>9 DEF ReadCheck, lockVars, chanVars, relayVars
<1>10. ASSUME ReadReceive PROVE ConnTypeOK'
  <2>1. /\ Tail(readChan) \in Seq(Packets) /\ Len(Tail(readChan)) <= ChanCap
        /\ Append(received, Head(readChan)) \in Seq(Packets)
    BY <1>10 DEF ReadReceive
  <2>. QED BY <1>10, <2>1 DEF ReadReceive, lockVars, relayVars
<1>11. ASSUME ReadClosed PROVE ConnTypeOK'
  BY <1>11 DEF ReadClosed, lockVars, chanVars, relayVars
<1>16. ASSUME ReadTimeout PROVE ConnTypeOK'
  BY <1>16 DEF ReadTimeout, lockVars, chanVars, relayVars
<1>12. ASSUME NEW k \in Closers, CloseRead(k) PROVE ConnTypeOK'
  BY <1>12 DEF CloseRead, relayVars
<1>13. ASSUME NEW k \in Closers, CloseWrite(k) PROVE ConnTypeOK'
  <2>1. closing = {k}
    BY <1>13 DEF CloseWrite
  <2>. QED BY <1>13, <2>1 DEF CloseWrite, relayVars
<1>14. ASSUME NEW k \in Closers, CloseAgain(k) PROVE ConnTypeOK'
  BY <1>14 DEF CloseAgain, lockVars, chanVars, relayVars
<1>15. ASSUME UNCHANGED vars PROVE ConnTypeOK'
  BY <1>15 DEF vars, lockVars, chanVars, relayVars, callVars
<1>. QED BY <1>1, <1>2, <1>3, <1>4, <1>5, <1>6, <1>7, <1>8, <1>9, <1>10, <1>11,
            <1>12, <1>13, <1>14, <1>15, <1>16
         DEF Next, WriterStep, RelayStep, ReaderStep, CloserStep

LEMMA ConnInit ==
  ASSUME Init
  PROVE  ConnTypeOK
<1> USE ConnAssumption DEF Init
<1>1. <<>> \in Seq(Packets) /\ Len(<<>>) = 0
  OBVIOUS
<1>2. \A k \in Closers : cpc[k] # "between"
  OBVIOUS
<1>3. closing = {k \in Closers : cpc[k] = "between"}
  BY <1>2
<1>4. \A w \in Writers : wpc[w] # "sending"
  OBVIOUS
<1>5. /\ wpc \in [Writers -> {"idle", "sending", "panicked"}]
      /\ sent \in [Writers -> 0 .. MaxPackets]
      /\ cpc \in [Closers -> {"idle", "between", "done"}]
  OBVIOUS
<1>6. closing \subseteq Closers /\ (\A j, k \in closing : j = k) /\ LockFree
  BY DEF LockFree
<1>7. writeClosed = (closed /\ LockFree) /\ writeClosed \in BOOLEAN
  OBVIOUS
<1>8. /\ readChan \in Seq(Packets) /\ Len(readChan) <= ChanCap
      /\ writeChan \in Seq(Packets) /\ Len(writeChan) <= ChanCap
      /\ held \in Seq(Packets) /\ Len(held) <= 1 /\ received \in Seq(Packets)
  BY <1>1
<1>9. /\ closed \in BOOLEAN /\ readClosed \in BOOLEAN /\ readClosed = closed
      /\ closing # {} => closed
  OBVIOUS
<1>10. /\ relay \in {"receive", "forward", "exited", "panicked"}
       /\ relay = "forward" => Len(held) = 1
       /\ relay \in {"receive", "exited"} => held = <<>>
       /\ rpc \in {"idle", "receiving"}
  OBVIOUS
<1> HIDE DEF LockFree, Init
<1>. QED BY <1>3, <1>4, <1>5, <1>6, <1>7, <1>8, <1>9, <1>10, Zenon DEF ConnTypeOK

(* ConnTypeOK: types, channel capacities, and who closes what under which  *)
(* lock, for any number of writers and closers.                            *)
THEOREM ConnTypeHolds == Spec => []ConnTypeOK
<1>1. Init => ConnTypeOK
  BY ConnInit
<1>2. ConnTypeOK /\ [Next]_vars => ConnTypeOK'
  BY StepKeepsConnType
<1>. QED BY <1>1, <1>2, PTL DEF Spec

(* The packets on their way, in order.                                     *)
Flight == readChan \o held \o writeChan
DropsOne == \E i \in DOMAIN Flight : Tunnel!Lose(i)

(* A writer's send puts its packet at the end of the tunnel.               *)
LEMMA SendIsAccept ==
  ASSUME ConnTypeOK, NEW w \in Writers, WriteSend(w)
  PROVE  <<w, sent[w]>> \in Packets /\ Tunnel!Accept(<<w, sent[w]>>)
<1> DEFINE flight == readChan \o held \o writeChan
<1> USE DEF ConnTypeOK
<1>1. <<w, sent[w]>> \in Packets
  BY DEF WriteSend, Packets
<1>2. readChan \o held \in Seq(Packets) /\ writeChan \in Seq(Packets)
  OBVIOUS
<1>3. flight' = Append(flight, <<w, sent[w]>>)
  <2> DEFINE ahead == readChan \o held
             packet == <<w, sent[w]>>
  <2>1. flight' = ahead \o Append(writeChan, packet)
    BY DEF WriteSend, relayVars
  <2>2. ahead \in Seq(Packets) /\ writeChan \in Seq(Packets) /\ packet \in Packets
    BY <1>1, <1>2
  <2> HIDE DEF ahead, packet, ConnTypeOK
  <2>3. ahead \o Append(writeChan, packet) = Append(ahead \o writeChan, packet)
    BY <2>2, ConcatAppend
  <2>. QED BY <2>1, <2>3 DEF ahead, packet
<1>4. Tunnel!Accept(<<w, sent[w]>>)
  BY <1>3 DEF WriteSend, Tunnel!Accept
<1>. QED BY <1>1, <1>4

(* Every other step takes the first packet out of the tunnel at its end,   *)
(* loses one or leaves it alone.                                           *)
LEMMA OtherStepsTake ==
  ASSUME ConnTypeOK, [Next]_vars, \A w \in Writers : ~ WriteSend(w)
  PROVE  Tunnel!Deliver \/ DropsOne \/ UNCHANGED <<Flight, received>>
<1> DEFINE flight == readChan \o held \o writeChan
<1> USE DEF ConnTypeOK
<1>1. ASSUME RelayReceive PROVE UNCHANGED <<flight, received>>
  <2>1. held = <<>> /\ writeChan # <<>>
    BY <1>1 DEF RelayReceive
  <2>2. flight' = (readChan \o <<Head(writeChan)>>) \o Tail(writeChan)
    BY <1>1 DEF RelayReceive
  <2>3. (readChan \o <<Head(writeChan)>>) \o Tail(writeChan) = (readChan \o <<>>) \o writeChan
    <3>1. readChan \in Seq(Packets) /\ writeChan \in Seq(Packets)
      OBVIOUS
    <3>. QED BY <2>1, <3>1, ConcatMove
  <2>. QED BY <1>1, <2>1, <2>2, <2>3 DEF RelayReceive, callVars
<1>2. ASSUME RelayForward, Len(readChan) < ChanCap PROVE UNCHANGED <<flight, received>>
  <2>1. flight' = ((readChan \o held) \o <<>>) \o writeChan
    BY <1>2 DEF RelayForward
  <2>2. readChan \o held \in Seq(Packets)
    OBVIOUS
  <2>3. (readChan \o held) \o <<>> = readChan \o held
    BY <2>2, ConcatEmptySeq
  <2>. QED BY <1>2, <2>1, <2>3 DEF RelayForward, callVars
<1>3. ASSUME RelayForward, ~(Len(readChan) < ChanCap) PROVE Tunnel!Deliver \/ DropsOne
  <2>1. flight' = (readChan \o <<>>) \o writeChan
    BY <1>3 DEF RelayForward
  <2>2. Len(held) = 1
    BY <1>3 DEF RelayForward
  <2>3. readChan \in Seq(Packets) /\ held \in Seq(Packets) /\ writeChan \in Seq(Packets)
    OBVIOUS
  <2>4. /\ Len(readChan) + 1 \in DOMAIN flight
        /\ RemoveAt(flight, Len(readChan) + 1) = (readChan \o <<>>) \o writeChan
    <3> HIDE DEF ConnTypeOK
    <3>. QED BY <2>2, <2>3, ConcatRemove, ZenonT(60)
  <2> HIDE DEF flight
  <2>5. Tunnel!Lose(Len(readChan) + 1)
    <3>1. UNCHANGED received
      BY <1>3 DEF RelayForward, callVars
    <3>2. flight' = Tunnel!RemoveAt(flight, Len(readChan) + 1)
      BY <2>1, <2>4 DEF RemoveAt, Tunnel!RemoveAt
    <3>. QED BY <3>1, <3>2 DEF Tunnel!Lose, flight
  <2>. QED BY <2>4, <2>5 DEF DropsOne, Flight, flight
<1>4. ASSUME ReadReceive PROVE Tunnel!Deliver \/ DropsOne
  <2>1. /\ readChan \o held \in Seq(Packets)
        /\ readChan \o held # <<>>
        /\ Head(readChan \o held) = Head(readChan)
        /\ Tail(readChan \o held) = Tail(readChan) \o held
    BY <1>4, ConcatHeadTail DEF ReadReceive
  <2>2. /\ flight # <<>>
        /\ Head(flight) = Head(readChan)
        /\ Tail(flight) = (Tail(readChan) \o held) \o writeChan
    <3>1. writeChan \in Seq(Packets)
      OBVIOUS
    <3> DEFINE front == readChan \o held
    <3>2. /\ front \o writeChan # <<>>
          /\ Head(front \o writeChan) = Head(front)
          /\ Tail(front \o writeChan) = Tail(front) \o writeChan
      <4> HIDE DEF front
      <4>1. front \in Seq(Packets) /\ front # <<>>
        BY <2>1 DEF front
      <4>. QED BY <3>1, <4>1, ConcatHeadTail
    <3>. QED BY <2>1, <3>2
  <2>3. Tunnel!Deliver
    BY <1>4, <2>2 DEF Tunnel!Deliver, ReadReceive, relayVars
  <2>. QED BY <2>3
<1>5. ASSUME NEW w \in Writers, WriteCheck(w) \/ WritePanic(w) \/ WriteTimeout(w)
      PROVE  UNCHANGED <<flight, received>>
  BY <1>5 DEF WriteCheck, WritePanic, WriteTimeout, chanVars, relayVars
<1>6. ASSUME RelayExit \/ RelayPanic PROVE UNCHANGED <<flight, received>>
  BY <1>6 DEF RelayExit, RelayPanic, chanVars, callVars
<1>7. ASSUME ReadCheck \/ ReadClosed \/ ReadTimeout PROVE UNCHANGED <<flight, received>>
  BY <1>7 DEF ReadCheck, ReadClosed, ReadTimeout, chanVars, relayVars
<1>8. ASSUME NEW k \in Closers, CloserStep(k) PROVE UNCHANGED <<flight, received>>
  BY <1>8 DEF CloserStep, CloseRead, CloseWrite, CloseAgain, chanVars, relayVars
<1>9. ASSUME UNCHANGED vars PROVE UNCHANGED <<flight, received>>
  BY <1>9 DEF vars, chanVars, relayVars, callVars
<1>. QED BY <1>1, <1>2, <1>3, <1>4, <1>5, <1>6, <1>7, <1>8, <1>9
         DEF Next, WriterStep, RelayStep, ReaderStep, Flight

(* Every step of the connection is one of the tunnel or leaves it alone.   *)
LEMMA StepIsTunnelStep ==
  ASSUME ConnTypeOK, [Next]_vars
  PROVE  [Tunnel!TunnelNext]_<<Flight, received>>
<1>1. ASSUME NEW w \in Writers, WriteSend(w) PROVE Tunnel!TunnelNext
  BY <1>1, SendIsAccept DEF Tunnel!TunnelNext
<1>2. ASSUME Tunnel!Deliver \/ DropsOne PROVE Tunnel!TunnelNext
  BY <1>2 DEF DropsOne, Flight, Tunnel!TunnelNext
<1>. QED BY <1>1, <1>2, OtherStepsTake

(* TunnelSpec: whatever the interleaving of writers, relay, reader, timers *)
(* and Close, a packet that ReadPacket returns was written, comes once and *)
(* in the order of the writes.                                             *)
THEOREM MASQUEConnImplementsTunnel == Spec => TunnelSpec
<1>1. Init => Tunnel!TunnelInit
  BY DEF Init, Tunnel!TunnelInit
<1>2. ConnTypeOK /\ [Next]_vars =>
        [Tunnel!TunnelNext]_<<readChan \o held \o writeChan, received>>
  BY StepIsTunnelStep DEF Flight
<1>. QED BY <1>1, <1>2, ConnTypeHolds, PTL DEF Spec, TunnelSpec, Tunnel!TunnelSpec

-------------------------------------------------------------------------------
(* WritersKeepOrder.  A tunnel that keeps the order of what it accepts and *)
(* repeats nothing is not enough: a packet must also enter once, behind    *)
(* its writer's earlier ones.  Written: the packets with a number that     *)
(* their writer has used; that of a send in progress is not used yet.      *)
Precedes(p, q) == p[1] = q[1] => p[2] < q[2]

Written ==
  {p \in Packets : IF wpc[p[1]] = "sending" THEN p[2] < sent[p[1]]
                                            ELSE p[2] <= sent[p[1]]}

Behind(r, f) == \A i \in DOMAIN r, j \in DOMAIN f : Precedes(r[i], f[j])

OrderInv ==
  /\ InOrder(received) /\ InOrder(Flight) /\ Behind(received, Flight)
  /\ \A i \in DOMAIN received : received[i] \in Written
  /\ \A i \in DOMAIN Flight : Flight[i] \in Written

LEMMA WrittenStays ==
  ASSUME ConnTypeOK, [Next]_vars, NEW p \in Written
  PROVE  p \in Packets /\ p \in Written'
<1>. /\ p \in Packets /\ p[1] \in Writers /\ p[2] \in 1 .. MaxPackets
     /\ MaxPackets \in Nat
  BY ConnAssumption DEF Packets, Written
<1>. USE DEF Written, ConnTypeOK
<1>1. ASSUME NEW w \in Writers, WriteCheck(w) PROVE p \in Written'
  BY <1>1 DEF WriteCheck
<1>2. ASSUME NEW w \in Writers, WriteSend(w) \/ WritePanic(w) \/ WriteTimeout(w)
      PROVE  p \in Written'
  BY <1>2 DEF WriteSend, WritePanic, WriteTimeout
<1>3. ASSUME UNCHANGED <<wpc, sent>> PROVE p \in Written'
  BY <1>3
<1>4. ASSUME RelayStep \/ ReaderStep PROVE UNCHANGED <<wpc, sent>>
  BY <1>4 DEF RelayStep, RelayReceive, RelayExit, RelayForward, RelayPanic,
              ReaderStep, ReadCheck, ReadReceive, ReadClosed, ReadTimeout, callVars
<1>5. ASSUME NEW k \in Closers, CloserStep(k) PROVE UNCHANGED <<wpc, sent>>
  BY <1>5 DEF CloserStep, CloseRead, CloseWrite, CloseAgain
<1>6. ASSUME UNCHANGED vars PROVE UNCHANGED <<wpc, sent>>
  BY <1>6 DEF vars, callVars
<1>. QED BY <1>1, <1>2, <1>3, <1>4, <1>5, <1>6 DEF Next, WriterStep

LEMMA AcceptKeepsOrder ==
  ASSUME NEW f \in Seq(Packets), NEW r \in Seq(Packets), NEW p \in Packets,
         InOrder(f), Behind(r, f),
         \A i \in DOMAIN f : Precedes(f[i], p), \A i \in DOMAIN r : Precedes(r[i], p)
  PROVE  InOrder(Append(f, p)) /\ Behind(r, Append(f, p))
<1>. DEFINE g == Append(f, p)
<1>1. /\ DOMAIN g = 1 .. Len(f) + 1 /\ DOMAIN f = 1 .. Len(f) /\ Len(f) \in Nat
      /\ g[Len(f) + 1] = p /\ \A i \in 1 .. Len(f) : g[i] = f[i]
  OBVIOUS
<1>. HIDE DEF g
<1>2. InOrder(g)
  BY <1>1 DEF InOrder, Precedes
<1>3. Behind(r, g)
  BY <1>1 DEF Behind
<1>. QED BY <1>2, <1>3 DEF g

LEMMA DeliverKeepsOrder ==
  ASSUME NEW f \in Seq(Packets), NEW r \in Seq(Packets), f # <<>>,
         InOrder(f), InOrder(r), Behind(r, f)
  PROVE  /\ InOrder(Append(r, Head(f))) /\ InOrder(Tail(f))
         /\ Behind(Append(r, Head(f)), Tail(f))
<1>. DEFINE g == Tail(f)
            q == Append(r, Head(f))
<1>1. /\ DOMAIN g = 1 .. Len(f) - 1 /\ DOMAIN f = 1 .. Len(f) /\ Len(f) \in Nat \ {0}
      /\ \A i \in 1 .. Len(f) - 1 : g[i] = f[i + 1]
  OBVIOUS
<1>2. /\ DOMAIN q = 1 .. Len(r) + 1 /\ DOMAIN r = 1 .. Len(r) /\ Len(r) \in Nat
      /\ q[Len(r) + 1] = f[1] /\ \A i \in 1 .. Len(r) : q[i] = r[i]
  OBVIOUS
<1>. HIDE DEF g, q
<1>3. \A i \in DOMAIN r : Precedes(r[i], f[1])
  BY <1>1, <1>2 DEF Behind
<1>4. InOrder(q)
  BY <1>2, <1>3 DEF InOrder, Precedes
<1>5. InOrder(g)
  <2>. SUFFICES ASSUME NEW i \in DOMAIN g, NEW j \in DOMAIN g, i < j, g[i][1] = g[j][1]
                PROVE  g[i][2] < g[j][2]
    BY DEF InOrder
  <2>1. /\ i + 1 \in DOMAIN f /\ j + 1 \in DOMAIN f /\ i + 1 < j + 1
        /\ g[i] = f[i + 1] /\ g[j] = f[j + 1]
    BY <1>1
  <2>. QED BY <2>1 DEF InOrder
<1>6. ASSUME NEW i \in DOMAIN q, NEW j \in DOMAIN g PROVE Precedes(q[i], g[j])
  <2>1. g[j] = f[j + 1] /\ j + 1 \in DOMAIN f /\ 1 \in DOMAIN f /\ 1 < j + 1
    BY <1>1
  <2>2. CASE i = Len(r) + 1
    BY <1>2, <2>1, <2>2 DEF InOrder, Precedes
  <2>3. CASE i \in DOMAIN r
    BY <1>2, <2>1, <2>3 DEF Behind
  <2>. QED BY <1>2, <2>2, <2>3
<1>. QED BY <1>4, <1>5, <1>6 DEF Behind, g, q

LEMMA LoseKeepsOrder ==
  ASSUME NEW f \in Seq(Packets), NEW r \in Seq(Packets), NEW i \in DOMAIN f,
         InOrder(f), Behind(r, f)
  PROVE  /\ InOrder(RemoveAt(f, i)) /\ Behind(r, RemoveAt(f, i))
         /\ \A k \in DOMAIN RemoveAt(f, i) : \E j \in DOMAIN f : RemoveAt(f, i)[k] = f[j]
<1>. DEFINE front == SubSeq(f, 1, i - 1)
            back == SubSeq(f, i + 1, Len(f))
            g == front \o back
            place(k) == IF k < i THEN k ELSE k + 1
<1>0. i \in Nat /\ Len(f) \in Nat /\ i >= 1 /\ i <= Len(f) /\ DOMAIN f = 1 .. Len(f)
  OBVIOUS
<1>1. /\ front \in Seq(Packets) /\ Len(front) = i - 1
      /\ \A k \in 1 .. i - 1 : front[k] = f[k]
  <2>1. \A k \in 1 .. i - 1 : f[k] \in Packets
    BY <1>0
  <2>2. /\ front \in Seq(Packets)
        /\ Len(front) = IF 1 <= i - 1 THEN (i - 1) - 1 + 1 ELSE 0
        /\ \A k \in 1 .. (i - 1) - 1 + 1 : front[k] = f[1 + k - 1]
    BY <1>0, <2>1, SubSeqProperties
  <2>. HIDE DEF front
  <2>. QED BY <1>0, <2>2
<1>2. /\ back \in Seq(Packets) /\ Len(back) = Len(f) - i
      /\ \A k \in 1 .. Len(f) - i : back[k] = f[i + k]
  <2>1. \A k \in i + 1 .. Len(f) : f[k] \in Packets
    BY <1>0
  <2>2. /\ back \in Seq(Packets)
        /\ Len(back) = IF i + 1 <= Len(f) THEN Len(f) - (i + 1) + 1 ELSE 0
        /\ \A k \in 1 .. Len(f) - (i + 1) + 1 : back[k] = f[(i + 1) + k - 1]
    BY <1>0, <2>1, SubSeqProperties
  <2>. HIDE DEF back
  <2>3. Len(back) = Len(f) - i
    BY <1>0, <2>2
  <2>4. ASSUME NEW k \in 1 .. Len(f) - i PROVE back[k] = f[i + k]
    <3>1. k \in 1 .. Len(f) - (i + 1) + 1 /\ (i + 1) + k - 1 = i + k
      BY <1>0
    <3>. QED BY <2>2, <3>1
  <2>. QED BY <2>2, <2>3, <2>4
<1>3. RemoveAt(f, i) = g
  BY DEF RemoveAt
<1>. HIDE DEF front, back
<1>4. /\ g \in Seq(Packets) /\ Len(g) = Len(front) + Len(back)
      /\ \A k \in 1 .. Len(front) + Len(back) :
           g[k] = IF k <= Len(front) THEN front[k] ELSE back[k - Len(front)]
  BY <1>1, <1>2, ConcatProperties
<1>. HIDE DEF g
<1>5. DOMAIN g = 1 .. Len(f) - 1
  BY <1>0, <1>1, <1>2, <1>4
<1>6. ASSUME NEW k \in DOMAIN g PROVE place(k) \in DOMAIN f /\ g[k] = f[place(k)]
  <2>1. CASE k < i
    <3>1. k \in 1 .. i - 1 /\ k \in 1 .. Len(front) + Len(back) /\ k <= Len(front)
      BY <1>0, <1>1, <1>2, <1>5, <2>1
    <3>2. g[k] = f[k]
      BY <1>1, <1>4, <3>1
    <3>. QED BY <1>0, <1>5, <2>1, <3>1, <3>2
  <2>2. CASE ~(k < i)
    <3>1. ~(k <= Len(front)) /\ k - Len(front) = k - i + 1 /\ k - i + 1 \in 1 .. Len(f) - i
      BY <1>0, <1>1, <1>5, <2>2
    <3>2. g[k] = back[k - i + 1]
      <4>1. k \in 1 .. Len(front) + Len(back)
        BY <1>0, <1>1, <1>2, <1>5
      <4>2. g[k] = back[k - Len(front)]
        BY <1>4, <3>1, <4>1
      <4>. QED BY <3>1, <4>2
    <3>3. back[k - i + 1] = f[i + (k - i + 1)] /\ i + (k - i + 1) = k + 1
      BY <1>0, <1>2, <1>5, <3>1
    <3>. QED BY <1>0, <1>5, <2>2, <3>2, <3>3
  <2>. QED BY <2>1, <2>2
<1>7. \A j, k \in DOMAIN g : j < k => place(j) < place(k)
  BY <1>0, <1>5
<1>. HIDE DEF place
<1>8. InOrder(g)
  BY <1>6, <1>7 DEF InOrder
<1>9. Behind(r, g)
  BY <1>6 DEF Behind
<1>. QED BY <1>3, <1>6, <1>8, <1>9

LEMMA StepKeepsOrder ==
  ASSUME ConnTypeOK, OrderInv, [Next]_vars
  PROVE  OrderInv'
<1>1. Flight \in Seq(Packets) /\ received \in Seq(Packets)
  BY DEF ConnTypeOK, Flight
<1>2. /\ \A i \in DOMAIN Flight : Flight[i] \in Written'
      /\ \A i \in DOMAIN received : received[i] \in Written'
  BY WrittenStays DEF OrderInv
<1>3. ASSUME NEW w \in Writers, WriteSend(w) PROVE OrderInv'
  <2>. DEFINE p == <<w, sent[w]>>
  <2>1. p \in Packets /\ Flight' = Append(Flight, p) /\ received' = received
    BY <1>3, SendIsAccept DEF Tunnel!Accept, Flight
  <2>2. /\ \A i \in DOMAIN Flight : Precedes(Flight[i], p)
        /\ \A i \in DOMAIN received : Precedes(received[i], p)
    BY <1>3 DEF WriteSend, OrderInv, Written, Precedes
  <2>3. p \in Written'
    <3>1. wpc'[w] = "idle" /\ sent' = sent /\ sent[w] \in Nat
      BY <1>3, ConnAssumption DEF WriteSend, ConnTypeOK
    <3>. QED BY <2>1, <3>1 DEF Written
  <2>4. InOrder(Append(Flight, p)) /\ Behind(received, Append(Flight, p))
    BY <1>1, <2>1, <2>2, AcceptKeepsOrder DEF OrderInv
  <2>5. \A i \in DOMAIN Append(Flight, p) : Append(Flight, p)[i] \in Written'
    <3>. DEFINE W == Written'
    <3>1. p \in W /\ \A i \in DOMAIN Flight : Flight[i] \in W
      BY <1>2, <2>3
    <3>. HIDE DEF W, p
    <3>2. \A i \in DOMAIN Append(Flight, p) : Append(Flight, p)[i] \in W
      BY <1>1, <2>1, <3>1
    <3>. QED BY <3>2 DEF W
  <2>6. InOrder(received')
    BY <2>1 DEF OrderInv
  <2>. QED BY <1>2, <2>1, <2>4, <2>5, <2>6 DEF OrderInv
<1>4. ASSUME Tunnel!Deliver PROVE OrderInv'
  <2>1. /\ Flight # <<>> /\ Flight' = Tail(Flight)
        /\ received' = Append(received, Head(Flight))
    BY <1>4 DEF Tunnel!Deliver, Flight
  <2>2. /\ InOrder(received') /\ InOrder(Flight') /\ Behind(received', Flight')
    BY <1>1, <2>1, DeliverKeepsOrder DEF OrderInv
  <2>3. /\ \A i \in DOMAIN Flight' : Flight'[i] \in Written'
        /\ \A i \in DOMAIN received' : received'[i] \in Written'
    <3>. DEFINE W == Written'
    <3>1. /\ \A i \in DOMAIN Flight : Flight[i] \in W
          /\ \A i \in DOMAIN received : received[i] \in W
      BY <1>2
    <3>. HIDE DEF W
    <3>2. /\ \A i \in DOMAIN Tail(Flight) : Tail(Flight)[i] \in W
          /\ \A i \in DOMAIN Append(received, Head(Flight)) :
               Append(received, Head(Flight))[i] \in W
      BY <1>1, <2>1, <3>1
    <3>. QED BY <2>1, <3>2 DEF W
  <2>. QED BY <2>2, <2>3 DEF OrderInv
<1>5. ASSUME DropsOne PROVE OrderInv'
  <2>1. PICK i \in DOMAIN Flight : Flight' = RemoveAt(Flight, i) /\ received' = received
    BY <1>5 DEF DropsOne, Tunnel!Lose, Flight, RemoveAt, Tunnel!RemoveAt
  <2>2. /\ InOrder(Flight') /\ Behind(received', Flight')
        /\ \A k \in DOMAIN Flight' : \E j \in DOMAIN Flight : Flight'[k] = Flight[j]
    BY <1>1, <2>1, LoseKeepsOrder DEF OrderInv
  <2>3. \A k \in DOMAIN Flight' : Flight'[k] \in Written'
    BY <1>2, <2>2
  <2>4. InOrder(received')
    BY <2>1 DEF OrderInv
  <2>. QED BY <1>2, <2>1, <2>2, <2>3, <2>4 DEF OrderInv
<1>6. ASSUME UNCHANGED <<Flight, received>> PROVE OrderInv'
  BY <1>2, <1>6 DEF OrderInv
<1>. QED BY <1>3, <1>4, <1>5, <1>6, OtherStepsTake

(* Whatever is lost, a writer's packets are read in the order it wrote     *)
(* them, none twice.                                                       *)
THEOREM WritersStayInOrder == Spec => []WritersKeepOrder
<1>1. Init => OrderInv
  BY DEF Init, OrderInv, Flight, InOrder, Behind
<1>2. ConnTypeOK /\ OrderInv /\ [Next]_vars => OrderInv'
  BY StepKeepsOrder
<1>3. OrderInv => WritersKeepOrder
  BY DEF OrderInv, WritersKeepOrder
<1>. QED BY <1>1, <1>2, <1>3, ConnTypeHolds, PTL DEF Spec

(* NoPanic does not hold; but nothing panics before a Close, and not in a  *)
(* process in which nobody closes.                                         *)
THEOREM PanicNeedsClose == Spec => [](NoPanic \/ (closed /\ Closers # {}))
<1>. DEFINE Safe == /\ NoPanic \/ closed
                    /\ closed => Closers # {}
<1>1. Init => Safe
  BY DEF Init, NoPanic, Crashed
<1>2. ConnTypeOK /\ Safe /\ [Next]_vars => Safe'
  <2>. SUFFICES ASSUME ConnTypeOK, Safe, [Next]_vars PROVE Safe'
    OBVIOUS
  <2>. USE DEF NoPanic, Crashed
  <2>1. ASSUME NEW w \in Writers, WriterStep(w) PROVE Safe'
    BY <2>1 DEF WriterStep, WriteCheck, WriteSend, WritePanic, WriteTimeout, lockVars,
                relayVars, ConnTypeOK
  <2>2. ASSUME RelayStep PROVE Safe'
    BY <2>2 DEF RelayStep, RelayReceive, RelayExit, RelayForward, RelayPanic, lockVars,
                callVars, ConnTypeOK
  <2>3. ASSUME ReaderStep PROVE Safe'
    BY <2>3 DEF ReaderStep, ReadCheck, ReadReceive, ReadClosed, ReadTimeout, lockVars,
                relayVars
  <2>4. ASSUME NEW k \in Closers, CloserStep(k) PROVE Safe'
    BY <2>4 DEF CloserStep, CloseRead, CloseWrite, CloseAgain, lockVars, relayVars
  <2>5. ASSUME UNCHANGED vars PROVE Safe'
    BY <2>5 DEF vars, lockVars, relayVars, callVars
  <2>. QED BY <2>1, <2>2, <2>3, <2>4, <2>5 DEF Next
<1>3. Safe => NoPanic \/ (closed /\ Closers # {})
  OBVIOUS
<1>. HIDE DEF Safe
<1>. QED BY <1>1, <1>2, <1>3, ConnTypeHolds, PTL DEF Spec
===============================================================================
