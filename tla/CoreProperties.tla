---------------------------- MODULE CoreProperties ----------------------------
(***************************************************************************)
(* What packets may rely on although goroutines use the registry's entries *)
(* after they dropped its lock.                                            *)
(***************************************************************************)
EXTENDS ServerCore, RegistryProperties, FiniteSets

(* The variables have their types; a proxy runs with the address of its    *)
(* session, which is its handler's for as long as that one serves.         *)
CoreTypeOK ==
  /\ counted \in [Handlers -> BOOLEAN]
  /\ proxy \in [Handlers -> {"off", "loop", "calling", "reading", "writing"}]
  /\ proxyIP \in [Handlers -> Addresses \cup {Nobody}]
  /\ late \in [Handlers -> Nat]
  /\ inHand \in Handlers \cup {Nobody} /\ dest \in Addresses \cup {Nobody}
  /\ gauge \in Int
  /\ \A h \in Handlers :
       /\ pc[h] = "assigned" => ~counted[h]
       /\ pc[h] # "idle" /\ ~counted[h] => proxy[h] = "off"
       /\ pc[h] = "serving" /\ counted[h] => proxyIP[h] = assignedIP[h]
       /\ inHand = h /\ pc[h] # "idle" => pc[h] = "serving" /\ assignedIP[h] = dest

(* A session that was closed puts at most one more packet with its address *)
(* on the network, however many are buffered in its connection and however *)
(* long its proxy outlives the release of that address: the source was     *)
(* compared before the close, the write comes after it.                    *)
LateWritesBounded == \A h \in Handlers : late[h] <= 1

(* Any other packet a proxy writes carries an address that is, at that     *)
(* moment, leased to the client that sent it (proxyClientToTun looks at    *)
(* its own copy of the address, never at the registry).                    *)
SourceIsLeased ==
  [][ \A h \in Handlers : ProxyWrite(h) /\ connOpen[h] =>
        allocated[proxyIP[h]] = clientID[h] ]_coreVars

(* processPackets uses the session after it dropped the lock.  Yet a       *)
(* packet it passes on goes to the session that is, at that moment, routed *)
(* for the packet's address, and to the client that address is assigned to.*)
StaleLookupIsHarmless ==
  [][ Forward => /\ IPConnMap[dest] = inHand
                 /\ ClientIPMap[clientID[inHand]] = dest ]_coreVars

(* The gauge of the metrics and the count of GET /status agree whenever no *)
(* handler is between its two updates, although one counts handlers and the*)
(* other addresses.                                                        *)
GaugeAgreesWithStatus ==
  (\A h \in Handlers : pc[h] = "serving" <=> counted[h]) =>
    gauge = Cardinality(ActiveSessions)
===============================================================================
