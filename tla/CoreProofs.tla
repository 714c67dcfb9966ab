------------------------------ MODULE CoreProofs ------------------------------
(***************************************************************************)
(* Goroutines that use a registry entry outside its lock, for any number   *)
(* of clients, addresses and handlers.  The server's core takes steps of   *)
(* the registry or leaves it alone, so the registry's lemmas hold of it.   *)
(***************************************************************************)
EXTENDS IsolationProofs, CoreProperties, FiniteSetTheorems, FunctionTheorems

LEMMA CoreStepIsRegistryStep == ASSUME [CoreNext]_coreVars PROVE [Next]_vars
<1>1. ASSUME NEW h \in Handlers, Admit(h) \/ Store(h) \/ CleanupSession(h)
      PROVE  HandlerStep(h)
  BY <1>1 DEF Admit, Store, CleanupSession, HandlerStep
<1>2. ASSUME NEW h \in Handlers, StartSession(h) \/ HandlerReturns(h) \/ ProxyStep(h)
      PROVE  UNCHANGED vars
  BY <1>2 DEF StartSession, HandlerReturns, ProxyStep, ProxyLoop, ProxyCall, ProxyReceive,
              ProxySkip, ProxyTimeout, ProxyWrite, ProxyWriteFails, Proxy
<1>3. ASSUME (\E a \in Addresses : LookUp(a)) \/ Forward \/ ForwardFails
      PROVE  UNCHANGED vars
  BY <1>3 DEF LookUp, Forward, ForwardFails, Forget
<1>4. ASSUME Others PROVE Next
  BY <1>4 DEF Others, Next
<1>5. ASSUME UNCHANGED coreVars PROVE UNCHANGED vars
  BY <1>5 DEF coreVars
<1>. QED BY <1>1, <1>2, <1>3, <1>4, <1>5 DEF CoreNext, Next

(* The core implements the registry: with its other variables hidden it    *)
(* starts and steps like it.                                               *)
THEOREM CoreImplementsRegistry == CoreSpec => Init /\ [][Next]_vars
<1>1. CoreInit => Init
  BY DEF CoreInit
<1>. QED BY <1>1, CoreStepIsRegistryStep, PTL DEF CoreSpec

LEMMA CoreKeepsRegistry == CoreSpec => []RegistryInv
<1>1. CoreInit => RegistryInv
  BY RegistryInit DEF CoreInit
<1>2. RegistryInv /\ [CoreNext]_coreVars => RegistryInv'
  BY CoreStepIsRegistryStep, StepKeepsPool, StepKeepsTypes, StepKeepsHolders,
     StepKeepsRoutes, StepKeepsAssignments DEF RegistryInv, PoolInv
<1>. QED BY <1>1, <1>2, PTL DEF CoreSpec

(* TypeOK, RoutesAreServed, NoStaleAssignment, NoAddressLeak and           *)
(* PoolPartition are not lost to what the goroutines beside the registry   *)
(* do, in any environment: clients that reconnect, administrators that     *)
(* disconnect them, a server that closes.                                  *)
THEOREM CoreKeepsRoutesAndAddresses ==
  CoreSpec => [](TypeOK /\ RoutesAreServed /\ NoStaleAssignment
                 /\ NoAddressLeak /\ PoolPartition)
<1>1. RegistryInv => /\ TypeOK /\ RoutesAreServed /\ NoStaleAssignment
                     /\ NoAddressLeak /\ PoolPartition
  BY DEF RegistryInv
<1>. QED BY <1>1, CoreKeepsRegistry, PTL

LEMMA CoreUsesPool == CoreSpec => PoolSpec
<1>1. CoreInit => PoolInit
  BY DEF CoreInit, Init
<1>2. RegistryInv /\ [CoreNext]_coreVars => [PoolNext]_poolVars
  BY CoreStepIsRegistryStep, StepIsPoolStep
<1>. QED BY <1>1, <1>2, CoreKeepsRegistry, PTL DEF CoreSpec, PoolSpec

(* LeasesSpec: the pool of a server that carries packets implements the    *)
(* lease specification.                                                    *)
THEOREM CorePoolImplementsLeases == CoreSpec => LeasesSpec
BY CoreUsesPool, PoolImplementsLeases, PTL

(* ReuseInReleaseOrder: an address a late proxy may still write with queues*)
(* behind all that were free before its release.                           *)
THEOREM CoreReusesInOrder == CoreSpec => ReuseInReleaseOrder
BY CoreUsesPool, PoolReusesInOrder, PTL

(* However often leases are released twice, by a cleanup and by an         *)
(* administrator, the counts of Stats add up to the size of the pool.      *)
THEOREM ServerStatsStayExact ==
  ASSUME IsFiniteSet(Addresses) PROVE CoreSpec => []StatsAddUp
BY StatsStayExact, CoreUsesPool, PTL

(* A step of a proxy, with where it leads.                                 *)
LEMMA ProxyStepEffect ==
  ASSUME CoreTypeOK, NEW h \in Handlers, ProxyStep(h)
  PROVE  /\ UNCHANGED <<vars, proxyIP, feedVars, metricVars>>
         /\ proxy[h] # "off"
         /\ \E s \in {"off", "loop", "calling", "reading", "writing"} :
              proxy' = [proxy EXCEPT ![h] = s]
         /\ late' = late \/ late' = [late EXCEPT ![h] = @ + 1]
<1>1. PICK from \in {"loop", "calling", "reading", "writing"},
           to \in {"off", "loop", "calling", "reading", "writing"} : Proxy(h, from, to)
  BY DEF ProxyStep, ProxyLoop, ProxyCall, ProxyReceive, ProxySkip, ProxyTimeout,
         ProxyWrite, ProxyWriteFails
<1>2. late' = late \/ late' = [late EXCEPT ![h] = @ + 1]
  BY DEF ProxyStep, ProxyLoop, ProxyCall, ProxyReceive, ProxySkip, ProxyTimeout,
         ProxyWrite, ProxyWriteFails
<1>. QED BY <1>1, <1>2 DEF Proxy

LEMMA StepKeepsCoreTypes ==
  ASSUME RegistryInv, CoreTypeOK, [CoreNext]_coreVars
  PROVE  CoreTypeOK'
<1>. TypeOK /\ RoutesAreServed
  BY DEF RegistryInv
<1>. USE DEF CoreTypeOK
<1>1. ASSUME NEW h \in Handlers, Admit(h) PROVE CoreTypeOK'
  <2>1. /\ Unreferenced(h) /\ UNCHANGED <<proxyVars, feedVars, metricVars>>
        /\ pc' = [pc EXCEPT ![h] = "assigned"]
        /\ \E x : assignedIP' = [assignedIP EXCEPT ![h] = x]
    BY <1>1 DEF Admit, ReuseAssignment, AssignNew, Arrive
  <2>. QED BY <2>1 DEF Unreferenced, proxyVars, feedVars, metricVars, TypeOK
<1>2. ASSUME NEW h \in Handlers, Store(h) PROVE CoreTypeOK'
  BY <1>2 DEF Store, StoreSession, proxyVars, feedVars, metricVars, TypeOK
<1>3. ASSUME NEW h \in Handlers, StartSession(h) PROVE CoreTypeOK'
  BY <1>3 DEF StartSession, RecordConnection, vars, handlerVars, feedVars, TypeOK
<1>4. ASSUME NEW h \in Handlers, CleanupSession(h) PROVE CoreTypeOK'
  BY <1>4 DEF CleanupSession, Cleanup, HandlerEnds, proxyVars, feedVars, metricVars,
              TypeOK
<1>5. ASSUME NEW h \in Handlers, HandlerReturns(h) PROVE CoreTypeOK'
  BY <1>5 DEF HandlerReturns, RecordDisconnection, vars, handlerVars, proxyVars, feedVars
<1>6. ASSUME NEW h \in Handlers, ProxyStep(h) PROVE CoreTypeOK'
  <2>1. PICK s \in {"off", "loop", "calling", "reading", "writing"} :
          proxy' = [proxy EXCEPT ![h] = s]
    BY <1>6, ProxyStepEffect
  <2>2. /\ UNCHANGED <<vars, proxyIP, feedVars, metricVars>> /\ proxy[h] # "off"
        /\ late' = late \/ late' = [late EXCEPT ![h] = @ + 1]
    BY <1>6, ProxyStepEffect
  <2>3. late' \in [Handlers -> Nat]
    BY <2>2
  <2>. QED BY <2>1, <2>2, <2>3 DEF vars, handlerVars, feedVars, metricVars
<1>7. ASSUME NEW a \in Addresses, LookUp(a) PROVE CoreTypeOK'
  <2>1. /\ IPConnMap[a] \in Handlers
        /\ pc[IPConnMap[a]] = "serving" /\ assignedIP[IPConnMap[a]] = a
    BY <1>7 DEF LookUp, TypeOK, RoutesAreServed
  <2>. QED BY <1>7, <2>1 DEF LookUp, vars, handlerVars, proxyVars, metricVars
<1>8. ASSUME Forward \/ ForwardFails PROVE CoreTypeOK'
  <2>1. inHand' = Nobody /\ dest' = Nobody /\ UNCHANGED <<vars, proxyVars, metricVars>>
    BY <1>8 DEF Forward, ForwardFails, Forget
  <2>. QED BY <2>1, RegistryAssumption DEF vars, handlerVars, proxyVars, metricVars
<1>9. ASSUME Others \/ UNCHANGED coreVars PROVE CoreTypeOK'
  <2>1. UNCHANGED <<pc, assignedIP, proxyVars, feedVars, metricVars>>
    BY <1>9 DEF Others, AdminStep, Disconnect, ReleaseDisconnected, CloseServer,
                handlerVars, coreVars, vars
  <2>. QED BY <2>1 DEF proxyVars, feedVars, metricVars
<1>. QED BY <1>1, <1>2, <1>3, <1>4, <1>5, <1>6, <1>7, <1>8, <1>9 DEF CoreNext

LEMMA CoreInitTypes == ASSUME CoreInit PROVE CoreTypeOK
BY RegistryAssumption DEF CoreInit, CoreTypeOK, Init

(* CoreTypeOK: a session that processPackets found under the lock keeps    *)
(* its handler and its address for as long as it is in its hand and not    *)
(* cleaned up; a proxy of a serving handler works with that one's address. *)
THEOREM CoreTypeHolds == CoreSpec => []CoreTypeOK
<1>1. RegistryInv /\ CoreTypeOK /\ [CoreNext]_coreVars => CoreTypeOK'
  BY StepKeepsCoreTypes
<1>2. CoreInit => CoreTypeOK
  BY CoreInitTypes
<1>. QED BY <1>1, <1>2, CoreKeepsRegistry, PTL DEF CoreSpec

-------------------------------------------------------------------------------
(* A session that has written late has passed its only chance: the next    *)
(* ReadPacket finds the connection closed.  A proxy in any other place has *)
(* not written late yet.                                                   *)
LateInv ==
  \A h \in Handlers :
    /\ late[h] \in {0, 1}
    /\ late[h] = 1 /\ proxy[h] # "off" =>
         ~connOpen[h] /\ proxy[h] \in {"loop", "calling"}

(* Only the store of its session opens a connection.                       *)
LEMMA OnlyStoreOpens ==
  ASSUME TypeOK, [Next]_vars, NEW h \in Handlers, connOpen'[h], ~connOpen[h]
  PROVE  pc[h] = "assigned"
<1>1. ASSUME NEW g \in Handlers, NEW c \in Clients,
             ReuseAssignment(g, c) \/ AssignNew(g, c)
      PROVE  UNCHANGED connOpen
  BY <1>1 DEF ReuseAssignment, AssignNew, Arrive
<1>2. ASSUME NEW g \in Handlers, StoreSession(g) PROVE pc[h] = "assigned"
  BY <1>2 DEF StoreSession, TypeOK
<1>3. ASSUME NEW g \in Handlers, Cleanup(g) PROVE FALSE
  BY <1>3 DEF Cleanup, DropSession
<1>4. ASSUME NEW d \in Admins, AdminStep(d) PROVE FALSE
  BY <1>4 DEF AdminStep, Disconnect, DropSession, ReleaseDisconnected
<1>5. ASSUME CloseServer PROVE FALSE
  BY <1>5 DEF CloseServer
<1>6. ASSUME UNCHANGED vars PROVE FALSE
  BY <1>6 DEF vars
<1>. QED BY <1>1, <1>2, <1>3, <1>4, <1>5, <1>6 DEF Next, HandlerStep

LEMMA StepKeepsLate ==
  ASSUME RegistryInv, CoreTypeOK, LateInv, [CoreNext]_coreVars
  PROVE  LateInv'
<1>. TypeOK
  BY DEF RegistryInv
<1>0. \A h \in Handlers : connOpen'[h] => connOpen[h] \/ proxy[h] = "off"
  BY CoreStepIsRegistryStep, OnlyStoreOpens DEF CoreTypeOK
<1>1. ASSUME UNCHANGED <<late, proxy>> PROVE LateInv'
  BY <1>0, <1>1 DEF LateInv
<1>2. ASSUME NEW h \in Handlers, StartSession(h) PROVE LateInv'
  BY <1>2 DEF StartSession, LateInv, CoreTypeOK, vars
<1>3. ASSUME NEW h \in Handlers, ProxyLoop(h) PROVE LateInv'
  <2>1. \E s \in {"calling", "off"} : proxy' = [proxy EXCEPT ![h] = s]
    BY <1>3 DEF ProxyLoop, Proxy
  <2>. QED BY <1>0, <1>3, <2>1 DEF ProxyLoop, Proxy, LateInv, CoreTypeOK
<1>4. ASSUME NEW h \in Handlers, ProxyCall(h) PROVE LateInv'
  <2>1. CASE connOpen[h]
    <3>1. late[h] = 0
      BY <1>4, <2>1 DEF ProxyCall, Proxy, LateInv
    <3>. QED BY <1>0, <1>4, <3>1 DEF ProxyCall, Proxy, LateInv, CoreTypeOK
  <2>2. CASE ~connOpen[h]
    BY <1>0, <1>4, <2>2 DEF ProxyCall, Proxy, LateInv, CoreTypeOK
  <2>. QED BY <2>1, <2>2
<1>5. ASSUME NEW h \in Handlers,
             \/ ProxyReceive(h) \/ ProxySkip(h) \/ ProxyTimeout(h)
             \/ ProxyWriteFails(h)
      PROVE  LateInv'
  <2>1. late[h] = 0 /\ UNCHANGED late
    BY <1>5 DEF ProxyReceive, ProxySkip, ProxyTimeout, ProxyWriteFails, Proxy, LateInv
  <2>2. \E s \in {"writing", "loop", "off"} : proxy' = [proxy EXCEPT ![h] = s]
    BY <1>5 DEF ProxyReceive, ProxySkip, ProxyTimeout, ProxyWriteFails, Proxy
  <2>. QED BY <1>0, <2>1, <2>2 DEF LateInv, CoreTypeOK
<1>6. ASSUME NEW h \in Handlers, ProxyWrite(h) PROVE LateInv'
  <2>1. late[h] = 0 /\ proxy' = [proxy EXCEPT ![h] = "loop"] /\ UNCHANGED connOpen
    BY <1>6 DEF ProxyWrite, Proxy, LateInv, vars
  <2>2. CASE connOpen[h]
    BY <1>0, <1>6, <2>1, <2>2 DEF ProxyWrite, LateInv, CoreTypeOK
  <2>3. CASE ~connOpen[h]
    <3>1. late' = [late EXCEPT ![h] = 1]
      BY <1>6, <2>1, <2>3 DEF ProxyWrite, CoreTypeOK
    <3>. QED BY <2>1, <2>3, <3>1 DEF LateInv, CoreTypeOK
  <2>. QED BY <2>2, <2>3
<1>7. ASSUME CoreNext PROVE \/ UNCHANGED <<late, proxy>>
                            \/ \E h \in Handlers : StartSession(h) \/ ProxyStep(h)
  BY <1>7 DEF CoreNext, Admit, Store, CleanupSession, HandlerReturns, LookUp, Forward,
              ForwardFails, Forget, Others, proxyVars
<1>. QED BY <1>1, <1>2, <1>3, <1>4, <1>5, <1>6, <1>7 DEF ProxyStep, coreVars, proxyVars

(* LateWritesBounded: whatever administrators do and however requests      *)
(* overlap, a closed session writes at most one more packet.               *)
THEOREM LateWritesStayBounded == CoreSpec => []LateWritesBounded
<1>1. CoreInit => LateInv
  BY DEF CoreInit, LateInv
<1>2. RegistryInv /\ CoreTypeOK /\ LateInv /\ [CoreNext]_coreVars => LateInv'
  BY StepKeepsLate
<1>3. LateInv => LateWritesBounded
  BY DEF LateInv, LateWritesBounded
<1>. QED BY <1>1, <1>2, <1>3, CoreKeepsRegistry, CoreTypeHolds, PTL DEF CoreSpec

-------------------------------------------------------------------------------
(* In an exclusive environment.                                            *)
CoreInv == CoreTypeOK /\ IsolationInv /\ NoConnLeak /\ ServingIsRouted

LEMMA CoreIsolation == ASSUME Exclusive PROVE CoreSpec => []CoreInv
<1>1. CoreInit => IsolationInv /\ NoConnLeak /\ ServingIsRouted
  <2>1. CoreInit => RegistryInv
    BY RegistryInit DEF CoreInit
  <2>. QED BY <2>1 DEF CoreInit, Init, IsolationInv, LeaseIsKept, OneHandlerPerClient,
                       NoConnLeak, ServingIsRouted
<1>2. /\ IsolationInv /\ NoConnLeak /\ ServingIsRouted
      /\ [CoreNext]_coreVars
      => IsolationInv' /\ NoConnLeak' /\ ServingIsRouted'
  BY CoreStepIsRegistryStep, StepKeepsIsolation, StepKeepsConns, StepKeepsServing
<1>. QED BY <1>1, <1>2, CoreTypeHolds, PTL DEF CoreSpec, CoreInv

(* LeaseIsKept, NoConnLeak and StatusIsTruthful are not lost to what the   *)
(* goroutines beside the registry do.                                      *)
THEOREM CoreKeepsLeases ==
  ASSUME Exclusive PROVE CoreSpec => [](LeaseIsKept /\ NoConnLeak /\ StatusIsTruthful)
<1>1. CoreInv => LeaseIsKept /\ NoConnLeak /\ StatusIsTruthful
  BY RoutedMeansTruthful DEF CoreInv, IsolationInv
<1>. QED BY <1>1, CoreIsolation, PTL

(* RegisteredLeasesSpec: ClientIPMap of a server that carries packets      *)
(* implements the lease specification.                                     *)
THEOREM CoreImplementsLeases ==
  ASSUME Exclusive PROVE CoreSpec => RegisteredLeasesSpec
<1>1. CoreInit => Registered!LeasesInit
  BY InitIsLeaseInit DEF CoreInit
<1>2. CoreInv /\ [CoreNext]_coreVars => [Registered!LeasesNext]_RegistryLeases
  BY CoreStepIsRegistryStep, StepIsLeaseStep DEF CoreInv
<1>. QED BY <1>1, <1>2, CoreIsolation, PTL
     DEF CoreSpec, RegisteredLeasesSpec, Registered!LeasesSpec

(* SourceIsLeased: the proxy's own copy of the address cannot be stale     *)
(* while its connection is open.                                           *)
THEOREM SourcesAreLeased == ASSUME Exclusive PROVE CoreSpec => SourceIsLeased
<1>1. ASSUME CoreInv, NEW h \in Handlers, ProxyWrite(h), connOpen[h]
      PROVE  allocated[proxyIP[h]] = clientID[h]
  <2>1. pc[h] = "serving"
    BY <1>1 DEF CoreInv, NoConnLeak
  <2>2. counted[h]
    BY <1>1, <2>1 DEF CoreInv, CoreTypeOK, ProxyWrite, Proxy
  <2>3. proxyIP[h] = assignedIP[h]
    BY <1>1, <2>1, <2>2 DEF CoreInv, CoreTypeOK
  <2>. QED BY <1>1, <2>1, <2>3 DEF CoreInv, IsolationInv, LeaseIsKept
<1>2. CoreInv => [ \A h \in Handlers : ProxyWrite(h) /\ connOpen[h] =>
                     allocated[proxyIP[h]] = clientID[h] ]_coreVars
  BY <1>1
<1>. QED BY <1>2, CoreIsolation, PTL DEF SourceIsLeased

(* StaleLookupIsHarmless: an open connection is still the routed one of the*)
(* address it was found under.                                             *)
THEOREM StaleLookupsAreHarmless ==
  ASSUME Exclusive PROVE CoreSpec => StaleLookupIsHarmless
<1>1. ASSUME CoreInv, Forward
      PROVE  IPConnMap[dest] = inHand /\ ClientIPMap[clientID[inHand]] = dest
  <2>1. inHand \in Handlers /\ connOpen[inHand]
    BY <1>1 DEF CoreInv, CoreTypeOK, Forward
  <2>2. pc[inHand] = "serving" /\ IPConnMap[assignedIP[inHand]] = inHand
    BY <1>1, <2>1 DEF CoreInv, NoConnLeak
  <2>3. assignedIP[inHand] = dest
    BY <1>1, <2>1, <2>2 DEF CoreInv, CoreTypeOK
  <2>. QED BY <1>1, <2>1, <2>2, <2>3 DEF CoreInv, IsolationInv, LeaseIsKept
<1>2. CoreInv => [ Forward => /\ IPConnMap[dest] = inHand
                              /\ ClientIPMap[clientID[inHand]] = dest ]_coreVars
  BY <1>1
<1>. QED BY <1>2, CoreIsolation, PTL DEF StaleLookupIsHarmless

(* The gauge counts the handlers between its two updates.                  *)
Running == {h \in Handlers : counted[h]}
GaugeInv == gauge = Cardinality(Running)

LEMMA StepKeepsGauge ==
  ASSUME IsFiniteSet(Handlers), CoreTypeOK, [CoreNext]_coreVars,
         GaugeInv
  PROVE  GaugeInv'
<1>. USE DEF Running, GaugeInv
<1>. IsFiniteSet(Running)
  BY FS_Subset
<1>1. ASSUME NEW h \in Handlers, StartSession(h) PROVE GaugeInv'
  <2>1. Running' = Running \cup {h} /\ h \notin Running /\ gauge' = gauge + 1
    BY <1>1 DEF StartSession, RecordConnection, CoreTypeOK
  <2>. QED BY <2>1, FS_AddElement
<1>2. ASSUME NEW h \in Handlers, HandlerReturns(h) PROVE GaugeInv'
  <2>1. Running' = Running \ {h} /\ h \in Running /\ gauge' = gauge - 1
    BY <1>2 DEF HandlerReturns, RecordDisconnection, CoreTypeOK
  <2>. QED BY <2>1, FS_RemoveElement
<1>3. ASSUME UNCHANGED <<counted, gauge>> PROVE GaugeInv'
  BY <1>3
<1>4. ASSUME NEW h \in Handlers, ProxyStep(h) PROVE UNCHANGED <<counted, gauge>>
  BY <1>4, ProxyStepEffect DEF metricVars
<1>. QED BY <1>1, <1>2, <1>3, <1>4
         DEF CoreNext, Admit, Store, CleanupSession, LookUp, Forward, ForwardFails, Forget,
             Others, metricVars, coreVars

LEMMA GaugeInit == ASSUME CoreInit PROVE GaugeInv
<1>1. Running = {} /\ gauge = 0
  BY DEF CoreInit, Running
<1>. QED BY <1>1, FS_EmptySet DEF GaugeInv

(* In any environment the gauge of the metrics counts the handlers between *)
(* StartSession and their deferred calls: no order of connects, evictions, *)
(* disconnects and a shutdown makes RecordConnection and                   *)
(* RecordDisconnection drift apart.                                        *)
THEOREM GaugeCountsHandlers ==
  ASSUME IsFiniteSet(Handlers)
  PROVE  CoreSpec => [](gauge = Cardinality({h \in Handlers : counted[h]}))
<1>1. CoreInit => GaugeInv
  BY GaugeInit
<1>2. CoreTypeOK /\ GaugeInv /\ [CoreNext]_coreVars => GaugeInv'
  BY StepKeepsGauge
<1>3. GaugeInv => gauge = Cardinality({h \in Handlers : counted[h]})
  BY DEF GaugeInv, Running
<1>. QED BY <1>1, <1>2, <1>3, CoreTypeHolds, PTL DEF CoreSpec

(* A serving handler's session is the one active session of its address.   *)
LEMMA ServingIsActive ==
  ASSUME IsFiniteSet(Handlers), CoreInv
  PROVE  Cardinality({h \in Handlers : pc[h] = "serving"}) = Cardinality(ActiveSessions)
<1>. DEFINE S == {h \in Handlers : pc[h] = "serving"}
            f == [h \in S |-> assignedIP[h]]
<1>. TypeOK /\ RoutesAreServed /\ ServingIsRouted
  BY DEF CoreInv, IsolationInv, RegistryInv
<1>1. \A h \in S : /\ assignedIP[h] \in Addresses /\ IPConnMap[assignedIP[h]] = h
                   /\ h # Nobody
  BY RegistryAssumption, RunningLocals DEF ServingIsRouted
<1>2. f \in [S -> ActiveSessions] /\ \A g, h \in S : f[g] = f[h] => g = h
  BY <1>1 DEF ActiveSessions
<1>3. ASSUME NEW a \in ActiveSessions PROVE \E h \in S : f[h] = a
  <2>1. IPConnMap[a] \in S /\ assignedIP[IPConnMap[a]] = a
    BY <1>3 DEF ActiveSessions, RoutesAreServed, TypeOK
  <2>. QED BY <2>1
<1>4. ExistsBijection(S, ActiveSessions)
  <2>. HIDE DEF f, S
  <2>1. f \in Injection(S, ActiveSessions)
    BY <1>2, Fun_IsInj
  <2>2. f \in Surjection(S, ActiveSessions)
    BY <1>2, <1>3, Fun_IsSurj
  <2>. QED BY <2>1, <2>2 DEF Bijection, ExistsBijection
<1>5. IsFiniteSet(S)
  BY FS_Subset
<1>. QED BY <1>4, <1>5, FS_Bijection

(* GaugeAgreesWithStatus: the gauge and the count of GET /status differ    *)
(* only while a handler is between its two updates.                        *)
THEOREM GaugeAgrees ==
  ASSUME Exclusive, IsFiniteSet(Handlers)
  PROVE  CoreSpec => []GaugeAgreesWithStatus
<1>1. CoreInit => GaugeInv
  BY GaugeInit
<1>2. CoreTypeOK /\ GaugeInv /\ [CoreNext]_coreVars => GaugeInv'
  BY StepKeepsGauge
<1>3. CoreInv /\ GaugeInv => GaugeAgreesWithStatus
  <2> SUFFICES ASSUME CoreInv, GaugeInv,
                      \A h \in Handlers : pc[h] = "serving" <=> counted[h]
               PROVE  gauge = Cardinality(ActiveSessions)
    BY DEF GaugeAgreesWithStatus
  <2>1. Running = {h \in Handlers : pc[h] = "serving"}
    BY DEF Running, CoreInv, CoreTypeOK
  <2>. QED BY <2>1, ServingIsActive DEF GaugeInv
<1>4. CoreInv => CoreTypeOK
  BY DEF CoreInv
<1>. QED BY <1>1, <1>2, <1>3, <1>4, CoreIsolation, PTL DEF CoreSpec
===============================================================================
