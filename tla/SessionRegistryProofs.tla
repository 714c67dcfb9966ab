------------------------- MODULE SessionRegistryProofs -------------------------
(***************************************************************************)
(* The registry's invariants for every number of clients, addresses,       *)
(* handlers and administrators, and what they say of the server's pool.    *)
(***************************************************************************)
EXTENDS RegistryProperties, IPPoolProofs

(* Whether or not the address was held, nobody holds it after Release.     *)
LEMMA ReleaseEffect ==
  ASSUME PoolTypeOK, NEW a \in Addresses, Release(a)
  PROVE  allocated' = [allocated EXCEPT ![a] = Nobody]
BY DEF PoolTypeOK, Release, poolVars

(* The locals of a handler that runs.                                      *)
LEMMA RunningLocals ==
  ASSUME TypeOK, NEW h \in Handlers, pc[h] # "idle"
  PROVE  clientID[h] \in Clients /\ assignedIP[h] \in Addresses
BY DEF TypeOK

(* Every step keeps the pool's partition: steps call its methods or leave  *)
(* it alone.                                                               *)
LEMMA StepKeepsPool ==
  ASSUME RegistryInv, [Next]_vars
  PROVE  PoolInv'
<1>. PoolInv /\ TypeOK
  BY DEF RegistryInv, PoolInv, TypeOK
<1>1. ASSUME NEW h \in Handlers, NEW c \in Clients, ReuseAssignment(h, c)
      PROVE  UNCHANGED poolVars
  BY <1>1 DEF ReuseAssignment
<1>2. ASSUME NEW h \in Handlers, NEW c \in Clients, AssignNew(h, c)
      PROVE  PoolInv'
  BY <1>2, AllocatePreservesPool DEF AssignNew
<1>3. ASSUME NEW h \in Handlers, StoreSession(h) PROVE UNCHANGED poolVars
  BY <1>3 DEF StoreSession
<1>4. ASSUME NEW h \in Handlers, Cleanup(h) PROVE PoolInv'
  BY <1>4, RunningLocals, ReleasePreservesPool DEF Cleanup
<1>5. ASSUME NEW d \in Admins, NEW c \in Clients, Disconnect(d, c)
      PROVE  UNCHANGED poolVars
  BY <1>5 DEF Disconnect
<1>6. ASSUME NEW d \in Admins, ReleaseDisconnected(d) PROVE PoolInv'
  BY <1>6, ReleasePreservesPool DEF ReleaseDisconnected, TypeOK
<1>7. ASSUME CloseServer \/ UNCHANGED vars PROVE UNCHANGED poolVars
  BY <1>7 DEF CloseServer, vars
<1>8. ASSUME UNCHANGED poolVars PROVE PoolInv'
  BY <1>8 DEF poolVars, PoolInv, PoolTypeOK, PoolPartition, Free
<1>. QED BY <1>1, <1>2, <1>3, <1>4, <1>5, <1>6, <1>7, <1>8
         DEF Next, HandlerStep, AdminStep

(* Every step keeps the types, and a handler's locals set while it runs.   *)
LEMMA StepKeepsTypes ==
  ASSUME RegistryInv, [Next]_vars
  PROVE  TypeOK'
<1>. TypeOK /\ PoolInv /\ PoolTypeOK'
  BY StepKeepsPool DEF RegistryInv, PoolInv, TypeOK
<1>1. ASSUME NEW h \in Handlers, NEW c \in Clients, ReuseAssignment(h, c)
      PROVE  TypeOK'
  BY <1>1, PoolAssumption DEF ReuseAssignment, Arrive, TypeOK
<1>2. ASSUME NEW h \in Handlers, NEW c \in Clients, AssignNew(h, c)
      PROVE  TypeOK'
  <2>1. Head(available) \in Addresses
    BY <1>2, HeadIsFree DEF AssignNew, Allocate
  <2>. QED BY <1>2, <2>1, PoolAssumption DEF AssignNew, Arrive, TypeOK
<1>3. ASSUME NEW h \in Handlers, StoreSession(h) PROVE TypeOK'
  BY <1>3 DEF StoreSession, TypeOK
<1>4. ASSUME NEW h \in Handlers, Cleanup(h) PROVE TypeOK'
  BY <1>4, RunningLocals DEF Cleanup, DropSession, HandlerEnds, TypeOK
<1>5. ASSUME NEW d \in Admins, NEW c \in Clients, Disconnect(d, c)
      PROVE  TypeOK'
  BY <1>5 DEF Disconnect, DropSession, handlerVars, TypeOK
<1>6. ASSUME NEW d \in Admins, ReleaseDisconnected(d) PROVE TypeOK'
  BY <1>6 DEF ReleaseDisconnected, mapVars, handlerVars, TypeOK
<1>7. ASSUME CloseServer PROVE TypeOK'
  BY <1>7 DEF CloseServer, mapVars, handlerVars, TypeOK
<1>8. ASSUME UNCHANGED vars PROVE TypeOK'
  BY <1>8 DEF vars, mapVars, handlerVars, TypeOK
<1>. QED BY <1>1, <1>2, <1>3, <1>4, <1>5, <1>6, <1>7, <1>8
         DEF Next, HandlerStep, AdminStep

(* An idle handler that takes a request leaves the others as they are.     *)
LEMMA ArriveKeepsHolders ==
  ASSUME TypeOK, TypeOK', NEW h \in Handlers, NEW c \in Clients, Arrive(h, c),
         NEW x \in Addresses, assignedIP' = [assignedIP EXCEPT ![h] = x]
  PROVE  /\ \A g \in Handlers, a \in Addresses : Holds(g, a) => Holds(g, a)'
         /\ \A d \in Clients : Serving(d) \subseteq Serving(d)'
         /\ h \in Serving(c)' /\ Holds(h, x)'
BY PoolAssumption DEF TypeOK, Arrive, Holds, Serving

(* A handler that ends leaves the holders of other addresses, and other    *)
(* clients' handlers, as they are.                                         *)
LEMMA EndKeepsOthers ==
  ASSUME TypeOK, NEW h \in Handlers, HandlerEnds(h)
  PROVE  /\ \A g \in Handlers, a \in Addresses :
              a # assignedIP[h] /\ Holds(g, a) => Holds(g, a)'
         /\ \A d \in Clients : \A g \in Serving(d) :
              d # clientID[h] => g \in Serving(d)'
BY DEF TypeOK, HandlerEnds, Holds, Serving

(* NoAddressLeak is kept: an address is taken from the pool for a handler  *)
(* that holds it from then on, and a holder that ends releases it.         *)
LEMMA StepKeepsHolders ==
  ASSUME RegistryInv, [Next]_vars
  PROVE  NoAddressLeak'
<1>. TypeOK /\ TypeOK' /\ NoAddressLeak /\ PoolInv /\ PoolTypeOK
  BY StepKeepsTypes DEF RegistryInv, PoolInv, TypeOK
<1>1. ASSUME NEW h \in Handlers, NEW c \in Clients, ReuseAssignment(h, c)
      PROVE  NoAddressLeak'
  <2>1. ClientIPMap[c] \in Addresses
    BY <1>1 DEF ReuseAssignment, TypeOK
  <2>. QED BY <1>1, <2>1, ArriveKeepsHolders
           DEF ReuseAssignment, poolVars, NoAddressLeak
<1>2. ASSUME NEW h \in Handlers, NEW c \in Clients, AssignNew(h, c)
      PROVE  NoAddressLeak'
  <2>1. Head(available) \in Addresses
    BY <1>2, HeadIsFree DEF AssignNew, Allocate
  <2>2. \A a \in Addresses : a # Head(available) => allocated'[a] = allocated[a]
    BY <1>2, <2>1 DEF AssignNew, Allocate, PoolTypeOK
  <2>. QED BY <1>2, <2>1, <2>2, ArriveKeepsHolders DEF AssignNew, NoAddressLeak
<1>3. ASSUME NEW h \in Handlers, StoreSession(h) PROVE NoAddressLeak'
  BY <1>3 DEF StoreSession, poolVars, TypeOK, NoAddressLeak, Holds
<1>4. ASSUME NEW h \in Handlers, Cleanup(h) PROVE NoAddressLeak'
  <2>1. assignedIP[h] \in Addresses
    BY <1>4, RunningLocals DEF Cleanup
  <2>2. allocated' = [allocated EXCEPT ![assignedIP[h]] = Nobody]
    BY <1>4, <2>1, ReleaseEffect DEF Cleanup
  <2>. QED BY <1>4, <2>1, <2>2, EndKeepsOthers
           DEF Cleanup, PoolTypeOK, NoAddressLeak
<1>5. ASSUME NEW d \in Admins, NEW c \in Clients, Disconnect(d, c)
      PROVE  NoAddressLeak'
  BY <1>5 DEF Disconnect, poolVars, handlerVars, NoAddressLeak, Holds
<1>6. ASSUME NEW d \in Admins, ReleaseDisconnected(d) PROVE NoAddressLeak'
  <2>1. toRelease[d] \in Addresses
    BY <1>6 DEF ReleaseDisconnected, TypeOK
  <2>2. allocated' = [allocated EXCEPT ![toRelease[d]] = Nobody]
    BY <1>6, <2>1, ReleaseEffect DEF ReleaseDisconnected
  <2>. QED BY <1>6, <2>1, <2>2
           DEF ReleaseDisconnected, handlerVars, PoolTypeOK, NoAddressLeak, Holds
<1>7. ASSUME CloseServer \/ UNCHANGED vars PROVE NoAddressLeak'
  BY <1>7 DEF CloseServer, vars, poolVars, handlerVars, NoAddressLeak, Holds
<1>. QED BY <1>1, <1>2, <1>3, <1>4, <1>5, <1>6, <1>7
         DEF Next, HandlerStep, AdminStep

(* RoutesAreServed is kept: a handler stores its session at its own        *)
(* address, and empties the entry of that address before it ends.          *)
LEMMA StepKeepsRoutes ==
  ASSUME RegistryInv, [Next]_vars
  PROVE  RoutesAreServed'
<1>. TypeOK /\ TypeOK' /\ RoutesAreServed
  BY StepKeepsTypes DEF RegistryInv
<1>1. ASSUME NEW h \in Handlers, NEW c \in Clients, Arrive(h, c),
             NEW x \in Addresses, assignedIP' = [assignedIP EXCEPT ![h] = x]
      PROVE  RoutesAreServed'
  <2>1. \A a \in Addresses : IPConnMap[a] # Nobody =>
          IPConnMap[a] \in Handlers /\ IPConnMap[a] # h
    BY <1>1 DEF TypeOK, Arrive, RoutesAreServed
  <2>. QED BY <1>1, <2>1 DEF TypeOK, Arrive, RoutesAreServed
<1>2. ASSUME NEW h \in Handlers, NEW c \in Clients, ReuseAssignment(h, c)
      PROVE  RoutesAreServed'
  BY <1>1, <1>2 DEF ReuseAssignment, TypeOK
<1>3. ASSUME NEW h \in Handlers, NEW c \in Clients, AssignNew(h, c)
      PROVE  RoutesAreServed'
  <2>1. Head(available) \in Addresses
    BY <1>3, HeadIsFree DEF AssignNew, Allocate, RegistryInv, TypeOK, PoolInv
  <2>. QED BY <1>1, <1>3, <2>1 DEF AssignNew
<1>4. ASSUME NEW h \in Handlers, StoreSession(h) PROVE RoutesAreServed'
  BY <1>4, RunningLocals DEF StoreSession, TypeOK, RoutesAreServed
<1>5. ASSUME NEW h \in Handlers, Cleanup(h) PROVE RoutesAreServed'
  <2>1. assignedIP[h] \in Addresses
    BY <1>5, RunningLocals DEF Cleanup
  <2>. QED BY <1>5, <2>1
           DEF Cleanup, DropSession, HandlerEnds, TypeOK, RoutesAreServed
<1>6. ASSUME NEW d \in Admins, NEW c \in Clients, Disconnect(d, c)
      PROVE  RoutesAreServed'
  BY <1>6 DEF Disconnect, DropSession, handlerVars, TypeOK, RoutesAreServed
<1>7. ASSUME NEW d \in Admins, ReleaseDisconnected(d) PROVE RoutesAreServed'
  BY <1>7 DEF ReleaseDisconnected, mapVars, handlerVars, RoutesAreServed
<1>8. ASSUME CloseServer \/ UNCHANGED vars PROVE RoutesAreServed'
  BY <1>8 DEF CloseServer, vars, mapVars, handlerVars, RoutesAreServed
<1>. QED BY <1>2, <1>3, <1>4, <1>5, <1>6, <1>7, <1>8
         DEF Next, HandlerStep, AdminStep

(* NoStaleAssignment is kept: an entry is made for the handler that asks   *)
(* for it, and that handler deletes it, if nobody did before, as it ends.  *)
LEMMA StepKeepsAssignments ==
  ASSUME RegistryInv, [Next]_vars
  PROVE  NoStaleAssignment'
<1>. TypeOK /\ TypeOK' /\ NoStaleAssignment
  BY StepKeepsTypes DEF RegistryInv
<1>1. ASSUME NEW h \in Handlers, NEW c \in Clients, ReuseAssignment(h, c)
      PROVE  NoStaleAssignment'
  <2>1. ClientIPMap[c] \in Addresses
    BY <1>1 DEF ReuseAssignment, TypeOK
  <2>2. ASSUME NEW d \in Clients, ClientIPMap[d] # Nobody
        PROVE  (\E g \in Serving(d) : Holds(g, ClientIPMap[d]))'
    <3>1. PICK g \in Serving(d) : Holds(g, ClientIPMap[d])
      BY <2>2 DEF NoStaleAssignment
    <3>2. g \in Serving(d)' /\ (\A a \in Addresses : Holds(g, a) => Holds(g, a)')
      BY <1>1, <2>1, <3>1, ArriveKeepsHolders DEF ReuseAssignment, Serving
    <3>. QED BY <1>1, <2>2, <3>1, <3>2 DEF ReuseAssignment, Holds, TypeOK
  <2>. QED BY <1>1, <2>2 DEF ReuseAssignment, NoStaleAssignment
<1>2. ASSUME NEW h \in Handlers, NEW c \in Clients, AssignNew(h, c)
      PROVE  NoStaleAssignment'
  <2>1. Head(available) \in Addresses
    BY <1>2, HeadIsFree DEF AssignNew, Allocate, RegistryInv, TypeOK, PoolInv
  <2>2. \A d \in Clients : d # c => ClientIPMap'[d] = ClientIPMap[d]
    BY <1>2 DEF AssignNew, TypeOK
  <2>3. ClientIPMap'[c] = Head(available)
    BY <1>2 DEF AssignNew, TypeOK
  <2>4. (\E g \in Serving(c) : Holds(g, ClientIPMap[c]))'
    BY <1>2, <2>1, <2>3, ArriveKeepsHolders DEF AssignNew, Holds
  <2>5. ASSUME NEW d \in Clients, d # c, ClientIPMap[d] # Nobody
        PROVE  (\E g \in Serving(d) : Holds(g, ClientIPMap[d]))'
    <3>1. PICK g \in Serving(d) : Holds(g, ClientIPMap[d])
      BY <2>5 DEF NoStaleAssignment
    <3>2. g \in Serving(d)' /\ (\A a \in Addresses : Holds(g, a) => Holds(g, a)')
      BY <1>2, <2>1, <3>1, ArriveKeepsHolders DEF AssignNew, Serving
    <3>. QED BY <2>2, <2>5, <3>1, <3>2 DEF Holds, TypeOK
  <2>. QED BY <2>2, <2>4, <2>5 DEF NoStaleAssignment
<1>3. ASSUME NEW h \in Handlers, StoreSession(h) PROVE NoStaleAssignment'
  BY <1>3 DEF StoreSession, TypeOK, NoStaleAssignment, Holds, Serving
<1>4. ASSUME NEW h \in Handlers, Cleanup(h) PROVE NoStaleAssignment'
  <2>1. assignedIP[h] \in Addresses /\ clientID[h] \in Clients
    BY <1>4, RunningLocals DEF Cleanup
  <2>2. ASSUME NEW c \in Clients, ClientIPMap'[c] # Nobody
        PROVE  (\E g \in Serving(c) : Holds(g, ClientIPMap[c]))'
    <3>1. c # clientID[h] /\ ClientIPMap'[c] = ClientIPMap[c]
      BY <1>4, <2>1, <2>2 DEF Cleanup, TypeOK
    <3>2. PICK g \in Serving(c) : Holds(g, ClientIPMap[c])
      BY <2>2, <3>1 DEF NoStaleAssignment
    <3>3. g \in Handlers /\ g # h
      BY <3>1, <3>2 DEF Serving
    <3>. QED BY <1>4, <3>1, <3>2, <3>3
             DEF Cleanup, HandlerEnds, Holds, Serving, TypeOK
  <2>. QED BY <2>2 DEF NoStaleAssignment
<1>5. ASSUME NEW d \in Admins, NEW c \in Clients, Disconnect(d, c)
      PROVE  NoStaleAssignment'
  BY <1>5 DEF Disconnect, handlerVars, TypeOK, NoStaleAssignment, Holds, Serving
<1>6. ASSUME NEW d \in Admins, ReleaseDisconnected(d) PROVE NoStaleAssignment'
  BY <1>6 DEF ReleaseDisconnected, mapVars, handlerVars, NoStaleAssignment, Holds, Serving
<1>7. ASSUME CloseServer \/ UNCHANGED vars PROVE NoStaleAssignment'
  BY <1>7 DEF CloseServer, vars, mapVars, handlerVars, NoStaleAssignment, Holds, Serving
<1>. QED BY <1>1, <1>2, <1>3, <1>4, <1>5, <1>6, <1>7
         DEF Next, HandlerStep, AdminStep

(* The server starts with empty maps and a full pool.                      *)
LEMMA RegistryInit == ASSUME Init PROVE RegistryInv
BY PoolInitInv, PoolAssumption, RegistryAssumption
   DEF Init, RegistryInv, PoolInv, TypeOK, RoutesAreServed, NoStaleAssignment,
       NoAddressLeak, PoolInit

(* The registry's safety for every instance and every interleaving: the    *)
(* pool stays partitioned, packets are routed to running handlers only, no *)
(* assignment outlives its handlers, no address leaks.                     *)
THEOREM RegistrySafety == Spec => []RegistryInv
<1>1. Init => RegistryInv
  BY RegistryInit
<1>2. RegistryInv /\ [Next]_vars => RegistryInv'
  BY StepKeepsPool, StepKeepsTypes, StepKeepsHolders, StepKeepsRoutes,
     StepKeepsAssignments DEF RegistryInv, PoolInv
<1>. QED BY <1>1, <1>2, PTL DEF Spec

(* TypeOK: a handler's locals are set exactly while it runs.               *)
COROLLARY RegistryTypesHold == Spec => []TypeOK
<1>1. RegistryInv => TypeOK
  BY DEF RegistryInv
<1>. QED BY <1>1, RegistrySafety, PTL

(* RoutesAreServed: findClientSession never returns the session of a       *)
(* handler that has ended.                                                 *)
COROLLARY RoutesStayServed == Spec => []RoutesAreServed
<1>1. RegistryInv => RoutesAreServed
  BY DEF RegistryInv
<1>. QED BY <1>1, RegistrySafety, PTL

(* NoStaleAssignment: no assignment outlives the handlers of its client.   *)
COROLLARY AssignmentsStayFresh == Spec => []NoStaleAssignment
<1>1. RegistryInv => NoStaleAssignment
  BY DEF RegistryInv
<1>. QED BY <1>1, RegistrySafety, PTL

(* NoAddressLeak: an address out of the pool has a handler to release it.  *)
COROLLARY AddressesDoNotLeak == Spec => []NoAddressLeak
<1>1. RegistryInv => NoAddressLeak
  BY DEF RegistryInv
<1>. QED BY <1>1, RegistrySafety, PTL

(* PoolPartition: the free slice and the map stay complementary, although  *)
(* one lease may be released twice, by its handler and an administrator.   *)
COROLLARY PoolStaysPartitioned == Spec => []PoolPartition
<1>1. RegistryInv => PoolPartition
  BY DEF RegistryInv
<1>. QED BY <1>1, RegistrySafety, PTL

(* The registry changes the pool through Allocate and Release only, so     *)
(* what holds of the pool on its own holds of the pool in the server.      *)
LEMMA StepIsPoolStep ==
  ASSUME RegistryInv, [Next]_vars
  PROVE  [PoolNext]_poolVars
<1>1. ASSUME NEW h \in Handlers, NEW c \in Clients,
             ReuseAssignment(h, c) \/ AssignNew(h, c)
      PROVE  [PoolNext]_poolVars
  BY <1>1 DEF ReuseAssignment, AssignNew, PoolNext
<1>2. ASSUME NEW h \in Handlers, Cleanup(h) PROVE [PoolNext]_poolVars
  <2>1. assignedIP[h] \in Addresses
    BY <1>2, RunningLocals DEF Cleanup, RegistryInv
  <2>. QED BY <1>2, <2>1 DEF Cleanup, PoolNext
<1>3. ASSUME NEW d \in Admins, ReleaseDisconnected(d) PROVE [PoolNext]_poolVars
  <2>1. toRelease[d] \in Addresses
    BY <1>3 DEF ReleaseDisconnected, RegistryInv, TypeOK
  <2>. QED BY <1>3, <2>1 DEF ReleaseDisconnected, PoolNext
<1>4. ASSUME NEW h \in Handlers, StoreSession(h) PROVE UNCHANGED poolVars
  BY <1>4 DEF StoreSession
<1>5. ASSUME NEW d \in Admins, NEW c \in Clients, Disconnect(d, c)
      PROVE  UNCHANGED poolVars
  BY <1>5 DEF Disconnect
<1>6. ASSUME CloseServer \/ UNCHANGED vars PROVE UNCHANGED poolVars
  BY <1>6 DEF CloseServer, vars
<1>. QED BY <1>1, <1>2, <1>3, <1>4, <1>5, <1>6 DEF Next, HandlerStep, AdminStep

LEMMA RegistryUsesPool == Spec => PoolSpec
<1>1. Init => PoolInit
  BY DEF Init
<1>. QED BY <1>1, StepIsPoolStep, RegistrySafety, PTL DEF Spec, PoolSpec

(* LeasesSpec: whatever handlers and administrators do, the server's pool  *)
(* implements the lease specification.                                     *)
THEOREM ServerPoolImplementsLeases == Spec => LeasesSpec
BY RegistryUsesPool, PoolImplementsLeases, PTL

(* ReuseInReleaseOrder: neither a handler's cleanup nor an administrator's *)
(* release lets an address jump the queue.                                 *)
THEOREM ServerReusesInOrder == Spec => ReuseInReleaseOrder
BY RegistryUsesPool, PoolReusesInOrder, PTL
=================================================================================
