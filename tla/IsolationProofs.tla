---------------------------- MODULE IsolationProofs ----------------------------
(***************************************************************************)
(* Client isolation: when no administrator disconnects anyone and a        *)
(* client's requests never overlap, ClientIPMap implements the lease       *)
(* specification.  Run registry_conflict shows that it does not otherwise. *)
(***************************************************************************)
EXTENDS SessionRegistryProofs

(* The environment in which the registry isolates its clients.             *)
Exclusive == Admins = {} /\ ~MayOverlap

(* At most one handler runs for a client.                                  *)
OneHandlerPerClient ==
  \A g, h \in Handlers : pc[g] # "idle" /\ clientID[g] = clientID[h] => g = h

(* Inductive together: the last two say that a running handler's address   *)
(* is its client's alone, which is what a cleanup silently relies on when  *)
(* it deletes map entries by address and by client.                        *)
IsolationInv == RegistryInv /\ LeaseIsKept /\ OneHandlerPerClient

(* Two running handlers have different clients and different addresses.    *)
LEMMA HandlersAreDisjoint ==
  ASSUME IsolationInv, NEW g \in Handlers, NEW h \in Handlers, g # h,
         pc[g] # "idle", pc[h] # "idle"
  PROVE  clientID[g] # clientID[h] /\ assignedIP[g] # assignedIP[h]
BY DEF IsolationInv, LeaseIsKept, OneHandlerPerClient

(* A client whose requests do not overlap never finds an entry of its own: *)
(* the last handler's cleanup deleted it.                                  *)
LEMMA NoReuse ==
  ASSUME IsolationInv, ~MayOverlap, NEW h \in Handlers, NEW c \in Clients
  PROVE  ~ ReuseAssignment(h, c)
BY DEF IsolationInv, RegistryInv, NoStaleAssignment, ReuseAssignment, Arrive

LEMMA StepKeepsIsolation ==
  ASSUME Exclusive, IsolationInv, [Next]_vars
  PROVE  IsolationInv'
<1>. TypeOK /\ RegistryInv /\ RegistryInv' /\ TypeOK' /\ PoolInv /\ PoolTypeOK
  BY StepKeepsPool, StepKeepsTypes, StepKeepsHolders, StepKeepsRoutes,
     StepKeepsAssignments DEF IsolationInv, RegistryInv, PoolInv, TypeOK
<1>1. ASSUME NEW h \in Handlers, NEW c \in Clients, AssignNew(h, c)
      PROVE  LeaseIsKept' /\ OneHandlerPerClient'
  <2> DEFINE x == Head(available)
  <2>1. /\ x \in Addresses /\ allocated[x] = Nobody
        /\ allocated' = [allocated EXCEPT ![x] = c]
        /\ ClientIPMap' = [ClientIPMap EXCEPT ![c] = x]
        /\ pc' = [pc EXCEPT ![h] = "assigned"]
        /\ clientID' = [clientID EXCEPT ![h] = c]
        /\ assignedIP' = [assignedIP EXCEPT ![h] = x]
        /\ pc[h] = "idle"
    BY <1>1, HeadIsFree DEF AssignNew, Arrive, Allocate
  <2>2. \A g \in Handlers : pc[g] # "idle" => clientID[g] # c /\ g # h
    BY <1>1, <2>1 DEF Exclusive, AssignNew, Arrive, Serving
  <2>3. \A g \in Handlers : pc[g] # "idle" =>
          assignedIP[g] # x /\ clientID[g] \in Clients /\ assignedIP[g] \in Addresses
    BY <2>1, RunningLocals, PoolAssumption DEF IsolationInv, LeaseIsKept, TypeOK
  <2>4. LeaseIsKept'
    BY <2>1, <2>2, <2>3 DEF IsolationInv, LeaseIsKept, TypeOK, PoolTypeOK
  <2>5. ASSUME NEW g \in Handlers, NEW k \in Handlers,
               pc'[g] # "idle", clientID'[g] = clientID'[k]
        PROVE  g = k
    <3>1. pc'[k] # "idle"
      BY <2>5 DEF TypeOK
    <3>. QED BY <2>1, <2>2, <2>5, <3>1 DEF IsolationInv, OneHandlerPerClient, TypeOK
  <2>. QED BY <2>4, <2>5 DEF OneHandlerPerClient
<1>2. ASSUME NEW h \in Handlers, StoreSession(h)
      PROVE  LeaseIsKept' /\ OneHandlerPerClient'
  BY <1>2 DEF StoreSession, poolVars, IsolationInv, LeaseIsKept, OneHandlerPerClient, TypeOK
<1>3. ASSUME NEW h \in Handlers, Cleanup(h)
      PROVE  LeaseIsKept' /\ OneHandlerPerClient'
  <2>1. assignedIP[h] \in Addresses /\ clientID[h] \in Clients /\ pc[h] # "idle"
    BY <1>3, RunningLocals DEF Cleanup
  <2>2. allocated' = [allocated EXCEPT ![assignedIP[h]] = Nobody]
    BY <1>3, <2>1, ReleaseEffect DEF Cleanup
  <2>3. \A g \in Handlers : pc'[g] # "idle" =>
          /\ g # h /\ pc[g] # "idle"
          /\ clientID'[g] = clientID[g] /\ assignedIP'[g] = assignedIP[g]
          /\ clientID[g] \in Clients /\ assignedIP[g] \in Addresses
    BY <1>3, RunningLocals DEF Cleanup, HandlerEnds, TypeOK
  <2>4. \A g \in Handlers : pc'[g] # "idle" =>
          clientID[g] # clientID[h] /\ assignedIP[g] # assignedIP[h]
    BY <2>1, <2>3, HandlersAreDisjoint
  <2>5. LeaseIsKept'
    BY <1>3, <2>1, <2>2, <2>3, <2>4
       DEF Cleanup, IsolationInv, LeaseIsKept, TypeOK, PoolTypeOK
  <2>6. OneHandlerPerClient'
    BY <1>3, <2>3, PoolAssumption
       DEF Cleanup, HandlerEnds, IsolationInv, OneHandlerPerClient, TypeOK
  <2>. QED BY <2>5, <2>6
<1>4. ASSUME CloseServer \/ UNCHANGED vars
      PROVE  LeaseIsKept' /\ OneHandlerPerClient'
  BY <1>4 DEF CloseServer, vars, poolVars, mapVars, handlerVars, IsolationInv,
              LeaseIsKept, OneHandlerPerClient
<1>. QED BY <1>1, <1>2, <1>3, <1>4, NoReuse
         DEF Next, HandlerStep, Exclusive, IsolationInv

LEMMA IsolationHolds == ASSUME Exclusive PROVE Spec => []IsolationInv
<1>1. Init => IsolationInv
  <2>1. Init => RegistryInv
    BY RegistryInit
  <2>. QED BY <2>1 DEF Init, IsolationInv, LeaseIsKept, OneHandlerPerClient
<1>2. IsolationInv /\ [Next]_vars => IsolationInv'
  BY StepKeepsIsolation
<1>. QED BY <1>1, <1>2, PTL DEF Spec

(* In an exclusive environment a running handler's address stays its       *)
(* client's in the pool and in ClientIPMap until its own cleanup.          *)
THEOREM LeaseKeptWhileServed == ASSUME Exclusive PROVE Spec => []LeaseIsKept
<1>1. IsolationInv => LeaseIsKept
  BY DEF IsolationInv
<1>. QED BY <1>1, IsolationHolds, PTL

(* NoConnLeak is kept: no other handler's session can overwrite one, since *)
(* running handlers have different addresses.                              *)
LEMMA StepKeepsConns ==
  ASSUME Exclusive, IsolationInv, NoConnLeak, [Next]_vars
  PROVE  NoConnLeak'
<1>. TypeOK
  BY DEF IsolationInv, RegistryInv
<1>1. ASSUME NEW h \in Handlers, NEW c \in Clients, AssignNew(h, c)
      PROVE  NoConnLeak'
  BY <1>1 DEF AssignNew, Arrive, NoConnLeak, TypeOK
<1>2. ASSUME NEW h \in Handlers, StoreSession(h) PROVE NoConnLeak'
  <2>1. assignedIP[h] \in Addresses /\ pc[h] # "idle"
    BY <1>2, RunningLocals DEF StoreSession
  <2>2. \A g \in Handlers : connOpen[g] /\ g # h => assignedIP[g] # assignedIP[h]
    BY <2>1, HandlersAreDisjoint DEF NoConnLeak
  <2>. QED BY <1>2, <2>1, <2>2 DEF StoreSession, NoConnLeak, TypeOK
<1>3. ASSUME NEW h \in Handlers, Cleanup(h) PROVE NoConnLeak'
  <2>1. assignedIP[h] \in Addresses /\ pc[h] # "idle"
    BY <1>3, RunningLocals DEF Cleanup
  <2>2. \A g \in Handlers : connOpen'[g] => connOpen[g] /\ g # IPConnMap[assignedIP[h]]
    BY <1>3 DEF Cleanup, DropSession
  <2>3. \A g \in Handlers : connOpen'[g] => g # h /\ assignedIP[g] # assignedIP[h]
    BY <2>1, <2>2, HandlersAreDisjoint DEF NoConnLeak
  <2>. QED BY <1>3, <2>1, <2>2, <2>3
           DEF Cleanup, DropSession, HandlerEnds, NoConnLeak, TypeOK
<1>4. ASSUME CloseServer \/ UNCHANGED vars PROVE NoConnLeak'
  BY <1>4 DEF CloseServer, vars, mapVars, handlerVars, NoConnLeak
<1>. QED BY <1>1, <1>2, <1>3, <1>4, NoReuse DEF Next, HandlerStep, Exclusive

(* In an exclusive environment a finished handler leaves no open           *)
(* connection behind.                                                      *)
THEOREM NoConnectionLeaks == ASSUME Exclusive PROVE Spec => []NoConnLeak
<1>1. Init => NoConnLeak
  BY DEF Init, NoConnLeak
<1>2. IsolationInv /\ NoConnLeak /\ [Next]_vars => NoConnLeak'
  BY StepKeepsConns
<1>. QED BY <1>1, <1>2, IsolationHolds, PTL DEF Spec

(* Every serving handler is the one its address is routed to: nobody       *)
(* overwrites or deletes its session before its own cleanup.               *)
ServingIsRouted ==
  \A h \in Handlers : pc[h] = "serving" => IPConnMap[assignedIP[h]] = h

LEMMA StepKeepsServing ==
  ASSUME Exclusive, IsolationInv, ServingIsRouted, [Next]_vars
  PROVE  ServingIsRouted'
<1>. TypeOK
  BY DEF IsolationInv, RegistryInv
<1>1. ASSUME NEW h \in Handlers, NEW c \in Clients, AssignNew(h, c)
      PROVE  ServingIsRouted'
  BY <1>1 DEF AssignNew, Arrive, ServingIsRouted, TypeOK
<1>2. ASSUME NEW h \in Handlers, StoreSession(h) PROVE ServingIsRouted'
  <2>1. assignedIP[h] \in Addresses /\ pc[h] # "idle"
    BY <1>2, RunningLocals DEF StoreSession
  <2>2. \A g \in Handlers : pc[g] = "serving" /\ g # h => assignedIP[g] # assignedIP[h]
    BY <2>1, HandlersAreDisjoint
  <2>. QED BY <1>2, <2>1, <2>2 DEF StoreSession, ServingIsRouted, TypeOK
<1>3. ASSUME NEW h \in Handlers, Cleanup(h) PROVE ServingIsRouted'
  <2>1. assignedIP[h] \in Addresses /\ pc[h] # "idle"
    BY <1>3, RunningLocals DEF Cleanup
  <2>2. \A g \in Handlers : pc'[g] = "serving" =>
          /\ g # h /\ pc[g] = "serving"
          /\ assignedIP'[g] = assignedIP[g] /\ assignedIP[g] # assignedIP[h]
    BY <1>3, <2>1, HandlersAreDisjoint DEF Cleanup, HandlerEnds, TypeOK
  <2>. QED BY <1>3, <2>1, <2>2 DEF Cleanup, DropSession, ServingIsRouted, TypeOK
<1>4. ASSUME CloseServer \/ UNCHANGED vars PROVE ServingIsRouted'
  BY <1>4 DEF CloseServer, vars, mapVars, handlerVars, ServingIsRouted
<1>. QED BY <1>1, <1>2, <1>3, <1>4, NoReuse DEF Next, HandlerStep, Exclusive

LEMMA RoutedMeansTruthful ==
  ASSUME IsolationInv, ServingIsRouted
  PROVE  StatusIsTruthful
<1>. TypeOK /\ RoutesAreServed /\ NoStaleAssignment /\ LeaseIsKept
  BY DEF IsolationInv, RegistryInv
<1>1. ASSUME NEW h \in Handlers, pc[h] = "serving"
      PROVE  /\ clientID[h] \in Clients /\ assignedIP[h] \in Addresses
             /\ ClientIPMap[clientID[h]] = assignedIP[h]
             /\ Connected(clientID[h])
  <2>1. clientID[h] \in Clients /\ assignedIP[h] \in Addresses
    BY <1>1, RunningLocals
  <2>2. ClientIPMap[clientID[h]] = assignedIP[h] /\ IPConnMap[assignedIP[h]] = h
    BY <1>1 DEF LeaseIsKept, ServingIsRouted
  <2>. QED BY <2>1, <2>2, PoolAssumption, RegistryAssumption DEF Connected
<1>2. ASSUME NEW a \in ActiveSessions
      PROVE  \E h \in Handlers : pc[h] = "serving" /\ assignedIP[h] = a
  BY <1>2 DEF ActiveSessions, RoutesAreServed, TypeOK
<1>3. ASSUME NEW c \in Clients, Connected(c)
      PROVE  ClientIPMap[c] \in ActiveSessions
  BY <1>3 DEF Connected, ActiveSessions, TypeOK
<1>4. ASSUME NEW c \in Clients, Connected(c)
      PROVE  \E h \in Serving(c) : pc[h] = "serving"
  <2>1. PICK g \in Handlers : pc[g] = "serving" /\ assignedIP[g] = ClientIPMap[c]
    BY <1>3, <1>4, <1>2
  <2>2. PICK h \in Serving(c) : Holds(h, ClientIPMap[c])
    BY <1>4 DEF Connected, NoStaleAssignment
  <2>3. clientID[g] = allocated[ClientIPMap[c]] /\ clientID[h] = allocated[ClientIPMap[c]]
    BY <2>1, <2>2 DEF LeaseIsKept, Holds, Serving
  <2>. QED BY <2>1, <2>2, <2>3 DEF Serving
<1>5. \A c \in Clients : Connected(c) <=> \E h \in Serving(c) : pc[h] = "serving"
  BY <1>1, <1>4 DEF Serving
<1>6. ASSUME NEW a \in ActiveSessions
      PROVE  \E c \in Clients : Connected(c) /\ ClientIPMap[c] = a
  BY <1>1, <1>2
<1>. QED BY <1>3, <1>5, <1>6 DEF StatusIsTruthful

(* In an exclusive environment the administration API shows exactly the    *)
(* clients that are served and counts exactly their sessions.              *)
THEOREM StatusStaysTruthful == ASSUME Exclusive PROVE Spec => []StatusIsTruthful
<1>1. Init => ServingIsRouted
  BY DEF Init, ServingIsRouted
<1>2. IsolationInv /\ ServingIsRouted /\ [Next]_vars => ServingIsRouted'
  BY StepKeepsServing
<1>3. IsolationInv /\ ServingIsRouted => StatusIsTruthful
  BY RoutedMeansTruthful
<1>. QED BY <1>1, <1>2, <1>3, IsolationHolds, PTL DEF Spec

(* In an exclusive environment no two clients are assigned one address.    *)
THEOREM AddressesAreUnique == ASSUME Exclusive PROVE Spec => []UniqueAddress
<1>1. IsolationInv => UniqueAddress
  BY DEF IsolationInv, RegistryInv, NoStaleAssignment, Holds, Serving, LeaseIsKept,
         UniqueAddress
<1>. QED BY <1>1, IsolationHolds, PTL

(* Outside of it UniqueAddress fails only with LeaseIsKept: two clients are*)
(* assigned one address only after somebody released it behind the back of *)
(* a running handler, never by the pool or the assignment itself.          *)
THEOREM ConflictNeedsEarlyRelease == Spec => [](LeaseIsKept => UniqueAddress)
<1>1. RegistryInv /\ LeaseIsKept => UniqueAddress
  BY DEF RegistryInv, NoStaleAssignment, Holds, Serving, LeaseIsKept, UniqueAddress
<1>. QED BY <1>1, RegistrySafety, PTL

(* In an exclusive environment a step of the registry is a grant of an     *)
(* address nobody has, its return by the client that has it, or neither.   *)
LEMMA StepIsLeaseStep ==
  ASSUME Exclusive, IsolationInv, [Next]_vars
  PROVE  Registered!LeasesNext \/ UNCHANGED RegistryLeases
<1>. TypeOK /\ PoolInv
  BY DEF IsolationInv, RegistryInv, PoolInv, TypeOK
<1>1. ASSUME NEW h \in Handlers, NEW c \in Clients, AssignNew(h, c)
      PROVE  Registered!LeasesNext
  <2> DEFINE x == Head(available)
  <2>1. /\ x \in Addresses /\ allocated[x] = Nobody
        /\ ClientIPMap[c] = Nobody
        /\ ClientIPMap' = [ClientIPMap EXCEPT ![c] = x]
    BY <1>1, HeadIsFree DEF AssignNew, Allocate
  <2>2. ASSUME NEW d \in Clients, ClientIPMap[d] = x PROVE FALSE
    <3>1. PICK g \in Serving(d) : Holds(g, x)
      BY <2>1, <2>2, PoolAssumption DEF IsolationInv, RegistryInv, NoStaleAssignment
    <3>2. allocated[x] = d
      BY <3>1 DEF Holds, Serving, IsolationInv, LeaseIsKept
    <3>. QED BY <2>1, <3>2, PoolAssumption
  <2>3. ~ Registered!Leased(x)
    BY <2>2 DEF Registered!Leased, RegistryLeases
  <2>4. RegistryLeases' = RegistryLeases \cup {<<c, x>>}
    BY <2>1, PoolAssumption DEF RegistryLeases, TypeOK
  <2>. QED BY <2>1, <2>3, <2>4 DEF Registered!LeasesNext, Registered!Grant
<1>2. ASSUME NEW h \in Handlers, Cleanup(h) PROVE Registered!LeasesNext
  <2> DEFINE c == clientID[h]
             x == assignedIP[h]
  <2>1. c \in Clients /\ x \in Addresses /\ pc[h] # "idle"
    BY <1>2, RunningLocals DEF Cleanup
  <2>2. ClientIPMap[c] = x /\ ClientIPMap' = [ClientIPMap EXCEPT ![c] = Nobody]
    BY <1>2, <2>1 DEF Cleanup, IsolationInv, LeaseIsKept
  <2>3. <<c, x>> \in RegistryLeases
    BY <2>1, <2>2 DEF RegistryLeases
  <2>4. RegistryLeases' = RegistryLeases \ {<<c, x>>}
    BY <2>1, <2>2, PoolAssumption DEF RegistryLeases, TypeOK
  <2>. QED BY <2>1, <2>3, <2>4 DEF Registered!LeasesNext, Registered!GiveBack
<1>3. ASSUME NEW h \in Handlers, StoreSession(h) PROVE UNCHANGED RegistryLeases
  BY <1>3 DEF StoreSession, RegistryLeases
<1>4. ASSUME CloseServer \/ UNCHANGED vars PROVE UNCHANGED RegistryLeases
  BY <1>4 DEF CloseServer, vars, mapVars, RegistryLeases
<1>. QED BY <1>1, <1>2, <1>3, <1>4, NoReuse DEF Next, HandlerStep, Exclusive

LEMMA InitIsLeaseInit == ASSUME Init PROVE Registered!LeasesInit
BY PoolAssumption DEF Init, RegistryLeases, Registered!LeasesInit

(* In an exclusive environment ClientIPMap implements the lease            *)
(* specification: assignIPToClient grants an address nobody has, and       *)
(* cleanupClientSession gives back the one its own client has.             *)
THEOREM RegistryImplementsLeases ==
  ASSUME Exclusive PROVE Spec => RegisteredLeasesSpec
<1>1. IsolationInv /\ [Next]_vars => [Registered!LeasesNext]_RegistryLeases
  BY StepIsLeaseStep
<1>. QED BY <1>1, InitIsLeaseInit, IsolationHolds, PTL
     DEF Spec, RegisteredLeasesSpec, Registered!LeasesSpec
=================================================================================
