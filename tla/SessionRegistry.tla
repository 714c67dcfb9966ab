--------------------------- MODULE SessionRegistry ---------------------------
(***************************************************************************)
(* The server's session registry: ClientIPMap, IPConnMap and the IPPool,   *)
(* as the CONNECT handlers (masque_handler.go) and the administration API  *)
(* (api_server.go) share them.                                             *)
(*                                                                         *)
(* A handler runs three critical sections of IPPoolMu: assignIPToClient,   *)
(* the store into IPConnMap, cleanupClientSession.  DELETE /clients/:id    *)
(* runs one and then calls IPPool.Release outside it.  Each section is one *)
(* step.  A Go map is a function with Nobody for "no entry".  A session is *)
(* named by the handler that created it; a handler slot that has finished  *)
(* can serve another request.                                              *)
(***************************************************************************)
EXTENDS IPPool

CONSTANTS Handlers,    \* slots for goroutines running handleMASQUERequest
          Admins,      \* slots for goroutines running disconnectClient
          MayOverlap   \* may a client connect while a handler still serves it

ASSUME RegistryAssumption ==
  /\ Nobody \notin Handlers
  /\ MayOverlap \in BOOLEAN

VARIABLES ClientIPMap, \* ClientIPMap[c]: the address assigned to client c
          IPConnMap,   \* IPConnMap[a]: the session packets for a go to
          pc,          \* where a handler stands: "idle", "assigned", "serving"
          clientID,    \* local clientID of a handler
          assignedIP,  \* local assignedPrefix.Addr() of a handler
          connOpen,    \* the handler's MASQUEConn exists and was not closed
          toRelease    \* the address a disconnectClient still has to release

mapVars == <<ClientIPMap, IPConnMap>>
handlerVars == <<pc, clientID, assignedIP>>
vars == <<poolVars, mapVars, handlerVars, connOpen, toRelease>>

Init ==
  /\ PoolInit
  /\ ClientIPMap = [c \in Clients |-> Nobody]
  /\ IPConnMap = [a \in Addresses |-> Nobody]
  /\ pc = [h \in Handlers |-> "idle"]
  /\ clientID = [h \in Handlers |-> Nobody]
  /\ assignedIP = [h \in Handlers |-> Nobody]
  /\ connOpen = [h \in Handlers |-> FALSE]
  /\ toRelease = [d \in Admins |-> Nobody]

(* The handlers that still run for client c.                               *)
Serving(c) == {h \in Handlers : clientID[h] = c}

(* What the administration API shows, read under the read lock: the        *)
(* sessions GET /status and /stats count as active_connections, and the    *)
(* clients GET /clients and /clients/:id call connected.                   *)
ActiveSessions == {a \in Addresses : IPConnMap[a] # Nobody}
Connected(c) == ClientIPMap[c] # Nobody /\ IPConnMap[ClientIPMap[c]] # Nobody

-------------------------------------------------------------------------------
(* handleMASQUERequest up to the end of assignIPToClient: an authenticated *)
(* CONNECT of client c reaches handler h.  A client with an entry keeps    *)
(* its address; another takes one from the pool.  If the pool is empty the *)
(* request is answered with 500 and nothing changes.                       *)
Arrive(h, c) ==
  /\ pc[h] = "idle"
  /\ MayOverlap \/ Serving(c) = {}
  /\ pc' = [pc EXCEPT ![h] = "assigned"]
  /\ clientID' = [clientID EXCEPT ![h] = c]
  /\ UNCHANGED <<IPConnMap, connOpen, toRelease>>

ReuseAssignment(h, c) ==
  /\ ClientIPMap[c] # Nobody
  /\ Arrive(h, c)
  /\ assignedIP' = [assignedIP EXCEPT ![h] = ClientIPMap[c]]
  /\ UNCHANGED <<ClientIPMap, poolVars>>

(* Mutants of the assignment.  It forgets to record the address:           *)
AssignUnrecorded(h, c) ==
  /\ ClientIPMap[c] = Nobody
  /\ Arrive(h, c)
  /\ Allocate(c)
  /\ assignedIP' = [assignedIP EXCEPT ![h] = Head(available)]
  /\ UNCHANGED ClientIPMap

(* it ignores the error of Allocate and goes on with the zero address:     *)
AssignIgnoringError(h, c) ==
  /\ ClientIPMap[c] = Nobody
  /\ Arrive(h, c)
  /\ IF available = <<>>
       THEN UNCHANGED <<assignedIP, ClientIPMap, poolVars>>
       ELSE /\ Allocate(c)
            /\ assignedIP' = [assignedIP EXCEPT ![h] = Head(available)]
            /\ ClientIPMap' = [ClientIPMap EXCEPT ![c] = Head(available)]

AssignNew(h, c) ==
  /\ ClientIPMap[c] = Nobody
  /\ Arrive(h, c)
  /\ Allocate(c)
  /\ assignedIP' = [assignedIP EXCEPT ![h] = Head(available)]
  /\ ClientIPMap' = [ClientIPMap EXCEPT ![c] = Head(available)]

(* NewMASQUEConnForServer and the store into IPConnMap, which replaces     *)
(* whatever session is there.                                              *)
StoreSession(h) ==
  /\ pc[h] = "assigned"
  /\ pc' = [pc EXCEPT ![h] = "serving"]
  /\ connOpen' = [connOpen EXCEPT ![h] = TRUE]
  /\ IPConnMap' = [IPConnMap EXCEPT ![assignedIP[h]] = h]
  /\ UNCHANGED <<ClientIPMap, poolVars, clientID, assignedIP, toRelease>>

(* session.Conn.Close() of the session stored at address a, if there is    *)
(* one, and its removal from IPConnMap.                                    *)
DropSession(a) ==
  /\ IPConnMap' = [IPConnMap EXCEPT ![a] = Nobody]
  /\ connOpen' = [h \in Handlers |-> connOpen[h] /\ h # IPConnMap[a]]

HandlerEnds(h) ==
  /\ pc' = [pc EXCEPT ![h] = "idle"]
  /\ clientID' = [clientID EXCEPT ![h] = Nobody]
  /\ assignedIP' = [assignedIP EXCEPT ![h] = Nobody]

(* Mutants of the cleanup.  It leaves the release to disconnectClient:     *)
CleanupWithoutRelease(h) ==
  /\ pc[h] = "serving"
  /\ ClientIPMap' = [ClientIPMap EXCEPT ![clientID[h]] = Nobody]
  /\ DropSession(assignedIP[h])
  /\ HandlerEnds(h)
  /\ UNCHANGED <<poolVars, toRelease>>

(* it closes the connection and leaves the session in IPConnMap:           *)
CleanupKeepingRoute(h) ==
  /\ pc[h] = "serving"
  /\ ClientIPMap' = [ClientIPMap EXCEPT ![clientID[h]] = Nobody]
  /\ HandlerEnds(h)
  /\ Release(assignedIP[h])
  /\ connOpen' = [g \in Handlers |-> connOpen[g] /\ g # IPConnMap[assignedIP[h]]]
  /\ UNCHANGED <<IPConnMap, toRelease>>

(* it removes the session without closing its connection:                  *)
CleanupWithoutClose(h) ==
  /\ pc[h] = "serving"
  /\ ClientIPMap' = [ClientIPMap EXCEPT ![clientID[h]] = Nobody]
  /\ IPConnMap' = [IPConnMap EXCEPT ![assignedIP[h]] = Nobody]
  /\ HandlerEnds(h)
  /\ Release(assignedIP[h])
  /\ UNCHANGED <<connOpen, toRelease>>

(* it keeps the client's entry, for the next time it connects:             *)
CleanupKeepingEntry(h) ==
  /\ pc[h] = "serving"
  /\ DropSession(assignedIP[h])
  /\ HandlerEnds(h)
  /\ Release(assignedIP[h])
  /\ UNCHANGED <<ClientIPMap, toRelease>>

(* The proxies of h ended, or its 24-hour context did: cleanupClientSession*)
(* with the client and the address h was started with.  Nothing compares   *)
(* them with what the maps hold by now.                                    *)
Cleanup(h) ==
  /\ pc[h] = "serving"
  /\ ClientIPMap' = [ClientIPMap EXCEPT ![clientID[h]] = Nobody]
  /\ DropSession(assignedIP[h])
  /\ HandlerEnds(h)
  /\ Release(assignedIP[h])
  /\ UNCHANGED toRelease

(* disconnectClient, the part under IPPoolMu.                              *)
Disconnect(d, c) ==
  /\ toRelease[d] = Nobody
  /\ ClientIPMap[c] # Nobody
  /\ DropSession(ClientIPMap[c])
  /\ ClientIPMap' = [ClientIPMap EXCEPT ![c] = Nobody]
  /\ toRelease' = [toRelease EXCEPT ![d] = ClientIPMap[c]]
  /\ UNCHANGED <<poolVars, handlerVars>>

(* disconnectClient, IPPool.Release after the unlock.                      *)
ReleaseDisconnected(d) ==
  /\ toRelease[d] # Nobody
  /\ Release(toRelease[d])
  /\ toRelease' = [toRelease EXCEPT ![d] = Nobody]
  /\ UNCHANGED <<mapVars, handlerVars, connOpen>>

(* Server.Close: closes the connection of every client that has both map   *)
(* entries, and deletes none.                                              *)
CloseServer ==
  /\ connOpen' = [h \in Handlers |->
                    connOpen[h] /\ \A c \in Clients :
                      ClientIPMap[c] # Nobody => IPConnMap[ClientIPMap[c]] # h]
  /\ UNCHANGED <<poolVars, mapVars, handlerVars, toRelease>>

HandlerStep(h) ==
  \/ \E c \in Clients : ReuseAssignment(h, c) \/ AssignNew(h, c)
  \/ StoreSession(h)
  \/ Cleanup(h)

AdminStep(d) ==
  \/ \E c \in Clients : Disconnect(d, c)
  \/ ReleaseDisconnected(d)

Next ==
  \/ \E h \in Handlers : HandlerStep(h)
  \/ \E d \in Admins : AdminStep(d)
  \/ CloseServer

(* A goroutine that can run does run, and a serving handler ends after 24  *)
(* hours at the latest (context.WithTimeout), whatever its client does.    *)
Fairness ==
  /\ \A h \in Handlers : WF_vars(StoreSession(h)) /\ WF_vars(Cleanup(h))
  /\ \A d \in Admins : WF_vars(ReleaseDisconnected(d))

Spec == Init /\ [][Next]_vars /\ Fairness
=============================================================================
