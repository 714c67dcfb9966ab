-------------------------- MODULE RegistryProperties --------------------------
(***************************************************************************)
(* What the session registry must guarantee.  The first group holds for    *)
(* every interleaving of handlers and administrators; the second only when *)
(* no administrator disconnects anyone and a client's requests do not      *)
(* overlap.                                                                *)
(***************************************************************************)
EXTENDS SessionRegistry

(* Handler h holds address a: it was assigned a and has not cleaned up.    *)
Holds(h, a) == pc[h] # "idle" /\ assignedIP[h] = a

(* The variables have their types, and a handler's locals are set exactly  *)
(* while it runs.                                                          *)
TypeOK ==
  /\ PoolTypeOK
  /\ ClientIPMap \in [Clients -> Addresses \cup {Nobody}]
  /\ IPConnMap \in [Addresses -> Handlers \cup {Nobody}]
  /\ pc \in [Handlers -> {"idle", "assigned", "serving"}]
  /\ clientID \in [Handlers -> Clients \cup {Nobody}]
  /\ assignedIP \in [Handlers -> Addresses \cup {Nobody}]
  /\ connOpen \in [Handlers -> BOOLEAN]
  /\ toRelease \in [Admins -> Addresses \cup {Nobody}]
  /\ \A h \in Handlers : /\ pc[h] = "idle" <=> clientID[h] = Nobody
                         /\ pc[h] = "idle" <=> assignedIP[h] = Nobody

(* Packets are never routed to a session whose handler has ended: the      *)
(* session stored for an address belongs to a handler that still serves    *)
(* that address, so its cleanup is still to come (findClientSession, with  *)
(* cleanups and disconnects of other goroutines in between).               *)
RoutesAreServed ==
  \A a \in Addresses : IPConnMap[a] # Nobody =>
    pc[IPConnMap[a]] = "serving" /\ assignedIP[IPConnMap[a]] = a

(* GET /clients lists no ghost: a client with an assignment has a handler  *)
(* of its own running with that very address.                              *)
NoStaleAssignment ==
  \A c \in Clients : ClientIPMap[c] # Nobody =>
    \E h \in Serving(c) : Holds(h, ClientIPMap[c])

(* No address leaks: one that is out of the pool is held by a handler that *)
(* has yet to clean up and will release it.                                *)
NoAddressLeak ==
  \A a \in Addresses : allocated[a] # Nobody => \E h \in Handlers : Holds(h, a)

RegistryInv ==
  TypeOK /\ PoolPartition /\ RoutesAreServed /\ NoStaleAssignment /\ NoAddressLeak

(* An address handed out returns to the pool, whatever clients and         *)
(* administrators do: no schedule keeps it out for ever.                   *)
AddressReturned ==
  \A a \in Addresses : allocated[a] # Nobody ~> allocated[a] = Nobody

-------------------------------------------------------------------------------
(* No two clients are assigned the same address.                           *)
UniqueAddress ==
  \A c, d \in Clients : c # d /\ ClientIPMap[c] # Nobody =>
    ClientIPMap[c] # ClientIPMap[d]

(* While a handler runs, its address is its client's, in the pool and in   *)
(* ClientIPMap alike: nobody released it behind its back.                  *)
LeaseIsKept ==
  \A h \in Handlers : pc[h] # "idle" =>
    /\ allocated[assignedIP[h]] = clientID[h]
    /\ ClientIPMap[clientID[h]] = assignedIP[h]

(* Every open connection can be found through IPConnMap, so the cleanup    *)
(* closes it: a finished handler leaves no open connection (and no relay   *)
(* goroutine) behind, and no session is overwritten.                       *)
NoConnLeak ==
  \A h \in Handlers : connOpen[h] => pc[h] = "serving" /\ IPConnMap[assignedIP[h]] = h

(* The administration API tells the truth: a client is called connected    *)
(* exactly while a handler serves it, and the sessions it counts are the   *)
(* connected clients' own, none twice and none of an ended handler         *)
(* (api_server.go reads two maps that four critical sections write).       *)
StatusIsTruthful ==
  /\ \A c \in Clients : Connected(c) <=> \E h \in Serving(c) : pc[h] = "serving"
  /\ ActiveSessions = {ClientIPMap[c] : c \in {d \in Clients : Connected(d)}}

(* ClientIPMap implements the lease specification: an address goes to a    *)
(* client only when no client has it.                                      *)
RegistryLeases == {ca \in Clients \X Addresses : ClientIPMap[ca[1]] = ca[2]}

Registered == INSTANCE AddressLeases WITH leases <- RegistryLeases
RegisteredLeasesSpec == Registered!LeasesSpec
===============================================================================
