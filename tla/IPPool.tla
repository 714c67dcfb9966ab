-------------------------------- MODULE IPPool --------------------------------
(***************************************************************************)
(* The address pool of the server, type IPPool of common/ip.go.            *)
(*                                                                         *)
(* allocated is a Go map: here it is a function on all the addresses, and  *)
(* Nobody stands for "no entry".  available is the slice of free           *)
(* addresses: Allocate takes its head, Release appends to its tail.  Each  *)
(* method holds the pool's mutex from its first line to its return, so     *)
(* each is one step.                                                       *)
(***************************************************************************)
EXTENDS Sequences, Naturals

CONSTANTS Clients,     \* the clientID strings: certificate common names
          Addresses,   \* the addresses of the prefix, gateway and network left out
          InitialPool, \* those addresses in the order NewIPPool lists them
          Nobody       \* no entry in a map

(* NewIPPool walks the prefix upwards and lists every address once.        *)
ASSUME PoolAssumption ==
  /\ Nobody \notin Clients \cup Addresses
  /\ InitialPool \in Seq(Addresses)
  /\ \A i, j \in DOMAIN InitialPool : InitialPool[i] = InitialPool[j] => i = j
  /\ \A a \in Addresses : \E i \in DOMAIN InitialPool : InitialPool[i] = a

VARIABLES allocated,   \* allocated[ip]: the client ip was handed to, or Nobody
          available    \* the free addresses, the next one to hand out first

poolVars == <<allocated, available>>

PoolInit ==
  /\ allocated = [a \in Addresses |-> Nobody]
  /\ available = InitialPool

-------------------------------------------------------------------------------
(* Mutants: what a plausible slip in the two methods would do.             *)

(* Forgets to drop the head from the free slice.                           *)
AllocateKeepingHead(c) ==
  /\ available # <<>>
  /\ allocated' = [allocated EXCEPT ![Head(available)] = c]
  /\ UNCHANGED available

(* Release without the "is it allocated" test.                             *)
ReleaseUnchecked(a) ==
  /\ allocated' = [allocated EXCEPT ![a] = Nobody]
  /\ available' = Append(available, a)

(* Release puts the address back at the front.                             *)
ReleaseToFront(a) ==
  IF allocated[a] # Nobody
    THEN /\ allocated' = [allocated EXCEPT ![a] = Nobody]
         /\ available' = <<a>> \o available
    ELSE UNCHANGED poolVars
-------------------------------------------------------------------------------
(* Allocate(clientID).  With an empty slice it returns an error and        *)
(* changes nothing, so the action is not enabled.                          *)
Allocate(c) ==
  /\ available # <<>>
  /\ allocated' = [allocated EXCEPT ![Head(available)] = c]
  /\ available' = Tail(available)

(* Release(ip): of an address nobody holds it does nothing.                *)
Release(a) ==
  IF allocated[a] # Nobody
    THEN /\ allocated' = [allocated EXCEPT ![a] = Nobody]
         /\ available' = Append(available, a)
    ELSE UNCHANGED poolVars

(* Any caller, any order: the pool on its own.                             *)
PoolNext ==
  \/ \E c \in Clients : Allocate(c)
  \/ \E a \in Addresses : Release(a)

PoolSpec == PoolInit /\ [][PoolNext]_poolVars

-------------------------------------------------------------------------------
Free(a) == \E i \in DOMAIN available : available[i] = a

(* The maps have their types.                                              *)
PoolTypeOK ==
  /\ allocated \in [Addresses -> Clients \cup {Nobody}]
  /\ available \in Seq(Addresses)

(* The free slice and the allocation map split the pool exactly: no        *)
(* address is in both, none in neither, none twice in the slice.  A        *)
(* release that ran twice for one allocation would break it, and the same  *)
(* address would then be handed to two clients.                            *)
PoolPartition ==
  /\ \A i, j \in DOMAIN available : available[i] = available[j] => i = j
  /\ \A a \in Addresses : Free(a) <=> allocated[a] = Nobody

PoolInv == PoolTypeOK /\ PoolPartition

(* a is handed out before b if both are free now.                          *)
Before(a, b) ==
  \E i, j \in DOMAIN available :
    /\ i < j
    /\ available[i] = a
    /\ available[j] = b

(* Addresses come back into use in the order they were freed: no step      *)
(* hands out an address while one freed earlier stays free, and an address *)
(* freed by a step queues behind all that stay free.  Late packets for a   *)
(* former holder therefore meet a new holder as late as the pool allows.   *)
ReuseInReleaseOrder ==
  [][ \A a, b \in Addresses :
        /\ (Before(a, b) /\ Free(a)') => Before(a, b)'
        /\ (Free(a) /\ Free(a)' /\ ~Free(b) /\ Free(b)') => Before(a, b)'
    ]_poolVars

(* The pool is an implementation of the lease specification: nobody is     *)
(* ever given an address that another allocation still holds.              *)
PoolLeases == {ca \in Clients \X Addresses : allocated[ca[2]] = ca[1]}

Leases == INSTANCE AddressLeases WITH leases <- PoolLeases
LeasesSpec == Leases!LeasesSpec
===============================================================================
