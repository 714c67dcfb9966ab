---------------------------- MODULE AddressLeases ----------------------------
(***************************************************************************)
(* What address management promises, whatever the data structures: an      *)
(* address is leased to at most one client at a time, and it is leased     *)
(* again only after it was given back.  IPPool implements this             *)
(* specification for its own table; the server's ClientIPMap is meant to.  *)
(***************************************************************************)
CONSTANTS Clients,     \* client identities (certificate common names)
          Addresses    \* the addresses of the VPN network that can be leased

VARIABLE leases        \* the set of <<client, address>> pairs in force

LeasesInit == leases = {}

Leased(a) == \E c \in Clients : <<c, a>> \in leases

(* A free address becomes one client's.                                    *)
Grant(c, a) ==
  /\ ~ Leased(a)
  /\ leases' = leases \cup {<<c, a>>}

(* A client gives its address back.                                        *)
GiveBack(c, a) ==
  /\ <<c, a>> \in leases
  /\ leases' = leases \ {<<c, a>>}

LeasesNext == \E c \in Clients, a \in Addresses : Grant(c, a) \/ GiveBack(c, a)

LeasesSpec == LeasesInit /\ [][LeasesNext]_leases
=============================================================================
