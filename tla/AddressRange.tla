----------------------------- MODULE AddressRange -----------------------------
(***************************************************************************)
(* The address arithmetic of common/ip.go: the VPN network of a prefix, its*)
(* gateway, and the loop of NewIPPool that lists the addresses to hand out.*)
(* An address is a number below Space, and nextIP wraps at the end of the  *)
(* family as the carry over its bytes does.  What the loop lists becomes   *)
(* InitialPool of IPPool.                                                  *)
(***************************************************************************)
EXTENDS Integers, Sequences

CONSTANTS Space,       \* how many addresses the family has: 2^32 or 2^128
          Sizes        \* the sizes of its prefixes: the powers of two up to Space

(* A prefix is an aligned block.                                           *)
ASSUME RangeAssumption ==
  /\ Space \in Nat \ {0}
  /\ Sizes \subseteq 1 .. Space
  /\ \A s \in Sizes : \A a \in 0 .. Space - 1 : a - (a % s) \in 0 .. Space - s

VARIABLES network,     \* the NetworkInfo of the configured assign_cidr
          ip,          \* the loop variable of NewIPPool
          ips          \* the addresses it has listed so far

rangeVars == <<network, ip, ips>>

Ip == 0 .. Space - 1

nextIP(a) == (a + 1) % Space

(* LastIP sets the host bits of a network's address.                       *)
LastIP(n) == n.addr + n.size - 1

(* NewNetworkInfo clears the host bits of the configured address; the      *)
(* gateway is the address after the network's.                             *)
NewNetworkInfo(cidr) ==
  LET masked == cidr.addr - (cidr.addr % cidr.size)
  IN  [addr |-> masked, size |-> cidr.size, gateway |-> nextIP(masked)]

RangeInit ==
  /\ network \in {NewNetworkInfo(cidr) : cidr \in [addr : Ip, size : Sizes]}
  /\ ip = 0 /\ ips = <<>>

StartListing ==
  /\ ip' = nextIP(network.addr)
  /\ ips' = <<>>
  /\ UNCHANGED network

Listed == ip > LastIP(network)

(* Mutant: the gateway is not skipped.                                     *)
ListAddressAndGateway ==
  /\ ~Listed
  /\ ips' = IF ip = network.addr THEN ips ELSE Append(ips, ip)
  /\ ip' = nextIP(ip)
  /\ UNCHANGED network

(* One iteration.                                                          *)
ListAddress ==
  /\ ~Listed
  /\ ips' = IF ip \in {network.gateway, network.addr} THEN ips ELSE Append(ips, ip)
  /\ ip' = nextIP(ip)
  /\ UNCHANGED network
===============================================================================
