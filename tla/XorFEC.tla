-------------------------------- MODULE XorFEC --------------------------------
(***************************************************************************)
(* The XOR code of common/fec: Encode appends one redundancy packet per    *)
(* block of BlockSize packets, Decode rebuilds a packet that is the only   *)
(* loss of its block.                                                      *)
(*                                                                         *)
(* XOR works on each bit alone, so one bit stands for a byte: a packet is  *)
(* its length and the positions that hold a one.  Indices start at 1, and  *)
(* block numbers at 0 as in the code.                                      *)
(***************************************************************************)
EXTENDS Naturals, Sequences, FiniteSetsExt

CONSTANTS BlockSize, RedundancyPercent,
          MaxLen,      \* the longest packet: bounds the model
          MaxPackets,  \* the most packets one Encode is given: bounds the model
          Nil          \* a packet that is not there

(* Config.Validate; without redundancy there is nothing to decode.         *)
ASSUME FECAssumption ==
  /\ RedundancyPercent \in 1 .. 100
  /\ BlockSize \in 1 .. 255
  /\ MaxLen \in Nat /\ MaxPackets \in Nat

(* No packet is empty: both readers of packets skip an empty read.         *)
Packets == UNION {[len : {n}, ones : SUBSET (1 .. n)] : n \in 1 .. MaxLen}

(* A nil slice is no packet, neither one of data nor one of redundancy.    *)
ASSUME NilAssumption ==
  Nil \notin Packets /\ Nil \notin [lens : Seq(Nat), ones : SUBSET Nat]

VARIABLES stage,       \* "given", "encoded", "decoded"
          packets,     \* what Encode is given
          wire,        \* its result, with Nil where a packet was lost
          lost,        \* the indices of the lost packets
          recovered    \* what Decode returns

vars == <<stage, packets, wire, lost, recovered>>

-------------------------------------------------------------------------------
(* The XOR of the items of ps at the indices in S.                         *)
Xor(ps, S) == {i \in 1 .. MaxLen : Cardinality({k \in S : i \in ps[k].ones}) % 2 = 1}

(* CalculateRedundancyPackets: Encode only asks whether it is zero.        *)
CalculateRedundancyPackets(n) ==
  IF (n * RedundancyPercent) \div 100 = 0 THEN 1 ELSE (n * RedundancyPercent) \div 100

(* xorPackets: a header of lengths and the XOR of the block.               *)
Redundancy(block) ==
  [lens |-> [k \in DOMAIN block |-> block[k].len],
   ones |-> Xor(block, DOMAIN block)]

(* The packets of block b, of which there are n in all.                    *)
BlockEnd(b, n) == Min({(b + 1) * BlockSize, n})

EncodeBlocks(ps) ==
  LET NumBlocks == (Len(ps) + BlockSize - 1) \div BlockSize
  IN  ps \o [k \in 1 .. NumBlocks |->
               Redundancy(SubSeq(ps, (k - 1) * BlockSize + 1, BlockEnd(k - 1, Len(ps))))]

BlockOf(i) == (i - 1) \div BlockSize

(* Where Decode looks for the redundancy packet of block b.  It takes      *)
(* every BlockSize + 1 packets for a block and its redundancy.             *)
RedundancyIdx(b, total) == total - (total \div (BlockSize + 1)) + b + 1

(* What is left of the block of i, and its redundancy packet.              *)
Pieces(ws, i) ==
  LET b == BlockOf(i)
  IN  {j \in (b * BlockSize + 1) .. BlockEnd(b, Len(ws)) : j # i /\ ws[j] # Nil}
      \cup {RedundancyIdx(b, Len(ws))}

(* The length of packet i in the header of its redundancy packet.          *)
OriginalLen(ws, i) ==
  ws[RedundancyIdx(BlockOf(i), Len(ws))].lens[i - BlockOf(i) * BlockSize]

(* Mutant: the packet is not cut to its own length.                        *)
RecoverUntrimmed(ws, i) ==
  LET others == Pieces(ws, i) \ {RedundancyIdx(BlockOf(i), Len(ws))}
  IN  [len |-> Max({OriginalLen(ws, i)} \cup {ws[j].len : j \in others}),
       ones |-> Xor(ws, Pieces(ws, i))]

(* xorPacketsWithRedundancy: the XOR of the pieces, cut to that length.    *)
Recover(ws, i) ==
  [len |-> OriginalLen(ws, i),
   ones |-> Xor(ws, Pieces(ws, i)) \cap (1 .. OriginalLen(ws, i))]

(* Decode tries a packet that is the only loss of its block, if it finds a *)
(* redundancy packet whose header covers it.                               *)
Recoverable(ws, ls, i) ==
  LET r == RedundancyIdx(BlockOf(i), Len(ws))
  IN  /\ {j \in ls : BlockOf(j) = BlockOf(i)} = {i}
      /\ r <= Len(ws) /\ ws[r] # Nil
      /\ i - BlockOf(i) * BlockSize <= Len(ws[r].lens)

-------------------------------------------------------------------------------
Init ==
  /\ stage = "given"
  /\ packets \in UNION {[1 .. n -> Packets] : n \in 1 .. MaxPackets}
  /\ wire = <<>> /\ lost = {} /\ recovered = <<>>

Encode ==
  /\ stage = "given"
  /\ stage' = "encoded"
  /\ wire' = IF CalculateRedundancyPackets(Len(packets)) = 0
               THEN packets ELSE EncodeBlocks(packets)
  /\ UNCHANGED <<packets, lost, recovered>>

(* The network loses a packet on its way.                                  *)
Lose(i) ==
  /\ stage = "encoded" /\ i \notin lost
  /\ wire' = [wire EXCEPT ![i] = Nil]
  /\ lost' = lost \cup {i}
  /\ UNCHANGED <<stage, packets, recovered>>

Decode ==
  /\ stage = "encoded"
  /\ stage' = "decoded"
  /\ recovered' = IF lost = {} THEN <<>> ELSE
       [i \in DOMAIN wire |->
          IF i \in lost /\ Recoverable(wire, lost, i) THEN Recover(wire, i) ELSE Nil]
  /\ UNCHANGED <<packets, wire, lost>>

Next == Encode \/ (\E i \in DOMAIN wire : Lose(i)) \/ Decode

Spec == Init /\ [][Next]_vars

-------------------------------------------------------------------------------
(* The data packet i is the only one of its block that was lost, and the   *)
(* redundancy packet of the block arrived.                                 *)
OnlyLoss(i) ==
  LET block == {j \in DOMAIN packets : BlockOf(j) = BlockOf(i)}
  IN  lost \cap block = {i} /\ Len(packets) + BlockOf(i) + 1 \notin lost

Returned(i) == IF i \in DOMAIN recovered THEN recovered[i] ELSE Nil

(* What the code promises, for blocks that are full: a packet that is the  *)
(* only loss of its block comes back as it was sent, whatever the lengths  *)
(* of the others, the losses in other blocks and the redundancy packets    *)
(* that were lost there; of any other block nothing is made up.            *)
FullBlocksRecover ==
  stage = "decoded" /\ Len(packets) % BlockSize = 0 =>
    \A i \in DOMAIN packets : Returned(i) = IF OnlyLoss(i) THEN packets[i] ELSE Nil

(* A packet Decode returns is the one that was lost (xor_fec.go: "Returns  *)
(* recovered packets (same indices as lost)"), full blocks or not.         *)
NothingInvented ==
  stage = "decoded" =>
    \A i \in DOMAIN packets : Returned(i) # Nil => Returned(i) = packets[i]
===============================================================================
