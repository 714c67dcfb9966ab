----------------------------- MODULE XorFECProofs -----------------------------
(***************************************************************************)
(* What the XOR code gives back, for every size of block, every number and *)
(* length of packets and every pattern of losses.                          *)
(***************************************************************************)
EXTENDS XorFEC, FiniteSetTheorems, SequenceTheorems, TLAPS

(* The size of a block, as the lemmas about its indices write it.          *)
B == BlockSize

(* Division: what Encode and Decode compute their indices with.            *)
LEMMA Division ==
  ASSUME NEW a \in Nat, NEW d \in Nat \ {0}
  PROVE  /\ a \div d \in Nat /\ a % d \in 0 .. d - 1
         /\ a = d * (a \div d) + (a % d)
OBVIOUS

LEMMA Multiples ==
  ASSUME NEW d \in Nat \ {0}, NEW x \in Nat, NEW y \in Nat, x < y
  PROVE  d * x \in Nat /\ d * y \in Nat /\ d * x + d <= d * y
<1>1. PICK k \in Nat : y = x + 1 + k
  <2>1. y - x - 1 \in Nat /\ y = x + 1 + (y - x - 1)
    OBVIOUS
  <2>. QED BY <2>1
<1>2. d * y = d * x + d + d * k /\ d * k \in Nat /\ d * x \in Nat
  BY <1>1
<1>. QED BY <1>2

LEMMA Quotient ==
  ASSUME NEW d \in Nat \ {0}, NEW q \in Nat, NEW r \in 0 .. d - 1
  PROVE  (d * q + r) \div d = q
<1> DEFINE a == d * q + r
           k == a \div d
<1>1. a \in Nat /\ d * q \in Nat
  OBVIOUS
<1>2. k \in Nat /\ a % d \in 0 .. d - 1 /\ a = d * k + (a % d)
  BY <1>1, Division
<1>3. ASSUME q < k PROVE FALSE
  <2>1. d * q + d <= d * k /\ d * k \in Nat
    BY <1>2, <1>3, Multiples
  <2>. QED BY <2>1, <1>1, <1>2
<1>4. ASSUME k < q PROVE FALSE
  <2>1. d * k + d <= d * q /\ d * k \in Nat
    BY <1>2, <1>4, Multiples
  <2>. QED BY <2>1, <1>1, <1>2
<1>. QED BY <1>2, <1>3, <1>4

LEMMA MinOfTwo ==
  ASSUME NEW x \in Int, NEW y \in Int, x <= y
  PROVE  Min({x, y}) = x
BY DEF Min

-------------------------------------------------------------------------------
(* The indices of block b.                                                 *)
Block(b) == (B * b + 1) .. (B * b + B)

LEMMA BlockOfIndex ==
  ASSUME NEW i \in Nat \ {0}
  PROVE  /\ BlockOf(i) \in Nat /\ i \in Block(BlockOf(i))
         /\ \A b \in Nat : i \in Block(b) => BlockOf(i) = b
<1>1. B \in Nat \ {0} /\ i - 1 \in Nat
  BY FECAssumption DEF B
<1>2. /\ BlockOf(i) \in Nat /\ (i - 1) % B \in 0 .. B - 1
      /\ i - 1 = B * BlockOf(i) + ((i - 1) % B)
  BY <1>1, Division DEF BlockOf, B
<1>3. B * BlockOf(i) \in Nat
  BY <1>1, <1>2
<1>4. i \in Block(BlockOf(i))
  <2> DEFINE x == B * BlockOf(i)
             y == (i - 1) % B
  <2>1. x \in Nat /\ y \in 0 .. B - 1 /\ i - 1 = x + y
    BY <1>2, <1>3
  <2>. HIDE DEF x, y
  <2>2. i \in (x + 1) .. (x + B)
    BY <2>1, <1>1
  <2>. QED BY <2>2 DEF Block, x
<1>5. ASSUME NEW b \in Nat, i \in Block(b) PROVE BlockOf(i) = b
  <2>1. B * b \in Nat
    BY <1>1
  <2>2. i - 1 - B * b \in 0 .. B - 1
    BY <1>1, <1>5, <2>1 DEF Block
  <2>3. B * b + (i - 1 - B * b) = i - 1
    BY <2>1
  <2>. QED BY <1>1, <2>2, <2>3, Quotient DEF BlockOf, B
<1>. QED BY <1>2, <1>4, <1>5

(* Block b of q full ones: where it ends, for Encode and for Decode, and   *)
(* where its redundancy packet is.                                         *)
LEMMA FullBlock ==
  ASSUME NEW q \in Nat, NEW b \in Nat, b < q
  PROVE  /\ B * q \in Nat /\ B * b \in Nat /\ B * b + B <= B * q
         /\ BlockEnd(b, B * q) = B * b + B
         /\ BlockEnd(b, B * q + q) = B * b + B
         /\ RedundancyIdx(b, B * q + q) = B * q + b + 1
<1>1. B \in Nat \ {0} /\ B + 1 \in Nat \ {0}
  BY FECAssumption DEF B
<1>2. B * q \in Nat /\ B * b \in Nat /\ B * b + B <= B * q
  BY <1>1, Multiples
<1>3. (b + 1) * B = B * b + B
  BY <1>1
<1>4. BlockEnd(b, B * q) = B * b + B /\ BlockEnd(b, B * q + q) = B * b + B
  <2> DEFINE x == B * q
             y == B * b
  <2>1. x \in Nat /\ y \in Nat /\ y + B <= x /\ (b + 1) * BlockSize = y + B
    BY <1>2, <1>3 DEF B
  <2>. HIDE DEF x, y
  <2>2. BlockEnd(b, x) = y + B /\ BlockEnd(b, x + q) = y + B
    BY <2>1, <1>1, MinOfTwo DEF BlockEnd
  <2>. QED BY <2>2 DEF x, y
<1>5. (B * q + q) \div (B + 1) = q
  <2>1. (B + 1) * q + 0 = B * q + q
    BY <1>1
  <2>2. ((B + 1) * q + 0) \div (B + 1) = q
    BY <1>1, Quotient
  <2>. QED BY <2>1, <2>2
<1>6. RedundancyIdx(b, B * q + q) = B * q + b + 1
  <2> DEFINE x == B * q
  <2>1. x \in Nat /\ (x + q) \div (BlockSize + 1) = q
    BY <1>2, <1>5 DEF B
  <2>. HIDE DEF x
  <2>2. RedundancyIdx(b, x + q) = x + b + 1
    BY <2>1 DEF RedundancyIdx
  <2>. QED BY <2>2 DEF x
<1>. QED BY <1>2, <1>4, <1>6

-------------------------------------------------------------------------------
LEMMA Sequence ==
  ASSUME NEW S, NEW n \in Nat, NEW f \in [1 .. n -> S]
  PROVE  f \in Seq(S) /\ Len(f) = n
OBVIOUS

(* What Encode makes of full blocks.                                       *)
LEMMA FullBlocksEncoded ==
  ASSUME NEW ps \in Seq(Packets), NEW q \in Nat, Len(ps) = B * q
  PROVE  /\ EncodeBlocks(ps) \in Seq(Packets \cup [lens : Seq(Nat), ones : SUBSET Nat])
         /\ Len(EncodeBlocks(ps)) = B * q + q
         /\ \A i \in 1 .. B * q : EncodeBlocks(ps)[i] = ps[i]
         /\ \A b \in 0 .. q - 1 :
              /\ EncodeBlocks(ps)[B * q + b + 1].lens = [k \in 1 .. B |-> ps[B * b + k].len]
              /\ EncodeBlocks(ps)[B * q + b + 1].ones =
                   {p \in 1 .. MaxLen :
                      Cardinality({k \in 1 .. B : p \in ps[B * b + k].ones}) % 2 = 1}
<1>1. B \in Nat \ {0} /\ B * q \in Nat /\ B = BlockSize
  BY FECAssumption DEF B
<1> DEFINE rs == [k \in 1 .. q |->
                       Redundancy(SubSeq(ps, (k - 1) * BlockSize + 1, BlockEnd(k - 1, Len(ps))))]
<1>2. (Len(ps) + BlockSize - 1) \div BlockSize = q
  <2>1. B - 1 \in 0 .. B - 1 /\ B * q + (B - 1) = Len(ps) + BlockSize - 1
    BY <1>1
  <2>. QED BY <2>1, <1>1, Quotient
<1>3. EncodeBlocks(ps) = ps \o rs
  BY <1>2 DEF EncodeBlocks
<1>4. ASSUME NEW k \in 1 .. q
      PROVE  /\ rs[k] \in [lens : Seq(Nat), ones : SUBSET Nat]
             /\ rs[k].lens = [j \in 1 .. B |-> ps[B * (k - 1) + j].len]
             /\ rs[k].ones = {p \in 1 .. MaxLen :
                  Cardinality({j \in 1 .. B : p \in ps[B * (k - 1) + j].ones}) % 2 = 1}
  <2> DEFINE b == k - 1
             block == SubSeq(ps, b * BlockSize + 1, BlockEnd(b, Len(ps)))
  <2>1. /\ b \in Nat /\ B * b \in Nat /\ B * b + B <= B * q
        /\ BlockEnd(b, Len(ps)) = B * b + B /\ b * BlockSize = B * b
    <3>1. b \in Nat /\ b < q
      OBVIOUS
    <3>. HIDE DEF b
    <3>2. /\ B * b \in Nat /\ B * b + B <= B * q
          /\ BlockEnd(b, B * q) = B * b + B
      BY <3>1, FullBlock
    <3>3. b * BlockSize = B * b
      BY <3>1, <1>1
    <3>. QED BY <3>1, <3>2, <3>3
  <2>2. block = [j \in 1 .. B |-> ps[B * b + j]]
    <3> DEFINE x == B * b
    <3>1. /\ x \in Nat /\ x + B <= Len(ps)
          /\ block = SubSeq(ps, x + 1, x + B)
      BY <2>1
    <3>. HIDE DEF x
    <3>2. SubSeq(ps, x + 1, x + B) = [j \in 1 .. B |-> ps[x + j]]
      BY <3>1, <1>1
    <3>. QED BY <3>1, <3>2 DEF x
  <2>3. \A j \in 1 .. B : B * b + j \in 1 .. Len(ps)
    BY <1>1, <2>1
  <2>4. \A j \in 1 .. B : ps[B * b + j].len \in Nat
    <3>1. \A p \in Packets : p.len \in Nat
      BY FECAssumption DEF Packets
    <3>. QED BY <3>1, <2>3
  <2>5. rs[k] = Redundancy(block)
    OBVIOUS
  <2>. HIDE DEF block, b, rs
  <2>6. /\ rs[k].lens = [j \in 1 .. B |-> ps[B * b + j].len]
        /\ rs[k].ones = {p \in 1 .. MaxLen :
             Cardinality({j \in 1 .. B : p \in ps[B * b + j].ones}) % 2 = 1}
        /\ rs[k] = [lens |-> rs[k].lens, ones |-> rs[k].ones]
    <3>1. DOMAIN block = 1 .. B /\ \A j \in 1 .. B : block[j] = ps[B * b + j]
      BY <2>2
    <3>2. [j \in DOMAIN block |-> block[j].len] = [j \in 1 .. B |-> ps[B * b + j].len]
      BY <3>1
    <3>3. ASSUME NEW p \in 1 .. MaxLen
          PROVE  {j \in DOMAIN block : p \in block[j].ones}
                   = {j \in 1 .. B : p \in ps[B * b + j].ones}
      BY <3>1
    <3>4. Xor(block, DOMAIN block) = {p \in 1 .. MaxLen :
             Cardinality({j \in 1 .. B : p \in ps[B * b + j].ones}) % 2 = 1}
      BY <3>3 DEF Xor
    <3>5. rs[k] = [lens |-> [j \in 1 .. B |-> ps[B * b + j].len],
                      ones |-> Xor(block, DOMAIN block)]
      BY <2>5, <3>2 DEF Redundancy
    <3>. QED BY <3>4, <3>5
  <2>7. [j \in 1 .. B |-> ps[B * b + j].len] \in Seq(Nat)
    BY <2>4, <1>1
  <2>8. {p \in 1 .. MaxLen :
           Cardinality({j \in 1 .. B : p \in ps[B * b + j].ones}) % 2 = 1} \in SUBSET Nat
    BY FECAssumption
  <2>. QED BY <2>6, <2>7, <2>8 DEF b
<1>. HIDE DEF rs
<1>5. rs \in Seq([lens : Seq(Nat), ones : SUBSET Nat]) /\ Len(rs) = q
  <2>1. rs = [k \in 1 .. q |-> rs[k]]
    BY DEF rs
  <2>2. rs \in [1 .. q -> [lens : Seq(Nat), ones : SUBSET Nat]]
    BY <1>4, <2>1
  <2>. QED BY <2>2, Sequence
<1> DEFINE T == Packets \cup [lens : Seq(Nat), ones : SUBSET Nat]
<1>6. ps \in Seq(T) /\ rs \in Seq(T)
  BY <1>5, SeqMonotonic
<1>. HIDE DEF T
<1>7. /\ EncodeBlocks(ps) \in Seq(T)
      /\ Len(EncodeBlocks(ps)) = B * q + q
      /\ \A i \in 1 .. B * q : EncodeBlocks(ps)[i] = ps[i]
      /\ \A k \in 1 .. q : EncodeBlocks(ps)[B * q + k] = rs[k]
  <2> DEFINE x == B * q
  <2>1. x \in Nat /\ Len(ps) = x
    BY <1>1
  <2>. HIDE DEF x
  <2>2. /\ ps \o rs \in Seq(T) /\ Len(ps \o rs) = x + q
        /\ \A i \in 1 .. x : (ps \o rs)[i] = ps[i]
        /\ \A k \in 1 .. q : (ps \o rs)[x + k] = rs[k]
    <3>1. /\ ps \o rs \in Seq(T) /\ Len(ps \o rs) = Len(ps) + Len(rs)
          /\ \A i \in 1 .. Len(ps) : (ps \o rs)[i] = ps[i]
          /\ \A i \in 1 .. Len(rs) : (ps \o rs)[Len(ps) + i] = rs[i]
      BY <1>6
    <3>. QED BY <3>1, <2>1, <1>5
  <2>. QED BY <2>2, <1>3 DEF x
<1>8. ASSUME NEW b \in 0 .. q - 1
      PROVE  /\ EncodeBlocks(ps)[B * q + b + 1].lens = [k \in 1 .. B |-> ps[B * b + k].len]
             /\ EncodeBlocks(ps)[B * q + b + 1].ones = {p \in 1 .. MaxLen :
                  Cardinality({k \in 1 .. B : p \in ps[B * b + k].ones}) % 2 = 1}
  <2>1. PICK k \in 1 .. q : k - 1 = b /\ B * q + k = B * q + b + 1
    <3>1. b + 1 \in 1 .. q /\ (b + 1) - 1 = b /\ B * q + (b + 1) = B * q + b + 1
      BY <1>1
    <3>. QED BY <3>1
  <2>2. EncodeBlocks(ps)[B * q + b + 1] = rs[k]
    BY <2>1, <1>7
  <2>3. /\ rs[k].lens = [j \in 1 .. B |-> ps[B * b + j].len]
        /\ rs[k].ones = {p \in 1 .. MaxLen :
             Cardinality({j \in 1 .. B : p \in ps[B * b + j].ones}) % 2 = 1}
    BY <1>4, <2>1
  <2>. QED BY <2>2, <2>3
<1>. QED BY <1>7, <1>8 DEF T

-------------------------------------------------------------------------------
(* The XOR of a block and that of its packets numbered from one are equal. *)
LEMMA BlockParity ==
  ASSUME NEW b \in Nat, NEW ps, NEW p
  PROVE  LET K == {k \in 1 .. B : p \in ps[B * b + k].ones}
             J == {j \in Block(b) : p \in ps[j].ones}
         IN  /\ IsFiniteSet(J) /\ Cardinality(J) \in Nat
             /\ Cardinality(K) = Cardinality(J)
<1> DEFINE K == {k \in 1 .. B : p \in ps[B * b + k].ones}
           J == {j \in Block(b) : p \in ps[j].ones}
           x == B * b
           f == [j \in J |-> j - x]
<1>1. B \in Nat \ {0} /\ x \in Nat
  BY FECAssumption DEF B
<1>2. J = {j \in (x + 1) .. (x + B) : p \in ps[j].ones}
  BY DEF Block
<1>3. K = {k \in 1 .. B : p \in ps[x + k].ones}
  OBVIOUS
<1>. HIDE DEF x, J, K
<1>4. IsFiniteSet(J)
  <2>1. IsFiniteSet((x + 1) .. (x + B))
    BY <1>1, FS_Interval
  <2>. QED BY <1>2, <2>1, FS_Subset
<1>5. f \in Bijection(J, K)
  <2>1. f \in [J -> K]
    BY <1>1, <1>2, <1>3
  <2>2. \A i, j \in J : f[i] = f[j] => i = j
    BY <1>1, <1>2
  <2>3. ASSUME NEW k \in K PROVE \E j \in J : f[j] = k
    <3>1. x + k \in J /\ (x + k) - x = k
      BY <1>1, <1>2, <1>3
    <3>. QED BY <3>1
  <2>. QED BY <2>1, <2>2, <2>3 DEF Bijection, Injection, Surjection, IsInjective
<1>6. Cardinality(K) = Cardinality(J) /\ Cardinality(J) \in Nat
  <2>1. ExistsBijection(J, K)
    BY <1>5 DEF ExistsBijection
  <2>. QED BY <1>4, <2>1, FS_Bijection, FS_CardinalityType
<1>. QED BY <1>4, <1>6 DEF J, K, x

(* The bit of the packet i that a block J lacks, from the bits of the      *)
(* others and the parity of them all.                                      *)
LEMMA LostBit ==
  ASSUME NEW J, IsFiniteSet(J), NEW i, NEW r, r \notin J,
         NEW P, P = (J \ {i}) \cup (IF Cardinality(J) % 2 = 1 THEN {r} ELSE {})
  PROVE  Cardinality(P) % 2 = 1 <=> i \in J
<1> DEFINE n == Cardinality(J)
           O == J \ {i}
<1>1. n \in Nat
  BY FS_CardinalityType
<1>2. IsFiniteSet(O) /\ Cardinality(O) = (IF i \in J THEN n - 1 ELSE n)
  BY FS_RemoveElement
<1>3. Cardinality(O) \in Nat
  BY <1>2, FS_CardinalityType
<1>4. Cardinality(O \cup {r}) = Cardinality(O) + 1
  BY <1>2, FS_AddElement
<1>5. CASE n % 2 = 1
  <2>1. Cardinality(P) = Cardinality(O) + 1
    BY <1>4, <1>5
  <2>. QED BY <1>1, <1>2, <1>3, <1>5, <2>1
<1>6. CASE n % 2 # 1
  <2>1. Cardinality(P) = Cardinality(O)
    <3>1. P = O
      BY <1>6
    <3>. QED BY <3>1
  <2>. QED BY <1>1, <1>2, <1>3, <1>6, <2>1
<1>. QED BY <1>5, <1>6

-------------------------------------------------------------------------------
(* What the network leaves of ws when it loses the packets in ls.          *)
Damaged(ws, ls) == [i \in DOMAIN ws |-> IF i \in ls THEN Nil ELSE ws[i]]

(* What Decode returns for what is left.                                   *)
Decoded(ws, ls) ==
  IF ls = {} THEN <<>> ELSE
  [i \in DOMAIN ws |-> IF i \in ls /\ Recoverable(ws, ls, i) THEN Recover(ws, i) ELSE Nil]

LEMMA EncodedIsSequence ==
  ASSUME NEW ps \in Seq(Packets)
  PROVE  /\ EncodeBlocks(ps) = [i \in DOMAIN EncodeBlocks(ps) |-> EncodeBlocks(ps)[i]]
         /\ DOMAIN EncodeBlocks(ps) = 1 .. (Len(ps) + ((Len(ps) + BlockSize - 1) \div BlockSize))
<1> DEFINE m == (Len(ps) + BlockSize - 1) \div BlockSize
           rs == [k \in 1 .. m |->
                    Redundancy(SubSeq(ps, (k - 1) * BlockSize + 1, BlockEnd(k - 1, Len(ps))))]
           T == Packets \cup {rs[k] : k \in 1 .. m}
<1>1. m \in Nat
  <2>1. Len(ps) + BlockSize - 1 \in Nat /\ BlockSize \in Nat \ {0}
    BY FECAssumption
  <2>. QED BY <2>1, Division
<1>2. EncodeBlocks(ps) = ps \o rs
  BY DEF EncodeBlocks
<1>. HIDE DEF m
<1>3. rs \in [1 .. m -> T]
  OBVIOUS
<1>. HIDE DEF rs
<1>4. rs \in Seq(T) /\ Len(rs) = m
  BY <1>1, <1>3, Sequence
<1>5. ps \in Seq(T)
  BY SeqMonotonic
<1>. HIDE DEF T
<1>6. ps \o rs \in Seq(T) /\ Len(ps \o rs) = Len(ps) + m
  BY <1>4, <1>5
<1>7. EncodeBlocks(ps) \in [1 .. Len(ps) + m -> T]
  BY <1>2, <1>6, LenProperties
<1>. QED BY <1>7 DEF m

(* The stages of the codec, and what each leaves behind.                   *)
FECInv ==
  /\ stage \in {"given", "encoded", "decoded"}
  /\ packets \in Seq(Packets)
  /\ IF stage = "given" THEN wire = <<>> /\ lost = {}
     ELSE /\ lost \subseteq DOMAIN EncodeBlocks(packets)
          /\ wire = Damaged(EncodeBlocks(packets), lost)
  /\ stage = "decoded" => recovered = Decoded(wire, lost)

LEMMA FECInvHolds == Spec => []FECInv
<1>1. Init => FECInv
  BY DEF Init, FECInv
<1>2. ASSUME FECInv, [Next]_vars PROVE FECInv'
  <2>1. ASSUME Encode PROVE FECInv'
    <3>1. CalculateRedundancyPackets(Len(packets)) # 0
      BY DEF CalculateRedundancyPackets
    <3>2. /\ stage' = "encoded" /\ packets' = packets /\ lost' = {}
          /\ wire' = EncodeBlocks(packets)
      BY <1>2, <2>1, <3>1 DEF Encode, FECInv
    <3>3. EncodeBlocks(packets) = [i \in DOMAIN EncodeBlocks(packets) |-> EncodeBlocks(packets)[i]]
      BY <1>2, EncodedIsSequence DEF FECInv
    <3>. QED BY <1>2, <3>2, <3>3 DEF FECInv, Damaged
  <2>2. ASSUME NEW i \in DOMAIN wire, Lose(i) PROVE FECInv'
    <3>1. /\ stage = "encoded" /\ stage' = stage /\ packets' = packets
          /\ wire' = [wire EXCEPT ![i] = Nil] /\ lost' = lost \cup {i}
      BY <2>2 DEF Lose
    <3>. QED BY <1>2, <2>2, <3>1 DEF FECInv, Damaged
  <2>3. ASSUME Decode PROVE FECInv'
    BY <1>2, <2>3 DEF Decode, FECInv, Decoded
  <2>4. ASSUME UNCHANGED vars PROVE FECInv'
    BY <1>2, <2>4 DEF vars, FECInv
  <2>. QED BY <1>2, <2>1, <2>2, <2>3, <2>4 DEF Next
<1>. QED BY <1>1, <1>2, PTL DEF Spec

-------------------------------------------------------------------------------
LEMMA IndexInFullBlock ==
  ASSUME NEW q \in Nat, NEW i \in 1 .. B * q
  PROVE  /\ BlockOf(i) \in 0 .. q - 1 /\ i \in Block(BlockOf(i))
         /\ Block(BlockOf(i)) \subseteq 1 .. B * q
<1> DEFINE b == BlockOf(i)
<1>1. B \in Nat \ {0} /\ B * q \in Nat
  BY FECAssumption DEF B
<1>2. b \in Nat /\ i \in Block(b)
  BY BlockOfIndex
<1>. HIDE DEF b
<1>3. b < q
  <2>1. B * b \in Nat /\ B * b + 1 <= i /\ i <= B * q
    BY <1>1, <1>2 DEF Block
  <2>2. ASSUME q < b PROVE FALSE
    <3>1. B * q + B <= B * b
      BY <1>1, <1>2, <2>2, Multiples
    <3>. QED BY <3>1, <2>1, <1>1
  <2>3. b # q
    BY <2>1, <1>1
  <2>. QED BY <2>2, <2>3, <1>2
<1>4. Block(b) \subseteq 1 .. B * q
  <2>1. B * b \in Nat /\ B * b + B <= B * q
    BY <1>1, <1>2, <1>3, Multiples
  <2>. QED BY <2>1, <1>1 DEF Block
<1>. QED BY <1>2, <1>3, <1>4 DEF b

(* Full blocks with losses: what is left at each index.                    *)
LEMMA FullBlocksDamaged ==
  ASSUME NEW ps \in Seq(Packets), NEW q \in Nat, Len(ps) = B * q,
         NEW ls, ls \subseteq DOMAIN EncodeBlocks(ps)
  PROVE  LET ws == Damaged(EncodeBlocks(ps), ls)
         IN  /\ DOMAIN EncodeBlocks(ps) = 1 .. B * q + q
             /\ DOMAIN ws = 1 .. B * q + q /\ Len(ws) = B * q + q
             /\ \A j \in 1 .. B * q + q :
                  /\ ws[j] = Nil <=> j \in ls
                  /\ j \notin ls => ws[j] = EncodeBlocks(ps)[j]
<1> DEFINE T == Packets \cup [lens : Seq(Nat), ones : SUBSET Nat]
           m == B * q + q
           es == EncodeBlocks(ps)
           ws == Damaged(es, ls)
<1>1. m \in Nat
  <2>1. B \in Nat
    BY FECAssumption DEF B
  <2>. QED BY <2>1
<1>2. es \in Seq(T) /\ Len(es) = m
  BY FullBlocksEncoded
<1>3. Nil \notin T
  BY NilAssumption
<1>. HIDE DEF T, m, es
<1>4. DOMAIN es = 1 .. m /\ \A j \in 1 .. m : es[j] \in T
  BY <1>1, <1>2
<1>5. ws \in [1 .. m -> T \cup {Nil}]
  BY <1>4 DEF Damaged
<1>6. Len(ws) = m /\ DOMAIN ws = 1 .. m
  BY <1>1, <1>5, Sequence
<1>7. \A j \in 1 .. m : ws[j] = IF j \in ls THEN Nil ELSE es[j]
  BY <1>4 DEF Damaged
<1>8. \A j \in 1 .. m : (ws[j] = Nil <=> j \in ls) /\ (j \notin ls => ws[j] = es[j])
  BY <1>3, <1>4, <1>7
<1>. QED BY <1>4, <1>6, <1>8 DEF m, es

(* Decode tries exactly the packets that are the only loss of a block      *)
(* whose redundancy packet arrived.                                        *)
LEMMA RecoverableIsOnlyLoss ==
  ASSUME NEW ps \in Seq(Packets), NEW q \in Nat, Len(ps) = B * q,
         NEW ls, ls \subseteq DOMAIN EncodeBlocks(ps), NEW i \in 1 .. B * q
  PROVE  Recoverable(Damaged(EncodeBlocks(ps), ls), ls, i)
           <=> ls \cap Block(BlockOf(i)) = {i} /\ B * q + BlockOf(i) + 1 \notin ls
<1> DEFINE b == BlockOf(i)
           es == EncodeBlocks(ps)
           ws == Damaged(es, ls)
           m == B * q + q
           r == B * q + b + 1
<1>1. B \in Nat \ {0} /\ B * q \in Nat
  BY FECAssumption DEF B
<1>2. b \in 0 .. q - 1 /\ i \in Block(b)
  BY IndexInFullBlock
<1>3. /\ DOMAIN es = 1 .. m /\ Len(ws) = m
      /\ \A j \in 1 .. m : (ws[j] = Nil <=> j \in ls) /\ (j \notin ls => ws[j] = es[j])
  BY FullBlocksDamaged
<1>4. /\ \A b1 \in Nat : b1 < q => RedundancyIdx(b1, m) = B * q + b1 + 1
  BY FullBlock
<1>5. es[r].lens = [k \in 1 .. B |-> ps[B * b + k].len]
  <2>1. \A c \in 0 .. q - 1 : es[B * q + c + 1].lens = [k \in 1 .. B |-> ps[B * c + k].len]
    BY FullBlocksEncoded
  <2>. HIDE DEF b, es
  <2>. QED BY <2>1, <1>2
<1>. HIDE DEF es, ws
<1>6. {j \in ls : BlockOf(j) = b} = ls \cap Block(b)
  <2>1. \A j \in ls : j \in Nat \ {0}
    BY <1>1, <1>3 DEF es
  <2>2. ASSUME NEW j \in ls PROVE BlockOf(j) = b <=> j \in Block(b)
    <3>1. j \in Nat \ {0} /\ b \in Nat
      BY <1>2, <2>1
    <3>. HIDE DEF b
    <3>. QED BY <3>1, BlockOfIndex
  <2>. HIDE DEF b
  <2>. QED BY <2>2
<1>. HIDE DEF b
<1>7. RedundancyIdx(b, Len(ws)) = r /\ r \in 1 .. m
  BY <1>1, <1>2, <1>3, <1>4
<1>8. ASSUME r \notin ls PROVE i - b * BlockSize <= Len(ws[r].lens)
  <2>1. ws[r].lens = [k \in 1 .. B |-> ps[B * b + k].len]
    BY <1>3, <1>5, <1>7, <1>8
  <2>2. Len(ws[r].lens) = B
    BY <2>1, <1>1
  <2>3. b * BlockSize = B * b /\ B * b \in Nat /\ i <= B * b + B
    BY <1>1, <1>2 DEF B, Block
  <2>4. i \in Nat
    BY <1>1
  <2>. QED BY <2>2, <2>3, <2>4, <1>1
<1>9. Recoverable(ws, ls, i) <=>
        /\ ls \cap Block(b) = {i}
        /\ r <= m /\ ws[r] # Nil /\ i - b * BlockSize <= Len(ws[r].lens)
  <2>. HIDE DEF m, r
  <2>. QED BY <1>3, <1>6, <1>7 DEF Recoverable, b
<1>10. r <= m /\ (ws[r] # Nil <=> r \notin ls)
  BY <1>3, <1>7
<1>. QED BY <1>8, <1>9, <1>10 DEF b, ws, es

(* Decode and a full block: the packet that comes back is the one sent.    *)
LEMMA Recovery ==
  ASSUME NEW ps \in Seq(Packets), NEW q \in Nat, Len(ps) = B * q,
         NEW ls, ls \subseteq DOMAIN EncodeBlocks(ps),
         NEW i \in 1 .. B * q, ls \cap Block(BlockOf(i)) = {i},
         B * q + BlockOf(i) + 1 \notin ls
  PROVE  Recover(Damaged(EncodeBlocks(ps), ls), i) = ps[i]
<1> DEFINE b == BlockOf(i)
           es == EncodeBlocks(ps)
           ws == Damaged(es, ls)
           m == B * q + q
           r == B * q + b + 1
           J(p) == {j \in Block(b) : p \in ps[j].ones}
<1>1. B \in Nat \ {0} /\ B * q \in Nat
  BY FECAssumption DEF B
<1>2. b \in 0 .. q - 1 /\ i \in Block(b) /\ Block(b) \subseteq 1 .. B * q
  BY IndexInFullBlock
<1>3. /\ Len(ws) = m
      /\ \A j \in 1 .. m : (ws[j] = Nil <=> j \in ls) /\ (j \notin ls => ws[j] = es[j])
  BY FullBlocksDamaged
<1>4. /\ RedundancyIdx(b, m) = r /\ BlockEnd(b, m) = B * b + B /\ B * b \in Nat
      /\ b * BlockSize = B * b
  <2>1. b \in Nat /\ b < q
    BY <1>2
  <2>. HIDE DEF b
  <2>2. b * BlockSize = B * b
    BY <2>1, <1>1 DEF B
  <2>. QED BY <2>1, <2>2, FullBlock DEF b
<1>5. /\ \A j \in 1 .. B * q : es[j] = ps[j]
      /\ es[r].lens = [k \in 1 .. B |-> ps[B * b + k].len]
      /\ es[r].ones = {p \in 1 .. MaxLen :
           Cardinality({k \in 1 .. B : p \in ps[B * b + k].ones}) % 2 = 1}
  <2>1. /\ \A j \in 1 .. B * q : es[j] = ps[j]
        /\ \A c \in 0 .. q - 1 :
             /\ es[B * q + c + 1].lens = [k \in 1 .. B |-> ps[B * c + k].len]
             /\ es[B * q + c + 1].ones = {p \in 1 .. MaxLen :
                  Cardinality({k \in 1 .. B : p \in ps[B * c + k].ones}) % 2 = 1}
    BY FullBlocksEncoded
  <2>. HIDE DEF b, es
  <2>. QED BY <2>1, <1>2
<1>6. \A p \in 1 .. MaxLen :
        /\ IsFiniteSet(J(p))
        /\ Cardinality({k \in 1 .. B : p \in ps[B * b + k].ones}) = Cardinality(J(p))
  <2>1. b \in Nat
    BY <1>2
  <2>. QED BY <2>1, BlockParity
<1>7. ls \cap Block(b) = {i} /\ r \notin ls
  OBVIOUS
<1>. HIDE DEF b, es, ws
<1>8. r \in 1 .. m /\ r \notin Block(b) /\ ws[r] = es[r]
  BY <1>1, <1>2, <1>3, <1>7
<1>9. ASSUME NEW j \in Block(b), j # i PROVE j \in 1 .. m /\ ws[j] # Nil /\ ws[j] = ps[j]
  <2>1. j \in 1 .. B * q /\ j \in 1 .. m /\ j \notin ls
    BY <1>1, <1>2, <1>7, <1>9
  <2>. QED BY <2>1, <1>3, <1>5
<1>10. Pieces(ws, i) = (Block(b) \ {i}) \cup {r}
  <2>1. Pieces(ws, i) = {j \in Block(b) : j # i /\ ws[j] # Nil} \cup {r}
    BY <1>3, <1>4 DEF Pieces, Block, b
  <2>. QED BY <2>1, <1>9
<1>11. OriginalLen(ws, i) = ps[i].len
  <2>1. OriginalLen(ws, i) = ws[r].lens[i - b * BlockSize]
    BY <1>3, <1>4 DEF OriginalLen, b
  <2>2. i - B * b \in 1 .. B /\ B * b + (i - B * b) = i
    BY <1>1, <1>2, <1>4 DEF Block
  <2>3. [k \in 1 .. B |-> ps[B * b + k].len][i - B * b] = ps[B * b + (i - B * b)].len
    BY <2>2
  <2>4. OriginalLen(ws, i) = [k \in 1 .. B |-> ps[B * b + k].len][i - B * b]
    BY <2>1, <1>4, <1>5, <1>8
  <2>. QED BY <2>2, <2>3, <2>4
<1>12. ASSUME NEW p \in 1 .. MaxLen
       PROVE  Cardinality({k \in Pieces(ws, i) : p \in ws[k].ones}) % 2 = 1 <=> p \in ps[i].ones
  <2> DEFINE P == {k \in Pieces(ws, i) : p \in ws[k].ones}
  <2>1. p \in ws[r].ones <=> Cardinality(J(p)) % 2 = 1
    <3> DEFINE K == {k \in 1 .. B : p \in ps[B * b + k].ones}
    <3>1. Cardinality(K) = Cardinality(J(p))
      BY <1>6
    <3>2. p \in ws[r].ones <=> Cardinality(K) % 2 = 1
      BY <1>5, <1>8
    <3>. QED BY <3>1, <3>2
  <2>2. P = {k \in Block(b) \ {i} : p \in ps[k].ones} \cup (IF p \in ws[r].ones THEN {r} ELSE {})
    BY <1>8, <1>9, <1>10
  <2>3. P = (J(p) \ {i}) \cup (IF Cardinality(J(p)) % 2 = 1 THEN {r} ELSE {})
    BY <2>1, <2>2
  <2>4. IsFiniteSet(J(p)) /\ r \notin J(p) /\ (i \in J(p) <=> p \in ps[i].ones)
    BY <1>2, <1>6, <1>8
  <2>. HIDE DEF P, J, r
  <2>5. Cardinality(P) % 2 = 1 <=> i \in J(p)
    BY <2>3, <2>4, LostBit
  <2>. QED BY <2>4, <2>5 DEF P
<1>13. Xor(ws, Pieces(ws, i)) = {p \in 1 .. MaxLen : p \in ps[i].ones}
  BY <1>12 DEF Xor
<1>14. PICK n \in 1 .. MaxLen : ps[i] \in [len : {n}, ones : SUBSET (1 .. n)]
  <2>1. ps[i] \in Packets
    BY <1>1
  <2>. QED BY <2>1 DEF Packets
<1>15. Xor(ws, Pieces(ws, i)) \cap (1 .. ps[i].len) = ps[i].ones
  BY <1>13, <1>14, FECAssumption
<1>16. Recover(ws, i) = [len |-> ps[i].len, ones |-> ps[i].ones]
  BY <1>11, <1>15 DEF Recover
<1>. QED BY <1>14, <1>16 DEF ws, es

-------------------------------------------------------------------------------
(* FullBlocksRecover: with full blocks, a packet that is the only loss of  *)
(* its block comes back as it was sent, and nothing else comes back,       *)
(* whatever the size of the blocks, their number, the packets and the      *)
(* losses.                                                                 *)
THEOREM FullBlocksComeBack == Spec => []FullBlocksRecover
<1>1. ASSUME FECInv PROVE FullBlocksRecover
  <2>. SUFFICES ASSUME stage = "decoded", Len(packets) % BlockSize = 0,
                       NEW i \in DOMAIN packets
                PROVE  Returned(i) = IF OnlyLoss(i) THEN packets[i] ELSE Nil
    BY DEF FullBlocksRecover
  <2> DEFINE q == Len(packets) \div B
             b == BlockOf(i)
             r == B * q + b + 1
  <2>1. packets \in Seq(Packets) /\ B \in Nat \ {0}
    BY <1>1, FECAssumption DEF FECInv, B
  <2>2. q \in Nat /\ Len(packets) = B * q
    <3>1. Len(packets) \in Nat /\ Len(packets) % B = 0
      BY <2>1 DEF B
    <3>2. /\ Len(packets) \div B \in Nat
          /\ Len(packets) = B * (Len(packets) \div B) + (Len(packets) % B)
      BY <2>1, <3>1, Division
    <3>. QED BY <2>1, <3>1, <3>2
  <2>. HIDE DEF q
  <2>3. DOMAIN packets = 1 .. B * q /\ i \in 1 .. B * q /\ B * q \in Nat
    BY <2>1, <2>2
  <2>4. /\ lost \subseteq DOMAIN EncodeBlocks(packets)
        /\ wire = Damaged(EncodeBlocks(packets), lost)
        /\ recovered = Decoded(wire, lost)
    BY <1>1 DEF FECInv
  <2>5. /\ packets \in Seq(Packets) /\ Len(packets) = B * q /\ q \in Nat
        /\ lost \subseteq DOMAIN EncodeBlocks(packets) /\ i \in 1 .. B * q
    BY <2>1, <2>2, <2>3, <2>4
  <2>6. DOMAIN wire = 1 .. B * q + q
    <3>1. DOMAIN Damaged(EncodeBlocks(packets), lost) = 1 .. B * q + q
      BY <2>5, FullBlocksDamaged
    <3>. QED BY <2>4, <3>1
  <2>7. /\ Recoverable(wire, lost, i) <=> lost \cap Block(b) = {i} /\ r \notin lost
        /\ lost \cap Block(b) = {i} /\ r \notin lost => Recover(wire, i) = packets[i]
    <3>1. Recoverable(Damaged(EncodeBlocks(packets), lost), lost, i)
            <=> lost \cap Block(BlockOf(i)) = {i} /\ B * q + BlockOf(i) + 1 \notin lost
      BY <2>5, RecoverableIsOnlyLoss
    <3>2. ASSUME lost \cap Block(BlockOf(i)) = {i}, B * q + BlockOf(i) + 1 \notin lost
          PROVE  Recover(Damaged(EncodeBlocks(packets), lost), i) = packets[i]
      BY <2>5, <3>2, Recovery
    <3>. QED BY <2>4, <3>1, <3>2
  <2>8. {j \in DOMAIN packets : BlockOf(j) = b} = Block(b)
    <3>1. b \in Nat /\ Block(b) \subseteq 1 .. B * q
      BY <2>2, <2>3, IndexInFullBlock
    <3>. HIDE DEF b
    <3>2. ASSUME NEW j \in 1 .. B * q PROVE BlockOf(j) = b <=> j \in Block(b)
      <4>1. j \in Nat \ {0}
        BY <2>3
      <4>. QED BY <3>1, <4>1, BlockOfIndex
    <3>. QED BY <3>1, <3>2, <2>3
  <2>9. OnlyLoss(i) <=> lost \cap Block(b) = {i} /\ r \notin lost
    BY <2>2, <2>8 DEF OnlyLoss
  <2>10. Returned(i) = IF lost # {} /\ i \in lost /\ Recoverable(wire, lost, i)
                         THEN Recover(wire, i) ELSE Nil
    <3>1. CASE lost = {}
      BY <2>4, <3>1 DEF Returned, Decoded
    <3>2. CASE lost # {}
      <4>1. recovered = [j \in DOMAIN wire |->
              IF j \in lost /\ Recoverable(wire, lost, j) THEN Recover(wire, j) ELSE Nil]
        BY <2>4, <3>2 DEF Decoded
      <4>2. i \in DOMAIN wire
        BY <2>2, <2>3, <2>6
      <4>. QED BY <3>2, <4>1, <4>2 DEF Returned
    <3>. QED BY <3>1, <3>2
  <2>. QED BY <2>7, <2>9, <2>10
<1>. QED BY <1>1, FECInvHolds, PTL

(* NothingInvented, which fails in general, holds of full blocks.          *)
THEOREM FullBlocksInventNothing ==
  Spec => [](Len(packets) % BlockSize = 0 => NothingInvented)
<1>1. FullBlocksRecover => (Len(packets) % BlockSize = 0 => NothingInvented)
  BY DEF FullBlocksRecover, NothingInvented
<1>. QED BY <1>1, FullBlocksComeBack, PTL

(* When the last block is not full, Decode counts one block too few, and   *)
(* looks for the redundancy packet of every block one place too far.       *)
LEMMA RedundancyShifted ==
  ASSUME NEW n \in Nat, n % BlockSize # 0
  PROVE  LET q == n \div BlockSize
             NumBlocks == (n + BlockSize - 1) \div BlockSize
         IN  /\ NumBlocks = q + 1
             /\ \A b \in Nat : RedundancyIdx(b, n + NumBlocks) = n + b + 2
<1> DEFINE q == n \div BlockSize
           s == n % BlockSize
           NumBlocks == (n + BlockSize - 1) \div BlockSize
<1>1. BlockSize \in Nat \ {0} /\ BlockSize + 1 \in Nat \ {0}
  BY FECAssumption
<1>2. q \in Nat /\ s \in 1 .. BlockSize - 1 /\ n = BlockSize * q + s
  <2>1. q \in Nat /\ s \in 0 .. BlockSize - 1 /\ n = BlockSize * q + s
    BY <1>1, Division
  <2>2. s # 0
    OBVIOUS
  <2>. QED BY <2>1, <2>2, <1>1
<1>. HIDE DEF q, s
<1>3. NumBlocks = q + 1
  <2>1. BlockSize * (q + 1) + (s - 1) = n + BlockSize - 1
    BY <1>1, <1>2
  <2>2. q + 1 \in Nat /\ s - 1 \in 0 .. BlockSize - 1
    BY <1>1, <1>2
  <2>3. (BlockSize * (q + 1) + (s - 1)) \div BlockSize = q + 1
    BY <1>1, <2>2, Quotient
  <2>. QED BY <2>1, <2>3
<1>4. (n + (q + 1)) \div (BlockSize + 1) = q
  <2>1. (BlockSize + 1) * q + (s + 1) = n + (q + 1)
    BY <1>1, <1>2
  <2>2. s + 1 \in 0 .. (BlockSize + 1) - 1
    BY <1>1, <1>2
  <2>3. ((BlockSize + 1) * q + (s + 1)) \div (BlockSize + 1) = q
    BY <1>1, <1>2, <2>2, Quotient
  <2>. QED BY <2>1, <2>3
<1>5. ASSUME NEW b \in Nat PROVE RedundancyIdx(b, n + (q + 1)) = n + b + 2
  BY <1>2, <1>4 DEF RedundancyIdx
<1>. QED BY <1>3, <1>5 DEF q

(* A packet of a last block that is not full never comes back, whatever    *)
(* was lost: Decode looks for its redundancy beyond what was sent.         *)
THEOREM PartialBlockStaysLost ==
  Spec => [](stage = "decoded" /\ Len(packets) % BlockSize # 0 =>
               \A i \in DOMAIN packets :
                 BlockOf(i) = Len(packets) \div BlockSize => Returned(i) = Nil)
<1>1. ASSUME FECInv, stage = "decoded", Len(packets) % BlockSize # 0,
             NEW i \in DOMAIN packets, BlockOf(i) = Len(packets) \div BlockSize
      PROVE  Returned(i) = Nil
  <2> DEFINE n == Len(packets)
             q == n \div BlockSize
  <2>1. packets \in Seq(Packets) /\ n \in Nat /\ n % BlockSize # 0
    BY <1>1 DEF FECInv
  <2>2. /\ (n + BlockSize - 1) \div BlockSize = q + 1
        /\ \A b \in Nat : RedundancyIdx(b, n + ((n + BlockSize - 1) \div BlockSize)) = n + b + 2
    <3>. HIDE DEF n
    <3>. QED BY <2>1, RedundancyShifted
  <2>3. q \in Nat
    <3>1. BlockSize \in Nat \ {0}
      BY FECAssumption
    <3>. HIDE DEF n
    <3>. QED BY <2>1, <3>1, Division
  <2>4. DOMAIN EncodeBlocks(packets) = 1 .. (n + (q + 1))
    BY <2>1, <2>2, EncodedIsSequence
  <2>. HIDE DEF n, q
  <2>5. Len(wire) = n + (q + 1)
    <3>1. wire = Damaged(EncodeBlocks(packets), lost)
      BY <1>1 DEF FECInv
    <3>2. wire = [j \in 1 .. (n + (q + 1)) |-> wire[j]]
      BY <2>4, <3>1 DEF Damaged
    <3>3. n + (q + 1) \in Nat
      BY <2>1, <2>3
    <3>. QED BY <3>2, <3>3
  <2>6. BlockOf(i) = q
    BY <1>1 DEF q, n
  <2>7. RedundancyIdx(q, Len(wire)) = n + q + 2
    BY <2>2, <2>3, <2>5
  <2>8. ~Recoverable(wire, lost, i)
    BY <2>1, <2>3, <2>5, <2>6, <2>7 DEF Recoverable
  <2>. QED BY <1>1, <2>8 DEF FECInv, Decoded, Returned
<1>2. FECInv => (stage = "decoded" /\ Len(packets) % BlockSize # 0 =>
                   \A i \in DOMAIN packets :
                     BlockOf(i) = Len(packets) \div BlockSize => Returned(i) = Nil)
  BY <1>1
<1>. QED BY <1>2, FECInvHolds, PTL
===============================================================================
