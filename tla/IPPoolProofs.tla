----------------------------- MODULE IPPoolProofs -----------------------------
(***************************************************************************)
(* The pool's partition holds for every set of clients and addresses, each *)
(* method preserves it whoever calls it, and the pool implements the lease *)
(* specification.  The method lemmas are stated without PoolSpec so that   *)
(* the session registry, which calls the methods, can cite them.           *)
(***************************************************************************)
EXTENDS IPPool, FiniteSetTheorems, FunctionTheorems, SequenceTheorems, TLAPS

(* The slice NewIPPool builds and an empty map split the pool.             *)
LEMMA PoolInitInv == ASSUME PoolInit PROVE PoolInv
BY PoolAssumption DEF PoolInit, PoolInv, PoolTypeOK, PoolPartition, Free

(* The address Allocate is about to hand out is free.                      *)
LEMMA HeadIsFree ==
  ASSUME PoolInv, available # <<>>
  PROVE  /\ Head(available) \in Addresses
         /\ allocated[Head(available)] = Nobody
<1>1. 1 \in DOMAIN available /\ Head(available) = available[1]
  BY DEF PoolInv, PoolTypeOK
<1>2. available[1] \in Addresses
  BY <1>1 DEF PoolInv, PoolTypeOK
<1>. QED BY <1>1, <1>2 DEF PoolInv, PoolPartition, Free

(* Allocate keeps the free slice and the map a partition of the pool.      *)
LEMMA AllocatePreservesPool ==
  ASSUME PoolInv, NEW c \in Clients, Allocate(c)
  PROVE  PoolInv'
<1> DEFINE h == Head(available)
<1>1. h \in Addresses /\ allocated[h] = Nobody
  BY HeadIsFree DEF Allocate
<1>2. /\ Len(available) \in Nat /\ Len(available) > 0
      /\ DOMAIN available = 1 .. Len(available)
      /\ h = available[1]
      /\ available' \in Seq(Addresses)
      /\ Len(available') = Len(available) - 1
      /\ DOMAIN available' = 1 .. Len(available')
      /\ \A i \in DOMAIN available' : available'[i] = available[i + 1]
  BY DEF PoolInv, PoolTypeOK, Allocate
<1>3. PoolTypeOK'
  BY <1>1, <1>2 DEF PoolInv, PoolTypeOK, Allocate
<1>4. ASSUME NEW i \in DOMAIN available', NEW j \in DOMAIN available',
             available'[i] = available'[j]
      PROVE  i = j
  <2>1. i + 1 \in DOMAIN available /\ j + 1 \in DOMAIN available
    BY <1>2
  <2>2. available[i + 1] = available[j + 1]
    BY <1>2, <1>4
  <2>3. i + 1 = j + 1
    BY <2>1, <2>2 DEF PoolInv, PoolPartition
  <2>. QED BY <2>3, <1>2
<1>5. ASSUME NEW a \in Addresses PROVE Free(a)' <=> allocated'[a] = Nobody
  <2>1. CASE a = h
    <3>1. allocated'[a] = c /\ c # Nobody
      BY <2>1, <1>1, PoolAssumption DEF Allocate, PoolInv, PoolTypeOK
    <3>2. ASSUME NEW i \in DOMAIN available', available'[i] = a PROVE FALSE
      <4>1. i + 1 \in DOMAIN available /\ 1 \in DOMAIN available /\ i + 1 # 1
        BY <1>2
      <4>2. available[i + 1] = available[1]
        BY <3>2, <1>2, <2>1
      <4>. QED BY <4>1, <4>2 DEF PoolInv, PoolPartition
    <3>. QED BY <3>1, <3>2 DEF Free
  <2>2. CASE a # h
    <3>1. allocated'[a] = allocated[a]
      BY <2>2, <1>1 DEF Allocate, PoolInv, PoolTypeOK
    <3>2. ASSUME Free(a) PROVE Free(a)'
      <4>1. PICK i \in DOMAIN available : available[i] = a
        BY <3>2 DEF Free
      <4>2. i # 1
        BY <4>1, <2>2, <1>2
      <4>3. i - 1 \in DOMAIN available' /\ available'[i - 1] = available[(i - 1) + 1]
        BY <4>1, <4>2, <1>2
      <4>4. (i - 1) + 1 = i
        BY <4>1, <1>2
      <4>. QED BY <4>1, <4>3, <4>4 DEF Free
    <3>3. ASSUME Free(a)' PROVE Free(a)
      <4>1. PICK i \in DOMAIN available' : available'[i] = a
        BY <3>3 DEF Free
      <4>2. i + 1 \in DOMAIN available /\ available[i + 1] = a
        BY <4>1, <1>2
      <4>. QED BY <4>2 DEF Free
    <3>. QED BY <3>1, <3>2, <3>3 DEF PoolInv, PoolPartition
  <2>. QED BY <2>1, <2>2
<1>. QED BY <1>3, <1>4, <1>5 DEF PoolInv, PoolPartition

(* Release keeps the partition, also of an address that is free already.   *)
LEMMA ReleasePreservesPool ==
  ASSUME PoolInv, NEW r \in Addresses, Release(r)
  PROVE  PoolInv'
<1>1. CASE allocated[r] = Nobody
  BY <1>1 DEF Release, poolVars, PoolInv, PoolTypeOK, PoolPartition, Free
<1>2. CASE allocated[r] # Nobody
  <2> DEFINE n == Len(available) + 1
  <2>1. /\ allocated' = [allocated EXCEPT ![r] = Nobody]
        /\ available' = Append(available, r)
    BY <1>2 DEF Release
  <2>2. /\ Len(available) \in Nat
        /\ DOMAIN available = 1 .. Len(available)
        /\ available' \in Seq(Addresses)
        /\ DOMAIN available' = 1 .. n
        /\ available'[n] = r
        /\ \A i \in 1 .. Len(available) : available'[i] = available[i]
    BY <2>1 DEF PoolInv, PoolTypeOK
  <2>3. PoolTypeOK'
    BY <2>1, <2>2 DEF PoolInv, PoolTypeOK
  <2>4. \A i \in 1 .. Len(available) : available[i] # r
    BY <1>2, <2>2 DEF PoolInv, PoolPartition, Free
  <2>5. ASSUME NEW i \in DOMAIN available', NEW j \in DOMAIN available',
               available'[i] = available'[j]
        PROVE  i = j
    <3>1. \A k \in DOMAIN available' : k = n \/ k \in 1 .. Len(available)
      BY <2>2
    <3>2. CASE i = n
      BY <3>1, <3>2, <2>2, <2>4, <2>5
    <3>3. CASE i \in 1 .. Len(available)
      BY <3>1, <3>3, <2>2, <2>4, <2>5 DEF PoolInv, PoolPartition
    <3>. QED BY <3>1, <3>2, <3>3
  <2>6. ASSUME NEW a \in Addresses PROVE Free(a)' <=> allocated'[a] = Nobody
    <3>1. CASE a = r
      <4>1. n \in DOMAIN available' /\ available'[n] = a
        BY <2>2, <3>1
      <4>. QED BY <4>1, <3>1, <2>1 DEF Free, PoolInv, PoolTypeOK
    <3>2. CASE a # r
      <4>1. allocated'[a] = allocated[a]
        BY <2>1, <3>2 DEF PoolInv, PoolTypeOK
      <4>2. Free(a)' <=> Free(a)
        BY <2>2, <3>2 DEF Free
      <4>. QED BY <4>1, <4>2 DEF PoolInv, PoolPartition
    <3>. QED BY <3>1, <3>2
  <2>. QED BY <2>3, <2>5, <2>6 DEF PoolInv, PoolPartition
<1>. QED BY <1>1, <1>2

(* No double hand-out: for every pool and every order of calls the free    *)
(* slice and the allocation map split the pool (Allocate and Release of    *)
(* common/ip.go).                                                          *)
THEOREM PoolPartitionHolds == PoolSpec => []PoolInv
<1>1. PoolInit => PoolInv
  BY PoolInitInv
<1>2. PoolInv /\ [PoolNext]_poolVars => PoolInv'
  <2> SUFFICES ASSUME PoolInv, [PoolNext]_poolVars PROVE PoolInv'
    OBVIOUS
  <2>1. CASE \E c \in Clients : Allocate(c)
    BY <2>1, AllocatePreservesPool
  <2>2. CASE \E a \in Addresses : Release(a)
    BY <2>2, ReleasePreservesPool
  <2>3. CASE UNCHANGED poolVars
    BY <2>3 DEF poolVars, PoolInv, PoolTypeOK, PoolPartition, Free
  <2>. QED BY <2>1, <2>2, <2>3 DEF PoolNext
<1>. QED BY <1>1, <1>2, PTL DEF PoolSpec

(* The split of the pool, as the run checks it.                            *)
COROLLARY PoolIsPartitioned == PoolSpec => []PoolPartition
<1>1. PoolInv => PoolPartition
  BY DEF PoolInv
<1>. QED BY <1>1, PoolPartitionHolds, PTL

(* The pool implements the lease specification: Allocate grants an address *)
(* nobody holds, and Release of a held address gives it back.              *)
THEOREM PoolImplementsLeases == PoolSpec => LeasesSpec
<1>1. PoolInit => Leases!LeasesInit
  BY PoolAssumption DEF PoolInit, PoolLeases, Leases!LeasesInit
<1>2. PoolInv /\ [PoolNext]_poolVars => [Leases!LeasesNext]_PoolLeases
  <2> SUFFICES ASSUME PoolInv, [PoolNext]_poolVars
               PROVE  Leases!LeasesNext \/ UNCHANGED PoolLeases
    OBVIOUS
  <2>1. ASSUME NEW c \in Clients, Allocate(c) PROVE Leases!LeasesNext
    <3> DEFINE h == Head(available)
    <3>1. h \in Addresses /\ allocated[h] = Nobody
      BY <2>1, HeadIsFree DEF Allocate
    <3>2. ~ Leases!Leased(h)
      BY <3>1, PoolAssumption DEF Leases!Leased, PoolLeases
    <3>3. PoolLeases' = PoolLeases \cup {<<c, h>>}
      BY <2>1, <3>1, PoolAssumption DEF PoolLeases, Allocate, PoolInv, PoolTypeOK
    <3>. QED BY <3>1, <3>2, <3>3 DEF Leases!LeasesNext, Leases!Grant
  <2>2. ASSUME NEW a \in Addresses, Release(a)
        PROVE  Leases!LeasesNext \/ UNCHANGED PoolLeases
    <3>1. CASE allocated[a] = Nobody
      BY <2>2, <3>1 DEF Release, poolVars, PoolLeases
    <3>2. CASE allocated[a] # Nobody
      <4> DEFINE c == allocated[a]
      <4>1. c \in Clients
        BY <3>2 DEF PoolInv, PoolTypeOK
      <4>2. <<c, a>> \in PoolLeases
        BY <4>1 DEF PoolLeases
      <4>3. PoolLeases' = PoolLeases \ {<<c, a>>}
        BY <2>2, <3>2, PoolAssumption DEF PoolLeases, Release, PoolInv, PoolTypeOK
      <4>. QED BY <4>1, <4>2, <4>3 DEF Leases!LeasesNext, Leases!GiveBack
    <3>. QED BY <3>1, <3>2
  <2>3. CASE UNCHANGED poolVars
    BY <2>3 DEF poolVars, PoolLeases
  <2>. QED BY <2>1, <2>2, <2>3 DEF PoolNext
<1>. QED BY <1>1, <1>2, PoolPartitionHolds, PTL
     DEF PoolSpec, LeasesSpec, Leases!LeasesSpec

-------------------------------------------------------------------------------
(* What one step owes to the order of the free slice.                      *)
KeepsOrder ==
  \A a, b \in Addresses :
    /\ (Before(a, b) /\ Free(a)') => Before(a, b)'
    /\ (Free(a) /\ Free(a)' /\ ~Free(b) /\ Free(b)') => Before(a, b)'

(* Allocate moves every address one place forward, the first one out.      *)
LEMMA AllocateKeepsOrder ==
  ASSUME PoolInv, NEW c \in Clients, Allocate(c)
  PROVE  KeepsOrder
<1>1. /\ Len(available) \in Nat /\ Len(available) > 0
      /\ DOMAIN available = 1 .. Len(available)
      /\ Len(available') = Len(available) - 1
      /\ DOMAIN available' = 1 .. Len(available')
      /\ \A i \in DOMAIN available' : available'[i] = available[i + 1]
  BY DEF PoolInv, PoolTypeOK, Allocate
<1>2. ASSUME NEW a \in Addresses, NEW b \in Addresses, Before(a, b), Free(a)'
      PROVE  Before(a, b)'
  <2>1. PICK i \in DOMAIN available, j \in DOMAIN available :
          i < j /\ available[i] = a /\ available[j] = b
    BY <1>2 DEF Before
  <2>2. PICK k \in DOMAIN available' : available'[k] = a
    BY <1>2 DEF Free
  <2>3. k + 1 \in DOMAIN available /\ available[k + 1] = a
    BY <1>1, <2>2
  <2>4. i = k + 1
    BY <2>1, <2>3 DEF PoolInv, PoolPartition
  <2>5. i - 1 \in DOMAIN available' /\ j - 1 \in DOMAIN available' /\ i - 1 < j - 1
    BY <1>1, <2>1, <2>2, <2>4
  <2>6. available'[i - 1] = a /\ available'[j - 1] = b
    BY <1>1, <2>1, <2>5
  <2>. QED BY <2>5, <2>6 DEF Before
<1>3. ASSUME NEW b \in Addresses, Free(b)' PROVE Free(b)
  <2>1. PICK k \in DOMAIN available' : available'[k] = b
    BY <1>3 DEF Free
  <2>2. k + 1 \in DOMAIN available /\ available[k + 1] = b
    BY <1>1, <2>1
  <2>. QED BY <2>2 DEF Free
<1>. QED BY <1>2, <1>3 DEF KeepsOrder

(* Release puts an address behind all that are free.                       *)
LEMMA ReleaseKeepsOrder ==
  ASSUME PoolInv, NEW x \in Addresses, Release(x)
  PROVE  KeepsOrder
<1>1. CASE allocated[x] = Nobody
  <2>1. available' = available
    BY <1>1 DEF Release, poolVars
  <2>. QED BY <2>1 DEF KeepsOrder, Before, Free
<1>2. CASE allocated[x] # Nobody
  <2>1. /\ Len(available) \in Nat
        /\ DOMAIN available = 1 .. Len(available)
        /\ DOMAIN available' = 1 .. Len(available) + 1
        /\ \A i \in DOMAIN available : available'[i] = available[i]
        /\ available'[Len(available) + 1] = x
    BY <1>2 DEF PoolInv, PoolTypeOK, Release
  <2>2. DOMAIN available \subseteq DOMAIN available'
    BY <2>1
  <2>3. ASSUME NEW a \in Addresses, NEW b \in Addresses, Before(a, b)
        PROVE  Before(a, b)'
    BY <2>1, <2>2, <2>3 DEF Before
  <2>4. ASSUME NEW a \in Addresses, NEW b \in Addresses,
               Free(a), ~Free(b), Free(b)'
        PROVE  Before(a, b)'
    <3>1. PICK i \in DOMAIN available : available[i] = a
      BY <2>4 DEF Free
    <3>2. PICK j \in DOMAIN available' : available'[j] = b
      BY <2>4 DEF Free
    <3>3. j = Len(available) + 1
      <4>1. j \notin DOMAIN available
        BY <2>1, <2>4, <3>2 DEF Free
      <4>. QED BY <2>1, <3>2, <4>1
    <3>4. i \in DOMAIN available' /\ i < j /\ available'[i] = a
      BY <2>1, <2>2, <3>1, <3>3
    <3>. QED BY <3>2, <3>4 DEF Before
  <2>. QED BY <2>3, <2>4 DEF KeepsOrder
<1>. QED BY <1>1, <1>2

(* ReuseInReleaseOrder: whoever calls the two methods, addresses are       *)
(* reused in the order they were freed.                                    *)
THEOREM PoolReusesInOrder == PoolSpec => ReuseInReleaseOrder
<1>1. PoolInv /\ [PoolNext]_poolVars => [KeepsOrder]_poolVars
  BY AllocateKeepsOrder, ReleaseKeepsOrder DEF PoolNext
<1>2. PoolSpec => [][KeepsOrder]_poolVars
  BY <1>1, PoolPartitionHolds, PTL DEF PoolSpec
<1>. QED BY <1>2, PTL DEF ReuseInReleaseOrder, KeepsOrder

-------------------------------------------------------------------------------
(* What Stats adds up, the free slice and the allocated entries, is the    *)
(* size of the pool at every moment.                                       *)
Taken == {a \in Addresses : allocated[a] # Nobody}
StatsAddUp == Len(available) + Cardinality(Taken) = Cardinality(Addresses)

LEMMA PartitionAddsUp ==
  ASSUME PoolInv, IsFiniteSet(Addresses)
  PROVE  StatsAddUp
<1>. DEFINE F == {a \in Addresses : Free(a)}
            n == Len(available)
<1>1. /\ n \in Nat /\ DOMAIN available = 1 .. n
      /\ \A i \in 1 .. n : available[i] \in F
      /\ \A i, j \in 1 .. n : available[i] = available[j] => i = j
      /\ \A a \in F : \E i \in 1 .. n : available[i] = a
  BY DEF PoolInv, PoolTypeOK, PoolPartition, Free
<1>2. available \in [1 .. n -> F]
  BY <1>1 DEF PoolInv, PoolTypeOK
<1>3. /\ IsFiniteSet(F) /\ Cardinality(F) = n
  <2>. HIDE DEF F, n
  <2>1. available \in Injection(1 .. n, F)
    BY <1>1, <1>2, Fun_IsInj
  <2>2. available \in Surjection(1 .. n, F)
    BY <1>1, <1>2, Fun_IsSurj
  <2>3. ExistsBijection(1 .. n, F)
    BY <2>1, <2>2 DEF Bijection, ExistsBijection
  <2>4. IsFiniteSet(1 .. n) /\ Cardinality(1 .. n) = n
    BY <1>1, FS_Interval
  <2>. QED BY <2>3, <2>4, FS_Bijection
<1>4. Taken = Addresses \ F /\ Addresses \cap F = F
  BY DEF Taken, PoolInv, PoolPartition
<1>5. Cardinality(Taken) = Cardinality(Addresses) - Cardinality(F)
  <2>. HIDE DEF F
  <2>. QED BY <1>4, FS_Difference
<1>6. Cardinality(Addresses) \in Nat
  BY FS_CardinalityType
<1>. QED BY <1>1, <1>3, <1>5, <1>6 DEF StatsAddUp

THEOREM StatsStayExact ==
  ASSUME IsFiniteSet(Addresses) PROVE PoolSpec => []StatsAddUp
<1>1. PoolInv => StatsAddUp
  BY PartitionAddsUp
<1>. QED BY <1>1, PoolPartitionHolds, PTL
===============================================================================
