--------------------------- MODULE BufCacheProofs ---------------------------
(***************************************************************************)
(* Theorems about BufCache for every number of threads, blocks and         *)
(* buffers.  The four properties hold by one invariant: the lists tell     *)
(* whether anybody refers to a buffer, so that the victim of a miss and    *)
(* the pages buffer_freemem takes belong to nobody, and a block that is on *)
(* neither list is cached nowhere.                                         *)
(***************************************************************************)
EXTENDS BufCache, FiniteSetTheorems, SequenceTheorems, WellFoundedInduction, TLAPS

\* A thread that refers to a buffer has asked for a block, and has read it when
\* it uses the data; a buffer with a block has a page.
UseInv ==
  /\ \A t \in Threads : Refers(t) => cur[t] \in Bufs /\ want[t] \in Blocks
  /\ \A t \in Threads : pc[t] \in {"hold", "dirty"} => ~ fill[t]
  /\ \A n \in Bufs : block_num[n] # Unused => data[n] # None

IndInv ==
  /\ TypeOK /\ RefCountsUsers /\ OneBufferPerBlock /\ UsersKeepTheirBlock
  /\ CacheCoherent /\ UseInv

Users(n) == {t \in Threads : Refers(t) /\ cur[t] = n}

----------------------------------------------------------------------------
(* Lists *)

\* A nonempty set of numbers has a minimum.
LEMMA MinElement ==
  ASSUME NEW S \in SUBSET Nat, S # {}
  PROVE  Min(S) \in S
<1> DEFINE R == {ss \in Nat \X Nat : ss[1] < ss[2]}
<1>1. IsWellFoundedOn(R, Nat)
  BY NatLessThanWellFounded, Zenon DEF OpToRel
<1>2. \A a, b \in Nat : a < b => <<a, b>> \in R
  OBVIOUS
<1> HIDE DEF R
<1>3. PICK x \in S : \A y \in S : ~ (<<y, x>> \in R)
  BY <1>1, WFMin, Zenon
<1>4. ASSUME NEW y \in S PROVE x <= y
  <2>1. x \in Nat /\ y \in Nat
    OBVIOUS
  <2>2. ~ (y < x)
    BY <2>1, <1>2, <1>3, Zenon
  <2> QED
    BY <2>1, <2>2
<1> QED
  BY <1>4 DEF Min

\* Taking a node out of a list without repetitions.
LEMMA UnlinkNode ==
  ASSUME NEW S, NEW l \in Seq(S), IsInjective(l), NEW n
  PROVE  /\ RemoveFirst(l, n) \in Seq(S) /\ IsInjective(RemoveFirst(l, n))
         /\ Range(RemoveFirst(l, n)) = Range(l) \ {n}
<1>1. CASE ~ \E i \in 1 .. Len(l) : l[i] = n
  <2>1. RemoveFirst(l, n) = l
    BY <1>1 DEF RemoveFirst
  <2>2. n \notin Range(l)
    BY <1>1 DEF Range
  <2> QED
    BY <2>1, <2>2
<1>2. CASE \E i \in 1 .. Len(l) : l[i] = n
  <2> DEFINE I == {i \in 1 .. Len(l) : l[i] = n}
  <2>1. PICK i \in I : i = Min(I)
    <3>1. I \in SUBSET Nat /\ I # {}
      BY <1>2
    <3> QED
      BY <3>1, MinElement, Zenon
  <2>2. RemoveFirst(l, n) = RemoveAt(l, i)
    BY <1>2, <2>1 DEF RemoveFirst, SelectInSeq
  <2>3. i \in 1 .. Len(l) /\ l[i] = n
    BY <2>1
  <2> HIDE DEF I
  <2> DEFINE m == RemoveAt(l, i)
  <2>4. /\ m \in Seq(S) /\ Len(m) = Len(l) - 1
        /\ \A k \in 1 .. (Len(l) - 1) : m[k] = IF k < i THEN l[k] ELSE l[k + 1]
    <3> DEFINE u == SubSeq(l, 1, i - 1)
               v == SubSeq(l, i + 1, Len(l))
    <3>1. /\ u \in Seq(S) /\ Len(u) = i - 1
          /\ \A k \in 1 .. (i - 1) : u[k] = l[k]
      BY <2>3
    <3>2. /\ v \in Seq(S) /\ Len(v) = Len(l) - i
          /\ \A k \in 1 .. (Len(l) - i) : v[k] = l[i + k]
      BY <2>3
    <3>3. m = u \o v
      BY DEF RemoveAt
    <3> HIDE DEF m, u, v
    <3>4. m \in Seq(S) /\ Len(m) = Len(l) - 1
      <4>1. m \in Seq(S) /\ Len(m) = Len(u) + Len(v)
        BY <3>1, <3>2, <3>3, ConcatProperties, Zenon
      <4> QED
        BY <4>1, <3>1, <3>2, <2>3
    <3>5. ASSUME NEW k \in 1 .. (Len(l) - 1)
          PROVE  m[k] = IF k < i THEN l[k] ELSE l[k + 1]
      <4>1. m[k] = IF k <= Len(u) THEN u[k] ELSE v[k - Len(u)]
        BY <3>1, <3>2, <3>3, <2>3, SMTT(60)
      <4>2. CASE k < i
        BY <4>1, <4>2, <3>1, <2>3
      <4>3. CASE ~ (k < i)
        <5>1. k - Len(u) \in 1 .. (Len(l) - i) /\ i + (k - Len(u)) = k + 1
          BY <4>3, <3>1, <2>3
        <5> QED
          BY <4>1, <4>3, <5>1, <3>1, <3>2, <2>3
      <4> QED
        BY <4>2, <4>3
    <3> QED
      BY <3>4, <3>5
  <2> HIDE DEF m
  <2>5. DOMAIN m = 1 .. (Len(l) - 1) /\ DOMAIN l = 1 .. Len(l)
    BY <2>4
  <2>6. IsInjective(m)
    BY <2>3, <2>4, <2>5, SMTT(30) DEF IsInjective
  <2>7. Range(m) = Range(l) \ {n}
    <3>1. ASSUME NEW x \in Range(m) PROVE x \in Range(l) /\ x # n
      <4>1. PICK k \in 1 .. (Len(l) - 1) : x = m[k]
        BY <2>5 DEF Range
      <4>2. PICK j \in 1 .. Len(l) : x = l[j] /\ j # i
        BY <4>1, <2>3, <2>4
      <4> QED
        BY <4>2, <2>3, <2>5 DEF Range, IsInjective
    <3>2. ASSUME NEW x \in Range(l), x # n PROVE x \in Range(m)
      <4>1. PICK k \in 1 .. Len(l) : x = l[k] /\ k # i
        BY <2>3, <2>5, <3>2 DEF Range
      <4>2. CASE k < i
        BY <4>1, <4>2, <2>3, <2>4, <2>5 DEF Range
      <4>3. CASE k > i
        <5>1. k - 1 \in 1 .. (Len(l) - 1) /\ m[k - 1] = l[k]
          BY <4>1, <4>3, <2>3, <2>4
        <5> QED
          BY <5>1, <4>1, <2>5 DEF Range
      <4> QED
        BY <4>1, <4>2, <4>3, <2>3
    <3> QED
      BY <3>1, <3>2
  <2> QED
    BY <2>2, <2>4, <2>6, <2>7 DEF m
<1> QED
  BY <1>1, <1>2

\* Putting a node in front of a list that does not contain it.
LEMMA LinkNode ==
  ASSUME NEW S, NEW l \in Seq(S), IsInjective(l), NEW n \in S, n \notin Range(l)
  PROVE  /\ <<n>> \o l \in Seq(S) /\ IsInjective(<<n>> \o l)
         /\ Range(<<n>> \o l) = Range(l) \union {n}
<1> DEFINE m == <<n>> \o l
<1>1. /\ m \in Seq(S) /\ Len(m) = Len(l) + 1
      /\ \A k \in 1 .. Len(m) : m[k] = IF k = 1 THEN n ELSE l[k - 1]
  OBVIOUS
<1> HIDE DEF m
<1>2. DOMAIN m = 1 .. (Len(l) + 1) /\ DOMAIN l = 1 .. Len(l)
  BY <1>1
<1>3. \A k \in 1 .. Len(l) : m[k + 1] = l[k] /\ l[k] # n
  BY <1>1, <1>2 DEF Range
<1>4. IsInjective(m)
  <2> SUFFICES ASSUME NEW a \in DOMAIN m, NEW b \in DOMAIN m, m[a] = m[b] PROVE a = b
    BY DEF IsInjective
  <2>1. CASE a = 1 \/ b = 1
    BY <1>1, <1>2, <1>3, <2>1
  <2>2. CASE a # 1 /\ b # 1
    BY <1>1, <1>2, <2>2 DEF IsInjective
  <2> QED
    BY <2>1, <2>2
<1>5. Range(m) = Range(l) \union {n}
  <2>1. m[1] = n /\ 1 \in DOMAIN m
    BY <1>1, <1>2
  <2>2. ASSUME NEW x \in Range(m) PROVE x \in Range(l) \union {n}
    BY <1>1, <1>2 DEF Range
  <2>3. ASSUME NEW x \in Range(l) PROVE x \in Range(m)
    <3>1. PICK k \in 1 .. Len(l) : x = l[k]
      BY <1>2 DEF Range
    <3>2. k + 1 \in DOMAIN m /\ m[k + 1] = x
      BY <3>1, <1>2, <1>3
    <3> QED
      BY <3>2 DEF Range
  <2> QED
    BY <2>1, <2>2, <2>3 DEF Range
<1> QED
  BY <1>1, <1>4, <1>5 DEF m

\* The lists after insert_node, when they partition the nodes.
Partition == /\ active \in Seq(Bufs) /\ inactive \in Seq(Bufs)
             /\ IsInjective(active) /\ IsInjective(inactive)
             /\ \A n \in Bufs : n \in Range(inactive) <=> n \notin Range(active)

\* insert_node moves one node and no other.
LEMMA MoveToActive ==
  ASSUME Partition, NEW n \in Bufs, n \in Range(inactive), ToActive(n)
  PROVE  /\ active' \in Seq(Bufs) /\ inactive' \in Seq(Bufs)
         /\ IsInjective(active') /\ IsInjective(inactive')
         /\ Range(active') = Range(active) \union {n}
         /\ Range(inactive') = Range(inactive) \ {n}
<1> DEFINE l == RemoveFirst(active, n)
<1>1. l \in Seq(Bufs) /\ IsInjective(l) /\ Range(l) = Range(active) \ {n}
  BY UnlinkNode DEF Partition
<1>2. n \notin Range(active)
  BY DEF Partition
<1>3. active' = <<n>> \o l /\ inactive' = RemoveFirst(inactive, n)
  BY DEF ToActive
<1> HIDE DEF l
<1>4. /\ active' \in Seq(Bufs) /\ IsInjective(active')
      /\ Range(active') = Range(active) \union {n}
  BY <1>1, <1>2, <1>3, LinkNode
<1>5. /\ inactive' \in Seq(Bufs) /\ IsInjective(inactive')
      /\ Range(inactive') = Range(inactive) \ {n}
  BY <1>3, UnlinkNode DEF Partition
<1> QED
  BY <1>4, <1>5

\* The same for the way back.
LEMMA MoveToInactive ==
  ASSUME Partition, NEW n \in Bufs, n \in Range(active), ToInactive(n)
  PROVE  /\ active' \in Seq(Bufs) /\ inactive' \in Seq(Bufs)
         /\ IsInjective(active') /\ IsInjective(inactive')
         /\ Range(active') = Range(active) \ {n}
         /\ Range(inactive') = Range(inactive) \union {n}
<1> DEFINE l == RemoveFirst(inactive, n)
<1>1. l \in Seq(Bufs) /\ IsInjective(l) /\ Range(l) = Range(inactive) \ {n}
  BY UnlinkNode DEF Partition
<1>2. n \notin Range(inactive)
  BY DEF Partition
<1>3. inactive' = <<n>> \o l /\ active' = RemoveFirst(active, n)
  BY DEF ToInactive
<1> HIDE DEF l
<1>4. /\ inactive' \in Seq(Bufs) /\ IsInjective(inactive')
      /\ Range(inactive') = Range(inactive) \union {n}
  BY <1>1, <1>2, <1>3, LinkNode
<1>5. /\ active' \in Seq(Bufs) /\ IsInjective(active')
      /\ Range(active') = Range(active) \ {n}
  BY <1>3, UnlinkNode DEF Partition
<1> QED
  BY <1>4, <1>5

\* The search of buffer_get along a list finds a node of the list with the block.
LEMMA FoundNode ==
  ASSUME NEW l \in Seq(Bufs), NEW b, Holds(l, b)
  PROVE  /\ FirstHolding(l, b) \in Bufs /\ FirstHolding(l, b) \in Range(l)
         /\ block_num[FirstHolding(l, b)] = b
<1> DEFINE I == {i \in 1 .. Len(l) : block_num[l[i]] = b}
<1>1. I \in SUBSET Nat /\ I # {}
  BY DEF Holds
<1>2. PICK i \in I : i = Min(I)
  BY <1>1, MinElement, Zenon
<1>3. FirstHolding(l, b) = l[i]
  BY <1>1, <1>2 DEF FirstHolding, SelectInSeq
<1>4. i \in 1 .. Len(l) /\ block_num[l[i]] = b
  BY <1>2
<1>5. l[i] \in Bufs /\ l[i] \in Range(l)
  BY <1>4 DEF Range
<1> QED
  BY <1>3, <1>4, <1>5

----------------------------------------------------------------------------
(* Counts *)

\* The users of a buffer are at most the threads.
LEMMA UsersCount ==
  ASSUME NEW n
  PROVE  /\ IsFiniteSet(Users(n)) /\ Cardinality(Users(n)) \in 0 .. Cardinality(Threads)
         /\ Cardinality(Users(n)) = 0 <=> Users(n) = {}
<1>1. Users(n) \subseteq Threads
  BY DEF Users
<1> QED
  BY <1>1, ThreadsAssumption, FS_Subset, FS_CardinalityType, FS_EmptySet

\* One more user of a buffer.
LEMMA UserAdded ==
  ASSUME NEW n, NEW t \in Threads, t \notin Users(n)
  PROVE  Cardinality(Users(n) \union {t}) = Cardinality(Users(n)) + 1
BY UsersCount, FS_AddElement

\* One fewer user of a buffer.
LEMMA UserRemoved ==
  ASSUME NEW n, NEW t \in Users(n)
  PROVE  Cardinality(Users(n) \ {t}) = Cardinality(Users(n)) - 1
BY UsersCount, FS_RemoveElement

\* What the invariant says of the lists: they partition the buffers, and a
\* buffer on the inactive list has no user.
LEMMA Lists ==
  ASSUME IndInv
  PROVE  /\ Partition
         /\ \A n \in Bufs : /\ n \in Range(active) <=> ref[n] > 0
                            /\ n \in Range(inactive) <=> ref[n] = 0
         /\ \A n \in Bufs : ref[n] \in Nat
         /\ \A n \in Bufs : ref[n] = Cardinality(Users(n))
         /\ \A n \in Bufs : n \in Range(inactive) => Users(n) = {} /\ ref[n] = 0
         /\ \A n \in Bufs : n \in Range(active) => ref[n] > 0
<1>1. \A n \in Bufs : ref[n] = Cardinality(Users(n))
  BY DEF IndInv, RefCountsUsers, Users
<1>2. \A n \in Bufs : ref[n] \in Nat
  BY <1>1, UsersCount
<1>3. /\ \A n \in Bufs : /\ n \in Range(active) <=> ref[n] > 0
                         /\ n \in Range(inactive) <=> ref[n] = 0
      /\ IsInjective(active) /\ IsInjective(inactive)
      /\ active \in Seq(Bufs) /\ inactive \in Seq(Bufs)
  BY Zenon DEF IndInv, RefCountsUsers, TypeOK
<1>4. Partition
  <2>1. \A n \in Bufs : ref[n] > 0 <=> ref[n] # 0
    BY <1>2
  <2> QED
    BY <1>3, <2>1, Zenon DEF Partition
<1>5. \A n \in Bufs : n \in Range(inactive) => Users(n) = {} /\ ref[n] = 0
  <2>1. \A n \in Bufs : ref[n] = 0 => Users(n) = {}
    BY <1>1, UsersCount
  <2> QED
    BY <1>3, <2>1, Zenon
<1> QED
  BY <1>1, <1>2, <1>3, <1>4, <1>5

\* buffer_get adds its caller to the users of the buffer it found.
LEMMA GetUsers ==
  ASSUME TypeOK, NEW t \in Threads, NEW n \in Bufs, NEW b, NEW miss \in BOOLEAN,
         pc[t] = "idle", Referenced(t, n, b, miss)
  PROVE  /\ \A m \in Bufs : Users(m)' = IF m = n THEN Users(m) \union {t} ELSE Users(m)
         /\ t \notin Users(n)
         /\ \A u \in Threads \ {t} : /\ pc'[u] = pc[u] /\ cur'[u] = cur[u]
                                     /\ want'[u] = want[u] /\ fill'[u] = fill[u]
                                     /\ Refers(u)' <=> Refers(u)
         /\ Refers(t)' /\ ~ Refers(t)
         /\ pc'[t] = "lock" /\ cur'[t] = n /\ want'[t] = b /\ fill'[t] = miss
<1> USE DEF TypeOK, Referenced, Refers
<1>1. /\ pc'[t] = "lock" /\ cur'[t] = n /\ want'[t] = b /\ fill'[t] = miss
      /\ \A u \in Threads \ {t} : /\ pc'[u] = pc[u] /\ cur'[u] = cur[u]
                                  /\ want'[u] = want[u] /\ fill'[u] = fill[u]
  OBVIOUS
<1>2. ASSUME NEW m \in Bufs
      PROVE  Users(m)' = IF m = n THEN Users(m) \union {t} ELSE Users(m)
  BY <1>1 DEF Users
<1> QED
  BY <1>1, <1>2 DEF Users

\* The counts and lists after buffer_get.
LEMMA GetRefs ==
  ASSUME IndInv, NEW t \in Threads, NEW n \in Bufs, NEW b \in Blocks,
         NEW miss \in BOOLEAN, pc[t] = "idle", Referenced(t, n, b, miss),
         ref' = [ref EXCEPT ![n] = ref[n] + 1],
         active' \in Seq(Bufs), inactive' \in Seq(Bufs),
         IsInjective(active'), IsInjective(inactive'),
         Range(active') = Range(active) \union {n},
         Range(inactive') = Range(inactive) \ {n}
  PROVE  RefCountsUsers' /\ ref' \in [Bufs -> 0 .. Cardinality(Threads)]
<1>1. TypeOK
  BY DEF IndInv
<1>2. /\ \A m \in Bufs : Users(m)' = IF m = n THEN Users(m) \union {t} ELSE Users(m)
      /\ t \notin Users(n)
  BY <1>1, GetUsers
<1>3. \A m \in Bufs : ref[m] = Cardinality(Users(m)) /\ ref[m] \in Nat
  BY <1>1, Lists DEF TypeOK
<1>4. ASSUME NEW m \in Bufs PROVE ref'[m] = Cardinality(Users(m)')
  <2>1. CASE m = n
    BY <1>1, <1>2, <1>3, <2>1, UserAdded DEF TypeOK
  <2>2. CASE m # n
    BY <1>1, <1>2, <1>3, <2>2 DEF TypeOK
  <2> QED
    BY <2>1, <2>2
<1>5. \A m \in Bufs : Cardinality(Users(m)') \in 0 .. Cardinality(Threads)
  <2>1. \A m \in Bufs : Users(m)' \subseteq Threads
    BY DEF Users
  <2> QED
    BY <2>1, ThreadsAssumption, FS_Subset, FS_CardinalityType
<1>6. ref' \in [Bufs -> 0 .. Cardinality(Threads)]
  BY <1>1, <1>4, <1>5 DEF TypeOK
<1>7. ASSUME NEW m \in Bufs
      PROVE  (m \in Range(active') <=> ref'[m] > 0) /\ (m \in Range(inactive') <=> ref'[m] = 0)
  <2>1. /\ m \in Range(active) <=> ref[m] > 0
        /\ m \in Range(inactive) <=> ref[m] = 0
    BY Lists, Zenon
  <2>2. ref'[m] = IF m = n THEN ref[m] + 1 ELSE ref[m]
    BY <1>1 DEF TypeOK
  <2> QED
    BY <2>1, <2>2, <1>3
<1> QED
  BY <1>4, <1>6, <1>7 DEF RefCountsUsers, Users

----------------------------------------------------------------------------
(* The inductive invariant *)

\* buffer_init establishes the invariant.
LEMMA IndInvInit == Init => IndInv
<1> SUFFICES ASSUME Init PROVE IndInv
  OBVIOUS
<1> DEFINE all == [i \in Bufs |-> i]
<1>1. NBuf \in Nat /\ all \in Seq(Bufs) /\ Len(all) = NBuf
      /\ \A i \in 1 .. NBuf : all[i] = i
  BY NBufAssumption DEF Bufs
<1> HIDE DEF all
<1>2. /\ inactive \in Seq(Bufs) /\ Len(inactive) = NBuf
      /\ \A i \in 1 .. NBuf : inactive[i] = (NBuf - i) + 1
  <2>1. inactive = [i \in 1 .. NBuf |-> all[(NBuf - i) + 1]]
    BY <1>1 DEF Init, Reverse, all
  <2>2. \A i \in 1 .. NBuf : (NBuf - i) + 1 \in 1 .. NBuf
    BY <1>1
  <2>3. inactive = [i \in 1 .. NBuf |-> (NBuf - i) + 1]
    BY <1>1, <2>1, <2>2
  <2> QED
    BY <1>1, <2>2, <2>3 DEF Bufs
<1>3. DOMAIN inactive = 1 .. NBuf /\ IsInjective(inactive)
  BY <1>1, <1>2 DEF IsInjective
<1>4. ASSUME NEW n \in Bufs PROVE n \in Range(inactive)
  <2>1. (NBuf - n) + 1 \in 1 .. NBuf /\ inactive[(NBuf - n) + 1] = n
    BY <1>1, <1>2 DEF Bufs
  <2> QED
    BY <2>1, <1>3 DEF Range
<1>5. active = << >> /\ active \in Seq(Bufs) /\ IsInjective(active) /\ Range(active) = {}
  BY DEF Init, IsInjective, Range
<1>6. \A t \in Threads : ~ Refers(t)
  BY DEF Init, Refers
<1>7. ASSUME NEW n \in Bufs
      PROVE  0 = Cardinality({t \in Threads : Refers(t) /\ cur[t] = n})
  <2>1. {t \in Threads : Refers(t) /\ cur[t] = n} = {}
    BY <1>6
  <2> QED
    BY <2>1, FS_EmptySet
<1>8. RefCountsUsers
  BY <1>3, <1>4, <1>5, <1>7 DEF RefCountsUsers, Init
<1>9. 0 \in 0 .. Cardinality(Threads) /\ 0 \in 0 .. MaxVer
  BY ThreadsAssumption, FS_CardinalityType, MaxVerAssumption
<1>10. TypeOK
  <2>1. disk \in [Blocks -> Content]
    BY <1>9 DEF Init, Content
  <2> QED
    BY <1>2, <1>5, <1>9, <2>1 DEF Init, TypeOK
<1> QED
  BY <1>6, <1>8, <1>10 DEF Init, IndInv, OneBufferPerBlock, UsersKeepTheirBlock,
     CacheCoherent, UseInv, Refers

\* buffer_get finds the block in a buffer.
LEMMA GetHit ==
  ASSUME IndInv, NEW t \in Threads, NEW n \in Bufs, NEW b \in Blocks, pc[t] = "idle",
         Referenced(t, n, b, FALSE), block_num[n] = b, UNCHANGED <<block_num, data>>,
         RefCountsUsers', ref' \in [Bufs -> 0 .. Cardinality(Threads)],
         active' \in Seq(Bufs), inactive' \in Seq(Bufs)
  PROVE  IndInv'
<1>1. TypeOK
  BY DEF IndInv
<1>2. /\ \A u \in Threads \ {t} : /\ pc'[u] = pc[u] /\ cur'[u] = cur[u]
                                  /\ want'[u] = want[u] /\ fill'[u] = fill[u]
                                  /\ Refers(u)' <=> Refers(u)
      /\ Refers(t)' /\ ~ Refers(t)
      /\ pc'[t] = "lock" /\ cur'[t] = n /\ want'[t] = b /\ fill'[t] = FALSE
  BY <1>1, GetUsers
<1>3. TypeOK'
  BY <1>1 DEF TypeOK, Referenced
<1>4. OneBufferPerBlock'
  BY DEF IndInv, OneBufferPerBlock
<1>5. b # Unused
  BY NoneAssumption
<1>6. UsersKeepTheirBlock'
  <2> SUFFICES ASSUME NEW u \in Threads, Refers(u)'
               PROVE  block_num[cur'[u]] = want'[u] /\ data[cur'[u]] # None
    BY DEF UsersKeepTheirBlock
  <2>1. CASE u = t
    BY <1>2, <1>5, <2>1 DEF IndInv, UseInv
  <2>2. CASE u # t
    BY <1>2, <2>2 DEF IndInv, UsersKeepTheirBlock
  <2> QED
    BY <2>1, <2>2
<1>7. CacheCoherent'
  <2> SUFFICES ASSUME NEW m \in Bufs, block_num[m] # Unused, data[m] # disk[block_num[m]]
               PROVE  \E u \in Threads : (Refers(u) /\ cur[u] = m /\ (fill[u] \/ pc[u] = "dirty"))'
    BY DEF CacheCoherent, Referenced
  <2>1. PICK u \in Threads : Refers(u) /\ cur[u] = m /\ (fill[u] \/ pc[u] = "dirty")
    BY DEF IndInv, CacheCoherent
  <2> QED
    BY <1>2, <2>1
<1>8. UseInv'
  BY <1>2 DEF IndInv, UseInv
<1> QED
  BY <1>3, <1>4, <1>6, <1>7, <1>8 DEF IndInv

\* A hit on the active list only counts.
LEMMA GetActiveStep ==
  ASSUME IndInv, NEW t \in Threads, NEW b \in Blocks, GetActive(t, b)
  PROVE  IndInv'
<1> DEFINE n == FirstHolding(active, b)
<1>1. Partition /\ active \in Seq(Bufs) /\ Holds(active, b)
  BY Lists DEF Partition, GetActive
<1>2. n \in Bufs /\ n \in Range(active) /\ block_num[n] = b
  BY <1>1, FoundNode
<1>3. /\ pc[t] = "idle" /\ ref' = [ref EXCEPT ![n] = ref[n] + 1]
      /\ Referenced(t, n, b, FALSE) /\ UNCHANGED <<active, inactive, block_num, data>>
  BY DEF GetActive
<1> HIDE DEF n
<1>4. Range(active) = Range(active) \union {n} /\ Range(inactive) = Range(inactive) \ {n}
  BY <1>1, <1>2 DEF Partition
<1>5. /\ active' \in Seq(Bufs) /\ inactive' \in Seq(Bufs)
      /\ IsInjective(active') /\ IsInjective(inactive')
  BY <1>1, <1>3 DEF Partition
<1>6. RefCountsUsers' /\ ref' \in [Bufs -> 0 .. Cardinality(Threads)]
  BY <1>2, <1>3, <1>4, <1>5, GetRefs
<1> QED
  BY <1>2, <1>3, <1>5, <1>6, GetHit

\* A hit on the inactive list makes the buffer active again.
LEMMA GetInactiveStep ==
  ASSUME IndInv, NEW t \in Threads, NEW b \in Blocks, GetInactive(t, b)
  PROVE  IndInv'
<1> DEFINE n == FirstHolding(inactive, b)
<1>1. Partition /\ inactive \in Seq(Bufs) /\ Holds(inactive, b)
  BY Lists DEF Partition, GetInactive
<1>2. n \in Bufs /\ n \in Range(inactive) /\ block_num[n] = b
  BY <1>1, FoundNode
<1>3. /\ pc[t] = "idle" /\ ref' = [ref EXCEPT ![n] = 1] /\ ToActive(n)
      /\ Referenced(t, n, b, FALSE) /\ UNCHANGED <<block_num, data>>
  BY DEF GetInactive
<1> HIDE DEF n
<1>4. ref' = [ref EXCEPT ![n] = ref[n] + 1]
  <2>1. ref[n] = 0
    BY <1>2, Lists
  <2> QED
    BY <1>3, <2>1
<1>5. /\ active' \in Seq(Bufs) /\ inactive' \in Seq(Bufs)
      /\ IsInjective(active') /\ IsInjective(inactive')
      /\ Range(active') = Range(active) \union {n}
      /\ Range(inactive') = Range(inactive) \ {n}
  BY <1>1, <1>2, <1>3, MoveToActive
<1>6. RefCountsUsers' /\ ref' \in [Bufs -> 0 .. Cardinality(Threads)]
  BY <1>2, <1>3, <1>4, <1>5, GetRefs
<1> QED
  BY <1>2, <1>3, <1>5, <1>6, GetHit

\* The victim of a miss has no user, and no other buffer has the block.
LEMMA GetMissStep ==
  ASSUME IndInv, NEW t \in Threads, NEW b \in Blocks, GetMiss(t, b)
  PROVE  IndInv'
<1> DEFINE n == Head(inactive)
           page == IF data[n] = None THEN Zeroed ELSE data[n]
<1>1. TypeOK /\ Partition /\ inactive \in Seq(Bufs) /\ inactive # << >>
  BY Lists DEF Partition, GetMiss, IndInv
<1>2. n \in Bufs /\ n \in Range(inactive)
  <2>1. 1 \in DOMAIN inactive /\ inactive[1] = n /\ n \in Bufs
    BY <1>1
  <2> QED
    BY <2>1 DEF Range
<1>3. /\ pc[t] = "idle" /\ ref' = [ref EXCEPT ![n] = 1] /\ ToActive(n)
      /\ Referenced(t, n, b, TRUE)
      /\ block_num' = [block_num EXCEPT ![n] = b] /\ data' = [data EXCEPT ![n] = page]
  BY DEF GetMiss
<1>4. page \in Content
  <2>1. Zeroed \in Content
    BY MaxVerAssumption DEF Zeroed, Content
  <2>2. data[n] \in Content \union {None}
    BY <1>1, <1>2 DEF TypeOK
  <2> QED
    BY <2>1, <2>2
<1> HIDE DEF n, page
<1>5. ref[n] = 0 /\ \A u \in Threads : ~ (Refers(u) /\ cur[u] = n)
  BY <1>2, Lists DEF Users
<1>6. ref' = [ref EXCEPT ![n] = ref[n] + 1]
  BY <1>3, <1>5
<1>7. /\ active' \in Seq(Bufs) /\ inactive' \in Seq(Bufs)
      /\ IsInjective(active') /\ IsInjective(inactive')
      /\ Range(active') = Range(active) \union {n}
      /\ Range(inactive') = Range(inactive) \ {n}
  BY <1>1, <1>2, <1>3, MoveToActive
<1>8. RefCountsUsers' /\ ref' \in [Bufs -> 0 .. Cardinality(Threads)]
  BY <1>2, <1>3, <1>6, <1>7, GetRefs
<1>9. /\ \A u \in Threads \ {t} : /\ pc'[u] = pc[u] /\ cur'[u] = cur[u]
                                  /\ want'[u] = want[u] /\ fill'[u] = fill[u]
                                  /\ Refers(u)' <=> Refers(u)
      /\ Refers(t)' /\ ~ Refers(t)
      /\ pc'[t] = "lock" /\ cur'[t] = n /\ want'[t] = b /\ fill'[t] = TRUE
  BY <1>1, <1>2, <1>3, GetUsers
<1>10. /\ block_num' \in [Bufs -> Blocks \union {Unused}]
       /\ data' \in [Bufs -> Content \union {None}]
  BY <1>1, <1>2, <1>3, <1>4 DEF TypeOK
<1>11. TypeOK'
  BY <1>1, <1>2, <1>3, <1>7, <1>8, <1>10 DEF TypeOK, Referenced
<1>12. \A m \in Bufs : block_num[m] # b
  <2>1. \A m \in Bufs : m \in Range(active) \/ m \in Range(inactive)
    BY <1>1 DEF Partition
  <2>2. ~ Holds(active, b) /\ ~ Holds(inactive, b)
    BY DEF GetMiss
  <2> QED
    BY <2>1, <2>2 DEF Holds, Range
<1>13. \A m \in Bufs : /\ block_num'[m] = IF m = n THEN b ELSE block_num[m]
                       /\ data'[m] = IF m = n THEN page ELSE data[m]
  BY <1>1, <1>3 DEF TypeOK
<1>14. OneBufferPerBlock'
  BY <1>12, <1>13 DEF IndInv, OneBufferPerBlock
<1>15. page # None
  BY <1>4, PageAssumption
<1>16. UsersKeepTheirBlock'
  <2> SUFFICES ASSUME NEW u \in Threads, Refers(u)'
               PROVE  block_num'[cur'[u]] = want'[u] /\ data'[cur'[u]] # None
    BY DEF UsersKeepTheirBlock
  <2>1. CASE u = t
    BY <1>2, <1>9, <1>13, <1>15, <2>1
  <2>2. CASE u # t
    <3>1. Refers(u) /\ cur'[u] = cur[u] /\ want'[u] = want[u] /\ cur[u] # n
      BY <1>5, <1>9, <2>2
    <3>2. cur[u] \in Bufs /\ block_num[cur[u]] = want[u] /\ data[cur[u]] # None
      BY <3>1 DEF IndInv, UseInv, UsersKeepTheirBlock
    <3> QED
      BY <1>13, <3>1, <3>2
  <2> QED
    BY <2>1, <2>2
<1>17. CacheCoherent'
  <2> SUFFICES ASSUME NEW m \in Bufs
               PROVE  \/ block_num'[m] = Unused
                      \/ \E u \in Threads : (Refers(u) /\ cur[u] = m /\ (fill[u] \/ pc[u] = "dirty"))'
                      \/ data'[m] = disk[block_num'[m]]
    BY <1>3 DEF CacheCoherent, Referenced
  <2>1. CASE m = n
    BY <1>9, <2>1
  <2>2. CASE m # n
    <3>1. CASE \E u \in Threads : Refers(u) /\ cur[u] = m /\ (fill[u] \/ pc[u] = "dirty")
      BY <1>9, <3>1
    <3>2. CASE block_num[m] = Unused \/ data[m] = disk[block_num[m]]
      BY <1>13, <2>2, <3>2
    <3> QED
      BY <3>1, <3>2 DEF IndInv, CacheCoherent
  <2> QED
    BY <2>1, <2>2
<1>18. UseInv'
  <2>1. \A u \in Threads : Refers(u)' => cur'[u] \in Bufs /\ want'[u] \in Blocks
    BY <1>2, <1>9 DEF IndInv, UseInv
  <2>2. \A u \in Threads : pc'[u] \in {"hold", "dirty"} => ~ fill'[u]
    BY <1>9 DEF IndInv, UseInv
  <2>3. \A m \in Bufs : block_num'[m] # Unused => data'[m] # None
    BY <1>13, <1>15 DEF IndInv, UseInv
  <2> QED
    BY <2>1, <2>2, <2>3 DEF UseInv
<1> QED
  BY <1>8, <1>11, <1>14, <1>16, <1>17, <1>18 DEF IndInv

\* Steps between buffer_get and buffer_put change neither references nor blocks.
LEMMA UseStep ==
  ASSUME IndInv, NEW t \in Threads,
         LockBuf(t) \/ ReadBlock(t) \/ Modify(t) \/ WriteBlock(t)
  PROVE  IndInv'
<1> DEFINE n == cur[t]
<1>1. /\ TypeOK /\ Refers(t) /\ n \in Bufs /\ block_num[n] \in Blocks
      /\ data[n] \in Content
  <2>1. TypeOK /\ Refers(t)
    BY DEF IndInv, LockBuf, ReadBlock, Modify, WriteBlock, Refers
  <2>2. n \in Bufs /\ block_num[n] \in Blocks /\ data[n] # None
    BY <2>1 DEF IndInv, UseInv, UsersKeepTheirBlock
  <2> QED
    BY <2>1, <2>2 DEF TypeOK
<1>2. /\ UNCHANGED <<active, inactive, block_num, ref, cur, want>>
      /\ Refers(t)' /\ \A u \in Threads \ {t} : pc'[u] = pc[u] /\ fill'[u] = fill[u]
  BY <1>1 DEF LockBuf, ReadBlock, Modify, WriteBlock, Refers, TypeOK
<1>3. \A u \in Threads : Refers(u)' <=> Refers(u)
  BY <1>1, <1>2 DEF Refers
<1>4. RefCountsUsers'
  <2>1. \A m \in Bufs : {u \in Threads : Refers(u) /\ cur[u] = m}'
                          = {u \in Threads : Refers(u) /\ cur[u] = m}
    BY <1>2, <1>3
  <2> QED
    BY <1>2, <2>1 DEF IndInv, RefCountsUsers
<1>5. OneBufferPerBlock'
  BY <1>2 DEF IndInv, OneBufferPerBlock
<1>6. /\ \A m \in Bufs : data[m] # None => data'[m] # None
      /\ data' \in [Bufs -> Content \union {None}] /\ disk' \in [Blocks -> Content]
  <2>1. CASE LockBuf(t)
    BY <1>1, <2>1 DEF LockBuf, TypeOK
  <2>2. CASE ReadBlock(t)
    <3>1. disk[block_num[n]] \in Content /\ disk[block_num[n]] # None
      BY <1>1, PageAssumption DEF TypeOK
    <3> QED
      BY <1>1, <2>2, <3>1 DEF ReadBlock, TypeOK
  <2>3. CASE Modify(t)
    <3>1. [data[n] EXCEPT !.ver = @ + 1] \in Content
      BY <1>1, <2>3, MaxVerAssumption DEF Modify, Content
    <3>2. [data[n] EXCEPT !.ver = @ + 1] # None
      BY <3>1, PageAssumption
    <3>3. data' = [data EXCEPT ![n] = [data[n] EXCEPT !.ver = @ + 1]] /\ UNCHANGED disk
      BY <2>3 DEF Modify
    <3> QED
      BY <1>1, <3>1, <3>2, <3>3 DEF TypeOK
  <2>4. CASE WriteBlock(t)
    BY <1>1, <2>4 DEF WriteBlock, TypeOK
  <2> QED
    BY <2>1, <2>2, <2>3, <2>4
<1>7. TypeOK'
  <2>1. /\ pc' \in [Threads -> {"idle", "lock", "read", "hold", "dirty", "unlock"}]
        /\ owner' \in [Bufs -> Threads \union {None}] /\ fill' \in [Threads -> BOOLEAN]
        /\ panic' \in BOOLEAN
    BY <1>1 DEF LockBuf, ReadBlock, Modify, WriteBlock, TypeOK
  <2> QED
    BY <1>1, <1>2, <1>6, <2>1 DEF TypeOK
<1>8. UsersKeepTheirBlock'
  BY <1>2, <1>3, <1>6 DEF IndInv, UsersKeepTheirBlock, UseInv
<1>9. UseInv'
  <2>1. \A u \in Threads : pc'[u] \in {"hold", "dirty"} => ~ fill'[u]
    <3>1. pc'[t] \in {"hold", "dirty"} => ~ fill'[t]
      BY <1>1 DEF LockBuf, ReadBlock, Modify, WriteBlock, TypeOK, IndInv, UseInv
    <3> QED
      BY <1>2, <3>1 DEF IndInv, UseInv
  <2> QED
    BY <1>2, <1>3, <1>6, <2>1 DEF IndInv, UseInv
<1>10. CacheCoherent'
  <2> SUFFICES ASSUME NEW m \in Bufs
               PROVE  \/ block_num[m] = Unused
                      \/ \E u \in Threads : (Refers(u) /\ cur[u] = m /\ (fill[u] \/ pc[u] = "dirty"))'
                      \/ data'[m] = disk'[block_num[m]]
    BY <1>2 DEF CacheCoherent
  <2>1. CASE m # n
    <3>1. data'[m] = data[m]
      BY <1>1, <2>1 DEF LockBuf, ReadBlock, Modify, WriteBlock, TypeOK
    <3>2. block_num[m] # Unused => block_num[m] # block_num[n]
      BY <1>1, <2>1 DEF IndInv, OneBufferPerBlock
    <3>3. block_num[m] # Unused => disk'[block_num[m]] = disk[block_num[m]]
      BY <1>1, <3>2 DEF LockBuf, ReadBlock, Modify, WriteBlock, TypeOK
    <3>4. CASE \E u \in Threads : Refers(u) /\ cur[u] = m /\ (fill[u] \/ pc[u] = "dirty")
      BY <1>2, <1>3, <2>1, <3>4
    <3> QED
      BY <3>1, <3>3, <3>4 DEF IndInv, CacheCoherent
  <2>2. CASE m = n
    <3>1. CASE LockBuf(t)
      <4>1. fill' = fill /\ data' = data /\ disk' = disk /\ pc[t] # "dirty"
        BY <3>1 DEF LockBuf
      <4> QED
        BY <4>1, <1>2, <1>3 DEF IndInv, CacheCoherent
    <3>2. CASE ReadBlock(t)
      BY <1>1, <2>2, <3>2 DEF ReadBlock, TypeOK
    <3>3. CASE Modify(t)
      BY <1>1, <1>2, <2>2, <3>3 DEF Modify, TypeOK
    <3>4. CASE WriteBlock(t)
      BY <1>1, <2>2, <3>4 DEF WriteBlock, TypeOK
    <3> QED
      BY <3>1, <3>2, <3>3, <3>4
  <2> QED
    BY <2>1, <2>2
<1> QED
  BY <1>4, <1>5, <1>7, <1>8, <1>9, <1>10 DEF IndInv

\* buffer_put drops the reference; the last one makes the buffer inactive.
LEMMA PutRefStep ==
  ASSUME IndInv, NEW t \in Threads, PutRef(t)
  PROVE  IndInv'
<1> DEFINE n == cur[t]
<1>1. TypeOK /\ Partition /\ pc[t] = "hold" /\ Refers(t) /\ n \in Bufs /\ ~ fill[t]
  BY Lists DEF IndInv, PutRef, Refers, UseInv
<1>2. /\ UNCHANGED <<block_num, data, owner, disk, cur, want, fill, panic>>
      /\ pc'[t] = "unlock" /\ ~ Refers(t)'
      /\ \A u \in Threads \ {t} : pc'[u] = pc[u] /\ (Refers(u)' <=> Refers(u))
  BY <1>1 DEF PutRef, TypeOK, Refers
<1>3. t \in Users(n)
  BY <1>1 DEF Users
<1>4. \A m \in Bufs : ref[m] = Cardinality(Users(m)) /\ ref[m] \in Nat
  BY Lists
<1>5. ref[n] \in Nat \ {0}
  <2>1. Users(n) # {}
    BY <1>3
  <2> QED
    BY <1>1, <1>4, <2>1, UsersCount
<1>6. \A m \in Bufs : ref'[m] = IF m = n THEN ref[m] - 1 ELSE ref[m]
  BY <1>1 DEF PutRef, TypeOK
<1>7. ASSUME NEW m \in Bufs
      PROVE  Users(m)' = IF m = n THEN Users(m) \ {t} ELSE Users(m)
  BY <1>1, <1>2 DEF Users
<1> HIDE DEF n
<1>8. ASSUME NEW m \in Bufs PROVE ref'[m] = Cardinality(Users(m)')
  <2>1. CASE m = n
    BY <1>3, <1>4, <1>6, <1>7, <2>1, UserRemoved
  <2>2. CASE m # n
    BY <1>4, <1>6, <1>7, <2>2
  <2> QED
    BY <2>1, <2>2
<1>9. \A m \in Bufs : /\ m \in Range(active) <=> ref[m] > 0
                      /\ m \in Range(inactive) <=> ref[m] = 0
  BY Lists
<1>10. n \in Range(active)
  BY <1>1, <1>5, <1>9
<1>11. /\ active' \in Seq(Bufs) /\ inactive' \in Seq(Bufs)
       /\ IsInjective(active') /\ IsInjective(inactive')
       /\ \A m \in Bufs : /\ m \in Range(active') <=> ref'[m] > 0
                          /\ m \in Range(inactive') <=> ref'[m] = 0
  <2>1. CASE ref[n] = 1
    <3>1. ToInactive(n)
      BY <2>1 DEF PutRef, n
    <3>2. /\ active' \in Seq(Bufs) /\ inactive' \in Seq(Bufs)
          /\ IsInjective(active') /\ IsInjective(inactive')
          /\ Range(active') = Range(active) \ {n}
          /\ Range(inactive') = Range(inactive) \union {n}
      BY <1>1, <1>10, <3>1, MoveToInactive
    <3> QED
      BY <1>4, <1>6, <1>9, <2>1, <3>2
  <2>2. CASE ref[n] # 1
    <3>1. UNCHANGED <<active, inactive>>
      BY <2>2 DEF PutRef, n
    <3> QED
      BY <1>1, <1>4, <1>5, <1>6, <1>9, <2>2, <3>1 DEF Partition
  <2> QED
    BY <2>1, <2>2
<1>12. RefCountsUsers'
  BY <1>8, <1>11 DEF RefCountsUsers, Users
<1>13. TypeOK'
  <2>1. \A m \in Bufs : ref'[m] \in 0 .. Cardinality(Threads)
    <3>1. \A m \in Bufs : Users(m)' \subseteq Threads
      BY DEF Users
    <3> QED
      BY <1>8, <3>1, ThreadsAssumption, FS_Subset, FS_CardinalityType
  <2>2. ref' \in [Bufs -> 0 .. Cardinality(Threads)]
    BY <2>1, <1>1 DEF PutRef, TypeOK
  <2> QED
    BY <1>1, <1>2, <1>11, <2>2 DEF PutRef, TypeOK
<1>14. OneBufferPerBlock' /\ UsersKeepTheirBlock'
  BY <1>2 DEF IndInv, OneBufferPerBlock, UsersKeepTheirBlock
<1>15. UseInv'
  BY <1>2 DEF IndInv, UseInv
<1>16. CacheCoherent'
  <2> SUFFICES ASSUME NEW m \in Bufs, block_num[m] # Unused, data[m] # disk[block_num[m]]
               PROVE  \E u \in Threads : (Refers(u) /\ cur[u] = m /\ (fill[u] \/ pc[u] = "dirty"))'
    BY <1>2 DEF CacheCoherent
  <2>1. PICK u \in Threads : Refers(u) /\ cur[u] = m /\ (fill[u] \/ pc[u] = "dirty")
    BY DEF IndInv, CacheCoherent
  <2>2. u # t
    BY <1>1, <2>1
  <2> QED
    BY <1>2, <2>1, <2>2
<1> QED
  BY <1>12, <1>13, <1>14, <1>15, <1>16 DEF IndInv

\* Steps under which references, lists, blocks and data stay as they are.
LEMMA QuietStep ==
  ASSUME IndInv, TypeOK',
         UNCHANGED <<active, inactive, block_num, ref, data, disk, fill>>,
         \A t \in Threads : Refers(t)' <=> Refers(t),
         \A t \in Threads : Refers(t) =>
           pc'[t] = pc[t] /\ cur'[t] = cur[t] /\ want'[t] = want[t]
  PROVE  IndInv'
<1>1. \A m \in Bufs : {u \in Threads : Refers(u) /\ cur[u] = m}'
                        = {u \in Threads : Refers(u) /\ cur[u] = m}
  OBVIOUS
<1>2. RefCountsUsers'
  BY <1>1 DEF IndInv, RefCountsUsers
<1>3. OneBufferPerBlock' /\ UsersKeepTheirBlock'
  BY DEF IndInv, OneBufferPerBlock, UsersKeepTheirBlock
<1>4. \A t \in Threads : pc'[t] \in {"hold", "dirty"} => pc[t] = pc'[t]
  BY DEF Refers
<1>5. UseInv'
  BY <1>4 DEF IndInv, UseInv
<1>6. CacheCoherent'
  BY DEF IndInv, CacheCoherent
<1> QED
  BY <1>2, <1>3, <1>5, <1>6 DEF IndInv

\* buffer_put gives the sleeping lock back; buffer_get panics.
LEMMA ReleaseStep ==
  ASSUME IndInv, NEW t \in Threads, PutUnlock(t) \/ \E b \in Blocks : GetPanics(t, b)
  PROVE  IndInv'
<1>1. TypeOK
  BY DEF IndInv
<1>2. CASE PutUnlock(t)
  <2>1. TypeOK'
    BY <1>1, <1>2 DEF PutUnlock, TypeOK
  <2>2. \A u \in Threads : Refers(u)' <=> Refers(u)
    BY <1>1, <1>2 DEF PutUnlock, TypeOK, Refers
  <2>3. \A u \in Threads : Refers(u) =>
          pc'[u] = pc[u] /\ cur'[u] = cur[u] /\ want'[u] = want[u]
    BY <1>1, <1>2 DEF PutUnlock, TypeOK, Refers
  <2> QED
    BY <1>2, <2>1, <2>2, <2>3, QuietStep DEF PutUnlock
<1>3. ASSUME NEW b \in Blocks, GetPanics(t, b) PROVE IndInv'
  <2>1. TypeOK'
    BY <1>1, <1>3 DEF GetPanics, TypeOK, tvars
  <2> QED
    BY <1>3, <2>1, QuietStep DEF GetPanics, tvars, Refers
<1> QED
  BY <1>2, <1>3

\* buffer_freemem takes pages that nobody refers to, and their blocks with them.
LEMMA FreememStep ==
  ASSUME IndInv, NEW count \in Bufs, Freemem(count)
  PROVE  IndInv'
<1> DEFINE V == Victims(inactive, count)
<1>1. TypeOK /\ V \subseteq Range(inactive)
  BY DEF IndInv, Victims, Range
<1>2. /\ data' = [n \in Bufs |-> IF n \in V THEN None ELSE data[n]]
      /\ block_num' = [n \in Bufs |-> IF n \in V THEN Unused ELSE block_num[n]]
      /\ UNCHANGED <<active, inactive, ref, owner, disk, tvars, panic>>
  BY DEF Freemem, Drop
<1> HIDE DEF V
<1>3. \A t \in Threads : Refers(t) => cur[t] \in Bufs /\ cur[t] \notin V
  <2>1. \A t \in Threads : Refers(t) => cur[t] \in Bufs /\ t \in Users(cur[t])
    BY DEF IndInv, UseInv, Users
  <2> QED
    BY <1>1, <2>1, Lists
<1>4. \A t \in Threads : Refers(t)' <=> Refers(t)
  BY <1>2 DEF Refers, tvars
<1>5. TypeOK'
  BY <1>1, <1>2 DEF TypeOK, tvars
<1>6. RefCountsUsers'
  <2>1. \A m \in Bufs : {u \in Threads : Refers(u) /\ cur[u] = m}'
                          = {u \in Threads : Refers(u) /\ cur[u] = m}
    BY <1>2, <1>4 DEF tvars
  <2> QED
    BY <1>2, <2>1 DEF IndInv, RefCountsUsers
<1>7. OneBufferPerBlock'
  BY <1>2 DEF IndInv, OneBufferPerBlock
<1>8. UsersKeepTheirBlock'
  BY <1>2, <1>3, <1>4 DEF IndInv, UsersKeepTheirBlock, tvars
<1>9. UseInv'
  BY <1>2, <1>4 DEF IndInv, UseInv, tvars
<1>10. CacheCoherent'
  BY <1>2, <1>4 DEF IndInv, CacheCoherent, tvars
<1> QED
  BY <1>5, <1>6, <1>7, <1>8, <1>9, <1>10 DEF IndInv

----------------------------------------------------------------------------
(* Theorems *)

\* The invariant holds in every reachable state.
THEOREM InvariantHolds == Spec => []IndInv
<1>1. IndInv /\ [Next]_vars => IndInv'
  <2> SUFFICES ASSUME IndInv, [Next]_vars PROVE IndInv'
    OBVIOUS
  <2>1. CASE UNCHANGED vars
    <3>1. TypeOK'
      BY <2>1 DEF IndInv, TypeOK, vars, tvars
    <3> QED
      BY <2>1, <3>1, QuietStep DEF vars, tvars, Refers
  <2>2. CASE Halted
    BY <2>1, <2>2 DEF Halted
  <2> QED
    BY <2>1, <2>2, GetActiveStep, GetInactiveStep, GetMissStep, UseStep, PutRefStep,
       ReleaseStep, FreememStep DEF Next
<1> QED
  BY <1>1, IndInvInit, PTL DEF Spec

\* The type invariant.
THEOREM BufTypeOK == Spec => []TypeOK
<1>1. IndInv => TypeOK
  BY DEF IndInv
<1> QED
  BY <1>1, InvariantHolds, PTL

\* ref counts the threads that use or wait for a buffer, and the two lists divide
\* the buffers into those with users and those without.
THEOREM BufRefCountsUsers == Spec => []RefCountsUsers
<1>1. IndInv => RefCountsUsers
  BY DEF IndInv
<1> QED
  BY <1>1, InvariantHolds, PTL

\* Two buffers never hold the same block.
THEOREM BufOneBufferPerBlock == Spec => []OneBufferPerBlock
<1>1. IndInv => OneBufferPerBlock
  BY DEF IndInv
<1> QED
  BY <1>1, InvariantHolds, PTL

\* No miss and no buffer_freemem takes the block or the page from under a thread
\* between buffer_get and buffer_put.
THEOREM BufUsersKeepTheirBlock == Spec => []UsersKeepTheirBlock
<1>1. IndInv => UsersKeepTheirBlock
  BY DEF IndInv
<1> QED
  BY <1>1, InvariantHolds, PTL

\* A cached block differs from the disk only while it is still to be read or its
\* user has yet to write it back.
THEOREM BufCacheCoherent == Spec => []CacheCoherent
<1>1. IndInv => CacheCoherent
  BY DEF IndInv
<1> QED
  BY <1>1, InvariantHolds, PTL

=============================================================================
