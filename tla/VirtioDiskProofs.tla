-------------------------- MODULE VirtioDiskProofs --------------------------
(***************************************************************************)
(* Theorems about VirtioDisk for every number of descriptors and threads.  *)
(* The handler finds the thread of an entry of the used ring through info, *)
(* so that the entries, the chains and info must agree; and no entry may   *)
(* be in two places, or its thread would be told twice.                    *)
(***************************************************************************)
EXTENDS VirtioDisk, FiniteSetTheorems, SequenceTheorems, WellFoundedInduction, TLAPS

\* b->disk is set exactly while the thread waits; info leads from the head of a
\* chain back to its thread.
InvWait ==
  /\ \A t \in Threads : bdisk[t] <=> pc[t] = "wait"
  /\ \A t \in Holders : info[idx0[t]] = t

\* No entry is in two places.
InvRings ==
  /\ IsInjective(avail) /\ IsInjective(used)
  /\ Range(avail) \intersect busy = {} /\ Range(avail) \intersect Range(used) = {}
  /\ busy \intersect Range(used) = {}

\* What a writer has in its buffer can be on a disk; a request whose entry is in
\* the used ring, or whose thread was told, has been carried out.
InvData ==
  \A t \in Threads :
    /\ write[t] => data[t] \in Vals
    /\ pc[t] = "woken" => data[t] = disk[t]
    /\ pc[t] = "wait" /\ idx0[t] \in Range(used) => data[t] = disk[t]

\* Whoever sleeps on free[0] has seen fewer than three free descriptors.
InvNoDesc == (\E t \in Threads : pc[t] = "nodesc") => Cardinality(FreeDescs) < 3

IndInv ==
  /\ TypeOK /\ ChainsExact /\ PlacesExact
  /\ TransferDone /\ InvWait /\ InvRings /\ InvData /\ InvNoDesc
----------------------------------------------------------------------------
(* Sequences, minima, cardinalities *)

\* What appending to a ring without repetition does.
LEMMA AppendFacts ==
  ASSUME NEW S, NEW s \in Seq(S), NEW x \in S
  PROVE  /\ Append(s, x) \in Seq(S) /\ Len(Append(s, x)) = Len(s) + 1
         /\ Range(Append(s, x)) = Range(s) \union {x}
         /\ IsInjective(s) /\ x \notin Range(s) => IsInjective(Append(s, x))
<1> DEFINE a == Append(s, x)
<1>1. /\ a \in Seq(S) /\ Len(a) = Len(s) + 1 /\ Len(s) \in Nat
      /\ DOMAIN a = 1 .. Len(s) + 1 /\ DOMAIN s = 1 .. Len(s)
      /\ \A i \in 1 .. Len(s) : a[i] = s[i]
      /\ a[Len(s) + 1] = x
  OBVIOUS
<1> HIDE DEF a
<1>2. Range(a) = Range(s) \union {x}
  <2>1. \A i \in 1 .. Len(s) + 1 : i \in 1 .. Len(s) \/ i = Len(s) + 1
    BY <1>1
  <2>2. \A i \in 1 .. Len(s) : i \in 1 .. Len(s) + 1
    BY <1>1
  <2>3. Len(s) + 1 \in 1 .. Len(s) + 1
    BY <1>1
  <2> QED
    BY <1>1, <2>1, <2>2, <2>3 DEF Range
<1>3. ASSUME IsInjective(s), x \notin Range(s)
      PROVE  IsInjective(a)
  BY <1>1, <1>3 DEF IsInjective, Range
<1> QED
  BY <1>1, <1>2, <1>3 DEF a

\* What taking the head off a ring without repetition does.
LEMMA TailFacts ==
  ASSUME NEW S, NEW s \in Seq(S), s # <<>>, IsInjective(s)
  PROVE  /\ Tail(s) \in Seq(S) /\ Len(Tail(s)) = Len(s) - 1 /\ Len(s) \in Nat \ {0}
         /\ Head(s) \in Range(s) /\ Head(s) \in S
         /\ Range(Tail(s)) = Range(s) \ {Head(s)}
         /\ IsInjective(Tail(s))
<1> DEFINE r == Tail(s)
<1>1. /\ r \in Seq(S) /\ Len(r) = Len(s) - 1 /\ Len(s) \in Nat /\ Len(s) > 0
      /\ DOMAIN r = 1 .. Len(s) - 1 /\ DOMAIN s = 1 .. Len(s)
      /\ \A i \in 1 .. Len(s) - 1 : r[i] = s[i + 1]
      /\ Head(s) = s[1] /\ s[1] \in S
  OBVIOUS
<1> HIDE DEF r
<1>2. 1 \in DOMAIN s
  BY <1>1
<1>3. Range(r) = Range(s) \ {s[1]}
  <2>1. ASSUME NEW i \in DOMAIN r PROVE r[i] \in Range(s) /\ r[i] # s[1]
    BY <1>1, <1>2 DEF Range, IsInjective
  <2>2. ASSUME NEW j \in DOMAIN s, s[j] # s[1] PROVE s[j] \in Range(r)
    <3>1. j - 1 \in DOMAIN r /\ r[j - 1] = s[j]
      BY <1>1, <2>2
    <3> QED
      BY <3>1 DEF Range
  <2> QED
    BY <2>1, <2>2 DEF Range
<1>4. IsInjective(r)
  <2> SUFFICES ASSUME NEW i \in DOMAIN r, NEW j \in DOMAIN r, r[i] = r[j]
               PROVE  i = j
    BY DEF IsInjective
  <2>1. i + 1 \in DOMAIN s /\ j + 1 \in DOMAIN s /\ s[i + 1] = s[j + 1]
    BY <1>1
  <2>2. i + 1 = j + 1
    BY <2>1 DEF IsInjective
  <2> QED
    BY <1>1, <2>2
<1>5. Head(s) \in Range(s)
  BY <1>1, <1>2 DEF Range
<1>6. Len(s) \in Nat \ {0}
  BY <1>1
<1> QED
  BY <1>1, <1>3, <1>4, <1>5, <1>6 DEF r

\* The search of alloc_desc: a nonempty set of numbers has a minimum.
LEMMA MinElement ==
  ASSUME NEW S \in SUBSET Nat, S # {}
  PROVE  Min(S) \in S
<1> DEFINE R == {ss \in Nat \X Nat : ss[1] < ss[2]}
<1>1. IsWellFoundedOn(R, Nat)
  BY NatLessThanWellFounded, Zenon DEF OpToRel
<1>2. \A a, b \in Nat : a < b => <<a, b>> \in R
  OBVIOUS
<1> HIDE DEF R
<1>3. PICK x \in S : \A y \in S : ~ (<<y, x>> \in R)
  BY <1>1, WFMin, Zenon
<1>4. ASSUME NEW y \in S PROVE x <= y
  <2>1. x \in Nat /\ y \in Nat
    OBVIOUS
  <2>2. ~ (y < x)
    BY <2>1, <1>2, <1>3, Zenon
  <2> QED
    BY <2>1, <2>2
<1> QED
  BY <1>4 DEF Min

\* Three things are three only when they are different.
LEMMA Three ==
  ASSUME NEW a, NEW b, NEW c
  PROVE  Cardinality({a, b, c}) = 3 <=> a # b /\ a # c /\ b # c
<1>1. {a, b} = {a} \union {b} /\ {a, b, c} = {a, b} \union {c}
  OBVIOUS
<1>2. IsFiniteSet({a}) /\ Cardinality({a}) = 1
  BY FS_Singleton
<1>3. IsFiniteSet({a, b}) /\ Cardinality({a, b}) = IF a = b THEN 1 ELSE 2
  BY <1>1, <1>2, FS_AddElement
<1>4. Cardinality({a, b, c}) = IF c \in {a, b} THEN Cardinality({a, b}) ELSE Cardinality({a, b}) + 1
  BY <1>1, <1>3, FS_AddElement
<1> QED
  BY <1>3, <1>4

\* The descriptors are VIRTIO_NUM numbers.
LEMMA DescFacts ==
  /\ IsFiniteSet(Desc) /\ Cardinality(Desc) = VIRTIO_NUM /\ Desc \in SUBSET Nat
  /\ IsFiniteSet(FreeDescs) /\ Cardinality(FreeDescs) \in Nat
  /\ FreeDescs \subseteq Desc
<1>1. VIRTIO_NUM \in Nat /\ VIRTIO_NUM >= 3
  BY NumAssumption
<1>2. IsFiniteSet(Desc) /\ Cardinality(Desc) = VIRTIO_NUM /\ Desc \in SUBSET Nat
  BY <1>1, FS_Interval DEF Desc
<1>3. FreeDescs \subseteq Desc
  BY DEF FreeDescs
<1> QED
  BY <1>2, <1>3, FS_Subset, FS_CardinalityType

\* A set that counts something has an element.
LEMMA NotEmpty ==
  ASSUME NEW S, IsFiniteSet(S), Cardinality(S) # 0
  PROVE  S # {}
BY FS_EmptySet, Zenon

\* alloc3_desc takes three different free descriptors when there are three.
LEMMA AllocFacts ==
  ASSUME Cardinality(FreeDescs) >= 3
  PROVE  /\ Alloc3[1] \in FreeDescs /\ Alloc3[2] \in FreeDescs /\ Alloc3[3] \in FreeDescs
         /\ Alloc3[1] # Alloc3[2] /\ Alloc3[1] # Alloc3[3] /\ Alloc3[2] # Alloc3[3]
         /\ Range(Alloc3) = {Alloc3[1], Alloc3[2], Alloc3[3]}
<1> DEFINE F == FreeDescs
           i == AllocDesc({})
           j == AllocDesc({i})
           k == AllocDesc({i, j})
<1>1. IsFiniteSet(F) /\ Cardinality(F) \in Nat /\ F \in SUBSET Nat
  BY DescFacts
<1>2. Cardinality(F) >= 3
  OBVIOUS
<1> HIDE DEF F
<1>3. F # {}
  BY <1>2, FS_EmptySet
<1>4. i \in F
  <2>1. i = Min(F)
    BY DEF AllocDesc, F
  <2> QED
    BY <2>1, <1>1, <1>3, MinElement
<1> HIDE DEF i
<1>5. IsFiniteSet(F \ {i}) /\ Cardinality(F \ {i}) >= 2 /\ Cardinality(F \ {i}) # 0
  BY <1>1, <1>2, <1>4, FS_RemoveElement
<1>6. j \in F \ {i}
  <2>1. j = Min(F \ {i})
    BY DEF AllocDesc, F
  <2>2. F \ {i} # {} /\ F \ {i} \in SUBSET Nat
    BY <1>1, <1>5, NotEmpty
  <2> QED
    BY <2>1, <2>2, MinElement
<1> HIDE DEF j
<1>7. F \ {i, j} # {} /\ F \ {i, j} \in SUBSET Nat
  <2>1. F \ {i, j} = (F \ {i}) \ {j}
    OBVIOUS
  <2>2. Cardinality((F \ {i}) \ {j}) = Cardinality(F \ {i}) - 1
    BY <1>5, <1>6, FS_RemoveElement
  <2>3. Cardinality(F \ {i}) \in Nat
    BY <1>5, FS_CardinalityType
  <2>4. IsFiniteSet((F \ {i}) \ {j})
    BY <1>5, FS_RemoveElement
  <2>5. (F \ {i}) \ {j} # {}
    BY <2>2, <2>3, <2>4, <1>5, NotEmpty
  <2> QED
    BY <2>1, <2>5, <1>1
<1>8. k \in F \ {i, j}
  <2>1. k = Min(F \ {i, j})
    BY DEF AllocDesc, F
  <2> QED
    BY <2>1, <1>7, MinElement
<1>9. Alloc3 = <<i, j, k>>
  BY DEF Alloc3, i, j
<1> HIDE DEF k
<1>10. Alloc3[1] = i /\ Alloc3[2] = j /\ Alloc3[3] = k /\ Range(Alloc3) = {i, j, k}
  <2>1. DOMAIN <<i, j, k>> = {1, 2, 3}
    OBVIOUS
  <2> QED
    BY <1>9, <2>1 DEF Range
<1> QED
  BY <1>4, <1>6, <1>8, <1>10 DEF F

----------------------------------------------------------------------------
(* Consequences of the invariant *)

\* A chain is its head and two more descriptors; chains of different threads
\* share none, so neither the head nor the second of one is the head of another.
LEMMA ChainFacts ==
  ASSUME TypeOK, ChainsExact, NEW t \in Holders
  PROVE  /\ t \in Threads /\ idx0[t] \in Desc /\ nxt[idx0[t]] \in Desc /\ nxt[nxt[idx0[t]]] \in Desc
         /\ idx0[t] \in Chain(idx0[t]) /\ nxt[idx0[t]] \in Chain(idx0[t])
         /\ nxt[idx0[t]] # idx0[t]
         /\ Chain(idx0[t]) \subseteq Desc \ FreeDescs
         /\ \A u \in Holders : u # t => idx0[u] # idx0[t] /\ idx0[u] # nxt[idx0[t]]
<1>1. t \in Threads /\ idx0[t] \in Desc /\ nxt[idx0[t]] \in Desc /\ nxt[nxt[idx0[t]]] \in Desc
  BY DEF TypeOK, Holders
<1>2. \A u \in Holders : idx0[u] \in Chain(idx0[u]) /\ nxt[idx0[u]] \in Chain(idx0[u])
  BY DEF Chain
<1>3. nxt[idx0[t]] # idx0[t]
  <2>1. Cardinality({idx0[t], nxt[idx0[t]], nxt[nxt[idx0[t]]]}) = 3
    BY DEF ChainsExact, Chain
  <2> QED
    BY <2>1, Three
<1>4. Chain(idx0[t]) \subseteq Desc \ FreeDescs
  BY DEF ChainsExact
<1> QED
  BY <1>1, <1>2, <1>3, <1>4 DEF ChainsExact

\* The used ring never holds VIRTIO_NUM entries: the second descriptor of a chain
\* is never an entry.
LEMMA RingRoom == IndInv => Len(used) < VIRTIO_NUM
<1> SUFFICES ASSUME IndInv PROVE Len(used) < VIRTIO_NUM
  OBVIOUS
<1> USE DEF IndInv
<1>1. used \in Seq(Desc) /\ Len(used) \in Nat /\ VIRTIO_NUM \in Nat /\ VIRTIO_NUM >= 3
  BY NumAssumption DEF TypeOK
<1>2. \E x \in Desc : x \notin Range(used)
  <2>1. CASE \A t \in Threads : ~ bdisk[t]
    <3>1. Range(used) = {}
      BY <2>1 DEF PlacesExact
    <3>2. 0 \in Desc
      BY <1>1 DEF Desc
    <3> QED
      BY <3>1, <3>2
  <2>2. CASE \E t \in Threads : bdisk[t]
    <3>1. PICK t \in Threads : bdisk[t]
      BY <2>2
    <3>2. \A u \in Threads : bdisk[u] => u \in Holders
      BY DEF InvWait, Holders
    <3>3. \A h \in Range(used) : \E u \in Holders : h = idx0[u]
      BY <3>2 DEF PlacesExact
    <3>4. t \in Holders
      BY <3>1, <3>2
    <3>5. nxt[idx0[t]] \in Desc /\ \A u \in Holders : idx0[u] # nxt[idx0[t]]
      BY <3>4, ChainFacts
    <3> QED
      BY <3>3, <3>5
  <2> QED
    BY <2>1, <2>2
<1>3. used \in Injection(1 .. Len(used), Desc) /\ used \notin Surjection(1 .. Len(used), Desc)
  <2>1. used \in [1 .. Len(used) -> Desc] /\ DOMAIN used = 1 .. Len(used)
    BY <1>1
  <2>2. \A a, b \in 1 .. Len(used) : used[a] = used[b] => a = b
    BY <2>1 DEF InvRings, IsInjective
  <2>3. \E x \in Desc : \A a \in 1 .. Len(used) : used[a] # x
    BY <1>2, <2>1 DEF Range
  <2> QED
    BY <2>1, <2>2, <2>3, Zenon DEF Injection, Surjection, IsInjective
<1>4. /\ Cardinality(1 .. Len(used)) <= Cardinality(Desc)
      /\ Cardinality(1 .. Len(used)) # Cardinality(Desc)
  BY <1>3, DescFacts, FS_Injection
<1>5. Cardinality(1 .. Len(used)) = Len(used)
  <2>1. Len(used) \in Int /\ 1 \in Int
    BY <1>1
  <2>2. Cardinality(1 .. Len(used)) = IF 1 > Len(used) THEN 0 ELSE Len(used) - 1 + 1
    BY <2>1, FS_Interval
  <2> QED
    BY <1>1, <2>2
<1> QED
  BY <1>1, <1>4, <1>5, DescFacts

\* While nobody holds a chain every descriptor is free.
LEMMA HolderWhenShort ==
  ASSUME TypeOK, ChainsExact, Cardinality(FreeDescs) < 3
  PROVE  Holders # {}
<1> SUFFICES ASSUME Holders = {} PROVE FALSE
  OBVIOUS
<1>1. Desc \ FreeDescs = {}
  BY DEF ChainsExact
<1>2. FreeDescs = Desc
  BY <1>1, DescFacts
<1> QED
  BY <1>2, DescFacts, NumAssumption

\* A step that leaves descriptors, chains and their holders alone keeps ChainsExact.
LEMMA ChainsKept ==
  ASSUME ChainsExact, UNCHANGED <<free, nxt, idx0>>, Holders' = Holders
  PROVE  ChainsExact'
BY DEF ChainsExact, Chain, FreeDescs

----------------------------------------------------------------------------
(* The invariant is inductive *)

\* The test of the handler's loop fails on an empty ring.
LEMMA EmptyRing ==
  ASSUME Len(used) % VIRTIO_NUM # 0
  PROVE  used # <<>>
<1>1. Len(<<>>) = 0 /\ 0 % VIRTIO_NUM = 0
  BY NumAssumption
<1> QED
  BY <1>1

\* A caller changes its own buffer and what it asks for.
LEMMA CallKeeps ==
  ASSUME IndInv, NEW t \in Threads, NEW w \in BOOLEAN, Call(t, w)
  PROVE  IndInv'
<1> USE DEF Call, dvars, IndInv
<1>1. TypeOK'
  BY DEF TypeOK, Points
<1>2. Holders' = Holders
  BY DEF Holders, TypeOK
<1>3. ChainsExact'
  BY <1>2, ChainsKept DEF dvars
<1>4. InvWait'
  BY <1>2 DEF InvWait, TypeOK
<1>5. InvRings'
  BY DEF InvRings
<1>6. PlacesExact'
  BY DEF PlacesExact
<1>7. TransferDone'
  BY DEF TransferDone, TypeOK
<1>8. InvData'
  BY DEF InvData, TypeOK
<1>9. InvNoDesc'
  BY DEF InvNoDesc, FreeDescs, TypeOK
<1> QED
  BY <1>1, <1>3, <1>4, <1>5, <1>6, <1>7, <1>8, <1>9

\* A thread without descriptors wakes the others and sleeps.
LEMMA NoDescKeeps ==
  ASSUME IndInv, NEW t \in Threads, NoDesc(t)
  PROVE  IndInv'
<1> USE DEF NoDesc, WakeDescWaiters, dvars, IndInv
<1>1. TypeOK'
  <2>1. pc' \in [Threads -> Points]
    BY DEF TypeOK, Points
  <2> QED
    BY <2>1 DEF TypeOK
<1>2. Holders' = Holders
  BY DEF Holders, TypeOK
<1>3. ChainsExact'
  BY <1>2, ChainsKept DEF dvars
<1>4. InvWait'
  BY <1>2 DEF InvWait, TypeOK
<1>5. InvRings'
  BY DEF InvRings
<1>6. PlacesExact'
  BY DEF PlacesExact
<1>7. TransferDone'
  BY DEF TransferDone, TypeOK
<1>8. InvData'
  BY DEF InvData, TypeOK
<1>9. InvNoDesc'
  BY DEF InvNoDesc, FreeDescs
<1> QED
  BY <1>1, <1>3, <1>4, <1>5, <1>6, <1>7, <1>8, <1>9

\* The device takes the oldest entry.
LEMMA DevTakeKeeps ==
  ASSUME IndInv, DevTake
  PROVE  IndInv'
<1> USE DEF DevTake, dvars, tvars, IndInv
<1>1. TypeOK'
  BY TailFacts DEF TypeOK, InvRings
<1>2. Holders' = Holders
  BY DEF Holders, TypeOK
<1>3. ChainsExact'
  BY <1>2, ChainsKept DEF dvars
<1>4. InvWait'
  BY <1>2 DEF InvWait
<1>5. InvRings'
  <2>1. /\ Head(avail) \in Range(avail) /\ IsInjective(avail')
        /\ Range(avail') = Range(avail) \ {Head(avail)}
    BY TailFacts DEF TypeOK, InvRings
  <2> QED
    BY <2>1 DEF InvRings
<1>6. PlacesExact'
  <2>1. /\ Head(avail) \in Range(avail) /\ Len(avail') = Len(avail) - 1 /\ Len(avail) \in Nat
        /\ Range(avail') = Range(avail) \ {Head(avail)}
    BY TailFacts DEF TypeOK, InvRings
  <2>2. IsFiniteSet(busy) /\ Cardinality(busy) \in Nat
    BY DescFacts, FS_Subset, FS_CardinalityType DEF TypeOK
  <2>3. Cardinality(busy') = Cardinality(busy) + 1
    BY <2>1, <2>2, FS_AddElement DEF InvRings
  <2>4. Len(used) \in Nat
    BY DEF TypeOK
  <2>5. Range(avail') \union busy' = Range(avail) \union busy
    BY <2>1
  <2>6. Len(avail') + Cardinality(busy') + Len(used') = Len(avail) + Cardinality(busy) + Len(used)
    BY <2>1, <2>2, <2>3, <2>4
  <2> QED
    BY <2>5, <2>6 DEF PlacesExact
<1>7. TransferDone'
  BY DEF TransferDone
<1>8. InvData'
  BY DEF InvData
<1>9. InvNoDesc'
  BY DEF InvNoDesc, FreeDescs
<1> QED
  BY <1>1, <1>3, <1>4, <1>5, <1>6, <1>7, <1>8, <1>9

\* The device carries out a request and reports it.
LEMMA DevDoneKeeps ==
  ASSUME IndInv, NEW h \in Desc, DevDone(h)
  PROVE  IndInv'
<1> USE DEF DevDone, dvars, tvars, IndInv
<1>1. TypeOK'
  <2>1. PICK t \in Threads : bdisk[t] /\ idx0[t] = h
    BY DEF PlacesExact
  <2>2. t \in Holders /\ info[h] = t /\ pc[t] = "wait"
    BY <2>1 DEF InvWait, Holders
  <2>3. t # NoBuf
    BY NoneAssumption
  <2>4. data' \in [Threads -> Vals \union {Stale}] /\ disk' \in [Threads -> Vals]
    BY <2>2, <2>3 DEF TypeOK, InvData
  <2>5. used' \in Seq(Desc)
    BY AppendFacts DEF TypeOK
  <2> QED
    BY <2>4, <2>5 DEF TypeOK
<1>2. Holders' = Holders
  BY DEF Holders, TypeOK
<1>3. ChainsExact'
  BY <1>2, ChainsKept DEF dvars
<1>4. InvWait'
  BY <1>2 DEF InvWait
<1>5. InvRings'
  <2>1. Range(used') = Range(used) \union {h} /\ (h \notin Range(used) => IsInjective(used'))
    BY AppendFacts DEF TypeOK, InvRings
  <2> QED
    BY <2>1 DEF InvRings
<1>6. PlacesExact'
  <2>1. Range(used') = Range(used) \union {h} /\ Len(used') = Len(used) + 1 /\ Len(used) \in Nat
    BY AppendFacts DEF TypeOK
  <2>2. IsFiniteSet(busy) /\ Cardinality(busy) \in Nat
    BY DescFacts, FS_Subset, FS_CardinalityType DEF TypeOK
  <2>3. Cardinality(busy') = Cardinality(busy) - 1
    BY <2>2, FS_RemoveElement
  <2>4. Len(avail) \in Nat
    BY DEF TypeOK
  <2>5. busy' \union Range(used') = busy \union Range(used)
    BY <2>1
  <2>6. UNCHANGED <<avail, bdisk, idx0>>
    OBVIOUS
  <2> HIDE DEF DevDone
  <2>7. Len(avail) + Cardinality(busy') + Len(used') = Len(avail) + Cardinality(busy) + Len(used)
    BY <2>1, <2>2, <2>3, <2>4
  <2> QED
    BY <2>5, <2>6, <2>7 DEF PlacesExact
<1>7. TransferDone'
  <2>1. PICK t \in Threads : bdisk[t] /\ idx0[t] = h
    BY DEF PlacesExact
  <2>2. t \in Holders /\ info[h] = t /\ pc[t] = "wait"
    BY <2>1 DEF InvWait, Holders
  <2>3. \A u \in Threads : u # t => data'[u] = data[u] /\ disk'[u] = disk[u]
    BY <2>2 DEF TypeOK
  <2>4. pc' = pc
    OBVIOUS
  <2> QED
    BY <2>2, <2>3, <2>4 DEF TransferDone
<1>8. InvData'
  <2>1. PICK t \in Threads : bdisk[t] /\ idx0[t] = h
    BY DEF PlacesExact
  <2>2. t \in Holders /\ info[h] = t /\ pc[t] = "wait"
    BY <2>1 DEF InvWait, Holders
  <2>3. \A u \in Threads : u # t => data'[u] = data[u] /\ disk'[u] = disk[u]
    BY <2>2 DEF TypeOK
  <2>4. data'[t] = disk'[t] /\ (write[t] => data'[t] = data[t])
    BY <2>2, NoneAssumption DEF TypeOK
  <2>5. Range(used') = Range(used) \union {h} /\ pc' = pc /\ write' = write /\ idx0' = idx0
    BY AppendFacts DEF TypeOK
  <2>6. \A u \in Holders : u # t => idx0[u] # h
    BY <2>1, <2>2, ChainFacts
  <2>7. \A u \in Threads : pc[u] = "wait" => u \in Holders
    BY DEF Holders
  <2> HIDE DEF DevDone
  <2> QED
    BY <2>3, <2>4, <2>5, <2>6, <2>7 DEF InvData
<1>9. InvNoDesc'
  BY DEF InvNoDesc, FreeDescs
<1> QED
  BY <1>1, <1>3, <1>4, <1>5, <1>6, <1>7, <1>8, <1>9

\* The handler tells the thread of the oldest entry.
LEMMA IntrOneKeeps ==
  ASSUME IndInv, IntrOne
  PROVE  IndInv'
<1> USE DEF IntrOne, dvars, IndInv
<1>1. TypeOK'
  <2>1. used # <<>>
    BY EmptyRing
  <2>2. /\ used' \in Seq(Desc) /\ Len(used') = Len(used) - 1 /\ Len(used) \in Nat
        /\ Head(used) \in Range(used) /\ IsInjective(used')
        /\ Range(used') = Range(used) \ {Head(used)}
    BY <2>1, TailFacts DEF TypeOK, InvRings
  <2>3. PICK t \in Threads : bdisk[t] /\ idx0[t] = Head(used)
    BY <2>2 DEF PlacesExact
  <2>4. t \in Holders /\ info[Head(used)] = t /\ pc[t] = "wait"
    BY <2>3 DEF InvWait, Holders
  <2>5. /\ bdisk' = [bdisk EXCEPT ![t] = FALSE]
        /\ pc' = [pc EXCEPT ![t] = "woken"]
    BY <2>4
  <2> QED
    BY <2>2, <2>5 DEF TypeOK, Points
<1>2. Holders' = Holders
  <2>1. used # <<>>
    BY EmptyRing
  <2>2. /\ used' \in Seq(Desc) /\ Len(used') = Len(used) - 1 /\ Len(used) \in Nat
        /\ Head(used) \in Range(used) /\ IsInjective(used')
        /\ Range(used') = Range(used) \ {Head(used)}
    BY <2>1, TailFacts DEF TypeOK, InvRings
  <2>3. PICK t \in Threads : bdisk[t] /\ idx0[t] = Head(used)
    BY <2>2 DEF PlacesExact
  <2>4. t \in Holders /\ info[Head(used)] = t /\ pc[t] = "wait"
    BY <2>3 DEF InvWait, Holders
  <2>5. /\ bdisk' = [bdisk EXCEPT ![t] = FALSE]
        /\ pc' = [pc EXCEPT ![t] = "woken"]
    BY <2>4
  <2> QED
    BY <2>4, <2>5 DEF Holders, TypeOK
<1>3. ChainsExact'
  BY <1>2, ChainsKept DEF dvars
<1>4. InvWait'
  <2>1. used # <<>>
    BY EmptyRing
  <2>2. /\ used' \in Seq(Desc) /\ Len(used') = Len(used) - 1 /\ Len(used) \in Nat
        /\ Head(used) \in Range(used) /\ IsInjective(used')
        /\ Range(used') = Range(used) \ {Head(used)}
    BY <2>1, TailFacts DEF TypeOK, InvRings
  <2>3. PICK t \in Threads : bdisk[t] /\ idx0[t] = Head(used)
    BY <2>2 DEF PlacesExact
  <2>4. t \in Holders /\ info[Head(used)] = t /\ pc[t] = "wait"
    BY <2>3 DEF InvWait, Holders
  <2>5. /\ bdisk' = [bdisk EXCEPT ![t] = FALSE]
        /\ pc' = [pc EXCEPT ![t] = "woken"]
    BY <2>4
  <2> QED
    BY <1>2, <2>4, <2>5 DEF InvWait, TypeOK
<1>5. InvRings'
  <2>1. used # <<>>
    BY EmptyRing
  <2>2. /\ used' \in Seq(Desc) /\ Len(used') = Len(used) - 1 /\ Len(used) \in Nat
        /\ Head(used) \in Range(used) /\ IsInjective(used')
        /\ Range(used') = Range(used) \ {Head(used)}
    BY <2>1, TailFacts DEF TypeOK, InvRings
  <2>3. PICK t \in Threads : bdisk[t] /\ idx0[t] = Head(used)
    BY <2>2 DEF PlacesExact
  <2>4. t \in Holders /\ info[Head(used)] = t /\ pc[t] = "wait"
    BY <2>3 DEF InvWait, Holders
  <2>5. /\ bdisk' = [bdisk EXCEPT ![t] = FALSE]
        /\ pc' = [pc EXCEPT ![t] = "woken"]
    BY <2>4
  <2> QED
    BY <2>2 DEF InvRings
<1>6. PlacesExact'
  <2>1. used # <<>>
    BY EmptyRing
  <2>2. /\ used' \in Seq(Desc) /\ Len(used') = Len(used) - 1 /\ Len(used) \in Nat
        /\ Head(used) \in Range(used) /\ IsInjective(used')
        /\ Range(used') = Range(used) \ {Head(used)}
    BY <2>1, TailFacts DEF TypeOK, InvRings
  <2>3. PICK t \in Threads : bdisk[t] /\ idx0[t] = Head(used)
    BY <2>2 DEF PlacesExact
  <2>4. t \in Holders /\ info[Head(used)] = t /\ pc[t] = "wait"
    BY <2>3 DEF InvWait, Holders
  <2>5. /\ bdisk' = [bdisk EXCEPT ![t] = FALSE]
        /\ pc' = [pc EXCEPT ![t] = "woken"]
    BY <2>4
  <2> DEFINE B == {u \in Threads : bdisk[u]}
  <2>6. {u \in Threads : bdisk'[u]} = B \ {t} /\ t \in B
    BY <2>3, <2>5 DEF TypeOK
  <2>7. IsFiniteSet(B) /\ Cardinality(B) \in Nat /\ Cardinality(B \ {t}) = Cardinality(B) - 1
    <3>1. B \subseteq Threads /\ t \in B
      BY <2>6
    <3> HIDE DEF B
    <3>2. IsFiniteSet(B)
      BY <3>1, ThreadsAssumption, FS_Subset
    <3> QED
      BY <3>1, <3>2, FS_RemoveElement, FS_CardinalityType
  <2>8. Len(avail) + Cardinality(busy) + Len(used) = Cardinality(B)
    BY DEF PlacesExact
  <2>9. \A u \in B : u # t => idx0[u] # Head(used)
    BY <2>3, <2>4, ChainFacts DEF InvWait, Holders
  <2>10. Range(avail) \union busy \union Range(used) = {idx0[u] : u \in B}
    BY DEF PlacesExact
  <2>11. Head(used) \notin Range(avail) /\ Head(used) \notin busy
    BY <2>2 DEF InvRings
  <2>12. Range(avail) \union busy \union Range(used') = {idx0[u] : u \in B \ {t}}
    BY <2>2, <2>3, <2>9, <2>10, <2>11
  <2>13. Len(avail) \in Nat /\ IsFiniteSet(busy) /\ Cardinality(busy) \in Nat
    <3>1. Len(avail) \in Nat /\ busy \subseteq Desc
      BY DEF TypeOK
    <3> QED
      BY <3>1, DescFacts, FS_Subset, FS_CardinalityType
  <2>14. Len(avail) + Cardinality(busy) + Len(used') = Cardinality(B \ {t})
    BY <2>2, <2>7, <2>8, <2>13
  <2> HIDE DEF B
  <2> QED
    BY <2>6, <2>12, <2>14 DEF PlacesExact
<1>7. TransferDone'
  <2>1. used # <<>>
    BY EmptyRing
  <2>2. /\ used' \in Seq(Desc) /\ Len(used') = Len(used) - 1 /\ Len(used) \in Nat
        /\ Head(used) \in Range(used) /\ IsInjective(used')
        /\ Range(used') = Range(used) \ {Head(used)}
    BY <2>1, TailFacts DEF TypeOK, InvRings
  <2>3. PICK t \in Threads : bdisk[t] /\ idx0[t] = Head(used)
    BY <2>2 DEF PlacesExact
  <2>4. t \in Holders /\ info[Head(used)] = t /\ pc[t] = "wait"
    BY <2>3 DEF InvWait, Holders
  <2>5. /\ bdisk' = [bdisk EXCEPT ![t] = FALSE]
        /\ pc' = [pc EXCEPT ![t] = "woken"]
    BY <2>4
  <2> QED
    BY <2>5 DEF TransferDone, TypeOK
<1>8. InvData'
  <2>1. used # <<>>
    BY EmptyRing
  <2>2. /\ used' \in Seq(Desc) /\ Len(used') = Len(used) - 1 /\ Len(used) \in Nat
        /\ Head(used) \in Range(used) /\ IsInjective(used')
        /\ Range(used') = Range(used) \ {Head(used)}
    BY <2>1, TailFacts DEF TypeOK, InvRings
  <2>3. PICK t \in Threads : bdisk[t] /\ idx0[t] = Head(used)
    BY <2>2 DEF PlacesExact
  <2>4. t \in Holders /\ info[Head(used)] = t /\ pc[t] = "wait"
    BY <2>3 DEF InvWait, Holders
  <2>5. /\ bdisk' = [bdisk EXCEPT ![t] = FALSE]
        /\ pc' = [pc EXCEPT ![t] = "woken"]
    BY <2>4
  <2>6. data[t] = disk[t]
    BY <2>2, <2>3, <2>4 DEF InvData
  <2> QED
    BY <2>2, <2>5, <2>6 DEF InvData, TypeOK
<1>9. InvNoDesc'
  <2>1. used # <<>>
    BY EmptyRing
  <2>2. /\ used' \in Seq(Desc) /\ Len(used') = Len(used) - 1 /\ Len(used) \in Nat
        /\ Head(used) \in Range(used) /\ IsInjective(used')
        /\ Range(used') = Range(used) \ {Head(used)}
    BY <2>1, TailFacts DEF TypeOK, InvRings
  <2>3. PICK t \in Threads : bdisk[t] /\ idx0[t] = Head(used)
    BY <2>2 DEF PlacesExact
  <2>4. t \in Holders /\ info[Head(used)] = t /\ pc[t] = "wait"
    BY <2>3 DEF InvWait, Holders
  <2>5. /\ bdisk' = [bdisk EXCEPT ![t] = FALSE]
        /\ pc' = [pc EXCEPT ![t] = "woken"]
    BY <2>4
  <2> QED
    BY <2>5 DEF InvNoDesc, FreeDescs, TypeOK
<1> QED
  BY <1>1, <1>3, <1>4, <1>5, <1>6, <1>7, <1>8, <1>9

\* Entering and leaving the handler changes no request.
LEMMA IntrEdgeKeeps ==
  ASSUME IndInv, IntrEnter \/ IntrLoopEnd \/ IntrAck
  PROVE  IndInv'
<1>1. /\ UNCHANGED <<free, nxt, info, avail, used, busy, pc, idx0, write, bdisk, data, disk>>
      /\ isr' \in {"off", "loop", "ack"} /\ pending' \in BOOLEAN
  BY DEF IntrEnter, IntrLoopEnd, IntrAck, dvars, tvars, IndInv, TypeOK
<1> QED
  BY <1>1 DEF IndInv, TypeOK, ChainsExact, PlacesExact, TransferDone, InvWait, InvRings, InvData,
     InvNoDesc, Holders, FreeDescs, Chain

\* A step of t that leaves the other chains alone and gives t one that was free.
ChainTaken(t, i, j, k) ==
  /\ {i, j, k} \subseteq FreeDescs /\ i # j /\ i # k /\ j # k
  /\ t \in Threads \ Holders /\ Holders' = Holders \union {t}
  /\ FreeDescs' = FreeDescs \ {i, j, k}
  /\ idx0'[t] = i /\ \A u \in Holders : idx0'[u] = idx0[u]
  /\ nxt'[i] = j /\ nxt'[j] = k /\ nxt'[k] = k
  /\ \A d \in Desc \ {i, j, k} : nxt'[d] = nxt[d]

\* A new chain of three descriptors that were free keeps the chains apart.
LEMMA NewChain ==
  ASSUME TypeOK, ChainsExact, NEW t, NEW i, NEW j, NEW k, ChainTaken(t, i, j, k)
  PROVE  ChainsExact'
<1> USE DEF ChainTaken
<1>1. Chain(idx0[t])' = {i, j, k}
  BY DEF Chain
<1>2. ASSUME NEW u \in Holders
      PROVE  Chain(idx0[u])' = Chain(idx0[u]) /\ Chain(idx0[u]) \subseteq Desc \ FreeDescs
  <2>1. /\ idx0[u] \in Desc /\ nxt[idx0[u]] \in Desc /\ nxt[nxt[idx0[u]]] \in Desc
        /\ Chain(idx0[u]) \subseteq Desc \ FreeDescs
    BY ChainFacts
  <2>2. idx0[u] \notin {i, j, k} /\ nxt[idx0[u]] \notin {i, j, k}
    BY <2>1 DEF Chain
  <2> QED
    BY <2>1, <2>2 DEF Chain
<1>3. \A u \in Holders' : Cardinality(Chain(idx0[u])') = 3
  <2>1. Cardinality({i, j, k}) = 3
    <3>1. i # j /\ i # k /\ j # k
      OBVIOUS
    <3> HIDE DEF ChainTaken
    <3> QED
      BY <3>1, Three, Zenon
  <2>2. \A u \in Holders : Cardinality(Chain(idx0[u])) = 3
    BY DEF ChainsExact
  <2>3. \A u \in Holders' : u = t \/ u \in Holders
    OBVIOUS
  <2>4. Cardinality(Chain(idx0[t])') = 3
    BY <1>1, <2>1
  <2>5. \A u \in Holders : Cardinality(Chain(idx0[u])') = 3
    BY <1>2, <2>2
  <2> QED
    BY <2>3, <2>4, <2>5
<1>4. \A u, v \in Holders' : u # v => Chain(idx0[u])' \intersect Chain(idx0[v])' = {}
  <2>1. ASSUME NEW u \in Holders PROVE Chain(idx0[u])' \intersect {i, j, k} = {}
    BY <1>2
  <2> QED
    BY <1>1, <1>2, <2>1 DEF ChainsExact
<1>5. UNION {Chain(idx0[u])' : u \in Holders'} = Desc \ FreeDescs'
  <2> DEFINE C(u) == Chain(idx0[u])
             N(u) == Chain(idx0[u])'
  <2>1. N(t) = {i, j, k} /\ \A u \in Holders : N(u) = C(u)
    BY <1>1, <1>2
  <2>2. {i, j, k} \subseteq FreeDescs /\ FreeDescs \subseteq Desc
    BY DescFacts
  <2>3. (UNION {C(u) : u \in Holders}) = Desc \ FreeDescs
    BY DEF ChainsExact
  <2> HIDE DEF C, N
  <2>4. (UNION {N(u) : u \in Holders \union {t}}) = (UNION {C(u) : u \in Holders}) \union {i, j, k}
    BY <2>1
  <2>5. (UNION {N(u) : u \in Holders \union {t}}) = Desc \ (FreeDescs \ {i, j, k})
    BY <2>2, <2>3, <2>4
  <2> QED
    BY <2>5 DEF N
<1> QED
  BY <1>3, <1>4, <1>5 DEF ChainsExact

\* A thread takes three descriptors and publishes the chain.
LEMMA SubmitKeeps ==
  ASSUME IndInv, NEW t \in Threads, Submit(t)
  PROVE  IndInv'
<1> DEFINE i == Alloc3[1]
           j == Alloc3[2]
           k == Alloc3[3]
<1> USE DEF IndInv
<1>1. /\ {i, j, k} \subseteq FreeDescs /\ i # j /\ i # k /\ j # k /\ Range(Alloc3) = {i, j, k}
      /\ i \in Desc /\ j \in Desc /\ k \in Desc
  BY AllocFacts, DescFacts DEF Submit
<1>2. /\ pc[t] = "try" /\ pc' = [pc EXCEPT ![t] = "wait"] /\ bdisk' = [bdisk EXCEPT ![t] = TRUE]
      /\ free' = [d \in Desc |-> free[d] /\ d \notin {i, j, k}]
      /\ nxt' = [nxt EXCEPT ![i] = j, ![j] = k, ![k] = k]
      /\ info' = [info EXCEPT ![i] = t] /\ idx0' = [idx0 EXCEPT ![t] = i]
      /\ avail' = Append(avail, i)
      /\ UNCHANGED <<used, pending, isr, busy, write, data, disk>>
      /\ Cardinality(FreeDescs) >= 3
  BY <1>1 DEF Submit
<1> HIDE DEF i, j, k
<1>3. TypeOK'
  <2>1. nxt' \in [Desc -> Desc] /\ info' \in [Desc -> Threads \union {NoBuf}] /\ idx0' \in [Threads -> Desc]
    BY <1>1, <1>2 DEF TypeOK
  <2>2. free' \in [Desc -> BOOLEAN] /\ bdisk' \in [Threads -> BOOLEAN]
    BY <1>2 DEF TypeOK
  <2>3. avail' \in Seq(Desc) /\ pc' \in [Threads -> Points]
    BY <1>1, <1>2, AppendFacts DEF TypeOK, Points
  <2> QED
    BY <1>2, <2>1, <2>2, <2>3 DEF TypeOK
<1>4. ChainTaken(t, i, j, k)
  <2>1. t \in Threads \ Holders /\ Holders' = Holders \union {t}
    BY <1>2 DEF Holders, TypeOK
  <2>2. FreeDescs' = FreeDescs \ {i, j, k}
    BY <1>1, <1>2 DEF FreeDescs
  <2>3. idx0'[t] = i /\ \A u \in Holders : idx0'[u] = idx0[u]
    BY <1>2, <2>1 DEF TypeOK, Holders
  <2>4. /\ nxt'[i] = j /\ nxt'[j] = k /\ nxt'[k] = k
        /\ \A d \in Desc \ {i, j, k} : nxt'[d] = nxt[d]
    BY <1>1, <1>2 DEF TypeOK
  <2> QED
    BY <1>1, <2>1, <2>2, <2>3, <2>4 DEF ChainTaken
<1>5. ChainsExact'
  BY <1>4, NewChain
<1>6. \A u \in Holders : idx0[u] \in Desc /\ idx0[u] # i
  BY <1>1, ChainFacts
<1>7. InvWait'
  <2>1. \A u \in Threads : bdisk'[u] <=> pc'[u] = "wait"
    BY <1>2 DEF InvWait, TypeOK
  <2>2. \A u \in Holders' : info'[idx0'[u]] = u
    BY <1>1, <1>2, <1>4, <1>6 DEF InvWait, ChainTaken, TypeOK
  <2> QED
    BY <2>1, <2>2 DEF InvWait
<1>8. \A u \in Threads : bdisk[u] => u \in Holders
  BY DEF InvWait, Holders
<1>9. i \notin Range(avail) /\ i \notin busy /\ i \notin Range(used)
  BY <1>6, <1>8 DEF PlacesExact
<1>10. /\ Range(avail') = Range(avail) \union {i} /\ Len(avail') = Len(avail) + 1
       /\ IsInjective(avail')
  BY <1>1, <1>2, <1>9, AppendFacts DEF TypeOK, InvRings
<1>11. InvRings'
  BY <1>2, <1>9, <1>10 DEF InvRings
<1>12. PlacesExact'
  <2> DEFINE B == {u \in Threads : bdisk[u]}
  <2>1. {u \in Threads : bdisk'[u]} = B \union {t} /\ t \notin B /\ B \subseteq Threads
    BY <1>2 DEF TypeOK, InvWait
  <2>2. /\ Len(avail) + Cardinality(busy) + Len(used) = Cardinality(B)
        /\ Range(avail) \union busy \union Range(used) = {idx0[u] : u \in B}
    BY DEF PlacesExact
  <2>3. \A u \in B : idx0'[u] = idx0[u]
    BY <1>2 DEF InvWait, TypeOK
  <2> HIDE DEF B
  <2>4. IsFiniteSet(B)
    BY <2>1, ThreadsAssumption, FS_Subset
  <2>5. Cardinality(B \union {t}) = Cardinality(B) + 1 /\ Cardinality(B) \in Nat
    BY <2>1, <2>4, FS_AddElement, FS_CardinalityType
  <2>6. idx0'[t] = i
    BY <1>4 DEF ChainTaken
  <2>7. Range(avail') \union busy \union Range(used) = {idx0'[u] : u \in B \union {t}}
    BY <1>10, <2>2, <2>3, <2>6
  <2>8. Len(avail) \in Nat /\ Len(used) \in Nat /\ busy \subseteq Desc
    BY DEF TypeOK
  <2>9. Cardinality(busy) \in Nat
    BY <2>8, DescFacts, FS_Subset, FS_CardinalityType
  <2>10. Len(avail') + Cardinality(busy) + Len(used) = Cardinality(B \union {t})
    BY <1>10, <2>2, <2>5, <2>8, <2>9
  <2> QED
    BY <1>2, <2>1, <2>7, <2>10 DEF PlacesExact
<1>13. TransferDone'
  BY <1>2 DEF TransferDone, TypeOK
<1>14. InvData'
  BY <1>2, <1>9 DEF InvData, TypeOK
<1>15. InvNoDesc'
  BY <1>2, DescFacts DEF InvNoDesc, TypeOK
<1> QED
  BY <1>3, <1>5, <1>7, <1>11, <1>12, <1>13, <1>14, <1>15

\* A thread whose request was carried out gives its chain back.
LEMMA FinishKeeps ==
  ASSUME IndInv, NEW t \in Threads, Finish(t)
  PROVE  IndInv'
<1> USE DEF IndInv
<1>1. /\ pc[t] = "woken" /\ ~ bdisk[t] /\ t \in Holders
      /\ \A u \in Threads : pc'[u] = IF u = t THEN "idle" ELSE IF pc[u] = "nodesc" THEN "try" ELSE pc[u]
      /\ pc' \in [Threads -> Points]
      /\ free' = [d \in Desc |-> free[d] \/ d \in Chain(idx0[t])]
      /\ info' = [info EXCEPT ![idx0[t]] = NoBuf]
      /\ UNCHANGED <<nxt, avail, used, pending, isr, busy, idx0, write, bdisk, data, disk>>
  BY DEF Finish, WakeDescWaiters, TypeOK, Points, Holders
<1>2. Holders' = Holders \ {t}
  BY <1>1 DEF Holders
<1>3. TypeOK'
  BY <1>1 DEF TypeOK
<1>4. ChainsExact'
  <2>1. \A u \in Holders : Chain(idx0[u])' = Chain(idx0[u])
    BY <1>1 DEF Chain
  <2>2. FreeDescs' = FreeDescs \union Chain(idx0[t])
    <3>1. Chain(idx0[t]) \subseteq Desc
      BY <1>1, ChainFacts
    <3> QED
      BY <1>1, <3>1 DEF FreeDescs
  <2>3. \A u \in Holders : u # t => Chain(idx0[u]) \intersect Chain(idx0[t]) = {}
    BY <1>1 DEF ChainsExact
  <2>4. UNION {Chain(idx0[u]) : u \in Holders'} = (UNION {Chain(idx0[u]) : u \in Holders}) \ Chain(idx0[t])
    BY <1>1, <1>2, <2>3
  <2>5. UNION {Chain(idx0[u])' : u \in Holders'} = Desc \ FreeDescs'
    BY <1>2, <2>1, <2>2, <2>4 DEF ChainsExact
  <2> QED
    BY <1>2, <2>1, <2>5 DEF ChainsExact
<1>5. InvWait'
  <2>1. \A u \in Holders' : idx0[u] # idx0[t] /\ idx0[u] \in Desc
    BY <1>1, <1>2, ChainFacts
  <2> QED
    BY <1>1, <1>2, <2>1 DEF InvWait, TypeOK
<1>6. InvRings' /\ PlacesExact'
  BY <1>1 DEF InvRings, PlacesExact
<1>7. TransferDone' /\ InvData'
  BY <1>1 DEF TransferDone, InvData
<1>8. InvNoDesc'
  BY <1>1 DEF InvNoDesc
<1> QED
  BY <1>3, <1>4, <1>5, <1>6, <1>7, <1>8

\* Init: nothing is requested.
LEMMA IndInvInit == Init => IndInv
<1> SUFFICES ASSUME Init PROVE IndInv
  OBVIOUS
<1> USE DEF Init
<1>1. 0 \in Desc
  BY NumAssumption DEF Desc
<1>2. TypeOK
  <2>1. data \in [Threads -> Vals \union {Stale}] /\ disk \in [Threads -> Vals]
    OBVIOUS
  <2>2. avail \in Seq(Desc) /\ used \in Seq(Desc)
    OBVIOUS
  <2>3. pc \in [Threads -> Points] /\ idx0 \in [Threads -> Desc] /\ busy \subseteq Desc
    BY <1>1 DEF Points
  <2> QED
    BY <2>1, <2>2, <2>3 DEF TypeOK
<1>3. /\ Holders = {} /\ FreeDescs = Desc /\ Range(avail) = {} /\ Range(used) = {} /\ busy = {}
      /\ Len(avail) = 0 /\ Len(used) = 0 /\ {u \in Threads : bdisk[u]} = {}
  BY DEF Holders, FreeDescs, Range
<1>4. ChainsExact
  BY <1>3 DEF ChainsExact
<1>5. PlacesExact
  <2>1. Cardinality({}) = 0
    BY FS_EmptySet
  <2> HIDE DEF Init
  <2>3. {idx0[u] : u \in {v \in Threads : bdisk[v]}} = {}
    BY <1>3
  <2>4. Cardinality({v \in Threads : bdisk[v]}) = 0 /\ Cardinality(busy) = 0
    BY <1>3, <2>1
  <2>5. Len(avail) + Cardinality(busy) + Len(used) = 0
    BY <1>3, <2>4
  <2>6. Range(avail) \union busy \union Range(used) = {}
    BY <1>3
  <2> QED
    BY <2>3, <2>4, <2>5, <2>6 DEF PlacesExact
<1>6. InvWait /\ InvRings /\ TransferDone /\ InvData /\ InvNoDesc
  BY <1>3 DEF InvWait, InvRings, TransferDone, InvData, InvNoDesc, IsInjective
<1> QED
  BY <1>2, <1>4, <1>5, <1>6 DEF IndInv

\* Every step of the driver, the handler and the device preserves the invariant.
LEMMA IndInvNext == IndInv /\ [Next]_vars => IndInv'
<1> SUFFICES ASSUME IndInv, [Next]_vars PROVE IndInv'
  OBVIOUS
<1>1. ASSUME NEW t \in Threads, Driver(t) PROVE IndInv'
  BY <1>1, SubmitKeeps, NoDescKeeps, FinishKeeps DEF Driver
<1>2. CASE Handler
  BY <1>2, IntrOneKeeps, IntrEdgeKeeps DEF Handler
<1>3. CASE Device
  BY <1>3, DevTakeKeeps, DevDoneKeeps DEF Device
<1>4. CASE UNCHANGED vars
  BY <1>4 DEF vars, dvars, tvars, IndInv, TypeOK, ChainsExact, PlacesExact, TransferDone, InvWait,
     InvRings, InvData, InvNoDesc, Holders, FreeDescs, Chain
<1> QED
  BY <1>1, <1>2, <1>3, <1>4, CallKeeps DEF Next

\* The inductive invariant holds in every reachable state of virtio.c as modelled.
THEOREM InvariantHolds == Spec => []IndInv
BY IndInvInit, IndInvNext, PTL DEF Spec

\* No descriptor leaks or is shared, every request is in one place, and the rings
\* are not overrun, for any number of threads and of descriptors above two.
THEOREM DiskRequestsAccounted == Spec => []RequestsAccounted
<1>1. IndInv => RequestsAccounted
  BY RingRoom DEF IndInv, RequestsAccounted
<1> QED
  BY <1>1, InvariantHolds, PTL

\* What virtio_disk_rw returns from has been done, in whatever order the device
\* finishes requests and whenever its interrupts come.
THEOREM DiskTransferDone == Spec => []TransferDone
<1>1. IndInv => TransferDone
  BY DEF IndInv
<1> QED
  BY <1>1, InvariantHolds, PTL

\* No thread sleeps for descriptors that are there.
THEOREM DiskDescWakeup == Spec => []DescWakeupNotLost
<1>1. IndInv => DescWakeupNotLost
  BY HolderWhenShort DEF IndInv, DescWakeupNotLost, InvNoDesc
<1> QED
  BY <1>1, InvariantHolds, PTL

=============================================================================
