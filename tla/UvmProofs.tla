------------------------------ MODULE UvmProofs ------------------------------
(***************************************************************************)
(* Theorems about Uvm, for every number of processes, every layout, page   *)
(* size and size of the pools.                                             *)
(*                                                                         *)
(* The invariant ties together three things: the order of the regions, how *)
(* the page table of a process lies in the areas the kernel knows of, and  *)
(* the three counts.  A new region is put where its neighbours leave room, *)
(* so its pages are covered by no region; being in no area they are not in *)
(* the page table, so that mapping them overwrites no entry and the count  *)
(* of user pages stays exact.  All this as long as proc_exec has lost no   *)
(* page (tidy): afterwards a page table may map what lies in no area, and  *)
(* pages are only known not to come from nowhere.                          *)
(***************************************************************************)
EXTENDS Uvm, Integers, FiniteSetTheorems, SequenceTheorems, WellFoundedInduction, TLAPS

\* Sorted and disjoint within the area, where only a region with its position
\* in K may touch the one that follows it.
Near(l, K) ==
  /\ l \in Seq(Regions)
  /\ \A i \in 1 .. Len(l) : End(l[i]) <= MMAP_END
  /\ \A i, j \in 1 .. Len(l) : i < j =>
       \/ End(l[i]) < l[j].begin
       \/ End(l[i]) = l[j].begin /\ j = i + 1 /\ i \in K

Sorted(l) == Near(l, {})

InvTypes ==
  /\ live \in [Procs -> BOOLEAN] /\ map \in [Procs -> SUBSET Pages]
  /\ nouser \in [Procs -> SUBSET Pages]
  /\ tables \in [Procs -> SUBSET Tables] /\ mmap \in [Procs -> Seq(Regions)]
  /\ heap \in [Procs -> 0 .. (MMAP_END + 1) * PG]
  /\ ustack \in [Procs -> 0 .. TRAPFRAME - MMAP_END]
  /\ nodes \in Nat /\ upool \in Nat /\ kpool \in Nat /\ panic \in Messages
  /\ tidy \in BOOLEAN

InvLists == \A p \in Procs : Sorted(mmap[p]) /\ Len(mmap[p]) <= NMmap

\* A process has its trapframe and its root table, and as long as proc_exec has lost
\* no page maps nothing outside its areas, its heap below that of mmap; a free slot
\* has nothing.
InvLive ==
  \A p \in Procs :
    /\ nouser[p] \subseteq map[p]
    /\ live[p] => {"tf", "root"} \subseteq tables[p]
    /\ live[p] /\ tidy => /\ (USER_BASE + 1) * PG <= heap[p]
                          /\ heap[p] <= MMAP_BEGIN * PG
                          /\ map[p] \subseteq Areas(p)
    /\ ~ live[p] => map[p] = {} /\ tables[p] = {} /\ mmap[p] = <<>>

\* The positions in the region list of each process.
Positions(lists) == [p \in Procs |-> 1 .. Len(lists[p])]

\* Tables may be lost, user pages by proc_exec only, nodes never.
InvCounts ==
  /\ upool + Count(map) <= NUser
  /\ tidy => upool + Count(map) = NUser
  /\ kpool + Count(tables) <= NKern
  /\ nodes + Count(Positions(mmap)) = NMmap

IndInv == InvTypes /\ InvLists /\ InvLive /\ InvCounts

----------------------------------------------------------------------------
(* Numbers *)

LEMMA Layout ==
  /\ PG \in Nat /\ 0 < PG /\ MMAP_BEGIN \in Nat /\ MMAP_END \in Nat /\ TRAPFRAME \in Nat
  /\ MaxBrk \in Nat /\ NUser \in Nat /\ NKern \in Nat /\ NMmap \in Nat
  /\ 2 <= MaxBrk /\ MaxBrk < MMAP_BEGIN /\ MMAP_BEGIN < MMAP_END /\ MMAP_END < TRAPFRAME
  /\ LenLimit \in Nat \ {0}
BY LayoutAssumption

\* A nonempty set of numbers has a minimum.
LEMMA MinNat ==
  ASSUME NEW S \in SUBSET Nat, S # {}
  PROVE  Min(S) \in S /\ \A y \in S : Min(S) <= y
<1> DEFINE R == {ss \in Nat \X Nat : ss[1] < ss[2]}
<1>1. IsWellFoundedOn(R, Nat)
  BY NatLessThanWellFounded, Zenon DEF OpToRel
<1>2. \A a, b \in Nat : a < b => <<a, b>> \in R
  OBVIOUS
<1> HIDE DEF R
<1>3. PICK x \in S : \A y \in S : ~ (<<y, x>> \in R)
  BY <1>1, WFMin, Zenon
<1>4. ASSUME NEW y \in S PROVE x <= y
  <2>1. x \in Nat /\ y \in Nat
    OBVIOUS
  <2>2. ~ (y < x)
    BY <2>1, <1>2, <1>3, Zenon
  <2> QED
    BY <2>1, <2>2
<1> QED
  BY <1>4 DEF Min

\* A bounded nonempty set of numbers has a maximum.
LEMMA MaxNat ==
  ASSUME NEW n \in Nat, NEW S \in SUBSET (0 .. n), S # {}
  PROVE  Max(S) \in S /\ \A y \in S : y <= Max(S)
<1> DEFINE D == {n - x : x \in S}
<1>1. D \in SUBSET Nat /\ D # {}
  <2>1. \A x \in S : n - x \in Nat
    OBVIOUS
  <2>2. D \in SUBSET Nat
    BY <2>1, Zenon
  <2> QED
    BY <2>2
<1>2. PICK d \in D : \A y \in D : d <= y
  BY <1>1, MinNat
<1>3. PICK x \in S : d = n - x
  BY <1>2
<1>4. ASSUME NEW y \in S PROVE x >= y
  <2>1. n - x <= n - y
    BY <1>2, <1>3
  <2> QED
    BY <2>1
<1> QED
  BY <1>4 DEF Max

LEMMA MaxOfTwo ==
  ASSUME NEW a \in Nat, NEW b \in Nat
  PROVE  Max({a, b}) = IF a >= b THEN a ELSE b
<1>1. a + b \in Nat /\ {a, b} \in SUBSET (0 .. a + b) /\ {a, b} # {}
  OBVIOUS
<1>2. Max({a, b}) \in {a, b} /\ \A y \in {a, b} : y <= Max({a, b})
  BY <1>1, MaxNat
<1> QED
  BY <1>2

LEMMA MinOfTwo ==
  ASSUME NEW a \in Nat, NEW b \in Nat
  PROVE  Min({a, b}) = IF a <= b THEN a ELSE b
<1>1. Min({a, b}) \in {a, b} /\ \A y \in {a, b} : Min({a, b}) <= y
  BY MinNat
<1> QED
  BY <1>1

\* A product with a positive number keeps the order.
LEMMA Times ==
  ASSUME NEW a \in Nat, NEW b \in Nat, NEW g \in Nat, a <= b
  PROVE  a * g <= b * g
<1>1. PICK d \in Nat : b = a + d
  <2>1. b - a \in Nat /\ b = a + (b - a)
    OBVIOUS
  <2> QED
    BY <2>1
<1>2. b * g = a * g + d * g /\ a * g \in Nat /\ d * g \in Nat
  BY <1>1
<1> QED
  BY <1>2

\* What is left of a length in a narrower integer.
LEMMA Truncated ==
  ASSUME NEW a \in Nat, NEW g \in Nat \ {0}
  PROVE  a % g \in Nat /\ a % g <= a
<1>1. a % g \in 0 .. g - 1
  OBVIOUS
<1>2. CASE a < g
  <2>1. a % g = a
    BY <1>2
  <2> QED
    BY <2>1
<1>3. CASE g <= a
  BY <1>1, <1>3
<1> QED
  BY <1>2, <1>3

\* The pages that begin below a heap address are those below its rounding up.
LEMMA Rounding ==
  ASSUME NEW a \in Nat, NEW k \in Nat
  PROVE  Up(a) \in Nat /\ (k * PG < a <=> k < Up(a))
<1> DEFINE q == (a + PG - 1) \div PG
<1>1. PG \in Nat /\ PG > 0
  BY LayoutAssumption
<1>2. q \in Nat /\ q * PG <= a + PG - 1 /\ a + PG - 1 < q * PG + PG
  <2> DEFINE n == a + PG - 1
  <2>1. n \in Nat
    BY <1>1
  <2> HIDE DEF n
  <2>2. n \div PG \in Nat /\ (n \div PG) * PG <= n /\ n < (n \div PG) * PG + PG
    BY <1>1, <2>1
  <2> QED
    BY <2>2 DEF n
<1>3. Up(a) = q
  BY DEF Up
<1> HIDE DEF q
<1>4. CASE k < q
  <2>1. (k + 1) * PG <= q * PG
    BY <1>1, <1>2, <1>4, Times
  <2>2. (k + 1) * PG = k * PG + PG /\ k * PG \in Nat /\ q * PG \in Nat
    BY <1>1, <1>2
  <2> HIDE <1>3
  <2>3. k * PG < a
    BY <1>1, <1>2, <2>1, <2>2
  <2> QED
    BY <1>2, <1>3, <1>4, <2>3
<1>5. CASE q <= k
  <2>1. q * PG <= k * PG
    BY <1>1, <1>2, <1>5, Times
  <2>2. k * PG \in Nat /\ q * PG \in Nat
    BY <1>1, <1>2
  <2>3. ~ (k * PG < a)
    BY <1>1, <1>2, <2>1, <2>2
  <2> QED
    BY <1>2, <1>3, <1>5, <2>3
<1> QED
  BY <1>2, <1>4, <1>5

----------------------------------------------------------------------------
(* What the processes hold in all *)

\* The pairs that Count counts.
Held(f) == UNION {{p} \X f[p] : p \in Procs}

LEMMA HeldPairs ==
  ASSUME NEW f
  PROVE  \A z : z \in Held(f) <=> \E p \in Procs : z \in {p} \X f[p]
BY DEF Held

\* One process and the others.
LEMMA HeldSplit ==
  ASSUME NEW U, IsFiniteSet(U), NEW f \in [Procs -> SUBSET U], NEW q \in Procs,
         NEW g, \A p \in Procs \ {q} : g[p] = f[p], g[q] = {}
  PROVE  /\ IsFiniteSet(Held(g)) /\ Cardinality(Held(g)) \in Nat
         /\ IsFiniteSet(f[q]) /\ Cardinality(f[q]) \in Nat
         /\ Count(f) = Cardinality(Held(g)) + Cardinality(f[q])
<1> DEFINE A == {q} \X f[q]
<1>1. IsFiniteSet(f[q]) /\ Cardinality(f[q]) \in Nat
  <2>1. f[q] \in SUBSET U
    OBVIOUS
  <2> QED
    BY <2>1, FS_Subset, FS_CardinalityType
<1>2. IsFiniteSet(A) /\ Cardinality(A) = Cardinality(f[q])
  <2>1. IsFiniteSet({q}) /\ Cardinality({q}) = 1
    BY FS_Singleton
  <2>2. IsFiniteSet(A) /\ Cardinality(A) = 1 * Cardinality(f[q])
    BY <1>1, <2>1, FS_Product
  <2> QED
    BY <1>1, <2>2
<1>3. IsFiniteSet(Held(g)) /\ Cardinality(Held(g)) \in Nat
  <2>1. IsFiniteSet(Procs \X U)
    BY InitAssumption, FS_Product
  <2>2. ASSUME NEW z \in Held(g) PROVE z \in Procs \X U
    <3>1. PICK p \in Procs : z \in {p} \X g[p]
      BY HeldPairs
    <3>2. p # q /\ g[p] = f[p] /\ f[p] \in SUBSET U
      BY <3>1
    <3> QED
      BY <3>1, <3>2
  <2>3. Held(g) \in SUBSET (Procs \X U)
    BY <2>2
  <2> QED
    BY <2>1, <2>3, FS_Subset, FS_CardinalityType
<1>4. Held(f) = Held(g) \union A
  <2>1. ASSUME NEW z \in Held(f) PROVE z \in Held(g) \union A
    <3>1. PICK p \in Procs : z \in {p} \X f[p]
      BY HeldPairs
    <3>2. CASE p = q
      BY <3>1, <3>2
    <3>3. CASE p # q
      <4>1. z \in {p} \X g[p]
        BY <3>1, <3>3
      <4> QED
        BY <4>1, HeldPairs
    <3> QED
      BY <3>2, <3>3
  <2>2. ASSUME NEW z \in Held(g) PROVE z \in Held(f)
    <3>1. PICK p \in Procs : z \in {p} \X g[p]
      BY HeldPairs
    <3>2. p # q
      BY <3>1
    <3>3. z \in {p} \X f[p]
      BY <3>1, <3>2
    <3> QED
      BY <3>3, HeldPairs
  <2>3. A \subseteq Held(f)
    BY HeldPairs
  <2> QED
    BY <2>1, <2>2, <2>3
<1>5. Held(g) \intersect A = {}
  <2>1. ASSUME NEW z \in Held(g), z \in A PROVE FALSE
    <3>1. PICK p \in Procs : z \in {p} \X g[p]
      BY <2>1, HeldPairs
    <3>2. p = q
      BY <3>1, <2>1
    <3> QED
      BY <3>1, <3>2
  <2> QED
    BY <2>1
<1> HIDE DEF A
<1>6. Cardinality(Held(f)) = Cardinality(Held(g)) + Cardinality(A) - Cardinality(Held(g) \intersect A)
  BY <1>2, <1>3, <1>4, FS_Union
<1>7. Cardinality(Held(g) \intersect A) = 0
  BY <1>5, FS_EmptySet
<1>8. Count(f) = Cardinality(Held(f))
  BY DEF Count, Held
<1> QED
  BY <1>1, <1>2, <1>3, <1>6, <1>7, <1>8

\* What a change of one process does to the count.
LEMMA CountUpdate ==
  ASSUME NEW U, IsFiniteSet(U), NEW f \in [Procs -> SUBSET U], NEW g \in [Procs -> SUBSET U],
         NEW q \in Procs, \A p \in Procs \ {q} : g[p] = f[p]
  PROVE  /\ Count(f) \in Nat /\ Count(g) \in Nat
         /\ Cardinality(f[q]) \in Nat /\ Cardinality(g[q]) \in Nat
         /\ Cardinality(g[q]) <= Count(g)
         /\ Count(g) + Cardinality(f[q]) = Count(f) + Cardinality(g[q])
<1> DEFINE h == [f EXCEPT ![q] = {}]
<1>1. h[q] = {} /\ \A p \in Procs \ {q} : h[p] = f[p] /\ h[p] = g[p]
  OBVIOUS
<1> HIDE DEF h
<1>2. /\ Cardinality(Held(h)) \in Nat /\ Cardinality(f[q]) \in Nat
      /\ Count(f) = Cardinality(Held(h)) + Cardinality(f[q])
  BY <1>1, HeldSplit
<1>3. /\ Cardinality(g[q]) \in Nat
      /\ Count(g) = Cardinality(Held(h)) + Cardinality(g[q])
  BY <1>1, HeldSplit
<1> QED
  BY <1>2, <1>3

\* Nobody holds anything.
LEMMA CountNothing ==
  Count([p \in Procs |-> {}]) = 0
<1>1. ASSUME NEW z \in Held([p \in Procs |-> {}]) PROVE FALSE
  <2>1. PICK p \in Procs : z \in {p} \X [o \in Procs |-> {}][p]
    BY <1>1, HeldPairs
  <2> QED
    BY <2>1
<1>2. Held([p \in Procs |-> {}]) = {}
  BY <1>1
<1> QED
  BY <1>2, FS_EmptySet DEF Count, Held

\* A set that leaves out nothing below its members begins at 1.
LEMMA Initial ==
  ASSUME NEW n \in Nat, NEW S \in SUBSET (1 .. n),
         \A i \in S, k \in 1 .. n : k < i => k \in S
  PROVE  Cardinality(S) \in 0 .. n /\ S = 1 .. Cardinality(S)
<1>1. CASE S = {}
  BY <1>1, FS_EmptySet
<1>2. CASE S # {}
  <2>1. S \in SUBSET (0 .. n)
    OBVIOUS
  <2>2. PICK m \in S : \A y \in S : y <= m
    BY <1>2, <2>1, MaxNat
  <2>3. S = 1 .. m
    <3>1. \A k \in 1 .. m : k \in 1 .. n /\ (k < m \/ k = m)
      BY <2>2
    <3>2. \A k \in 1 .. m : k \in S
      BY <2>2, <3>1
    <3>3. \A k \in S : k \in 1 .. m
      BY <2>2
    <3> QED
      BY <3>2, <3>3
  <2>4. Cardinality(1 .. m) = m
    BY <2>2, FS_Interval
  <2> QED
    BY <2>2, <2>3, <2>4
<1> QED
  BY <1>1, <1>2

----------------------------------------------------------------------------
(* Region lists *)

\* The members of a list, and what it covers.
LEMMA ListItems ==
  ASSUME NEW l \in Seq(Regions)
  PROVE  /\ Len(l) \in Nat /\ DOMAIN l = 1 .. Len(l)
         /\ \A i \in 1 .. Len(l) :
              /\ l[i] \in Regions /\ l[i].begin \in Nat /\ l[i].npages \in Nat
              /\ MMAP_BEGIN <= l[i].begin /\ l[i].begin <= End(l[i])
              /\ End(l[i]) = l[i].begin + l[i].npages /\ End(l[i]) \in Nat
<1>1. Len(l) \in Nat /\ DOMAIN l = 1 .. Len(l)
  OBVIOUS
<1>2. ASSUME NEW i \in 1 .. Len(l)
      PROVE  /\ l[i] \in Regions /\ l[i].begin \in Nat /\ l[i].npages \in Nat
             /\ MMAP_BEGIN <= l[i].begin
  <2>1. l[i] \in Regions
    BY ElementOfSeq
  <2>2. l[i].begin \in MMAP_BEGIN .. MMAP_END /\ l[i].npages \in 0 .. MMAP_END - MMAP_BEGIN
    BY <2>1 DEF Regions
  <2> QED
    BY <2>1, <2>2, Layout
<1>3. \A i \in 1 .. Len(l) : End(l[i]) = l[i].begin + l[i].npages
  BY DEF End
<1> QED
  BY <1>1, <1>2, <1>3

LEMMA CoveredItems ==
  ASSUME NEW l \in Seq(Regions)
  PROVE  \A x : x \in Covered(l) <=>
           x \in Nat /\ \E i \in 1 .. Len(l) : l[i].begin <= x /\ x < End(l[i])
<1> USE ListItems
<1>1. \A x : x \in Covered(l) <=> \E i \in 1 .. Len(l) : x \in PagesOf(l[i])
  BY DEF Covered, Range
<1>2. \A i \in 1 .. Len(l) : \A x : x \in PagesOf(l[i]) <=>
        x \in Nat /\ l[i].begin <= x /\ x < End(l[i])
  <2> SUFFICES ASSUME NEW i \in 1 .. Len(l), NEW x
               PROVE  x \in PagesOf(l[i]) <=>
                        x \in Nat /\ l[i].begin <= x /\ x < End(l[i])
    OBVIOUS
  <2>1. l[i].begin \in Nat /\ End(l[i]) \in Nat
    OBVIOUS
  <2> QED
    BY <2>1 DEF PagesOf
<1> QED
  BY <1>1, <1>2

\* The pages of a sorted list lie in the area.
LEMMA CoveredArea ==
  ASSUME NEW l, NEW K, Near(l, K)
  PROVE  \A x \in Covered(l) : x \in Nat /\ MMAP_BEGIN <= x /\ x < MMAP_END
<1>1. l \in Seq(Regions) /\ \A i \in 1 .. Len(l) : End(l[i]) <= MMAP_END
  BY DEF Near
<1> QED
  BY <1>1, CoveredItems, ListItems, Layout

\* Taking out the node at k.
LEMMA Removed ==
  ASSUME NEW l \in Seq(Regions), NEW k \in 1 .. Len(l)
  PROVE  /\ RemoveAt(l, k) \in Seq(Regions) /\ Len(RemoveAt(l, k)) = Len(l) - 1
         /\ \A a \in 1 .. (Len(l) - 1) :
              RemoveAt(l, k)[a] = IF a < k THEN l[a] ELSE l[a + 1]
<1> DEFINE u == SubSeq(l, 1, k - 1)
           v == SubSeq(l, k + 1, Len(l))
           m == RemoveAt(l, k)
<1>0. Len(l) \in Nat
  OBVIOUS
<1>1. /\ u \in Seq(Regions) /\ Len(u) = k - 1
      /\ \A a \in 1 .. (k - 1) : u[a] = l[a]
  OBVIOUS
<1>2. /\ v \in Seq(Regions) /\ Len(v) = Len(l) - k
      /\ \A a \in 1 .. (Len(l) - k) : v[a] = l[k + a]
  OBVIOUS
<1>3. m = u \o v
  BY DEF RemoveAt
<1> HIDE DEF m, u, v
<1>4. /\ m \in Seq(Regions) /\ Len(m) = Len(u) + Len(v)
      /\ \A a \in 1 .. Len(u) + Len(v) : m[a] = IF a <= Len(u) THEN u[a] ELSE v[a - Len(u)]
  BY <1>1, <1>2, <1>3, ConcatProperties, Zenon
<1>5. Len(u) + Len(v) = Len(l) - 1
  BY <1>0, <1>1, <1>2
<1>6. ASSUME NEW a \in 1 .. (Len(l) - 1)
      PROVE  m[a] = IF a < k THEN l[a] ELSE l[a + 1]
  <2>1. m[a] = IF a <= Len(u) THEN u[a] ELSE v[a - Len(u)]
    BY <1>4, <1>5
  <2>2. CASE a < k
    <3>1. a \in 1 .. (k - 1) /\ a <= Len(u)
      BY <2>2, <1>0, <1>1
    <3> QED
      BY <2>1, <2>2, <3>1, <1>1
  <2>3. CASE ~ (a < k)
    <3>1. ~ (a <= Len(u)) /\ a - Len(u) \in 1 .. (Len(l) - k) /\ k + (a - Len(u)) = a + 1
      BY <2>3, <1>0, <1>1
    <3> QED
      BY <2>1, <2>3, <3>1, <1>2
  <2> QED
    BY <2>2, <2>3
<1>7. m \in Seq(Regions) /\ Len(m) = Len(l) - 1
  BY <1>4, <1>5
<1> QED
  BY <1>6, <1>7 DEF m

\* Putting r behind k nodes.
LEMMA Inserted ==
  ASSUME NEW l \in Seq(Regions), NEW k \in 0 .. Len(l), NEW r \in Regions
  PROVE  /\ InsertAt(l, k + 1, r) \in Seq(Regions)
         /\ Len(InsertAt(l, k + 1, r)) = Len(l) + 1
         /\ \A a \in 1 .. (Len(l) + 1) :
              InsertAt(l, k + 1, r)[a] =
                IF a <= k THEN l[a] ELSE IF a = k + 1 THEN r ELSE l[a - 1]
<1> DEFINE u == SubSeq(l, 1, k)
           w == <<r>>
           v == SubSeq(l, k + 1, Len(l))
           m == InsertAt(l, k + 1, r)
<1>0. Len(l) \in Nat
  OBVIOUS
<1>1. /\ u \in Seq(Regions) /\ Len(u) = k
      /\ \A a \in 1 .. k : u[a] = l[a]
  OBVIOUS
<1>2. /\ v \in Seq(Regions) /\ Len(v) = Len(l) - k
      /\ \A a \in 1 .. (Len(l) - k) : v[a] = l[k + a]
  OBVIOUS
<1>3. w \in Seq(Regions) /\ Len(w) = 1 /\ w[1] = r
  OBVIOUS
<1>4. m = (u \o w) \o v
  <2>1. (k + 1) - 1 = k
    BY <1>0
  <2> QED
    BY <2>1 DEF InsertAt
<1> HIDE DEF m, u, v, w
<1> DEFINE x == u \o w
<1>5. /\ x \in Seq(Regions) /\ Len(x) = Len(u) + Len(w)
      /\ \A a \in 1 .. Len(u) + Len(w) : x[a] = IF a <= Len(u) THEN u[a] ELSE w[a - Len(u)]
  BY <1>1, <1>3, ConcatProperties, Zenon
<1> HIDE DEF x
<1>6. /\ m \in Seq(Regions) /\ Len(m) = Len(x) + Len(v)
      /\ \A a \in 1 .. Len(x) + Len(v) : m[a] = IF a <= Len(x) THEN x[a] ELSE v[a - Len(x)]
  <2>1. m = x \o v
    BY <1>4 DEF x
  <2>2. /\ x \o v \in Seq(Regions) /\ Len(x \o v) = Len(x) + Len(v)
        /\ \A a \in 1 .. Len(x) + Len(v) :
             (x \o v)[a] = IF a <= Len(x) THEN x[a] ELSE v[a - Len(x)]
    <3>1. x \in Seq(Regions) /\ v \in Seq(Regions)
      BY <1>2, <1>5
    <3> QED
      BY <3>1, ConcatProperties, Zenon
  <2> QED
    BY <2>1, <2>2, Zenon
<1>7. Len(x) = k + 1 /\ Len(x) + Len(v) = Len(l) + 1
  BY <1>0, <1>1, <1>2, <1>3, <1>5
<1>8. ASSUME NEW a \in 1 .. (Len(l) + 1)
      PROVE  m[a] = IF a <= k THEN l[a] ELSE IF a = k + 1 THEN r ELSE l[a - 1]
  <2>1. m[a] = IF a <= k + 1 THEN x[a] ELSE v[a - (k + 1)]
    BY <1>6, <1>7
  <2>2. CASE a <= k
    <3>1. a \in 1 .. k /\ a <= k + 1 /\ a \in 1 .. Len(u) + Len(w) /\ a <= Len(u)
      BY <2>2, <1>0, <1>1, <1>3
    <3> QED
      BY <2>1, <2>2, <3>1, <1>1, <1>5
  <2>3. CASE a = k + 1
    <3>1. ~ (a <= k) /\ a <= k + 1 /\ a \in 1 .. Len(u) + Len(w) /\ ~ (a <= Len(u))
          /\ a - Len(u) = 1
      BY <2>3, <1>0, <1>1, <1>3
    <3> QED
      BY <2>1, <2>3, <3>1, <1>3, <1>5
  <2>4. CASE a > k + 1
    <3>1. /\ ~ (a <= k) /\ ~ (a = k + 1) /\ ~ (a <= k + 1)
          /\ a - (k + 1) \in 1 .. (Len(l) - k) /\ k + (a - (k + 1)) = a - 1
      BY <2>4, <1>0
    <3> QED
      BY <2>1, <3>1, <1>2
  <2> QED
    BY <2>2, <2>3, <2>4, <1>0
<1>9. m \in Seq(Regions) /\ Len(m) = Len(l) + 1
  BY <1>6, <1>7
<1> QED
  BY <1>8, <1>9 DEF m

\* A region that can be formed from two numbers of the area.
LEMMA MakeRegion ==
  ASSUME NEW b \in Nat, NEW n \in Nat, MMAP_BEGIN <= b, b + n <= MMAP_END
  PROVE  /\ [begin |-> b, npages |-> n] \in Regions
         /\ [begin |-> b, npages |-> n].begin = b
         /\ End([begin |-> b, npages |-> n]) = b + n
<1>1. b \in MMAP_BEGIN .. MMAP_END /\ n \in 0 .. MMAP_END - MMAP_BEGIN
  BY Layout
<1> QED
  BY <1>1 DEF Regions, End

\* The node at k absorbs the next one.
LEMMA MergeItems ==
  ASSUME NEW l \in Seq(Regions), NEW k \in 1 .. Len(l) - 1,
         End(l[k]) = l[k + 1].begin, End(l[k + 1]) <= MMAP_END
  PROVE  /\ MergeAt(l, k) \in Seq(Regions) /\ Len(MergeAt(l, k)) = Len(l) - 1
         /\ \A a \in 1 .. (Len(l) - 1) :
              /\ a < k => MergeAt(l, k)[a] = l[a]
              /\ a > k => MergeAt(l, k)[a] = l[a + 1]
         /\ MergeAt(l, k)[k].begin = l[k].begin
         /\ End(MergeAt(l, k)[k]) = End(l[k + 1])
<1> DEFINE r == [begin |-> l[k].begin, npages |-> l[k].npages + l[k + 1].npages]
           e == [l EXCEPT ![k] = r]
<1>1. /\ Len(l) \in Nat /\ k \in 1 .. Len(l) /\ k + 1 \in 1 .. Len(l) /\ k \in Nat
      /\ k \in 1 .. (Len(l) - 1)
  OBVIOUS
<1>2. /\ l[k] \in Regions /\ l[k].begin \in Nat /\ l[k].npages \in Nat
      /\ MMAP_BEGIN <= l[k].begin /\ End(l[k]) = l[k].begin + l[k].npages
      /\ l[k + 1].npages \in Nat /\ l[k + 1].begin \in Nat /\ End(l[k + 1]) = l[k + 1].begin + l[k + 1].npages
  BY <1>1, ListItems
<1>3. /\ r \in Regions /\ r.begin = l[k].begin /\ End(r) = End(l[k + 1])
  <2>1. /\ l[k].begin + (l[k].npages + l[k + 1].npages) = End(l[k + 1])
        /\ l[k].npages + l[k + 1].npages \in Nat
    <3>1. End(l[k + 1]) = (l[k].begin + l[k].npages) + l[k + 1].npages
      BY <1>2, Zenon
    <3>2. \A a, b, c \in Nat : (a + b) + c = a + (b + c) /\ b + c \in Nat
      OBVIOUS
    <3> QED
      BY <3>1, <3>2, <1>2, Zenon
  <2> QED
    BY <1>2, <2>1, MakeRegion
<1>4. MergeAt(l, k) = RemoveAt(e, k + 1)
  <2>1. [l EXCEPT ![k].npages = @ + l[k + 1].npages] = e
    <3>1. [l[k] EXCEPT !.npages = @ + l[k + 1].npages] = r
      BY <1>2, SMTT(60) DEF Regions
    <3> QED
      BY <3>1, Zenon
  <2> QED
    BY <2>1 DEF MergeAt
<1>5. /\ e \in Seq(Regions) /\ Len(e) = Len(l)
      /\ \A a \in 1 .. Len(l) : e[a] = IF a = k THEN r ELSE l[a]
  BY <1>1, <1>3, ExceptSeq
<1> HIDE DEF e, r
<1> DEFINE m == RemoveAt(e, k + 1)
<1>6. /\ m \in Seq(Regions) /\ Len(m) = Len(l) - 1
      /\ \A a \in 1 .. (Len(l) - 1) : m[a] = IF a < k + 1 THEN e[a] ELSE e[a + 1]
  <2>1. k + 1 \in 1 .. Len(e)
    BY <1>1, <1>5
  <2>2. /\ m \in Seq(Regions) /\ Len(m) = Len(e) - 1
        /\ \A a \in 1 .. (Len(e) - 1) : m[a] = IF a < k + 1 THEN e[a] ELSE e[a + 1]
    BY <1>5, <2>1, Removed, Zenon
  <2> QED
    BY <2>2, <1>5, Zenon
<1> HIDE DEF m
<1>7. ASSUME NEW a \in 1 .. (Len(l) - 1)
      PROVE  /\ a < k => m[a] = l[a]
             /\ a > k => m[a] = l[a + 1]
             /\ a = k => m[a] = r
  <2>1. a \in 1 .. Len(l) /\ a + 1 \in 1 .. Len(l)
    BY <1>1
  <2> QED
    BY <1>1, <1>5, <1>6, <2>1, SMTT(60)
<1> QED
  BY <1>1, <1>3, <1>4, <1>6, <1>7 DEF m

\* A merge settles one place where regions may touch, and covers what it did.
LEMMA Merged ==
  ASSUME NEW l, NEW K, Near(l, K), NEW k \in Nat, \A a \in K : a \in Nat /\ a <= k
  PROVE  /\ Near(MergeAt(l, k), K \ {k})
         /\ Len(MergeAt(l, k)) <= Len(l)
         /\ Covered(MergeAt(l, k)) = Covered(l)
<1> DEFINE m == MergeAt(l, k)
<1>1. l \in Seq(Regions) /\ Len(l) \in Nat
  BY DEF Near
<1>2. CASE k \in 1 .. Len(l) - 1 /\ End(l[k]) = l[k + 1].begin
  <2>1. k + 1 \in 1 .. Len(l) /\ k \in 1 .. Len(l) /\ End(l[k + 1]) <= MMAP_END
    BY <1>1, <1>2 DEF Near
  <2>2. /\ m \in Seq(Regions) /\ Len(m) = Len(l) - 1
        /\ \A a \in 1 .. (Len(l) - 1) : /\ a < k => m[a] = l[a]
                                        /\ a > k => m[a] = l[a + 1]
        /\ m[k].begin = l[k].begin /\ End(m[k]) = End(l[k + 1])
    BY <1>1, <1>2, <2>1, MergeItems
  <2> HIDE DEF m
  <2>3. \A a \in 1 .. (Len(l) - 1) :
          /\ a < k => m[a].begin = l[a].begin /\ End(m[a]) = End(l[a])
          /\ a > k => m[a].begin = l[a + 1].begin /\ End(m[a]) = End(l[a + 1])
          /\ a \in 1 .. Len(l) /\ a + 1 \in 1 .. Len(l)
    <3>1. \A a \in 1 .. (Len(l) - 1) : a \in 1 .. Len(l) /\ a + 1 \in 1 .. Len(l)
      BY <1>1
    <3> QED
      BY <2>2, <3>1
  <2>4. \A i \in 1 .. Len(m) : End(m[i]) <= MMAP_END
    <3> SUFFICES ASSUME NEW i \in 1 .. (Len(l) - 1) PROVE End(m[i]) <= MMAP_END
      BY <2>2
    <3>1. End(l[i]) <= MMAP_END /\ End(l[i + 1]) <= MMAP_END
      BY <2>3 DEF Near
    <3> QED
      BY <1>1, <2>2, <2>3, <3>1
  <2>5. ASSUME NEW i \in 1 .. (Len(l) - 1), NEW j \in 1 .. (Len(l) - 1), i < j
        PROVE  \/ End(m[i]) < m[j].begin
               \/ End(m[i]) = m[j].begin /\ j = i + 1 /\ i \in K \ {k}
    <3> DEFINE x == IF i < k THEN i ELSE i + 1
               y == IF j <= k THEN j ELSE j + 1
    <3>1. x \in 1 .. Len(l) /\ y \in 1 .. Len(l) /\ x < y
      BY <1>1, <2>5
    <3>2. End(m[i]) = End(l[x]) /\ m[j].begin = l[y].begin
      <4>1. k \in 1 .. (Len(l) - 1) /\ m[k].begin = l[k].begin /\ End(m[k]) = End(l[k + 1])
        BY <1>1, <1>2, <2>2
      <4>2. End(m[i]) = End(l[x])
        <5>1. CASE i < k
          BY <5>1, <2>3
        <5>2. CASE i = k
          BY <5>2, <4>1
        <5>3. CASE i > k
          BY <5>3, <2>3
        <5> QED
          BY <5>1, <5>2, <5>3
      <4>3. m[j].begin = l[y].begin
        <5>1. CASE j < k
          BY <5>1, <2>3
        <5>2. CASE j = k
          BY <5>2, <4>1
        <5>3. CASE j > k
          BY <5>3, <2>3
        <5> QED
          BY <5>1, <5>2, <5>3
      <4> QED
        BY <4>2, <4>3
    <3>3. \/ End(l[x]) < l[y].begin
          \/ End(l[x]) = l[y].begin /\ y = x + 1 /\ x \in K
      BY <3>1 DEF Near
    <3>4. CASE End(l[x]) < l[y].begin
      BY <3>2, <3>4
    <3>5. CASE End(l[x]) = l[y].begin /\ y = x + 1 /\ x \in K
      <4>1. x <= k
        BY <3>5
      <4>2. i < k /\ x = i
        BY <4>1
      <4>3. j = i + 1
        BY <4>2, <3>5, <2>5
      <4> QED
        BY <3>2, <3>5, <4>2, <4>3
    <3> QED
      BY <3>3, <3>4, <3>5
  <2>6. Near(m, K \ {k})
    BY <2>2, <2>4, <2>5 DEF Near
  <2>7. /\ l[k].begin \in Nat /\ l[k + 1].begin \in Nat
        /\ l[k].begin <= End(l[k]) /\ l[k + 1].begin <= End(l[k + 1])
        /\ End(l[k]) \in Nat /\ End(l[k + 1]) \in Nat
    BY <1>1, <2>1, ListItems
  <2>8. ASSUME NEW x \in Covered(m) PROVE x \in Covered(l)
    <3>1. x \in Nat
      BY <2>2, <2>8, CoveredItems
    <3>2. PICK i \in 1 .. (Len(l) - 1) : m[i].begin <= x /\ x < End(m[i])
      BY <2>2, <2>8, CoveredItems
    <3>3. \E j \in 1 .. Len(l) : l[j].begin <= x /\ x < End(l[j])
      <4>1. CASE i < k
        BY <3>2, <4>1, <2>3
      <4>2. CASE i > k
        BY <3>2, <4>2, <2>3
      <4>3. CASE i = k
        <5>1. l[k].begin <= x /\ x < End(l[k + 1])
          BY <3>2, <4>3, <2>2
        <5>2. x < End(l[k]) \/ l[k + 1].begin <= x
          BY <3>1, <1>2, <2>7
        <5> QED
          BY <5>1, <5>2, <2>1
      <4> QED
        BY <4>1, <4>2, <4>3
    <3> QED
      BY <3>1, <3>3, <1>1, CoveredItems
  <2>9. ASSUME NEW x \in Covered(l) PROVE x \in Covered(m)
    <3>1. x \in Nat
      BY <1>1, <2>9, CoveredItems
    <3>2. PICK i \in 1 .. Len(l) : l[i].begin <= x /\ x < End(l[i])
      BY <1>1, <2>9, CoveredItems
    <3>3. \E j \in 1 .. (Len(l) - 1) : m[j].begin <= x /\ x < End(m[j])
      <4>1. CASE i < k
        <5>1. i \in 1 .. (Len(l) - 1)
          BY <1>2, <4>1, <1>1
        <5> QED
          BY <3>2, <4>1, <5>1, <2>3
      <4>2. CASE i > k + 1
        <5>1. i - 1 \in 1 .. (Len(l) - 1) /\ i - 1 > k /\ (i - 1) + 1 = i
          BY <4>2, <1>1
        <5> QED
          BY <3>2, <5>1, <2>3
      <4>3. CASE i = k \/ i = k + 1
        <5>1. l[k].begin <= x /\ x < End(l[k + 1])
          BY <3>1, <3>2, <4>3, <1>2, <2>7
        <5> QED
          BY <5>1, <1>2, <2>2
      <4> QED
        BY <4>1, <4>2, <4>3
    <3> QED
      BY <3>1, <3>3, <2>2, CoveredItems
  <2>10. Covered(m) = Covered(l)
    BY <2>8, <2>9
  <2> QED
    BY <1>1, <2>2, <2>6, <2>10 DEF m
<1>3. CASE ~ (k \in 1 .. Len(l) - 1 /\ End(l[k]) = l[k + 1].begin)
  <2>1. m = l
    BY <1>3 DEF MergeAt
  <2>2. ASSUME NEW i \in 1 .. Len(l), NEW j \in 1 .. Len(l), i < j
        PROVE  \/ End(l[i]) < l[j].begin
               \/ End(l[i]) = l[j].begin /\ j = i + 1 /\ i \in K \ {k}
    <3>1. \/ End(l[i]) < l[j].begin
          \/ End(l[i]) = l[j].begin /\ j = i + 1 /\ i \in K
      BY <2>2 DEF Near
    <3>2. j = i + 1 => i \in 1 .. Len(l) - 1
      BY <1>1
    <3> QED
      BY <1>3, <3>1, <3>2
  <2>3. Near(l, K \ {k})
    BY <2>2 DEF Near
  <2> QED
    BY <1>1, <2>1, <2>3
<1> QED
  BY <1>2, <1>3

\* Between i nodes and the others there is room for r.
Fits(l, i, r) ==
  /\ i \in 0 .. Len(l) /\ r \in Regions /\ End(r) <= MMAP_END
  /\ i > 0 => End(l[i]) <= r.begin
  /\ i < Len(l) => End(r) <= l[i + 1].begin

\* A region that fits is inserted, and merged with what it touches.
LEMMA InsertKeeps ==
  ASSUME NEW l, Sorted(l), NEW i, NEW r, Fits(l, i, r)
  PROVE  /\ Sorted(Insert(l, i, r))
         /\ Len(Insert(l, i, r)) <= Len(l) + 1
         /\ Covered(Insert(l, i, r)) = Covered(l) \union PagesOf(r)
<1> DEFINE m == InsertAt(l, i + 1, r)
           n == MergeAt(m, i + 1)
<1>1. l \in Seq(Regions) /\ Len(l) \in Nat /\ i \in 0 .. Len(l) /\ i \in Nat /\ r \in Regions
  BY DEF Sorted, Near, Fits
<1>2. /\ m \in Seq(Regions) /\ Len(m) = Len(l) + 1
      /\ \A a \in 1 .. (Len(l) + 1) :
           m[a] = IF a <= i THEN l[a] ELSE IF a = i + 1 THEN r ELSE l[a - 1]
  BY <1>1, Inserted, ZenonT(60)
<1> HIDE DEF m
<1>3. \A a \in 1 .. Len(m) : /\ a <= i => a \in 1 .. Len(l) /\ m[a] = l[a]
                             /\ a = i + 1 => m[a] = r
                             /\ a > i + 1 => a - 1 \in 1 .. Len(l) /\ m[a] = l[a - 1]
  BY <1>1, <1>2
<1>4. /\ \A a \in 1 .. Len(l) : /\ l[a].begin \in Nat /\ l[a].begin <= End(l[a])
                                /\ End(l[a]) \in Nat /\ End(l[a]) <= MMAP_END
      /\ \A a, b \in 1 .. Len(l) : a < b => End(l[a]) < l[b].begin
  BY <1>1, ListItems DEF Sorted, Near
<1>5. /\ r.begin \in Nat /\ End(r) \in Nat /\ r.begin <= End(r) /\ End(r) <= MMAP_END
      /\ i > 0 => i \in 1 .. Len(l) /\ End(l[i]) <= r.begin
      /\ i < Len(l) => i + 1 \in 1 .. Len(l) /\ End(r) <= l[i + 1].begin
  <2>1. r.begin \in MMAP_BEGIN .. MMAP_END /\ r.npages \in 0 .. MMAP_END - MMAP_BEGIN
    BY <1>1 DEF Regions
  <2>2. r.begin \in Nat /\ End(r) \in Nat /\ r.begin <= End(r)
    BY <2>1, Layout DEF End
  <2> QED
    BY <1>1, <2>2 DEF Fits
<1>6. Near(m, {i, i + 1})
  <2>1. ASSUME NEW a \in 1 .. Len(m) PROVE End(m[a]) <= MMAP_END
    BY <1>1, <1>3, <1>4, <1>5
  <2>2. ASSUME NEW a \in 1 .. Len(m), NEW b \in 1 .. Len(m), a < b
        PROVE  \/ End(m[a]) < m[b].begin
               \/ End(m[a]) = m[b].begin /\ b = a + 1 /\ a \in {i, i + 1}
    <3>1. CASE a <= i /\ b <= i
      BY <3>1, <2>2, <1>3, <1>4
    <3>2. CASE a <= i /\ b > i + 1
      <4>1. a \in 1 .. Len(l) /\ b - 1 \in 1 .. Len(l) /\ a < b - 1
        BY <3>2, <1>1, <1>3
      <4> QED
        BY <3>2, <4>1, <1>3, <1>4
    <3>3. CASE a > i + 1
      <4>1. b > i + 1 /\ a - 1 \in 1 .. Len(l) /\ b - 1 \in 1 .. Len(l) /\ a - 1 < b - 1
        BY <3>3, <2>2, <1>1, <1>3
      <4> QED
        BY <3>3, <4>1, <1>3, <1>4
    <3>4. CASE a <= i /\ b = i + 1
      <4>1. m[a] = l[a] /\ m[b] = r /\ a \in 1 .. Len(l) /\ i \in 1 .. Len(l) /\ End(l[i]) <= r.begin
        BY <3>4, <1>1, <1>3, <1>5
      <4>2. CASE a = i
        BY <4>1, <4>2, <3>4, <1>1, <1>4, <1>5
      <4>3. CASE a < i
        <5>1. End(l[a]) < l[i].begin /\ l[i].begin <= End(l[i])
          BY <4>1, <4>3, <1>4
        <5> QED
          BY <4>1, <5>1, <1>4, <1>5
      <4> QED
        BY <4>2, <4>3, <3>4, <1>1
    <3>5. CASE a = i + 1
      <4>1. /\ m[a] = r /\ m[b] = l[b - 1] /\ b - 1 \in 1 .. Len(l) /\ i < Len(l)
            /\ i + 1 \in 1 .. Len(l) /\ End(r) <= l[i + 1].begin
        BY <3>5, <2>2, <1>1, <1>3, <1>5
      <4>2. CASE b = i + 2
        BY <4>1, <4>2, <3>5, <1>1, <1>4, <1>5
      <4>3. CASE b > i + 2
        <5>1. i + 1 < b - 1
          BY <4>3, <1>1
        <5>2. End(l[i + 1]) < l[b - 1].begin /\ l[i + 1].begin <= End(l[i + 1])
          BY <4>1, <5>1, <1>4
        <5>3. End(m[a]) = End(r) /\ m[b].begin = l[b - 1].begin
          BY <4>1
        <5>4. \A u, v, w, z \in Nat : u <= v /\ v <= w /\ w < z => u < z
          OBVIOUS
        <5>5. End(r) < l[b - 1].begin
          BY <4>1, <5>2, <5>4, <1>4, <1>5, Zenon
        <5> QED
          BY <5>3, <5>5
      <4> QED
        BY <4>2, <4>3, <3>5, <2>2, <1>1
    <3> QED
      BY <3>1, <3>2, <3>3, <3>4, <3>5, <2>2, <1>1
  <2> QED
    BY <1>2, <2>1, <2>2 DEF Near
<1>7. Covered(m) = Covered(l) \union PagesOf(r)
  <2>1. ASSUME NEW x \in Covered(m) PROVE x \in Covered(l) \union PagesOf(r)
    <3>1. x \in Nat
      BY <1>2, <2>1, CoveredItems
    <3>2. PICK a \in 1 .. Len(m) : m[a].begin <= x /\ x < End(m[a])
      BY <1>2, <2>1, CoveredItems
    <3>3. CASE a = i + 1
      BY <3>1, <3>2, <3>3, <1>3, <1>5 DEF PagesOf
    <3>4. CASE a # i + 1
      <4>1. \E b \in 1 .. Len(l) : l[b].begin <= x /\ x < End(l[b])
        BY <3>2, <3>4, <1>1, <1>3
      <4> QED
        BY <3>1, <4>1, <1>1, CoveredItems
    <3> QED
      BY <3>3, <3>4
  <2>2. ASSUME NEW x \in Covered(l) PROVE x \in Covered(m)
    <3>1. x \in Nat
      BY <1>1, <2>2, CoveredItems
    <3>2. PICK a \in 1 .. Len(l) : l[a].begin <= x /\ x < End(l[a])
      BY <1>1, <2>2, CoveredItems
    <3>3. \E b \in 1 .. Len(m) : m[b] = l[a]
      <4>1. CASE a <= i
        <5>1. a \in 1 .. Len(m)
          BY <1>1, <1>2
        <5> QED
          BY <4>1, <5>1, <1>3
      <4>2. CASE a > i
        <5>1. a + 1 \in 1 .. Len(m) /\ a + 1 > i + 1 /\ (a + 1) - 1 = a
          BY <4>2, <1>1, <1>2
        <5> QED
          BY <5>1, <1>3
      <4> QED
        BY <4>1, <4>2, <1>1
    <3> QED
      BY <3>1, <3>2, <3>3, <1>2, CoveredItems
  <2>3. ASSUME NEW x \in PagesOf(r) PROVE x \in Covered(m)
    <3>1. x \in Nat /\ r.begin <= x /\ x < End(r)
      BY <2>3, <1>5 DEF PagesOf
    <3>2. i + 1 \in 1 .. Len(m) /\ m[i + 1] = r
      BY <1>1, <1>2, <1>3
    <3> QED
      BY <3>1, <3>2, <1>2, CoveredItems
  <2> QED
    BY <2>1, <2>2, <2>3
<1>8. /\ Near(n, {i, i + 1} \ {i + 1}) /\ Len(n) <= Len(m) /\ Covered(n) = Covered(m)
  <2> DEFINE K == {i, i + 1}
             k == i + 1
  <2>1. k \in Nat /\ \A a \in K : a \in Nat /\ a <= k
    BY <1>1
  <2>2. Near(m, K)
    BY <1>6
  <2> HIDE DEF K, k
  <2>3. /\ Near(MergeAt(m, k), K \ {k}) /\ Len(MergeAt(m, k)) <= Len(m)
        /\ Covered(MergeAt(m, k)) = Covered(m)
    BY <2>1, <2>2, Merged
  <2> QED
    BY <2>3 DEF K, k
<1>9. {i, i + 1} \ {i + 1} = {i}
  BY <1>1
<1> HIDE DEF n
<1>10. /\ Near(MergeAt(n, i), {i} \ {i}) /\ Len(MergeAt(n, i)) <= Len(n)
       /\ Covered(MergeAt(n, i)) = Covered(n)
  <2>1. \A a \in {i} : a \in Nat /\ a <= i
    BY <1>1
  <2> QED
    BY <2>1, <1>1, <1>8, <1>9, Merged
<1>11. Insert(l, i, r) = MergeAt(n, i)
  BY DEF Insert, n, m
<1>12. {i} \ {i} = {}
  OBVIOUS
<1>13. Len(MergeAt(n, i)) \in Nat /\ Len(n) \in Nat
  BY <1>8, <1>10 DEF Near
<1>14. Len(MergeAt(n, i)) <= Len(l) + 1
  BY <1>1, <1>2, <1>8, <1>10, <1>13
<1>15. Covered(MergeAt(n, i)) = Covered(l) \union PagesOf(r)
  BY <1>7, <1>8, <1>10, Zenon
<1> QED
  BY <1>10, <1>11, <1>12, <1>14, <1>15, Zenon DEF Sorted

\* The pages of a region that fits are covered by no other.
LEMMA FitsApart ==
  ASSUME NEW l, Sorted(l), NEW i, NEW r, Fits(l, i, r), NEW x \in PagesOf(r)
  PROVE  x \notin Covered(l) /\ x \in Nat /\ r.begin <= x /\ x < End(r)
<1>1. l \in Seq(Regions) /\ Len(l) \in Nat /\ i \in 0 .. Len(l) /\ r \in Regions
  BY DEF Sorted, Near, Fits
<1>2. x \in Nat /\ r.begin <= x /\ x < End(r) /\ r.begin \in Nat /\ End(r) \in Nat
  <2>1. r.begin \in MMAP_BEGIN .. MMAP_END /\ r.npages \in 0 .. MMAP_END - MMAP_BEGIN
    BY <1>1 DEF Regions
  <2> QED
    BY <2>1, Layout DEF End, PagesOf
<1>3. ASSUME NEW a \in 1 .. Len(l), l[a].begin <= x, x < End(l[a])
      PROVE  FALSE
  <2>1. \A b \in 1 .. Len(l) : l[b].begin \in Nat /\ End(l[b]) \in Nat /\ l[b].begin <= End(l[b])
    BY <1>1, ListItems
  <2>2. \A b, c \in 1 .. Len(l) : b < c => End(l[b]) < l[c].begin
    BY DEF Sorted, Near
  <2>3. CASE a <= i
    <3>1. i \in 1 .. Len(l) /\ End(l[i]) <= r.begin
      BY <1>1, <2>3 DEF Fits
    <3>2. End(l[a]) <= End(l[i])
      BY <2>1, <2>2, <2>3, <3>1
    <3> QED
      BY <1>2, <1>3, <2>1, <3>1, <3>2
  <2>4. CASE a > i
    <3>1. i + 1 \in 1 .. Len(l) /\ End(r) <= l[i + 1].begin
      BY <1>1, <2>4 DEF Fits
    <3>2. l[i + 1].begin <= l[a].begin
      BY <1>1, <2>1, <2>2, <2>4, <3>1
    <3> QED
      BY <1>2, <1>3, <2>1, <3>1, <3>2
  <2> QED
    BY <1>1, <2>3, <2>4
<1> QED
  BY <1>1, <1>2, <1>3, CoveredItems

\* find_free_region finds a gap that is large enough.
LEMMA FreeFits ==
  ASSUME NEW l, Sorted(l), NEW n \in Nat, FindFree(l, n) <= Len(l)
  PROVE  Fits(l, FindFree(l, n),
              [begin |-> Candidate(l, FindFree(l, n)), npages |-> n])
<1> DEFINE gap(i) == Candidate(l, i) + n <= IF i < Len(l) THEN l[i + 1].begin ELSE MMAP_END
           G == {i \in 0 .. Len(l) : gap(i)}
           i == FindFree(l, n)
           b == Candidate(l, i)
<1>1. l \in Seq(Regions) /\ Len(l) \in Nat
  BY DEF Sorted, Near
<1>2. i \in {Len(l) + 1} \union G
  <2>1. {Len(l) + 1} \union G \in SUBSET Nat /\ {Len(l) + 1} \union G # {}
    BY <1>1
  <2>2. i = Min({Len(l) + 1} \union G)
    BY DEF FindFree
  <2> HIDE DEF G, i
  <2> QED
    BY <2>1, <2>2, MinNat
<1>3. i \in 0 .. Len(l) /\ gap(i)
  <2>1. i # Len(l) + 1
    BY <1>1
  <2>2. i \in G
    BY <1>2, <2>1
  <2> QED
    BY <2>2
<1> HIDE DEF i
<1>4. /\ i > 0 => i \in 1 .. Len(l) /\ b = End(l[i])
      /\ i < Len(l) => i + 1 \in 1 .. Len(l)
      /\ i = 0 => b = MMAP_BEGIN
  BY <1>1, <1>3 DEF Candidate
<1> HIDE DEF b
<1>5. b \in Nat /\ MMAP_BEGIN <= b
  <2>1. CASE i = 0
    BY <2>1, <1>4, Layout
  <2>2. CASE i > 0
    <3>1. /\ b = End(l[i]) /\ End(l[i]) \in Nat /\ l[i].begin \in Nat
          /\ MMAP_BEGIN <= l[i].begin /\ l[i].begin <= End(l[i])
      BY <2>2, <1>1, <1>4, ListItems
    <3> QED
      BY <3>1, Layout
  <2> QED
    BY <1>1, <1>3, <2>1, <2>2
<1>6. /\ i < Len(l) => b + n <= l[i + 1].begin
      /\ b + n <= MMAP_END
  <2>1. CASE i < Len(l)
    <3> DEFINE u == l[i + 1].begin
               e == End(l[i + 1])
    <3>1. b + n <= u
      BY <1>3, <2>1 DEF b
    <3>2. u \in Nat /\ e \in Nat /\ u <= e /\ e <= MMAP_END
      BY <2>1, <1>1, <1>4, ListItems DEF Sorted, Near
    <3>3. b + n <= MMAP_END
      <4> HIDE DEF u, e
      <4> QED
        BY <3>1, <3>2, <1>5, Layout
    <3> QED
      BY <2>1, <3>1, <3>3
  <2>2. CASE ~ (i < Len(l))
    BY <1>3, <2>2 DEF b
  <2> QED
    BY <2>1, <2>2
<1>7. /\ [begin |-> b, npages |-> n] \in Regions /\ [begin |-> b, npages |-> n].begin = b
      /\ End([begin |-> b, npages |-> n]) = b + n
  BY <1>5, <1>6, MakeRegion
<1>8. i > 0 => End(l[i]) <= b
  BY <1>1, <1>4, <1>5
<1>9. Fits(l, i, [begin |-> b, npages |-> n])
  BY <1>3, <1>6, <1>7, <1>8 DEF Fits
<1> QED
  BY <1>9 DEF i, b

\* Before counts the nodes that begin below an address.
LEMMA BeforeSplits ==
  ASSUME NEW l, Sorted(l), NEW start \in Nat
  PROVE  /\ Before(l, start) \in 0 .. Len(l)
         /\ \A i \in 1 .. Len(l) : l[i].begin < start <=> i <= Before(l, start)
<1> DEFINE S == {i \in 1 .. Len(l) : l[i].begin < start}
<1>1. l \in Seq(Regions) /\ Len(l) \in Nat /\ DOMAIN l = 1 .. Len(l)
  BY DEF Sorted, Near
<1>2. /\ \A i \in 1 .. Len(l) : l[i].begin \in Nat /\ End(l[i]) \in Nat /\ l[i].begin <= End(l[i])
      /\ \A i, k \in 1 .. Len(l) : k < i => End(l[k]) < l[i].begin
  BY <1>1, ListItems DEF Sorted, Near
<1>3. S \in SUBSET (1 .. Len(l)) /\ \A i \in S, k \in 1 .. Len(l) : k < i => k \in S
  BY <1>2
<1>4. Before(l, start) = Cardinality(S)
  BY <1>1 DEF Before
<1>5. \A i \in 1 .. Len(l) : l[i].begin < start <=> i \in S
  OBVIOUS
<1> HIDE DEF S
<1>6. Cardinality(S) \in 0 .. Len(l) /\ S = 1 .. Cardinality(S)
  BY <1>1, <1>3, Initial
<1> QED
  BY <1>1, <1>4, <1>5, <1>6

\* A place that overlaps no region is found behind those before it.
LEMMA PlaceFits ==
  ASSUME NEW l, Sorted(l), NEW start \in Nat, NEW n \in Nat,
         MMAP_BEGIN <= start, start + n <= MMAP_END, ~ Overlaps(l, start, n)
  PROVE  Fits(l, Before(l, start), [begin |-> start, npages |-> n])
<1> DEFINE i == Before(l, start)
           r == [begin |-> start, npages |-> n]
<1>1. r \in Regions /\ r.begin = start /\ End(r) = start + n
  BY MakeRegion
<1>2. i \in 0 .. Len(l)
  BY BeforeSplits
<1>3. ~ (i > 0 /\ End(l[i]) > start) /\ ~ (i < Len(l) /\ start + n > l[i + 1].begin)
  BY DEF Overlaps
<1> HIDE DEF i, r
<1>4. l \in Seq(Regions) /\ Len(l) \in Nat
  BY DEF Sorted, Near
<1>5. i > 0 => End(l[i]) <= start
  <2>1. ASSUME i > 0 PROVE End(l[i]) <= start
    <3>1. i \in 1 .. Len(l)
      BY <1>2, <1>4, <2>1
    <3>2. End(l[i]) \in Nat
      BY <1>4, <3>1, ListItems
    <3> QED
      BY <1>3, <2>1, <3>2
  <2> QED
    BY <2>1
<1>6. i < Len(l) => start + n <= l[i + 1].begin
  <2>1. ASSUME i < Len(l) PROVE start + n <= l[i + 1].begin
    <3>1. i + 1 \in 1 .. Len(l)
      BY <1>2, <1>4, <2>1
    <3>2. l[i + 1].begin \in Nat
      BY <1>4, <3>1, ListItems
    <3> QED
      BY <1>3, <2>1, <3>2
  <2> QED
    BY <2>1
<1>7. Fits(l, i, r)
  BY <1>1, <1>2, <1>5, <1>6 DEF Fits
<1> QED
  BY <1>7 DEF i, r

----------------------------------------------------------------------------
(* Cutting a range out of a list *)

\* A sorted list between two addresses.
Within(l, lo, hi) ==
  Sorted(l) /\ \A a \in 1 .. Len(l) : lo <= l[a].begin /\ End(l[a]) <= hi

\* Two lists, one behind the other.
LEMMA Joined ==
  ASSUME NEW s, NEW t, NEW lo \in Nat, NEW hi \in Nat, Within(s, lo, hi), Within(t, lo, hi),
         \A a \in 1 .. Len(s), b \in 1 .. Len(t) : End(s[a]) < t[b].begin
  PROVE  /\ Within(s \o t, lo, hi) /\ Len(s \o t) = Len(s) + Len(t)
         /\ Covered(s \o t) = Covered(s) \union Covered(t)
         /\ \A c \in 1 .. Len(s \o t) : \/ \E a \in 1 .. Len(s) : (s \o t)[c] = s[a]
                                        \/ \E b \in 1 .. Len(t) : (s \o t)[c] = t[b]
<1> DEFINE m == s \o t
<1>1. s \in Seq(Regions) /\ t \in Seq(Regions) /\ Len(s) \in Nat /\ Len(t) \in Nat
  BY DEF Within, Sorted, Near
<1>2. /\ m \in Seq(Regions) /\ Len(m) = Len(s) + Len(t)
      /\ \A c \in 1 .. Len(s) + Len(t) : m[c] = IF c <= Len(s) THEN s[c] ELSE t[c - Len(s)]
  BY <1>1, ConcatProperties, Zenon
<1> HIDE DEF m
<1>3. \A c \in 1 .. Len(m) :
        /\ c <= Len(s) => c \in 1 .. Len(s) /\ m[c] = s[c]
        /\ c > Len(s) => c - Len(s) \in 1 .. Len(t) /\ m[c] = t[c - Len(s)]
  BY <1>1, <1>2
<1>4. /\ \A a \in 1 .. Len(s) : lo <= s[a].begin /\ End(s[a]) <= hi /\ End(s[a]) <= MMAP_END
      /\ \A b \in 1 .. Len(t) : lo <= t[b].begin /\ End(t[b]) <= hi /\ End(t[b]) <= MMAP_END
      /\ \A a, b \in 1 .. Len(s) : a < b => End(s[a]) < s[b].begin
      /\ \A a, b \in 1 .. Len(t) : a < b => End(t[a]) < t[b].begin
  BY DEF Within, Sorted, Near
<1>5. ASSUME NEW c \in 1 .. Len(m)
      PROVE  lo <= m[c].begin /\ End(m[c]) <= hi /\ End(m[c]) <= MMAP_END
  BY <1>1, <1>3, <1>4, SMTT(60)
<1>6. ASSUME NEW c \in 1 .. Len(m), NEW d \in 1 .. Len(m), c < d
      PROVE  End(m[c]) < m[d].begin
  <2>1. CASE d <= Len(s)
    BY <2>1, <1>1, <1>3, <1>4, <1>6
  <2>2. CASE c > Len(s)
    <3>1. c - Len(s) < d - Len(s) /\ d > Len(s)
      BY <2>2, <1>1, <1>6
    <3> QED
      BY <2>2, <3>1, <1>3, <1>4
  <2>3. CASE c <= Len(s) /\ d > Len(s)
    BY <2>3, <1>3
  <2> QED
    BY <2>1, <2>2, <2>3, <1>1
<1>7. Within(m, lo, hi)
  BY <1>2, <1>5, <1>6 DEF Within, Sorted, Near
<1>8. \A c \in 1 .. Len(m) : \/ \E a \in 1 .. Len(s) : m[c] = s[a]
                             \/ \E b \in 1 .. Len(t) : m[c] = t[b]
  <2> SUFFICES ASSUME NEW c \in 1 .. Len(m)
               PROVE  \/ \E a \in 1 .. Len(s) : m[c] = s[a]
                      \/ \E b \in 1 .. Len(t) : m[c] = t[b]
    OBVIOUS
  <2>1. CASE c <= Len(s)
    BY <2>1, <1>3
  <2>2. CASE c > Len(s)
    BY <2>2, <1>3
  <2> QED
    BY <2>1, <2>2, <1>1
<1>9. /\ \A a \in 1 .. Len(s) : \E c \in 1 .. Len(m) : m[c] = s[a]
      /\ \A b \in 1 .. Len(t) : \E c \in 1 .. Len(m) : m[c] = t[b]
  <2>1. ASSUME NEW a \in 1 .. Len(s) PROVE \E c \in 1 .. Len(m) : m[c] = s[a]
    <3>1. a \in 1 .. Len(m) /\ a <= Len(s)
      BY <1>1, <1>2
    <3> QED
      BY <3>1, <1>3
  <2>2. ASSUME NEW b \in 1 .. Len(t) PROVE \E c \in 1 .. Len(m) : m[c] = t[b]
    <3>1. Len(s) + b \in 1 .. Len(m) /\ Len(s) + b > Len(s) /\ (Len(s) + b) - Len(s) = b
      BY <1>1, <1>2
    <3> QED
      BY <3>1, <1>3
  <2> QED
    BY <2>1, <2>2
<1>10. \A x : x \in Covered(m) <=> x \in Covered(s) \union Covered(t)
  <2>1. ASSUME NEW x \in Covered(m) PROVE x \in Covered(s) \union Covered(t)
    <3>1. PICK c \in 1 .. Len(m) : x \in Nat /\ m[c].begin <= x /\ x < End(m[c])
      BY <1>2, <2>1, CoveredItems
    <3>2. CASE \E a \in 1 .. Len(s) : m[c] = s[a]
      BY <3>1, <3>2, <1>1, CoveredItems
    <3>3. CASE \E b \in 1 .. Len(t) : m[c] = t[b]
      BY <3>1, <3>3, <1>1, CoveredItems
    <3> QED
      BY <3>2, <3>3, <1>8
  <2>2. ASSUME NEW x \in Covered(s) PROVE x \in Covered(m)
    <3>1. PICK a \in 1 .. Len(s) : x \in Nat /\ s[a].begin <= x /\ x < End(s[a])
      BY <1>1, <2>2, CoveredItems
    <3>2. PICK c \in 1 .. Len(m) : m[c] = s[a]
      BY <1>9
    <3> QED
      BY <3>1, <3>2, <1>2, CoveredItems
  <2>3. ASSUME NEW x \in Covered(t) PROVE x \in Covered(m)
    <3>1. PICK a \in 1 .. Len(t) : x \in Nat /\ t[a].begin <= x /\ x < End(t[a])
      BY <1>1, <2>3, CoveredItems
    <3>2. PICK c \in 1 .. Len(m) : m[c] = t[a]
      BY <1>9
    <3> QED
      BY <3>1, <3>2, <1>2, CoveredItems
  <2> QED
    BY <2>1, <2>2, <2>3
<1>11. Covered(m) = Covered(s) \union Covered(t)
  BY <1>10
<1> QED
  BY <1>2, <1>7, <1>8, <1>11 DEF m

\* A stretch of a sorted list.
LEMMA Stretch ==
  ASSUME NEW l, Sorted(l), NEW a \in 1 .. (Len(l) + 1), NEW b \in 0 .. Len(l), a <= b + 1
  PROVE  /\ Sorted(SubSeq(l, a, b)) /\ Len(SubSeq(l, a, b)) = b - a + 1
         /\ \A c \in 1 .. (b - a + 1) : a + c - 1 \in a .. b /\ SubSeq(l, a, b)[c] = l[a + c - 1]
         /\ \A x : x \in Covered(SubSeq(l, a, b)) <=>
              x \in Nat /\ \E k \in a .. b : l[k].begin <= x /\ x < End(l[k])
<1> DEFINE u == SubSeq(l, a, b)
<1>1. l \in Seq(Regions) /\ Len(l) \in Nat /\ a \in Nat /\ b \in Nat
  BY DEF Sorted, Near
<1>2. /\ u \in Seq(Regions) /\ Len(u) = b - a + 1
      /\ \A c \in 1 .. (b - a + 1) : a + c - 1 \in a .. b /\ u[c] = l[a + c - 1]
  <2>1. \A c \in a .. b : l[c] \in Regions
    BY <1>1, ElementOfSeq
  <2>2. /\ u \in Seq(Regions) /\ Len(u) = IF a <= b THEN b - a + 1 ELSE 0
        /\ \A c \in 1 .. b - a + 1 : u[c] = l[a + c - 1]
    BY <1>1, <2>1, SubSeqProperties
  <2>3. Len(u) = b - a + 1
    BY <1>1, <2>2
  <2>4. \A c \in 1 .. (b - a + 1) : a + c - 1 \in a .. b
    BY <1>1
  <2> QED
    BY <2>2, <2>3, <2>4
<1> HIDE DEF u
<1>3. /\ \A k \in 1 .. Len(l) : End(l[k]) <= MMAP_END
      /\ \A j, k \in 1 .. Len(l) : j < k => End(l[j]) < l[k].begin
  BY DEF Sorted, Near
<1>4. \A c \in 1 .. Len(u) : a + c - 1 \in 1 .. Len(l) /\ u[c] = l[a + c - 1]
  BY <1>1, <1>2
<1>5. ASSUME NEW c \in 1 .. Len(u), NEW d \in 1 .. Len(u), c < d
      PROVE  End(u[c]) < u[d].begin
  <2>1. a + c - 1 < a + d - 1
    BY <1>1, <1>5
  <2> QED
    BY <2>1, <1>3, <1>4
<1>6. Sorted(u)
  BY <1>2, <1>3, <1>4, <1>5 DEF Sorted, Near
<1>7. ASSUME NEW x
      PROVE  x \in Covered(u) <=>
               x \in Nat /\ \E k \in a .. b : l[k].begin <= x /\ x < End(l[k])
  <2>1. ASSUME x \in Covered(u)
        PROVE  x \in Nat /\ \E k \in a .. b : l[k].begin <= x /\ x < End(l[k])
    <3>1. PICK c \in 1 .. Len(u) : x \in Nat /\ u[c].begin <= x /\ x < End(u[c])
      BY <2>1, <1>2, CoveredItems
    <3> QED
      BY <3>1, <1>2
  <2>2. ASSUME NEW k \in a .. b, x \in Nat, l[k].begin <= x, x < End(l[k])
        PROVE  x \in Covered(u)
    <3>1. k - a + 1 \in 1 .. Len(u) /\ a + (k - a + 1) - 1 = k
      BY <1>1, <1>2
    <3>2. u[k - a + 1] = l[k]
      BY <3>1, <1>4
    <3> QED
      BY <3>1, <3>2, <2>2, <1>2, CoveredItems
  <2> QED
    BY <2>1, <2>2
<1> QED
  BY <1>2, <1>6, <1>7 DEF u

\* A list of at most one region.
LEMMA AtMostOne ==
  ASSUME NEW r \in Regions, NEW lo \in Nat, NEW hi \in Nat,
         lo <= r.begin, End(r) <= hi, hi <= MMAP_END
  PROVE  /\ Within(<<r>>, lo, hi) /\ Len(<<r>>) = 1 /\ <<r>>[1] = r
         /\ \A x : x \in Covered(<<r>>) <=> x \in Nat /\ r.begin <= x /\ x < End(r)
<1> DEFINE s == <<r>>
<1>1. s \in Seq(Regions) /\ Len(s) = 1 /\ s[1] = r
  OBVIOUS
<1> HIDE DEF s
<1>2. \A a \in 1 .. Len(s) : a = 1
  BY <1>1
<1>3. End(r) <= MMAP_END
  <2>1. r.begin \in MMAP_BEGIN .. MMAP_END /\ r.npages \in 0 .. MMAP_END - MMAP_BEGIN
    BY DEF Regions
  <2>2. End(r) \in Nat
    BY <2>1, Layout DEF End
  <2> QED
    BY <2>2, Layout
<1>4. \A i, j \in 1 .. Len(s) : ~ (i < j)
  BY <1>1
<1>5. Within(s, lo, hi)
  BY <1>1, <1>2, <1>3, <1>4 DEF Within, Sorted, Near
<1>6. \A x : x \in Covered(s) <=> x \in Nat /\ r.begin <= x /\ x < End(r)
  <2>1. 1 \in 1 .. Len(s)
    BY <1>1
  <2> QED
    BY <1>1, <1>2, <2>1, CoveredItems
<1> QED
  BY <1>1, <1>5, <1>6 DEF s

LEMMA NoRegion ==
  /\ Sorted(<<>>) /\ Len(<<>>) = 0 /\ Covered(<<>>) = {}
  /\ \A lo, hi : Within(<<>>, lo, hi)
<1>1. <<>> \in Seq(Regions) /\ Len(<<>>) = 0
  OBVIOUS
<1>2. \A a \in 1 .. Len(<<>>) : FALSE
  OBVIOUS
<1>3. Sorted(<<>>)
  BY <1>1, <1>2 DEF Sorted, Near
<1>4. Covered(<<>>) = {}
  BY <1>1, <1>2, CoveredItems
<1> QED
  BY <1>1, <1>2, <1>3, <1>4 DEF Within

\* What is left of the first region that meets the range, and of the last.
LEMMA LeftOver ==
  ASSUME NEW r \in Regions, End(r) <= MMAP_END, NEW start \in Nat, start < End(r)
  PROVE  /\ Within(LeftPart(r, start), r.begin, start) /\ Len(LeftPart(r, start)) \in 0 .. 1
         /\ \A x : x \in Covered(LeftPart(r, start)) <=> x \in Nat /\ r.begin <= x /\ x < start
<1>1. /\ r.begin \in Nat /\ MMAP_BEGIN <= r.begin /\ End(r) \in Nat
  <2>1. r.begin \in MMAP_BEGIN .. MMAP_END /\ r.npages \in 0 .. MMAP_END - MMAP_BEGIN
    BY DEF Regions
  <2> QED
    BY <2>1, Layout DEF End
<1>2. CASE start > r.begin
  <2> DEFINE o == [begin |-> r.begin, npages |-> start - r.begin]
  <2>1. o \in Regions /\ o.begin = r.begin /\ End(o) = start /\ start <= MMAP_END
    <3>1. /\ start - r.begin \in Nat /\ r.begin + (start - r.begin) = start
          /\ start <= MMAP_END
      BY <1>1, <1>2, Layout
    <3> QED
      BY <1>1, <3>1, MakeRegion
  <2>2. LeftPart(r, start) = <<o>>
    BY <1>2 DEF LeftPart
  <2> HIDE DEF o
  <2>3. /\ Within(<<o>>, r.begin, start) /\ Len(<<o>>) = 1
        /\ \A x : x \in Covered(<<o>>) <=> x \in Nat /\ o.begin <= x /\ x < End(o)
    BY <1>1, <2>1, AtMostOne
  <2> QED
    BY <2>1, <2>2, <2>3
<1>3. CASE ~ (start > r.begin)
  <2>1. LeftPart(r, start) = <<>>
    BY <1>3 DEF LeftPart
  <2>2. \A x \in Nat : ~ (r.begin <= x /\ x < start)
    BY <1>1, <1>3
  <2> QED
    BY <2>1, <2>2, NoRegion
<1> QED
  BY <1>2, <1>3

LEMMA RightOver ==
  ASSUME NEW r \in Regions, End(r) <= MMAP_END, NEW end \in Nat, r.begin < end
  PROVE  /\ Within(RightPart(r, end), end, End(r)) /\ Len(RightPart(r, end)) \in 0 .. 1
         /\ \A x : x \in Covered(RightPart(r, end)) <=> x \in Nat /\ end <= x /\ x < End(r)
<1>1. /\ r.begin \in Nat /\ MMAP_BEGIN <= r.begin /\ End(r) \in Nat
  <2>1. r.begin \in MMAP_BEGIN .. MMAP_END /\ r.npages \in 0 .. MMAP_END - MMAP_BEGIN
    BY DEF Regions
  <2> QED
    BY <2>1, Layout DEF End
<1>2. CASE end < End(r)
  <2> DEFINE o == [begin |-> end, npages |-> End(r) - end]
  <2>1. o \in Regions /\ o.begin = end /\ End(o) = End(r)
    <3>1. /\ End(r) - end \in Nat /\ end + (End(r) - end) = End(r)
          /\ MMAP_BEGIN <= end
      BY <1>1, <1>2, Layout
    <3> QED
      BY <1>1, <3>1, MakeRegion
  <2>2. RightPart(r, end) = <<o>>
    BY <1>2 DEF RightPart
  <2> HIDE DEF o
  <2>3. end <= o.begin /\ End(o) <= End(r)
    BY <1>1, <2>1
  <2>4. /\ Within(<<o>>, end, End(r)) /\ Len(<<o>>) = 1
        /\ \A x : x \in Covered(<<o>>) <=> x \in Nat /\ o.begin <= x /\ x < End(o)
    BY <1>1, <2>1, <2>3, AtMostOne
  <2> QED
    BY <2>1, <2>2, <2>4
<1>3. CASE ~ (end < End(r))
  <2>1. RightPart(r, end) = <<>>
    BY <1>3 DEF RightPart
  <2>2. \A x \in Nat : ~ (end <= x /\ x < End(r))
    BY <1>1, <1>3
  <2> QED
    BY <2>1, <2>2, NoRegion
<1> QED
  BY <1>2, <1>3

\* The list that is left is sorted and covers all but the range.
LEMMA CutKeeps ==
  ASSUME NEW l, Sorted(l), NEW start \in Nat, NEW end \in Nat, start < end,
         NEW i \in Hits(l, start, end), NEW j \in Hits(l, start, end),
         \A k \in Hits(l, start, end) : i <= k /\ k <= j
  PROVE  /\ Sorted(Cut(l, i, j, start, end))
         /\ Len(Cut(l, i, j, start, end)) <= Len(l) + 1
         /\ \A x : x \in Covered(Cut(l, i, j, start, end)) <=>
              x \in Covered(l) /\ (x < start \/ end <= x)
<1> DEFINE u == SubSeq(l, 1, i - 1)
           p == LeftPart(l[i], start)
           q == RightPart(l[j], end)
           v == SubSeq(l, j + 1, Len(l))
           hi == End(l[j])
           a == u \o p
           b == a \o q
           c == b \o v
<1>1. l \in Seq(Regions) /\ Len(l) \in Nat /\ DOMAIN l = 1 .. Len(l)
  BY DEF Sorted, Near
<1>2. \A k \in 1 .. Len(l) :
        /\ l[k] \in Regions /\ l[k].begin \in Nat /\ MMAP_BEGIN <= l[k].begin
        /\ l[k].begin <= End(l[k]) /\ End(l[k]) \in Nat /\ End(l[k]) <= MMAP_END
  BY <1>1, ListItems DEF Sorted, Near
<1>3. \A k, m \in 1 .. Len(l) : k < m => End(l[k]) < l[m].begin
  BY DEF Sorted, Near
<1>4. /\ i \in 1 .. Len(l) /\ l[i].begin < end /\ start < End(l[i])
      /\ j \in 1 .. Len(l) /\ l[j].begin < end /\ start < End(l[j]) /\ i <= j
  BY <1>1 DEF Hits
<1>5. \A k \in 1 .. Len(l) : k < i \/ k > j => l[k].begin >= end \/ start >= End(l[k])
  <2> SUFFICES ASSUME NEW k \in 1 .. Len(l), k < i \/ k > j,
                      ~ (l[k].begin >= end), ~ (start >= End(l[k]))
               PROVE  FALSE
    OBVIOUS
  <2>1. l[k].begin < end /\ start < End(l[k])
    BY <1>2
  <2>2. k \in Hits(l, start, end)
    BY <1>1, <2>1 DEF Hits
  <2> QED
    BY <2>2, <1>4
<1>6. \A k \in 1 .. Len(l) : k < i => End(l[k]) < l[i].begin /\ End(l[k]) <= start
  <2> SUFFICES ASSUME NEW k \in 1 .. Len(l), k < i
               PROVE  End(l[k]) < l[i].begin /\ End(l[k]) <= start
    OBVIOUS
  <2>1. End(l[k]) < l[i].begin
    BY <1>3, <1>4
  <2>2. ~ (l[k].begin >= end)
    BY <1>2, <1>4, <2>1, SMTT(60)
  <2> QED
    BY <1>2, <1>5, <2>1, <2>2
<1>7. \A k \in 1 .. Len(l) : k > j => hi < l[k].begin /\ end <= l[k].begin
  <2> SUFFICES ASSUME NEW k \in 1 .. Len(l), k > j
               PROVE  hi < l[k].begin /\ end <= l[k].begin
    OBVIOUS
  <2>1. hi < l[k].begin
    BY <1>3, <1>4
  <2>2. ~ (start >= End(l[k]))
    BY <1>2, <1>4, <2>1
  <2> QED
    BY <1>2, <1>5, <2>1, <2>2
<1>8. \A k \in 1 .. Len(l) : i < k => start < l[k].begin
  BY <1>2, <1>3, <1>4
<1>9. \A k \in 1 .. Len(l) : k < j => End(l[k]) < end
  BY <1>2, <1>3, <1>4
<1>10. /\ Sorted(u) /\ Len(u) = i - 1
       /\ \A k \in 1 .. Len(u) : k \in 1 .. Len(l) /\ k < i /\ u[k] = l[k]
       /\ \A x : x \in Covered(u) <=>
            x \in Nat /\ \E k \in 1 .. (i - 1) : l[k].begin <= x /\ x < End(l[k])
  <2>1. 1 \in 1 .. (Len(l) + 1) /\ i - 1 \in 0 .. Len(l) /\ 1 <= (i - 1) + 1
    BY <1>1, <1>4
  <2>2. /\ Sorted(u) /\ Len(u) = (i - 1) - 1 + 1
        /\ \A k \in 1 .. ((i - 1) - 1 + 1) : u[k] = l[1 + k - 1]
        /\ \A x : x \in Covered(u) <=>
             x \in Nat /\ \E k \in 1 .. (i - 1) : l[k].begin <= x /\ x < End(l[k])
    BY <2>1, Stretch
  <2>3. Len(u) = i - 1
    BY <2>2, <1>4
  <2>4. \A k \in 1 .. Len(u) : k \in 1 .. Len(l) /\ k < i /\ 1 + k - 1 = k
    BY <2>3, <1>1, <1>4
  <2> QED
    BY <2>2, <2>3, <2>4
<1>11. /\ Sorted(v) /\ Len(v) = Len(l) - j
       /\ \A k \in 1 .. Len(v) : j + k \in 1 .. Len(l) /\ j + k > j /\ v[k] = l[j + k]
       /\ \A x : x \in Covered(v) <=>
            x \in Nat /\ \E k \in (j + 1) .. Len(l) : l[k].begin <= x /\ x < End(l[k])
  <2>1. j + 1 \in 1 .. (Len(l) + 1) /\ Len(l) \in 0 .. Len(l) /\ j + 1 <= Len(l) + 1
    BY <1>1, <1>4
  <2>2. /\ Sorted(v) /\ Len(v) = Len(l) - (j + 1) + 1
        /\ \A k \in 1 .. (Len(l) - (j + 1) + 1) : v[k] = l[(j + 1) + k - 1]
        /\ \A x : x \in Covered(v) <=>
             x \in Nat /\ \E k \in (j + 1) .. Len(l) : l[k].begin <= x /\ x < End(l[k])
    BY <2>1, Stretch
  <2>3. Len(v) = Len(l) - j
    BY <2>2, <1>1, <1>4
  <2>4. \A k \in 1 .. (Len(l) - j) :
          j + k \in 1 .. Len(l) /\ j + k > j /\ (j + 1) + k - 1 = j + k
    BY <1>1, <1>4
  <2> HIDE DEF v
  <2> QED
    BY <2>2, <2>3, <2>4
<1>12. /\ Within(p, l[i].begin, start) /\ Len(p) \in 0 .. 1
       /\ \A x : x \in Covered(p) <=> x \in Nat /\ l[i].begin <= x /\ x < start
  BY <1>2, <1>4, LeftOver
<1>13. /\ Within(q, end, hi) /\ Len(q) \in 0 .. 1
       /\ \A x : x \in Covered(q) <=> x \in Nat /\ end <= x /\ x < hi
  BY <1>2, <1>4, RightOver
<1>14. Cut(l, i, j, start, end) = c
  BY DEF Cut
<1> HIDE DEF u, v, p, q
<1>15. hi \in Nat /\ start < hi /\ hi <= MMAP_END
  BY <1>2, <1>4
<1> HIDE DEF hi
<1>16. /\ p \in Seq(Regions) /\ q \in Seq(Regions) /\ Len(p) \in Nat /\ Len(q) \in Nat
       /\ \A k \in 1 .. Len(p) : p[k].begin \in Nat /\ End(p[k]) \in Nat
       /\ \A k \in 1 .. Len(q) : q[k].begin \in Nat /\ End(q[k]) \in Nat
  BY <1>12, <1>13, ListItems DEF Within, Sorted, Near
<1>17. /\ Within(a, 0, start) /\ Len(a) = Len(u) + Len(p)
       /\ Covered(a) = Covered(u) \union Covered(p)
  <2>1. Within(u, 0, start)
    BY <1>2, <1>6, <1>10 DEF Within
  <2>2. Within(p, 0, start)
    BY <1>12, <1>16 DEF Within
  <2>3. ASSUME NEW k \in 1 .. Len(u), NEW m \in 1 .. Len(p) PROVE End(u[k]) < p[m].begin
    <3>1. End(u[k]) < l[i].begin /\ End(u[k]) \in Nat /\ l[i].begin \in Nat
      BY <1>2, <1>4, <1>6, <1>10
    <3>2. l[i].begin <= p[m].begin
      BY <1>12 DEF Within
    <3> QED
      BY <3>1, <3>2, <1>16
  <2> QED
    BY <2>1, <2>2, <2>3, Joined
<1> HIDE DEF a
<1>18. a \in Seq(Regions) /\ Len(a) \in Nat
       /\ \A k \in 1 .. Len(a) : a[k].begin \in Nat /\ End(a[k]) \in Nat
  BY <1>17, ListItems DEF Within, Sorted, Near
<1>19. /\ Within(b, 0, hi) /\ Len(b) = Len(a) + Len(q)
       /\ Covered(b) = Covered(a) \union Covered(q)
  <2>1. Within(a, 0, hi)
    <3>1. \A k \in 1 .. Len(a) : End(a[k]) <= start /\ End(a[k]) \in Nat
      BY <1>17, <1>18 DEF Within
    <3>2. \A k \in 1 .. Len(a) : End(a[k]) <= hi
      BY <3>1, <1>15
    <3> QED
      BY <1>17, <3>2 DEF Within
  <2>2. Within(q, 0, hi)
    BY <1>13, <1>16 DEF Within
  <2>3. ASSUME NEW k \in 1 .. Len(a), NEW m \in 1 .. Len(q) PROVE End(a[k]) < q[m].begin
    <3>1. End(a[k]) <= start /\ end <= q[m].begin
      BY <1>13, <1>17 DEF Within
    <3> QED
      BY <3>1, <1>16, <1>18
  <2> QED
    BY <2>1, <2>2, <2>3, <1>15, Joined
<1> HIDE DEF b
<1>20. b \in Seq(Regions) /\ Len(b) \in Nat
       /\ \A k \in 1 .. Len(b) : b[k].begin \in Nat /\ End(b[k]) \in Nat
  BY <1>19, ListItems DEF Within, Sorted, Near
<1>21. /\ Within(c, 0, MMAP_END) /\ Len(c) = Len(b) + Len(v)
       /\ Covered(c) = Covered(b) \union Covered(v)
  <2>1. Within(b, 0, MMAP_END)
    <3>1. \A k \in 1 .. Len(b) : End(b[k]) <= hi /\ End(b[k]) \in Nat
      BY <1>19, <1>20 DEF Within
    <3>2. \A k \in 1 .. Len(b) : End(b[k]) <= MMAP_END
      BY <3>1, <1>15, Layout
    <3> QED
      BY <1>19, <3>2 DEF Within
  <2>2. Within(v, 0, MMAP_END)
    BY <1>2, <1>11, SMTT(60) DEF Within
  <2>3. ASSUME NEW k \in 1 .. Len(b), NEW m \in 1 .. Len(v) PROVE End(b[k]) < v[m].begin
    <3>1. End(b[k]) <= hi /\ End(b[k]) \in Nat
      BY <1>19, <1>20 DEF Within
    <3>2. hi < v[m].begin /\ v[m].begin \in Nat
      BY <1>2, <1>7, <1>11
    <3> QED
      BY <3>1, <3>2, <1>15
  <2> QED
    BY <2>1, <2>2, <2>3, Layout, Joined
<1> HIDE DEF c
<1>22. Sorted(c)
  BY <1>21 DEF Within
<1>23. Len(c) <= Len(l) + 1
  <2>1. Len(c) = (((i - 1) + Len(p)) + Len(q)) + (Len(l) - j)
    BY <1>10, <1>11, <1>17, <1>19, <1>21, Zenon
  <2>2. Len(p) \in 0 .. 1 /\ Len(q) \in 0 .. 1
    BY <1>12, <1>13
  <2>3. \A n \in Nat : \A f, g \in 1 .. n : \A y, z \in 0 .. 1 :
          f <= g => (((f - 1) + y) + z) + (n - g) <= n + 1
    OBVIOUS
  <2> QED
    BY <1>1, <1>4, <2>1, <2>2, <2>3, Zenon
<1>24. \A x : x \in Covered(c) <=>
         \/ x \in Covered(u) \/ x \in Covered(p) \/ x \in Covered(q) \/ x \in Covered(v)
  BY <1>17, <1>19, <1>21
<1>25. ASSUME NEW x \in Covered(c) PROVE x \in Covered(l) /\ (x < start \/ end <= x)
  <2>1. ASSUME x \in Nat, NEW k \in 1 .. Len(l), l[k].begin <= x, x < End(l[k]),
               k < i \/ k > j \/ x < start \/ end <= x
        PROVE  x \in Covered(l) /\ (x < start \/ end <= x)
    <3>1. x \in Covered(l)
      BY <2>1, <1>1, CoveredItems
    <3>2. CASE k < i
      BY <3>1, <3>2, <2>1, <1>2, <1>6
    <3>3. CASE k > j
      BY <3>1, <3>3, <2>1, <1>2, <1>7
    <3> QED
      BY <2>1, <3>1, <3>2, <3>3
  <2>2. CASE x \in Covered(u)
    <3>1. PICK k \in 1 .. (i - 1) : x \in Nat /\ l[k].begin <= x /\ x < End(l[k])
      BY <2>2, <1>10
    <3>2. k \in 1 .. Len(l) /\ k < i
      BY <1>1, <1>4
    <3> QED
      BY <3>1, <3>2, <2>1
  <2>3. CASE x \in Covered(v)
    <3>1. PICK k \in (j + 1) .. Len(l) : x \in Nat /\ l[k].begin <= x /\ x < End(l[k])
      BY <2>3, <1>11
    <3>2. k \in 1 .. Len(l) /\ k > j
      BY <1>1, <1>4
    <3> QED
      BY <3>1, <3>2, <2>1
  <2>4. CASE x \in Covered(p)
    <3>1. x \in Nat /\ l[i].begin <= x /\ x < start
      BY <2>4, <1>12
    <3>2. x < End(l[i])
      BY <3>1, <1>2, <1>4
    <3> QED
      BY <3>1, <3>2, <2>1, <1>4
  <2>5. CASE x \in Covered(q)
    <3>1. x \in Nat /\ end <= x /\ x < End(l[j])
      BY <2>5, <1>13 DEF hi
    <3>2. l[j].begin <= x
      BY <3>1, <1>2, <1>4
    <3> QED
      BY <3>1, <3>2, <2>1, <1>4
  <2> QED
    BY <2>2, <2>3, <2>4, <2>5, <1>24
<1>26. ASSUME NEW x \in Covered(l), x < start \/ end <= x PROVE x \in Covered(c)
  <2>1. PICK k \in 1 .. Len(l) : x \in Nat /\ l[k].begin <= x /\ x < End(l[k])
    BY <1>1, <1>26, CoveredItems
  <2>2. CASE k < i
    <3>1. k \in 1 .. (i - 1)
      BY <2>2, <1>4
    <3> QED
      BY <2>1, <3>1, <1>10, <1>24
  <2>3. CASE k > j
    <3>1. k \in (j + 1) .. Len(l)
      BY <2>3, <1>1, <1>4
    <3> QED
      BY <2>1, <3>1, <1>11, <1>24
  <2>4. CASE i <= k /\ k <= j /\ x < start
    <3>1. k = i
      <4>1. ~ (i < k)
        BY <2>1, <2>4, <1>2, <1>8
      <4> QED
        BY <2>4, <4>1, <1>4
    <3> QED
      BY <2>1, <2>4, <3>1, <1>12, <1>24
  <2>5. CASE i <= k /\ k <= j /\ end <= x
    <3>1. k = j
      <4>1. ~ (k < j)
        BY <2>1, <2>5, <1>2, <1>9
      <4> QED
        BY <2>5, <4>1, <1>4
    <3> QED
      BY <2>1, <2>5, <3>1, <1>13, <1>24 DEF hi
  <2> QED
    BY <2>2, <2>3, <2>4, <2>5, <1>4, <1>26
<1>27. \A x : x \in Covered(c) <=> x \in Covered(l) /\ (x < start \/ end <= x)
  BY <1>25, <1>26
<1> QED
  BY <1>14, <1>22, <1>23, <1>27

\* What is unmapped is what the regions cover of the range.
LEMMA PartsOf ==
  ASSUME NEW l, Sorted(l), NEW start \in Nat, NEW end \in Nat
  PROVE  \A x : x \in UNION {Part(l[i], start, end) : i \in Hits(l, start, end)} <=>
           x \in Covered(l) /\ start <= x /\ x < end
<1>1. l \in Seq(Regions) /\ Len(l) \in Nat /\ DOMAIN l = 1 .. Len(l)
  BY DEF Sorted, Near
<1>2. \A k \in 1 .. Len(l) : l[k].begin \in Nat /\ End(l[k]) \in Nat
  BY <1>1, ListItems
<1>3. ASSUME NEW k \in 1 .. Len(l), NEW x
      PROVE  x \in Part(l[k], start, end) <=>
               x \in Nat /\ start <= x /\ l[k].begin <= x /\ x < end /\ x < End(l[k])
  <2>1. /\ Max({start, l[k].begin}) = IF start >= l[k].begin THEN start ELSE l[k].begin
        /\ Min({end, End(l[k])}) = IF end <= End(l[k]) THEN end ELSE End(l[k])
    BY <1>2, MaxOfTwo, MinOfTwo
  <2> DEFINE hi == Max({start, l[k].begin})
             lo == Min({end, End(l[k])})
  <2>2. x \in Part(l[k], start, end) <=> x \in hi .. lo - 1
    BY DEF Part
  <2>3. hi = (IF start >= l[k].begin THEN start ELSE l[k].begin)
        /\ lo = (IF end <= End(l[k]) THEN end ELSE End(l[k]))
    BY <2>1
  <2> HIDE DEF hi, lo
  <2>4. l[k].begin \in Nat /\ End(l[k]) \in Nat /\ hi \in Nat /\ lo \in Nat
    BY <1>2, <2>3
  <2>5. x \in hi .. lo - 1 <=> x \in Nat /\ hi <= x /\ x < lo
    BY <2>4
  <2>6. ASSUME x \in Nat
        PROVE  hi <= x /\ x < lo <=> start <= x /\ l[k].begin <= x /\ x < end /\ x < End(l[k])
    BY <2>3, <2>4, <2>6
  <2> QED
    BY <2>2, <2>5, <2>6
<1>4. \A x : x \in UNION {Part(l[i], start, end) : i \in Hits(l, start, end)} <=>
        \E i \in Hits(l, start, end) : x \in Part(l[i], start, end)
  OBVIOUS
<1>5. \A i : i \in Hits(l, start, end) <=>
        i \in 1 .. Len(l) /\ l[i].begin < end /\ start < End(l[i])
  BY <1>1 DEF Hits
<1>6. ASSUME NEW x, NEW i \in Hits(l, start, end), x \in Part(l[i], start, end)
      PROVE  x \in Covered(l) /\ start <= x /\ x < end
  BY <1>1, <1>3, <1>5, <1>6, CoveredItems
<1>7. ASSUME NEW x \in Covered(l), start <= x, x < end
      PROVE  \E i \in Hits(l, start, end) : x \in Part(l[i], start, end)
  <2>1. PICK k \in 1 .. Len(l) : x \in Nat /\ l[k].begin <= x /\ x < End(l[k])
    BY <1>1, <1>7, CoveredItems
  <2>2. k \in Hits(l, start, end)
    BY <2>1, <1>2, <1>5, <1>7
  <2> QED
    BY <2>1, <2>2, <1>3, <1>7
<1> QED
  BY <1>4, <1>6, <1>7

\* The list munmap leaves.
Left(l, start, end) ==
  LET hits == Hits(l, start, end)
  IN IF hits = {} THEN l ELSE Cut(l, Min(hits), Max(hits), start, end)

LEMMA LeftKeeps ==
  ASSUME NEW l, Sorted(l), NEW start \in Nat, NEW end \in Nat,
         \A i \in Hits(l, start, end) : Part(l[i], start, end) # {}
  PROVE  /\ Sorted(Left(l, start, end))
         /\ Len(Left(l, start, end)) <= Len(l) + 1
         /\ \A x : x \in Covered(Left(l, start, end)) <=>
              x \in Covered(l) /\ ~ (start <= x /\ x < end)
<1> DEFINE H == Hits(l, start, end)
<1>1. l \in Seq(Regions) /\ Len(l) \in Nat /\ DOMAIN l = 1 .. Len(l)
  BY DEF Sorted, Near
<1>2. \A x : x \in UNION {Part(l[i], start, end) : i \in H} <=>
        x \in Covered(l) /\ start <= x /\ x < end
  BY PartsOf
<1>3. H \subseteq 1 .. Len(l)
  BY <1>1 DEF Hits
<1>4. \A x \in Covered(l) : x \in Nat
  BY <1>1, CoveredItems
<1>5. CASE H = {}
  <2>1. Left(l, start, end) = l
    BY <1>5 DEF Left
  <2>2. \A x : ~ (x \in Covered(l) /\ start <= x /\ x < end)
    BY <1>2, <1>5
  <2> QED
    BY <1>1, <2>1, <2>2
<1>6. CASE H # {}
  <2> HIDE DEF H
  <2>1. H \in SUBSET Nat /\ H \in SUBSET (0 .. Len(l))
    BY <1>1, <1>3
  <2>2. /\ Min(H) \in H /\ Max(H) \in H
        /\ \A k \in H : Min(H) <= k /\ k <= Max(H)
    BY <1>1, <1>6, <2>1, MinNat, MaxNat
  <2>3. start < end
    <3>1. PICK x : x \in UNION {Part(l[i], start, end) : i \in H}
      <4>1. Min(H) \in H /\ Part(l[Min(H)], start, end) # {}
        BY <2>2 DEF H
      <4> QED
        BY <4>1
    <3>2. x \in Nat /\ start <= x /\ x < end
      BY <3>1, <1>2, <1>4
    <3> QED
      BY <3>2
  <2>4. Left(l, start, end) = Cut(l, Min(H), Max(H), start, end)
    BY <1>6 DEF Left, H
  <2>5. /\ Sorted(Left(l, start, end))
        /\ Len(Left(l, start, end)) <= Len(l) + 1
        /\ \A x : x \in Covered(Left(l, start, end)) <=>
             x \in Covered(l) /\ (x < start \/ end <= x)
    <3> DEFINE i == Min(H)
               j == Max(H)
    <3>1. i \in Hits(l, start, end) /\ j \in Hits(l, start, end)
          /\ \A k \in Hits(l, start, end) : i <= k /\ k <= j
      BY <2>2 DEF H
    <3>2. Left(l, start, end) = Cut(l, i, j, start, end)
      BY <2>4
    <3> HIDE DEF i, j
    <3> QED
      BY <2>3, <3>1, <3>2, CutKeeps
  <2>6. \A x \in Nat : (x < start \/ end <= x) <=> ~ (start <= x /\ x < end)
    OBVIOUS
  <2> QED
    BY <1>4, <2>5, <2>6
<1> QED
  BY <1>5, <1>6

----------------------------------------------------------------------------
(* Areas *)

\* The areas of a process with heap h, a stack of s pages and regions l.
AreaOf(h, s, l) == {USER_BASE} \union HeapPages(h) \union StackPages(s) \union Covered(l)

LEMMA AreaItems ==
  ASSUME NEW h \in 0 .. (MMAP_END + 1) * PG, NEW s \in 0 .. TRAPFRAME - MMAP_END,
         NEW l, Sorted(l)
  PROVE  /\ AreaOf(h, s, l) \subseteq Pages
         /\ \A x \in Pages : x \in AreaOf(h, s, l) <=>
              \/ x = 1
              \/ 2 <= x /\ x * PG < h
              \/ TRAPFRAME - s <= x
              \/ x \in Covered(l)
<1> USE DEF USER_BASE
<1>1. h \in Nat
  BY Layout
<1>2. Up(h) \in Nat /\ Up(h) <= MMAP_END + 1
  <2>1. MMAP_END + 1 \in Nat /\ (MMAP_END + 1) * PG \in Nat
    BY Layout
  <2>2. Up(h) \in Nat /\ ((MMAP_END + 1) * PG < h <=> MMAP_END + 1 < Up(h))
    BY <1>1, <2>1, Rounding
  <2>3. ~ ((MMAP_END + 1) * PG < h)
    BY <2>1
  <2> QED
    BY <2>1, <2>2, <2>3
<1>3. \A x \in Nat : x * PG < h <=> x < Up(h)
  BY <1>1, Rounding
<1>4. \A x : x \in HeapPages(h) <=> x \in Nat /\ 2 <= x /\ x < Up(h)
  BY <1>2 DEF HeapPages
<1>5. \A x : x \in StackPages(s) <=> x \in Nat /\ TRAPFRAME - s <= x /\ x < TRAPFRAME
  BY Layout DEF StackPages
<1>6. \A x \in Covered(l) : x \in Nat /\ MMAP_BEGIN <= x /\ x < MMAP_END
  BY CoveredArea DEF Sorted
<1>7. \A x : x \in Pages <=> x \in Nat /\ x < TRAPFRAME
  BY Layout DEF Pages
<1>8. ASSUME NEW x \in AreaOf(h, s, l) PROVE x \in Pages
  <2>1. CASE x = 1
    BY <2>1, <1>7, Layout
  <2>2. CASE x \in HeapPages(h)
    BY <2>2, <1>2, <1>4, <1>7, Layout
  <2>3. CASE x \in StackPages(s)
    BY <2>3, <1>5, <1>7, Layout
  <2>4. CASE x \in Covered(l)
    BY <2>4, <1>6, <1>7, Layout
  <2> QED
    BY <2>1, <2>2, <2>3, <2>4 DEF AreaOf
<1>9. ASSUME NEW x \in Pages
      PROVE  x \in AreaOf(h, s, l) <=> \/ x = 1
                                       \/ 2 <= x /\ x * PG < h
                                       \/ TRAPFRAME - s <= x
                                       \/ x \in Covered(l)
  <2>1. x \in Nat /\ x < TRAPFRAME
    BY <1>7
  <2>3. x \in HeapPages(h) <=> 2 <= x /\ x * PG < h
    BY <2>1, <1>2, <1>3, <1>4, Layout
  <2>4. x \in StackPages(s) <=> TRAPFRAME - s <= x
    BY <2>1, <1>5
  <2> QED
    BY <2>1, <2>3, <2>4 DEF AreaOf
<1> QED
  BY <1>8, <1>9

\* A heap that ends below the area of mmap has its pages there.
LEMMA HeapBelow ==
  ASSUME NEW h \in Nat, h <= MMAP_BEGIN * PG, NEW x \in Nat, x * PG < h
  PROVE  x < MMAP_BEGIN
<1>1. ASSUME MMAP_BEGIN <= x PROVE FALSE
  <2>1. MMAP_BEGIN * PG <= x * PG
    BY <1>1, Layout, Times
  <2>2. MMAP_BEGIN * PG \in Nat /\ x * PG \in Nat
    BY Layout
  <2> QED
    BY <2>1, <2>2
<1> QED
  BY <1>1, Layout

LEMMA AreasAre ==
  \A p \in Procs : Areas(p) = AreaOf(heap[p], ustack[p], mmap[p])
BY DEF Areas, AreaOf

----------------------------------------------------------------------------
(* A step that changes one process *)

OneChanged(p) ==
  /\ live' = [live EXCEPT ![p] = live'[p]] /\ map' = [map EXCEPT ![p] = map'[p]]
  /\ nouser' = [nouser EXCEPT ![p] = nouser'[p]]
  /\ tables' = [tables EXCEPT ![p] = tables'[p]] /\ mmap' = [mmap EXCEPT ![p] = mmap'[p]]
  /\ heap' = [heap EXCEPT ![p] = heap'[p]] /\ ustack' = [ustack EXCEPT ![p] = ustack'[p]]

\* What holds of a process as long as proc_exec has lost no page.
Kept(p) ==
  /\ 2 * PG <= heap[p] /\ heap[p] <= MMAP_BEGIN * PG
  /\ map[p] \subseteq AreaOf(heap[p], ustack[p], mmap[p])

\* The invariant of one process.
Fine(p) ==
  /\ live[p] \in BOOLEAN /\ map[p] \in SUBSET Pages /\ nouser[p] \in SUBSET map[p]
  /\ tables[p] \in SUBSET Tables
  /\ heap[p] \in 0 .. (MMAP_END + 1) * PG /\ ustack[p] \in 0 .. TRAPFRAME - MMAP_END
  /\ Sorted(mmap[p])
  /\ live[p] => {"tf", "root"} \subseteq tables[p]
  /\ live[p] /\ tidy => Kept(p)
  /\ ~ live[p] => map[p] = {} /\ tables[p] = {} /\ mmap[p] = <<>>

\* What the process gains the pools lose.
Balanced(p) ==
  /\ upool' \in Nat /\ kpool' \in Nat /\ nodes' \in Nat /\ panic' \in Messages
  /\ tidy' \in BOOLEAN /\ (tidy' => tidy)
  /\ upool' + Cardinality(map'[p]) <= upool + Cardinality(map[p])
  /\ tidy' => upool' + Cardinality(map'[p]) = upool + Cardinality(map[p])
  /\ kpool' + Cardinality(tables'[p]) <= kpool + Cardinality(tables[p])
  /\ nodes' + Len(mmap'[p]) = nodes + Len(mmap[p])

LEMMA FiniteSets ==
  /\ IsFiniteSet(Pages) /\ IsFiniteSet(Tables)
  /\ \A S \in SUBSET Pages : IsFiniteSet(S) /\ Cardinality(S) \in Nat
  /\ \A S \in SUBSET Tables : IsFiniteSet(S) /\ Cardinality(S) \in Nat
<1>1. IsFiniteSet(Pages)
  <2>1. USER_BASE \in Int /\ TRAPFRAME - 1 \in Int
    BY Layout DEF USER_BASE
  <2> QED
    BY <2>1, FS_Interval DEF Pages
<1>2. IsFiniteSet(Tables)
  <2>1. /\ IsFiniteSet({"tf"}) /\ IsFiniteSet({"root"}) /\ IsFiniteSet({"top1"})
        /\ IsFiniteSet({"top0"}) /\ IsFiniteSet({"low1"}) /\ IsFiniteSet({"low0"})
        /\ IsFiniteSet({"mmap0"})
    BY FS_Singleton
  <2>2. IsFiniteSet({"tf"} \union {"root"}) /\ IsFiniteSet({"top1"} \union {"top0"})
        /\ IsFiniteSet({"low1"} \union {"low0"})
    BY <2>1, FS_Union
  <2>3. IsFiniteSet(({"tf"} \union {"root"}) \union ({"top1"} \union {"top0"}))
        /\ IsFiniteSet(({"low1"} \union {"low0"}) \union {"mmap0"})
    BY <2>1, <2>2, FS_Union
  <2>4. IsFiniteSet((({"tf"} \union {"root"}) \union ({"top1"} \union {"top0"}))
                    \union (({"low1"} \union {"low0"}) \union {"mmap0"}))
    BY <2>3, FS_Union
  <2>5. Tables = (({"tf"} \union {"root"}) \union ({"top1"} \union {"top0"}))
                    \union (({"low1"} \union {"low0"}) \union {"mmap0"})
    BY DEF Tables
  <2> QED
    BY <2>4, <2>5
<1> QED
  BY <1>1, <1>2, FS_Subset, FS_CardinalityType

LEMMA FineFrom ==
  ASSUME IndInv
  PROVE  \A p \in Procs : Fine(p)
<1>1. \A p \in Procs : live[p] /\ tidy => Kept(p)
  BY AreasAre DEF IndInv, InvLive, Kept, USER_BASE
<1> QED
  BY <1>1 DEF IndInv, InvTypes, InvLists, InvLive, Fine

LEMMA ChangeOne ==
  ASSUME IndInv, NEW p \in Procs, OneChanged(p), Fine(p)', Balanced(p)
  PROVE  IndInv'
<1>1. \A q \in Procs \ {p} :
        /\ live'[q] = live[q] /\ map'[q] = map[q] /\ nouser'[q] = nouser[q]
        /\ tables'[q] = tables[q] /\ mmap'[q] = mmap[q] /\ heap'[q] = heap[q] /\ ustack'[q] = ustack[q]
  BY DEF OneChanged, IndInv, InvTypes
<1>2. \A q \in Procs : Fine(q)'
  <2>1. ASSUME NEW q \in Procs \ {p} PROVE Fine(q)'
    <3>1. Fine(q) /\ (tidy' => tidy)
      BY FineFrom DEF Balanced
    <3>2. live'[q] /\ tidy' => Kept(q)'
      BY <3>1, <1>1 DEF Fine, Kept
    <3> QED
      BY <3>1, <3>2, <1>1 DEF Fine
  <2> QED
    BY <2>1
<1>3. InvTypes'
  <2>1. /\ live' \in [Procs -> BOOLEAN] /\ map' \in [Procs -> SUBSET Pages]
    BY DEF OneChanged, Fine, IndInv, InvTypes
  <2>2. tables' \in [Procs -> SUBSET Tables]
    BY DEF OneChanged, Fine, IndInv, InvTypes
  <2>3. mmap' \in [Procs -> Seq(Regions)]
    BY DEF OneChanged, Fine, IndInv, InvTypes, Sorted, Near
  <2>4. /\ heap' \in [Procs -> 0 .. (MMAP_END + 1) * PG]
        /\ ustack' \in [Procs -> 0 .. TRAPFRAME - MMAP_END]
    BY DEF OneChanged, Fine, IndInv, InvTypes
  <2>5. nouser' \in [Procs -> SUBSET Pages]
    <3>1. nouser'[p] \in SUBSET Pages
      BY DEF Fine
    <3> QED
      BY <3>1 DEF OneChanged, IndInv, InvTypes
  <2> QED
    BY <2>1, <2>2, <2>3, <2>4, <2>5 DEF InvTypes, Balanced
<1>4. InvLive'
  <2>1. \A q \in Procs : Areas(q)' = AreaOf(heap'[q], ustack'[q], mmap'[q])
    BY DEF Areas, AreaOf
  <2>2. ASSUME NEW q \in Procs, live'[q], tidy'
        PROVE  /\ (USER_BASE + 1) * PG <= heap'[q] /\ heap'[q] <= MMAP_BEGIN * PG
               /\ map'[q] \subseteq Areas(q)'
    <3>1. Kept(q)'
      BY <1>2, <2>2 DEF Fine
    <3> QED
      BY <3>1, <2>1 DEF Kept, USER_BASE
  <2> QED
    BY <1>2, <2>2 DEF InvLive, Fine
<1>5. upool' + Count(map') <= NUser /\ (tidy' => upool' + Count(map') = NUser)
  <2>1. /\ map \in [Procs -> SUBSET Pages] /\ map' \in [Procs -> SUBSET Pages]
        /\ IsFiniteSet(Pages)
    BY <1>3, FiniteSets DEF IndInv, InvTypes
  <2>2. \A q \in Procs \ {p} : map'[q] = map[q]
    BY <1>1
  <2>3. /\ Count(map) \in Nat /\ Count(map') \in Nat
        /\ Cardinality(map[p]) \in Nat /\ Cardinality(map'[p]) \in Nat
        /\ Count(map') + Cardinality(map[p]) = Count(map) + Cardinality(map'[p])
    BY <2>1, <2>2, CountUpdate
  <2>4. /\ upool' + Cardinality(map'[p]) <= upool + Cardinality(map[p])
        /\ tidy' => tidy /\ upool' + Cardinality(map'[p]) = upool + Cardinality(map[p])
        /\ upool \in Nat /\ upool' \in Nat
    BY DEF Balanced, IndInv, InvTypes
  <2>5. upool' + Count(map') <= upool + Count(map)
    <3>1. \A u, v, a, b, x, y \in Nat : u + a <= v + b /\ y + b = x + a => u + y <= v + x
      OBVIOUS
    <3> QED
      BY <2>3, <2>4, <3>1, Zenon
  <2>6. ASSUME tidy' PROVE upool' + Count(map') = upool + Count(map)
    <3> DEFINE Same(j, k) == j = k
    <3>1. \A u, v, a, b, x, y \in Nat :
            Same(u + a, v + b) /\ Same(y + b, x + a) => Same(u + y, v + x)
      OBVIOUS
    <3>2. /\ Same(upool' + Cardinality(map'[p]), upool + Cardinality(map[p]))
          /\ Same(Count(map') + Cardinality(map[p]), Count(map) + Cardinality(map'[p]))
      BY <2>3, <2>4, <2>6
    <3> HIDE DEF Same
    <3>3. Same(upool' + Count(map'), upool + Count(map))
      BY <2>3, <2>4, <3>1, <3>2, Zenon
    <3> QED
      BY <3>3 DEF Same
  <2>7. upool' + Count(map') <= NUser
    BY <2>3, <2>4, <2>5, Layout DEF IndInv, InvCounts
  <2>8. tidy' => upool' + Count(map') = NUser
    BY <2>4, <2>6 DEF IndInv, InvCounts
  <2> QED
    BY <2>7, <2>8
<1>6. kpool' + Count(tables') <= NKern
  <2>1. /\ tables \in [Procs -> SUBSET Tables] /\ tables' \in [Procs -> SUBSET Tables]
        /\ IsFiniteSet(Tables)
    BY <1>3, FiniteSets DEF IndInv, InvTypes
  <2>2. \A q \in Procs \ {p} : tables'[q] = tables[q]
    BY <1>1
  <2>3. /\ Count(tables) \in Nat /\ Count(tables') \in Nat
        /\ Cardinality(tables[p]) \in Nat /\ Cardinality(tables'[p]) \in Nat
        /\ Count(tables') + Cardinality(tables[p]) = Count(tables) + Cardinality(tables'[p])
    BY <2>1, <2>2, CountUpdate
  <2>4. /\ kpool' + Cardinality(tables'[p]) <= kpool + Cardinality(tables[p])
        /\ kpool \in Nat /\ kpool' \in Nat
    BY DEF Balanced, IndInv, InvTypes
  <2>5. kpool' + Count(tables') <= kpool + Count(tables)
    <3>1. \A u, v, a, b, x, y \in Nat : u + a <= v + b /\ y + b = x + a => u + y <= v + x
      OBVIOUS
    <3> QED
      BY <2>3, <2>4, <3>1, Zenon
  <2> QED
    BY <2>3, <2>4, <2>5, Layout DEF IndInv, InvCounts
<1>7. nodes' + Count(Positions(mmap')) = NMmap /\ Len(mmap'[p]) <= NMmap
  <2> DEFINE f == Positions(mmap)
             g == Positions(mmap')
             n == Len(mmap[p])
             m == Len(mmap'[p])
             U == 1 .. (NMmap + NMmap)
  <2>1. \A q \in Procs : /\ mmap[q] \in Seq(Regions) /\ Len(mmap[q]) \in Nat
                         /\ Len(mmap[q]) <= NMmap
    BY DEF IndInv, InvTypes, InvLists
  <2>2. m \in Nat /\ n \in Nat /\ n <= NMmap
    BY <2>1 DEF Fine, Sorted, Near
  <2>3. nodes' + m = nodes + n /\ nodes' \in Nat /\ nodes \in Nat /\ nodes + Count(f) = NMmap
    BY DEF Balanced, IndInv, InvTypes, InvCounts
  <2>4. /\ f[p] = 1 .. n /\ g[p] = 1 .. m /\ DOMAIN f = Procs /\ DOMAIN g = Procs
        /\ f = [q \in Procs |-> f[q]] /\ g = [q \in Procs |-> g[q]]
        /\ \A q \in Procs \ {p} : g[q] = f[q]
    BY <1>1 DEF Positions
  <2>5. IsFiniteSet(U) /\ \A q \in Procs : f[q] \in SUBSET U
    <3>1. IsFiniteSet(U)
      BY Layout, FS_Interval
    <3>2. \A q \in Procs : 1 .. Len(mmap[q]) \in SUBSET U
      BY <2>1, Layout
    <3> QED
      BY <3>1, <3>2 DEF Positions
  <2> HIDE DEF f, g, n, m, U
  <2>6. Cardinality(1 .. n) = n /\ Cardinality(1 .. m) = m
    BY <2>2, FS_Interval
  <2>7. f \in [Procs -> SUBSET U]
    BY <2>4, <2>5
  <2>8. Count(f) \in Nat
    BY <2>5, <2>7, CountUpdate
  <2>9. m <= NMmap + NMmap
    <3>1. \A u, v, w, x, y, z \in Nat : u + v = w + x /\ w + y = z /\ x <= z => v <= z + z
      OBVIOUS
    <3> QED
      BY <2>2, <2>3, <2>8, <3>1, Layout, Zenon
  <2>10. g \in [Procs -> SUBSET U]
    <3>1. 1 .. m \in SUBSET U
      BY <2>2, <2>9, Layout DEF U
    <3>2. \A q \in Procs : g[q] \in SUBSET U
      BY <2>4, <2>5, <3>1
    <3> QED
      BY <2>4, <3>2
  <2>11. /\ Count(g) \in Nat /\ Cardinality(g[p]) <= Count(g)
         /\ Count(g) + Cardinality(f[p]) = Count(f) + Cardinality(g[p])
    BY <2>4, <2>5, <2>7, <2>10, CountUpdate
  <2>12. m <= Count(g) /\ Count(g) + n = Count(f) + m
    BY <2>4, <2>6, <2>11, Zenon
  <2>13. nodes' + Count(g) = NMmap /\ m <= NMmap
    <3> DEFINE Same(j, k) == j = k
    <3>1. \A u, v, a, b, x, y \in Nat :
            Same(u + a, v + b) /\ Same(y + b, x + a) => Same(u + y, v + x)
      OBVIOUS
    <3>2. Same(nodes' + m, nodes + n) /\ Same(Count(g) + n, Count(f) + m)
      BY <2>3, <2>12
    <3> HIDE DEF Same
    <3>3. NMmap \in Nat
      BY Layout
    <3>4. Same(nodes' + Count(g), nodes + Count(f))
      <4>1. nodes' \in Nat /\ nodes \in Nat /\ m \in Nat /\ n \in Nat
            /\ Count(f) \in Nat /\ Count(g) \in Nat
        BY <2>2, <2>3, <2>8, <2>11
      <4> QED
        BY <3>1, <3>2, <4>1, Zenon
    <3>5. nodes' + Count(g) = NMmap
      BY <2>3, <3>4 DEF Same
    <3> QED
      BY <2>2, <2>3, <2>11, <2>12, <3>3, <3>5
  <2> QED
    BY <2>13 DEF g, m
<1>8. InvLists'
  <2>1. \A q \in Procs : Sorted(mmap'[q])
    BY <1>2 DEF Fine
  <2>2. \A q \in Procs \ {p} : Len(mmap'[q]) <= NMmap
    BY <1>1 DEF IndInv, InvLists
  <2> QED
    BY <2>1, <2>2, <1>7 DEF InvLists
<1> QED
  BY <1>3, <1>4, <1>5, <1>6, <1>7, <1>8 DEF IndInv, InvCounts

\* A panic stops everything where it is.
LEMMA PanicKeeps ==
  ASSUME IndInv, UNCHANGED <<pvars, nodes, upool, kpool, tidy>>, panic' \in Messages
  PROVE  IndInv'
<1>1. InvTypes'
  BY DEF IndInv, InvTypes, pvars
<1>2. InvLists' /\ InvCounts'
  BY DEF IndInv, InvLists, InvCounts, pvars, Positions, Count
<1>3. InvLive'
  BY DEF IndInv, InvLive, Areas, pvars
<1> QED
  BY <1>1, <1>2, <1>3 DEF IndInv

----------------------------------------------------------------------------
(* vm_mappages and vm_unmappages *)

LEMMA TablesType ==
  /\ \A S : TablesFor(S) \subseteq Tables
  /\ NewTables \subseteq Tables /\ {"tf", "root"} \subseteq NewTables
<1>1. \A x : TablesTo(x) \subseteq Tables
  BY DEF TablesTo, Tables
<1>2. \A S : TablesFor(S) \subseteq Tables
  BY <1>1 DEF TablesFor
<1> QED
  BY <1>1, <1>2 DEF NewTables, Tables

\* What the mapping of pages does to a process and to the pools.
Mapped(p, pages) ==
  /\ map' = [map EXCEPT ![p] = map'[p]] /\ map'[p] = map[p] \union pages
  /\ nouser' = [nouser EXCEPT ![p] = nouser'[p]] /\ nouser'[p] \in SUBSET map'[p]
  /\ tables' = [tables EXCEPT ![p] = tables'[p]]
  /\ tables'[p] \in SUBSET Tables /\ tables[p] \subseteq tables'[p]
  /\ upool' \in Nat /\ kpool' \in Nat
  /\ upool' + Cardinality(map'[p]) <= upool + Cardinality(map[p])
  /\ pages \intersect map[p] = {} =>
       upool' + Cardinality(map'[p]) = upool + Cardinality(map[p])
  /\ kpool' + Cardinality(tables'[p]) <= kpool + Cardinality(tables[p])

\* New pages: what the table gains the pools lose, and more only if an entry was valid.
LEMMA MapBalance ==
  ASSUME IndInv, NEW p \in Procs, NEW pages \in SUBSET Pages, NEW user \in BOOLEAN,
         NoPages(p, pages) = {}, MapPages(p, pages, user)
  PROVE  Mapped(p, pages)
<1> DEFINE T == TablesFor(pages)
           c == Cardinality(pages)
           d == Cardinality(T \ tables[p])
           m == Cardinality(map[p])
           t == Cardinality(tables[p])
<1>1. /\ map \in [Procs -> SUBSET Pages] /\ tables \in [Procs -> SUBSET Tables]
      /\ upool \in Nat /\ kpool \in Nat /\ T \in SUBSET Tables
  BY TablesType DEF IndInv, InvTypes
<1>2. /\ c \in Nat /\ d \in Nat /\ m \in Nat /\ t \in Nat
      /\ IsFiniteSet(pages) /\ IsFiniteSet(T \ tables[p]) /\ IsFiniteSet(map[p])
      /\ IsFiniteSet(tables[p])
  BY <1>1, FiniteSets
<1>3. /\ map' = [map EXCEPT ![p] = map'[p]] /\ map'[p] = map[p] \union pages
      /\ tables' = [tables EXCEPT ![p] = tables'[p]] /\ tables'[p] = tables[p] \union T
      /\ upool' = upool - c /\ kpool' = kpool - d
  BY <1>1 DEF MapPages
<1>4. /\ "user pages" \notin NoPages(p, pages)
      /\ "kernel pages" \notin NoPages(p, pages)
  OBVIOUS
<1>5. ~ (c > upool) /\ ~ (d > kpool)
  BY <1>4 DEF NoPages
<1>6. /\ Cardinality(map'[p]) \in Nat /\ Cardinality(map'[p]) <= m + c
      /\ pages \intersect map[p] = {} => Cardinality(map'[p]) = m + c
  <2>1. Cardinality(map[p] \union pages) = m + c - Cardinality(map[p] \intersect pages)
    BY <1>2, FS_Union
  <2>2. Cardinality(map[p] \intersect pages) \in Nat
    BY <1>2, FS_Intersection, FS_CardinalityType
  <2>3. pages \intersect map[p] = {} => Cardinality(map[p] \intersect pages) = 0
    <3>1. map[p] \intersect pages = pages \intersect map[p]
      OBVIOUS
    <3> QED
      BY <3>1, FS_EmptySet
  <2>4. Cardinality(map[p] \union pages) \in Nat
    BY <1>2, FS_Union, FS_CardinalityType
  <2> DEFINE k == Cardinality(map[p] \intersect pages)
  <2> HIDE DEF m, c, k
  <2>5. \A x, y, z \in Nat : x + y - z <= x + y /\ (z = 0 => x + y - z = x + y)
    OBVIOUS
  <2>6. m + c - k <= m + c /\ (k = 0 => m + c - k = m + c)
    BY <1>2, <2>2, <2>5 DEF k
  <2>7. Cardinality(map[p] \union pages) = m + c - k
    BY <2>1 DEF k
  <2>8. pages \intersect map[p] = {} => k = 0
    BY <2>3 DEF k
  <2> QED
    BY <1>3, <2>4, <2>6, <2>7, <2>8
<1>7. Cardinality(tables'[p]) = t + d
  <2> DEFINE D == T \ tables[p]
  <2>1. Cardinality(tables[p] \union D) = t + d - Cardinality(tables[p] \intersect D)
    BY <1>2, FS_Union
  <2>2. tables[p] \intersect D = {} /\ tables[p] \union D = tables[p] \union T
    OBVIOUS
  <2>3. Cardinality(tables[p] \intersect D) = 0
    BY <2>2, FS_EmptySet
  <2>4. tables'[p] = tables[p] \union D
    BY <1>3, <2>2
  <2> HIDE DEF t, d, D
  <2>5. t + d - 0 = t + d
    BY <1>2
  <2> QED
    BY <2>1, <2>3, <2>4, <2>5, Zenon
<1>8. tables'[p] \in SUBSET Tables /\ tables[p] \subseteq tables'[p]
  BY <1>1, <1>3
<1>15. nouser' = [nouser EXCEPT ![p] = nouser'[p]] /\ nouser'[p] \in SUBSET map'[p]
  <2>1. nouser \in [Procs -> SUBSET Pages] /\ nouser[p] \subseteq map[p]
    BY DEF IndInv, InvTypes, InvLive
  <2>2. nouser'[p] = IF user THEN nouser[p] \ pages ELSE nouser[p] \union pages
    BY <2>1 DEF MapPages
  <2>3. nouser' = [nouser EXCEPT ![p] = nouser'[p]]
    BY <2>1, <2>2 DEF MapPages
  <2>4. nouser'[p] \in SUBSET map'[p]
    BY <1>3, <2>1, <2>2
  <2> QED
    BY <2>3, <2>4
<1> HIDE DEF T, c, d, m, t
<1>9. \A u, x, y \in Nat : ~ (x > u) => u - x \in Nat /\ (u - x) + (y + x) = u + y
                                       /\ (u - x) + (y + x) <= u + y
  OBVIOUS
<1>10. upool - c \in Nat /\ (upool - c) + (m + c) = upool + m
  BY <1>1, <1>2, <1>5, <1>9
<1>11. kpool - d \in Nat /\ (kpool - d) + (t + d) <= kpool + t
  BY <1>1, <1>2, <1>5, <1>9
<1>12. upool' \in Nat /\ kpool' \in Nat
  BY <1>3, <1>10, <1>11
<1>13. /\ upool' + Cardinality(map'[p]) <= upool + Cardinality(map[p])
       /\ pages \intersect map[p] = {} =>
            upool' + Cardinality(map'[p]) = upool + Cardinality(map[p])
  <2>1. \A u, x, y, z \in Nat : z <= y /\ u + y = x => u + z <= x
    OBVIOUS
  <2>2. upool' + (m + c) = upool + m /\ m + c \in Nat /\ upool + m \in Nat
    BY <1>1, <1>2, <1>3, <1>10
  <2>3. upool' + Cardinality(map'[p]) <= upool + m
    BY <1>6, <1>12, <2>1, <2>2, Zenon
  <2>4. pages \intersect map[p] = {} => upool' + Cardinality(map'[p]) = upool + m
    BY <1>6, <2>2, Zenon
  <2> QED
    BY <2>3, <2>4 DEF m
<1>14. kpool' + Cardinality(tables'[p]) <= kpool + Cardinality(tables[p])
  BY <1>3, <1>7, <1>11, Zenon DEF t
<1> QED
  BY <1>3, <1>8, <1>12, <1>13, <1>14, <1>15 DEF Mapped

\* What is unmapped goes back to its pool.
LEMMA UnmapBalance ==
  ASSUME IndInv, NEW p \in Procs, NEW pages, UnmapPages(p, pages)
  PROVE  /\ map' = [map EXCEPT ![p] = map'[p]] /\ map'[p] = map[p] \ pages
         /\ nouser' = [nouser EXCEPT ![p] = nouser'[p]] /\ nouser'[p] \in SUBSET map'[p]
         /\ upool' \in Nat /\ tables' = tables /\ kpool' = kpool /\ tidy' = tidy
         /\ upool' + Cardinality(map'[p]) = upool + Cardinality(map[p])
<1> DEFINE m == Cardinality(map[p])
           c == Cardinality(pages \intersect map[p])
<1>1. map \in [Procs -> SUBSET Pages] /\ upool \in Nat
  BY DEF IndInv, InvTypes
<1>2. /\ IsFiniteSet(map[p]) /\ m \in Nat /\ c \in Nat
  <2>1. map[p] \in SUBSET Pages /\ pages \intersect map[p] \in SUBSET Pages
    BY <1>1
  <2> QED
    BY <2>1, FiniteSets
<1>3. /\ map' = [map EXCEPT ![p] = map'[p]] /\ map'[p] = map[p] \ pages
      /\ upool' = upool + c /\ tables' = tables /\ kpool' = kpool /\ tidy' = tidy
  BY <1>1 DEF UnmapPages
<1>4. Cardinality(map[p] \ pages) = m - c /\ c <= m
  <2>1. pages \intersect map[p] = map[p] \intersect pages
    OBVIOUS
  <2>2. Cardinality(map[p] \ pages) = Cardinality(map[p]) - Cardinality(map[p] \intersect pages)
    BY <1>2, FS_Difference
  <2>3. Cardinality(map[p] \intersect pages) <= Cardinality(map[p])
    BY <1>2, FS_Intersection
  <2> QED
    BY <2>1, <2>2, <2>3
<1> HIDE DEF m, c
<1>5. \A u, x, y \in Nat : x <= y => u + x \in Nat /\ (u + x) + (y - x) = u + y
  OBVIOUS
<1>6. upool + c \in Nat /\ (upool + c) + (m - c) = upool + m
  BY <1>1, <1>2, <1>4, <1>5
<1>7. upool' + Cardinality(map'[p]) = upool + Cardinality(map[p])
  BY <1>3, <1>4, <1>6, Zenon DEF m
<1>8. nouser' = [nouser EXCEPT ![p] = nouser'[p]] /\ nouser'[p] \in SUBSET map'[p]
  <2>1. nouser \in [Procs -> SUBSET Pages] /\ nouser[p] \subseteq map[p]
    BY DEF IndInv, InvTypes, InvLive
  <2>2. nouser'[p] = nouser[p] \ pages /\ nouser' = [nouser EXCEPT ![p] = nouser'[p]]
    BY <2>1 DEF UnmapPages
  <2> QED
    BY <1>3, <2>1, <2>2
<1> QED
  BY <1>3, <1>6, <1>7, <1>8

----------------------------------------------------------------------------
(* The operations *)

LEMMA PanicStep ==
  ASSUME IndInv, NEW m \in Messages, Panic(m)
  PROVE  IndInv'
<1>1. UNCHANGED <<pvars, nodes, upool, kpool, tidy>> /\ panic' \in Messages
  BY DEF Panic
<1> QED
  BY <1>1, PanicKeeps

LEMMA BadPages ==
  \A p, pages : NoPages(p, pages) \subseteq Messages
BY DEF NoPages, Messages

\* Pages outside the areas of a process are not in its page table.
LEMMA FreshPages ==
  ASSUME IndInv, NEW p \in Procs, live[p], tidy, NEW pages,
         \A x \in pages : x \notin AreaOf(heap[p], ustack[p], mmap[p])
  PROVE  pages \intersect map[p] = {}
<1>1. map[p] \subseteq AreaOf(heap[p], ustack[p], mmap[p])
  BY FineFrom DEF Fine, Kept
<1> QED
  BY <1>1

LEMMA FineNext ==
  ASSUME NEW p \in Procs, live'[p] \in BOOLEAN, live'[p],
         map'[p] \in SUBSET Pages, nouser'[p] \in SUBSET map'[p], tables'[p] \in SUBSET Tables,
         heap'[p] \in 0 .. (MMAP_END + 1) * PG, ustack'[p] \in 0 .. TRAPFRAME - MMAP_END,
         Sorted(mmap'[p]), {"tf", "root"} \subseteq tables'[p], tidy' => Kept(p)'
  PROVE  Fine(p)'
BY Zenon DEF Fine

LEMMA BrkKeeps ==
  ASSUME IndInv, NEW p \in Procs, NEW addr \in PG .. MaxBrk * PG, Brk(p, addr)
  PROVE  IndInv'
<1> USE DEF USER_BASE
<1> DEFINE old == heap[p]
           grown == old + ((addr - old) % LenLimit)
           shrunk == old - ((old - addr) % LenLimit)
           fresh == Grow(old, grown)
           s == ustack[p]
           l == mmap[p]
<1>1. live[p] /\ Fine(p) /\ panic \in Messages /\ nodes \in Nat /\ kpool \in Nat
      /\ tidy \in BOOLEAN
  BY FineFrom DEF Brk, Running, IndInv, InvTypes
<1>2. /\ old \in 0 .. (MMAP_END + 1) * PG /\ s \in 0 .. TRAPFRAME - MMAP_END /\ Sorted(l)
      /\ map[p] \in SUBSET Pages /\ nouser[p] \in SUBSET map[p]
      /\ tables[p] \in SUBSET Tables /\ {"tf", "root"} \subseteq tables[p]
      /\ tidy => 2 * PG <= old /\ old <= MMAP_BEGIN * PG /\ map[p] \subseteq AreaOf(old, s, l)
  BY <1>1 DEF Fine, Kept
<1>3. /\ old \in Nat /\ addr \in Nat /\ MaxBrk * PG \in Nat /\ addr <= MaxBrk * PG
      /\ MaxBrk * PG <= MMAP_BEGIN * PG /\ MMAP_BEGIN * PG <= (MMAP_END + 1) * PG
      /\ MMAP_BEGIN * PG \in Nat /\ (MMAP_END + 1) * PG \in Nat /\ old <= (MMAP_END + 1) * PG
  <2>1. MaxBrk * PG \in Nat /\ (MMAP_END + 1) * PG \in Nat /\ MMAP_BEGIN * PG \in Nat
    BY Layout
  <2>2. MaxBrk * PG <= MMAP_BEGIN * PG
    BY Layout, Times
  <2>3. MMAP_BEGIN * PG <= (MMAP_END + 1) * PG
    BY Layout, Times
  <2> QED
    BY <1>2, <2>1, <2>2, <2>3, Layout
<1>4. \A x \in Pages : x \in Nat /\ x * PG \in Nat
  BY Layout DEF Pages
<1>5. CASE addr > old /\ \E m \in NoPages(p, fresh) : Panic(m)
  BY <1>5, BadPages, PanicStep
<1>6. CASE /\ addr > old /\ NoPages(p, fresh) = {}
           /\ MapPages(p, fresh, TRUE) /\ heap' = [heap EXCEPT ![p] = grown]
           /\ UNCHANGED <<live, mmap, ustack, nodes, tidy, panic>>
  <2>1. /\ grown \in Nat /\ old <= grown /\ grown <= addr
        /\ grown \in 0 .. (MMAP_END + 1) * PG /\ grown <= MMAP_BEGIN * PG
    <3> DEFINE a == addr - old
               r == a % LenLimit
    <3>1. a \in Nat /\ old + a = addr
      BY <1>3, <1>6
    <3> HIDE DEF a
    <3>2. r \in Nat /\ r <= a
      BY <3>1, Layout, Truncated
    <3>3. grown = old + r
      BY DEF a
    <3> HIDE DEF r, grown
    <3> QED
      BY <1>3, <3>1, <3>2, <3>3
  <2>2. fresh \in SUBSET Pages /\ \A x \in fresh : x >= Up(old) /\ x * PG < grown
    BY DEF Grow
  <2> HIDE DEF fresh, grown, old, s, l
  <2>3. /\ map' = [map EXCEPT ![p] = map'[p]] /\ map'[p] = map[p] \union fresh
        /\ nouser' = [nouser EXCEPT ![p] = nouser'[p]] /\ nouser'[p] \in SUBSET map'[p]
        /\ tables' = [tables EXCEPT ![p] = tables'[p]]
        /\ tables'[p] \in SUBSET Tables /\ tables[p] \subseteq tables'[p]
        /\ upool' \in Nat /\ kpool' \in Nat
        /\ upool' + Cardinality(map'[p]) <= upool + Cardinality(map[p])
        /\ fresh \intersect map[p] = {} =>
             upool' + Cardinality(map'[p]) = upool + Cardinality(map[p])
        /\ kpool' + Cardinality(tables'[p]) <= kpool + Cardinality(tables[p])
    BY <1>6, <2>2, MapBalance DEF Mapped
  <2>4. /\ live' = live /\ mmap' = mmap /\ ustack' = ustack /\ nodes' = nodes /\ panic' = panic
        /\ heap' = [heap EXCEPT ![p] = heap'[p]] /\ heap'[p] = grown /\ tidy' = tidy
    BY <1>6 DEF IndInv, InvTypes
  <2>5. OneChanged(p)
    BY <2>3, <2>4 DEF OneChanged, IndInv, InvTypes
  <2>6. ASSUME tidy PROVE fresh \intersect map[p] = {} /\ Kept(p)'
    <3>1. \A x \in Pages :
            /\ x \in AreaOf(old, s, l) <=>
                 x = 1 \/ (2 <= x /\ x * PG < old) \/ TRAPFRAME - s <= x \/ x \in Covered(l)
            /\ x \in AreaOf(grown, s, l) <=>
                 x = 1 \/ (2 <= x /\ x * PG < grown) \/ TRAPFRAME - s <= x \/ x \in Covered(l)
      BY <1>2, <2>1, AreaItems
    <3>2. ASSUME NEW x \in fresh
          PROVE  x \in Pages /\ 2 <= x /\ x * PG < grown /\ x \notin AreaOf(old, s, l)
      <4>1. x \in Pages /\ x >= Up(old) /\ x * PG < grown /\ x \in Nat
        BY <2>2, <1>4
      <4>2. 1 * PG < old
        BY <2>6, <1>2, <1>3, Layout
      <4>3. 1 < Up(old) /\ Up(old) \in Nat
        BY <4>2, <1>3, Rounding
      <4>4. ~ (x * PG < old)
        BY <4>1, <4>3, <1>3, Rounding
      <4>5. x < MMAP_BEGIN
        BY <4>1, <2>1, HeapBelow
      <4>6. ~ (TRAPFRAME - s <= x)
        BY <4>1, <4>5, <1>2, Layout
      <4>7. x \notin Covered(l)
        BY <4>1, <4>5, <1>2, CoveredArea, Layout DEF Sorted
      <4>8. 2 <= x
        BY <4>1, <4>3
      <4> QED
        BY <4>1, <4>4, <4>6, <4>7, <4>8, <3>1
    <3>3. fresh \intersect map[p] = {}
      BY <2>6, <3>2, <1>1, FreshPages DEF old, s, l
    <3>4. ASSUME NEW x \in map'[p] PROVE x \in AreaOf(grown, s, l)
      <4>1. CASE x \in fresh
        BY <4>1, <3>1, <3>2
      <4>2. CASE x \in map[p]
        <5>1. x \in Pages /\ x \in AreaOf(old, s, l) /\ x * PG \in Nat
          BY <4>2, <2>6, <1>2, <1>4
        <5>2. x * PG < old => x * PG < grown
          BY <5>1, <1>3, <2>1
        <5> QED
          BY <5>1, <5>2, <3>1
      <4> QED
        BY <4>1, <4>2, <3>4, <2>3
    <3>5. 2 * PG <= grown
      BY <2>6, <1>2, <1>3, <2>1, Layout
    <3>6. Kept(p)'
      BY <2>1, <2>4, <3>4, <3>5 DEF Kept, s, l
    <3> QED
      BY <3>3, <3>6
  <2>7. Fine(p)'
    <3>1. map'[p] \in SUBSET Pages /\ {"tf", "root"} \subseteq tables'[p]
      BY <1>2, <2>2, <2>3
    <3>2. /\ live'[p] \in BOOLEAN /\ live'[p] /\ ustack'[p] = s /\ mmap'[p] = l
          /\ tidy' => Kept(p)'
      BY <1>1, <2>4, <2>6 DEF Fine, s, l
    <3> QED
      BY <1>2, <2>1, <2>3, <2>4, <3>1, <3>2, FineNext
  <2>8. Balanced(p)
    BY <1>1, <2>3, <2>4, <2>6 DEF Balanced
  <2> QED
    BY <2>5, <2>7, <2>8, ChangeOne
<1>7. CASE /\ addr < old /\ addr >= (USER_BASE + 1) * PG
           /\ UnmapPages(p, Ungrow(old, shrunk))
           /\ heap' = [heap EXCEPT ![p] = shrunk]
           /\ UNCHANGED <<live, mmap, ustack, nodes, panic>>
  <2>1. /\ shrunk \in Nat /\ addr <= shrunk /\ shrunk <= old
        /\ shrunk \in 0 .. (MMAP_END + 1) * PG
    <3> DEFINE a == old - addr
               r == a % LenLimit
    <3>1. a \in Nat /\ addr + a = old
      BY <1>3, <1>7
    <3> HIDE DEF a
    <3>2. r \in Nat /\ r <= a
      BY <3>1, Layout, Truncated
    <3>3. shrunk = old - r
      BY DEF a
    <3> HIDE DEF r, shrunk
    <3> QED
      BY <1>3, <3>1, <3>2, <3>3
  <2> HIDE DEF shrunk, old, s, l
  <2>2. /\ map' = [map EXCEPT ![p] = map'[p]] /\ map'[p] = map[p] \ Ungrow(old, shrunk)
        /\ nouser' = [nouser EXCEPT ![p] = nouser'[p]] /\ nouser'[p] \in SUBSET map'[p]
        /\ upool' \in Nat /\ tables' = tables /\ kpool' = kpool /\ tidy' = tidy
        /\ upool' + Cardinality(map'[p]) = upool + Cardinality(map[p])
    BY <1>7, UnmapBalance
  <2>3. /\ live' = live /\ mmap' = mmap /\ ustack' = ustack /\ nodes' = nodes /\ panic' = panic
        /\ heap' = [heap EXCEPT ![p] = heap'[p]] /\ heap'[p] = shrunk
    BY <1>7 DEF IndInv, InvTypes
  <2>4. OneChanged(p)
    BY <2>2, <2>3 DEF OneChanged, IndInv, InvTypes
  <2>5. \A x \in Nat : 2 <= x /\ ~ (x * PG < shrunk) /\ x * PG < old => x \in Ungrow(old, shrunk)
    <3>1. \A x \in Nat : /\ x * PG < old <=> x < Up(old)
                         /\ x * PG < shrunk <=> x < Up(shrunk)
                         /\ Up(old) \in Nat /\ Up(shrunk) \in Nat
      BY <1>3, <2>1, Rounding
    <3>2. Up(old) \in Nat /\ Up(shrunk) \in Nat
      BY <1>3, <2>1, Rounding
    <3>3. Max({Up(shrunk), 2}) = IF Up(shrunk) >= 2 THEN Up(shrunk) ELSE 2
      BY <3>2, MaxOfTwo
    <3>4. Ungrow(old, shrunk) = Max({Up(shrunk), 2}) .. Up(old) - 1
      BY DEF Ungrow
    <3>5. \A x \in Nat : 2 <= x /\ ~ (x < Up(shrunk)) /\ x < Up(old) => x \in Ungrow(old, shrunk)
      BY <3>2, <3>3, <3>4
    <3> QED
      BY <3>1, <3>5
  <2>6. ASSUME tidy PROVE Kept(p)'
    <3>1. \A x \in Pages :
            /\ x \in AreaOf(old, s, l) <=>
                 x = 1 \/ (2 <= x /\ x * PG < old) \/ TRAPFRAME - s <= x \/ x \in Covered(l)
            /\ x \in AreaOf(shrunk, s, l) <=>
                 x = 1 \/ (2 <= x /\ x * PG < shrunk) \/ TRAPFRAME - s <= x \/ x \in Covered(l)
      BY <1>2, <2>1, AreaItems
    <3>2. ASSUME NEW x \in map'[p] PROVE x \in AreaOf(shrunk, s, l)
      <4>1. x \in map[p] /\ x \notin Ungrow(old, shrunk)
        BY <3>2, <2>2
      <4>2. x \in Pages /\ x \in AreaOf(old, s, l) /\ x \in Nat
        BY <4>1, <2>6, <1>2, <1>4
      <4>3. 2 <= x /\ x * PG < old => x * PG < shrunk
        BY <4>1, <4>2, <2>5
      <4> QED
        BY <4>2, <4>3, <3>1
    <3>3. 2 * PG <= shrunk /\ shrunk <= MMAP_BEGIN * PG
      <4>1. 2 * PG <= addr /\ 2 * PG \in Nat
        BY <1>7, Layout
      <4> QED
        BY <4>1, <2>6, <1>2, <1>3, <2>1
    <3> QED
      BY <2>3, <3>2, <3>3 DEF Kept, s, l
  <2>7. Fine(p)'
    <3>1. map'[p] \in SUBSET Pages /\ {"tf", "root"} \subseteq tables'[p]
      BY <1>2, <2>2
    <3>2. /\ live'[p] \in BOOLEAN /\ live'[p] /\ ustack'[p] = s /\ mmap'[p] = l
          /\ tidy' => Kept(p)' /\ tables'[p] \in SUBSET Tables
      BY <1>1, <1>2, <2>2, <2>3, <2>6 DEF Fine, s, l
    <3> QED
      BY <1>2, <2>1, <2>2, <2>3, <3>1, <3>2, FineNext
  <2>8. Balanced(p)
    <3>1. kpool' + Cardinality(tables'[p]) <= kpool + Cardinality(tables[p])
      <4>1. Cardinality(tables[p]) \in Nat
        BY <1>2, FiniteSets
      <4>2. kpool + Cardinality(tables[p]) <= kpool + Cardinality(tables[p])
        BY <1>1, <4>1
      <4> QED
        BY <2>2, <4>2
    <3>2. upool' + Cardinality(map'[p]) <= upool + Cardinality(map[p])
      <4>1. Cardinality(map'[p]) \in Nat
        BY <1>2, <2>2, FiniteSets
      <4>2. upool' + Cardinality(map'[p]) <= upool' + Cardinality(map'[p])
        BY <2>2, <4>1
      <4> QED
        BY <2>2, <4>2
    <3> QED
      BY <1>1, <2>2, <2>3, <3>1, <3>2 DEF Balanced
  <2> QED
    BY <2>4, <2>7, <2>8, ChangeOne
<1> QED
  BY <1>5, <1>6, <1>7 DEF Brk

LEMMA StackFaultKeeps ==
  ASSUME IndInv, NEW p \in Procs, NEW page \in Pages, StackFault(p, page)
  PROVE  IndInv'
<1> DEFINE bottom == TRAPFRAME - ustack[p]
           fresh == page .. bottom - 1
           h == heap[p]
           s == ustack[p]
           l == mmap[p]
<1>1. live[p] /\ Fine(p) /\ panic \in Messages /\ nodes \in Nat /\ tidy \in BOOLEAN
  BY FineFrom DEF StackFault, Running, IndInv, InvTypes
<1>2. /\ h \in 0 .. (MMAP_END + 1) * PG /\ s \in 0 .. TRAPFRAME - MMAP_END /\ Sorted(l)
      /\ map[p] \in SUBSET Pages /\ nouser[p] \in SUBSET map[p]
      /\ tables[p] \in SUBSET Tables /\ {"tf", "root"} \subseteq tables[p]
      /\ tidy => 2 * PG <= h /\ h <= MMAP_BEGIN * PG /\ map[p] \subseteq AreaOf(h, s, l)
  BY <1>1 DEF Fine, Kept
<1>3. page \in MMAP_END .. TRAPFRAME - 1
  BY DEF StackFault
<1>4. CASE UNCHANGED vars
  BY <1>1, <1>4, PanicKeeps DEF vars
<1>5. CASE \E m \in NoPages(p, fresh) : Panic(m)
  BY <1>5, BadPages, PanicStep
<1>6. CASE /\ page < bottom /\ NoPages(p, fresh) = {} /\ MapPages(p, fresh, TRUE)
           /\ ustack' = [ustack EXCEPT ![p] = TRAPFRAME - page]
           /\ UNCHANGED <<live, mmap, heap, nodes, tidy, panic>>
  <2> DEFINE t == TRAPFRAME - page
  <2>1. t \in 0 .. TRAPFRAME - MMAP_END /\ TRAPFRAME - t = page /\ s \in Nat /\ page \in Nat
    BY <1>2, <1>3, Layout
  <2> HIDE DEF t
  <2>2. \A x \in Pages : /\ x \in Nat
                         /\ x \in AreaOf(h, s, l) <=>
                              \/ x = 1
                              \/ 2 <= x /\ x * PG < h
                              \/ TRAPFRAME - s <= x
                              \/ x \in Covered(l)
                         /\ x \in AreaOf(h, t, l) <=>
                              \/ x = 1
                              \/ 2 <= x /\ x * PG < h
                              \/ TRAPFRAME - t <= x
                              \/ x \in Covered(l)
    <3>1. \A x \in Pages : x \in Nat
      BY Layout DEF Pages, USER_BASE
    <3> QED
      BY <1>2, <2>1, <3>1, AreaItems
  <2>3. ASSUME NEW x \in fresh
        PROVE  /\ x \in Pages /\ x \in Nat /\ MMAP_END <= x /\ x < TRAPFRAME - s
               /\ x \in AreaOf(h, t, l)
    <3>1. x \in Nat /\ MMAP_END <= x /\ page <= x /\ x < TRAPFRAME - s
      BY <2>3, <1>2, <1>3, Layout
    <3>2. x \in Pages
      BY <3>1, <2>1, <1>2, Layout DEF Pages
    <3> QED
      BY <3>1, <3>2, <2>1, <2>2
  <2>4. fresh \in SUBSET Pages
    BY <2>3
  <2>5. /\ map' = [map EXCEPT ![p] = map'[p]] /\ map'[p] = map[p] \union fresh
        /\ nouser' = [nouser EXCEPT ![p] = nouser'[p]] /\ nouser'[p] \in SUBSET map'[p]
        /\ tables' = [tables EXCEPT ![p] = tables'[p]]
        /\ tables'[p] \in SUBSET Tables /\ tables[p] \subseteq tables'[p]
        /\ upool' \in Nat /\ kpool' \in Nat
        /\ upool' + Cardinality(map'[p]) <= upool + Cardinality(map[p])
        /\ fresh \intersect map[p] = {} =>
             upool' + Cardinality(map'[p]) = upool + Cardinality(map[p])
        /\ kpool' + Cardinality(tables'[p]) <= kpool + Cardinality(tables[p])
    BY <1>6, <2>4, MapBalance DEF Mapped
  <2>6. /\ live' = live /\ mmap' = mmap /\ heap' = heap /\ nodes' = nodes /\ panic' = panic
        /\ tidy' = tidy
        /\ ustack' = [ustack EXCEPT ![p] = ustack'[p]] /\ ustack'[p] = t
    BY <1>6 DEF IndInv, InvTypes, t
  <2>7. OneChanged(p)
    BY <2>5, <2>6 DEF OneChanged, IndInv, InvTypes
  <2>8. ASSUME tidy PROVE fresh \intersect map[p] = {} /\ Kept(p)'
    <3>1. ASSUME NEW x \in fresh PROVE x \notin AreaOf(h, s, l)
      <4>1. x \notin Covered(l)
        BY <2>3, <1>2, CoveredArea, Layout DEF Sorted
      <4>2. ~ (x = 1) /\ ~ (TRAPFRAME - s <= x) /\ ~ (x < MMAP_BEGIN)
        BY <2>1, <2>3, Layout
      <4>3. ~ (x * PG < h)
        BY <4>2, <2>3, <2>8, <1>2, HeapBelow, Layout
      <4> QED
        BY <4>1, <4>2, <4>3, <2>2, <2>3
    <3>2. fresh \intersect map[p] = {}
      BY <2>8, <3>1, <1>1, FreshPages
    <3>3. ASSUME NEW x \in map[p] PROVE x \in AreaOf(h, t, l)
      <4>1. x \in Pages /\ x \in AreaOf(h, s, l) /\ x \in Nat
        BY <2>8, <1>2, <2>2
      <4>2. TRAPFRAME - s <= x => TRAPFRAME - t <= x
        BY <4>1, <1>6, <2>1, Layout
      <4> QED
        BY <4>1, <4>2, <2>2
    <3>4. map'[p] \subseteq AreaOf(h, t, l)
      BY <3>3, <2>3, <2>5
    <3> QED
      BY <2>6, <2>8, <1>2, <3>2, <3>4 DEF Kept
  <2>9. Fine(p)'
    <3>1. map'[p] \in SUBSET Pages /\ {"tf", "root"} \subseteq tables'[p]
      BY <1>2, <2>4, <2>5
    <3>2. /\ live'[p] \in BOOLEAN /\ live'[p] /\ (tidy' => Kept(p)')
          /\ heap'[p] = h /\ mmap'[p] = l
      BY <1>1, <2>6, <2>8 DEF Fine
    <3> HIDE DEF h, l
    <3> QED
      BY <1>2, <2>1, <2>5, <2>6, <3>1, <3>2, FineNext
  <2>10. Balanced(p)
    BY <1>1, <2>5, <2>6, <2>8 DEF Balanced
  <2> QED
    BY <2>7, <2>9, <2>10, ChangeOne
<1> QED
  BY <1>4, <1>5, <1>6 DEF StackFault

\* A list changes its length and the pool of nodes makes up for it.
LEMMA NodeBalance ==
  ASSUME NEW n \in Nat, NEW k \in Nat, NEW m \in Nat, k + n >= m
  PROVE  k + n - m \in Nat /\ (k + n - m) + m = k + n
OBVIOUS

LEMMA MmapKeeps ==
  ASSUME IndInv, NEW p \in Procs, NEW start \in Starts, NEW n \in 0 .. MaxLen,
         NEW user \in BOOLEAN, Mmap(p, start, n, user)
  PROVE  IndInv'
<1> DEFINE list == mmap[p]
           i == IF start = 0 THEN FindFree(list, n) ELSE Before(list, start)
           addr == IF start = 0 /\ i <= Len(list) THEN Candidate(list, i) ELSE start
           fresh == addr .. addr + n - 1
           bad == IF \/ start = 0 /\ i > Len(list)
                     \/ start # 0 /\ (start < MMAP_BEGIN \/ start + n > MMAP_END)
                  THEN {"uvm_mmap"}
                  ELSE IF start # 0 /\ Overlaps(list, start, n) THEN {"overlap"}
                  ELSE NoNodes(1) \union NoPages(p, fresh)
           r == [begin |-> addr, npages |-> n]
           new == Insert(list, i, r)
           h == heap[p]
           s == ustack[p]
<1>1. live[p] /\ Fine(p) /\ panic \in Messages /\ nodes \in Nat /\ tidy \in BOOLEAN
  BY FineFrom DEF Mmap, Running, IndInv, InvTypes
<1>2. /\ h \in 0 .. (MMAP_END + 1) * PG /\ s \in 0 .. TRAPFRAME - MMAP_END /\ Sorted(list)
      /\ map[p] \in SUBSET Pages /\ nouser[p] \in SUBSET map[p]
      /\ tables[p] \in SUBSET Tables /\ {"tf", "root"} \subseteq tables[p]
      /\ tidy => 2 * PG <= h /\ h <= MMAP_BEGIN * PG /\ map[p] \subseteq AreaOf(h, s, list)
  BY <1>1 DEF Fine, Kept
<1>3. start \in Nat /\ n \in Nat /\ (start # 0 => MMAP_BEGIN <= start)
  BY LayoutAssumption DEF Starts
<1>4. \/ \E m \in bad : Panic(m)
      \/ /\ bad = {}
         /\ mmap' = [mmap EXCEPT ![p] = new]
         /\ nodes' = nodes + Len(list) - Len(mmap'[p])
         /\ MapPages(p, fresh, user)
         /\ UNCHANGED <<live, heap, ustack, tidy, panic>>
  BY DEF Mmap
<1>5. CASE \E m \in bad : Panic(m)
  <2>1. bad \subseteq Messages
    BY BadPages DEF NoNodes, Messages
  <2> QED
    BY <1>5, <2>1, PanicStep
<1>6. CASE /\ bad = {}
           /\ mmap' = [mmap EXCEPT ![p] = new]
           /\ nodes' = nodes + Len(list) - Len(mmap'[p])
           /\ MapPages(p, fresh, user)
           /\ UNCHANGED <<live, heap, ustack, tidy, panic>>
  <2>1. /\ ~ (start = 0 /\ i > Len(list))
        /\ ~ (start # 0 /\ (start < MMAP_BEGIN \/ start + n > MMAP_END))
        /\ ~ (start # 0 /\ Overlaps(list, start, n))
        /\ NoNodes(1) = {} /\ NoPages(p, fresh) = {}
    BY <1>6
  <2>2. 1 <= nodes
    BY <1>1, <2>1 DEF NoNodes
  <2>3. Fits(list, i, r)
    <3>1. CASE start = 0
      <4>1. Len(list) \in Nat /\ FindFree(list, n) \in Nat
        <5>1. Len(list) \in Nat
          BY <1>2 DEF Sorted, Near
        <5> DEFINE S == {Len(list) + 1} \union
                        {k \in 0 .. Len(list) :
                           Candidate(list, k) + n <= IF k < Len(list) THEN list[k + 1].begin
                                                                      ELSE MMAP_END}
        <5>2. S \in SUBSET Nat /\ S # {}
          BY <5>1
        <5>3. FindFree(list, n) = Min(S)
          BY DEF FindFree
        <5> HIDE DEF S
        <5> QED
          BY <5>1, <5>2, <5>3, MinNat
      <4>2. i = FindFree(list, n)
        BY <3>1
      <4>3. FindFree(list, n) <= Len(list)
        BY <2>1, <3>1, <4>1, <4>2
      <4>4. addr = Candidate(list, FindFree(list, n))
        BY <3>1, <4>2, <4>3
      <4> QED
        BY <1>2, <1>3, <4>2, <4>3, <4>4, FreeFits
    <3>2. CASE start # 0
      <4>1. i = Before(list, start) /\ addr = start /\ ~ Overlaps(list, start, n)
        BY <3>2, <2>1
      <4>2. MMAP_BEGIN <= start /\ start + n <= MMAP_END
        BY <3>2, <2>1, <1>3, Layout
      <4> QED
        BY <1>2, <1>3, <4>1, <4>2, PlaceFits
    <3> QED
      BY <3>1, <3>2
  <2>4. fresh = PagesOf(r)
    <3>1. r.begin = addr /\ r.npages = n
      OBVIOUS
    <3> HIDE DEF r, addr
    <3>2. End(r) = addr + n
      BY <3>1, Zenon DEF End
    <3>3. PagesOf(r) = addr .. (addr + n) - 1
      BY <3>1, <3>2, Zenon DEF PagesOf
    <3>4. r.begin \in Nat
      <4>1. r.begin \in MMAP_BEGIN .. MMAP_END
        BY <2>3 DEF Fits, Regions
      <4> QED
        BY <4>1, Layout
    <3>5. (addr + n) - 1 = addr + n - 1
      BY <3>1, <3>4, <1>3
    <3> QED
      BY <3>3, <3>5
  <2> HIDE DEF i, addr, fresh, r, bad
  <2>5. /\ Sorted(new) /\ Len(new) <= Len(list) + 1
        /\ Covered(new) = Covered(list) \union PagesOf(r)
    BY <1>2, <2>3, InsertKeeps
  <2> HIDE DEF new
  <2>6. \A x \in Pages : /\ x \in AreaOf(h, s, list) <=>
                              \/ x = 1
                              \/ 2 <= x /\ x * PG < h
                              \/ TRAPFRAME - s <= x
                              \/ x \in Covered(list)
                         /\ x \in AreaOf(h, s, new) <=>
                              \/ x = 1
                              \/ 2 <= x /\ x * PG < h
                              \/ TRAPFRAME - s <= x
                              \/ x \in Covered(new)
    BY <1>2, <2>5, AreaItems
  <2>7. ASSUME NEW x \in fresh
        PROVE  x \in Pages /\ x \in Nat /\ MMAP_BEGIN <= x /\ x < MMAP_END
    <3>1. x \in Nat /\ MMAP_BEGIN <= x /\ x < MMAP_END
      <4>1. x \in Covered(new)
        BY <2>4, <2>5
      <4> QED
        BY <4>1, <2>5, CoveredArea DEF Sorted
    <3> QED
      BY <3>1, Layout DEF Pages
  <2>8. fresh \in SUBSET Pages
    BY <2>7
  <2>9. /\ map' = [map EXCEPT ![p] = map'[p]] /\ map'[p] = map[p] \union fresh
        /\ nouser' = [nouser EXCEPT ![p] = nouser'[p]] /\ nouser'[p] \in SUBSET map'[p]
        /\ tables' = [tables EXCEPT ![p] = tables'[p]]
        /\ tables'[p] \in SUBSET Tables /\ tables[p] \subseteq tables'[p]
        /\ upool' \in Nat /\ kpool' \in Nat
        /\ upool' + Cardinality(map'[p]) <= upool + Cardinality(map[p])
        /\ fresh \intersect map[p] = {} =>
             upool' + Cardinality(map'[p]) = upool + Cardinality(map[p])
        /\ kpool' + Cardinality(tables'[p]) <= kpool + Cardinality(tables[p])
    <3>1. MapPages(p, fresh, user) /\ NoPages(p, fresh) = {}
      BY <1>6, <2>1
    <3>2. Mapped(p, fresh)
      BY <2>8, <3>1, MapBalance, Zenon
    <3> QED
      BY <3>2, Zenon DEF Mapped
  <2>10. /\ live' = live /\ heap' = heap /\ ustack' = ustack /\ panic' = panic
         /\ tidy' = tidy
         /\ mmap' = [mmap EXCEPT ![p] = mmap'[p]] /\ mmap'[p] = new
         /\ nodes' = nodes + Len(list) - Len(new)
    BY <1>6 DEF IndInv, InvTypes
  <2>11. OneChanged(p)
    BY <2>9, <2>10 DEF OneChanged, IndInv, InvTypes
  <2>12. ASSUME tidy PROVE fresh \intersect map[p] = {} /\ Kept(p)'
    <3>1. ASSUME NEW x \in fresh PROVE x \notin AreaOf(h, s, list)
      <4>1. x \notin Covered(list)
        BY <3>1, <1>2, <2>3, <2>4, FitsApart
      <4>2. ~ (x = 1) /\ ~ (TRAPFRAME - s <= x) /\ ~ (x < MMAP_BEGIN)
        BY <2>7, <1>2, Layout
      <4>3. ~ (x * PG < h)
        BY <4>2, <2>7, <2>12, <1>2, HeapBelow, Layout
      <4> QED
        BY <4>1, <4>2, <4>3, <2>6, <2>7
    <3>2. fresh \intersect map[p] = {}
      BY <2>12, <3>1, <1>1, FreshPages
    <3>3. ASSUME NEW x \in map[p] PROVE x \in AreaOf(h, s, new)
      <4>1. x \in Pages /\ x \in AreaOf(h, s, list)
        BY <2>12, <1>2
      <4>2. x \in Covered(list) => x \in Covered(new)
        BY <2>5
      <4> QED
        BY <4>1, <4>2, <2>6
    <3>4. ASSUME NEW x \in fresh PROVE x \in AreaOf(h, s, new)
      BY <3>4, <2>4, <2>5, <2>6, <2>7
    <3>5. map'[p] \subseteq AreaOf(h, s, new)
      BY <3>3, <3>4, <2>9
    <3> QED
      BY <2>10, <2>12, <1>2, <3>2, <3>5 DEF Kept
  <2>13. Fine(p)'
    <3>1. map'[p] \in SUBSET Pages /\ {"tf", "root"} \subseteq tables'[p]
      BY <1>2, <2>8, <2>9
    <3>2. /\ live'[p] \in BOOLEAN /\ live'[p] /\ (tidy' => Kept(p)')
          /\ heap'[p] = h /\ ustack'[p] = s
      BY <1>1, <2>10, <2>12 DEF Fine
    <3> HIDE DEF h, s
    <3> QED
      BY <1>2, <2>5, <2>9, <2>10, <3>1, <3>2, FineNext
  <2>14. nodes' \in Nat /\ nodes' + Len(mmap'[p]) = nodes + Len(mmap[p])
    <3>1. Len(list) \in Nat /\ Len(new) \in Nat
      BY <1>2, <2>5 DEF Sorted, Near
    <3>2. \A a, b, c \in Nat : 1 <= a /\ c <= b + 1 => a + b >= c
      OBVIOUS
    <3>3. nodes + Len(list) >= Len(new)
      BY <1>1, <2>2, <2>5, <3>1, <3>2, Zenon
    <3>4. /\ nodes + Len(list) - Len(new) \in Nat
          /\ (nodes + Len(list) - Len(new)) + Len(new) = nodes + Len(list)
      BY <1>1, <3>1, <3>3, NodeBalance, Zenon
    <3> QED
      BY <2>10, <3>4, Zenon
  <2>15. Balanced(p)
    BY <1>1, <2>9, <2>10, <2>12, <2>14 DEF Balanced
  <2> QED
    BY <2>11, <2>13, <2>15, ChangeOne
<1> QED
  BY <1>4, <1>5, <1>6

LEMMA MunmapStep ==
  ASSUME IndInv, NEW p \in Procs, NEW start \in Starts \ {0}, NEW n \in 0 .. MaxLen,
         Munmap(p, start, n)
  PROVE  \/ \E m \in Messages \ {"no"} : Panic(m)
         \/ /\ \A i \in Hits(mmap[p], start, start + n) :
                 Part(mmap[p][i], start, start + n) # {}
            /\ Len(Left(mmap[p], start, start + n)) > Len(mmap[p]) => NoNodes(1) = {}
            /\ MMAP_BEGIN <= start /\ start + n <= MMAP_END
            /\ UnmapPages(p, UNION {Part(mmap[p][i], start, start + n) :
                                      i \in Hits(mmap[p], start, start + n)})
            /\ mmap' = [mmap EXCEPT ![p] = Left(mmap[p], start, start + n)]
            /\ nodes' = nodes + Len(mmap[p]) - Len(Left(mmap[p], start, start + n))
            /\ UNCHANGED <<live, heap, ustack, panic>>
<1> DEFINE end == start + n
           list == mmap[p]
           hits == Hits(list, start, end)
           left == Left(list, start, end)
           bad == IF start < MMAP_BEGIN \/ end > MMAP_END THEN {"out of range"}
                  ELSE IF \E i \in hits : Part(list[i], start, end) = {} THEN {"zero length"}
                  ELSE IF Len(left) > Len(list) THEN NoNodes(1) ELSE {}
<1>1. \/ \E m \in bad : Panic(m)
      \/ /\ bad = {}
         /\ UnmapPages(p, UNION {Part(list[i], start, end) : i \in hits})
         /\ mmap' = [mmap EXCEPT ![p] = left]
         /\ nodes' = nodes + Len(list) - Len(left)
         /\ UNCHANGED <<live, heap, ustack, panic>>
  BY DEF Munmap, Left, UnmapEnd
<1> HIDE DEF left, hits, list, end
<1>2. bad \subseteq Messages \ {"no"}
  BY DEF NoNodes, Messages
<1>3. ASSUME bad = {}
      PROVE  /\ ~ (start < MMAP_BEGIN \/ end > MMAP_END)
             /\ ~ (\E i \in hits : Part(list[i], start, end) = {})
             /\ Len(left) > Len(list) => NoNodes(1) = {}
  BY <1>3
<1>4. start \in Nat /\ end \in Nat /\ MMAP_BEGIN \in Nat /\ MMAP_END \in Nat
  BY LayoutAssumption, Layout DEF Starts, end
<1>5. bad = {} => MMAP_BEGIN <= start /\ end <= MMAP_END
  <2>1. \A x, y \in Nat : (~ (x < y) => y <= x) /\ (~ (x > y) => x <= y)
    OBVIOUS
  <2> HIDE DEF bad
  <2> QED
    BY <1>3, <1>4, <2>1
<1> HIDE DEF bad
<1>6. CASE \E m \in bad : Panic(m)
  BY <1>2, <1>6
<1>7. CASE /\ bad = {}
           /\ UnmapPages(p, UNION {Part(list[i], start, end) : i \in hits})
           /\ mmap' = [mmap EXCEPT ![p] = left]
           /\ nodes' = nodes + Len(list) - Len(left)
           /\ UNCHANGED <<live, heap, ustack, panic>>
  <2>1. /\ \A i \in hits : Part(list[i], start, end) # {}
        /\ Len(left) > Len(list) => NoNodes(1) = {}
        /\ MMAP_BEGIN <= start /\ end <= MMAP_END
    BY <1>3, <1>5, <1>7
  <2> QED
    BY <1>7, <2>1 DEF left, hits, list, end
<1> QED
  BY <1>1, <1>6, <1>7

LEMMA MunmapKeeps ==
  ASSUME IndInv, NEW p \in Procs, NEW start \in Starts \ {0}, NEW n \in 0 .. MaxLen,
         Munmap(p, start, n)
  PROVE  IndInv'
<1> DEFINE end == start + n
           list == mmap[p]
           new == Left(list, start, end)
           gone == UNION {Part(list[i], start, end) : i \in Hits(list, start, end)}
           h == heap[p]
           s == ustack[p]
<1>1. live[p] /\ Fine(p) /\ panic \in Messages /\ nodes \in Nat /\ kpool \in Nat
      /\ tidy \in BOOLEAN
  BY FineFrom DEF Munmap, Running, IndInv, InvTypes
<1>2. /\ h \in 0 .. (MMAP_END + 1) * PG /\ s \in 0 .. TRAPFRAME - MMAP_END /\ Sorted(list)
      /\ map[p] \in SUBSET Pages /\ nouser[p] \in SUBSET map[p]
      /\ tables[p] \in SUBSET Tables /\ {"tf", "root"} \subseteq tables[p]
      /\ tidy => 2 * PG <= h /\ h <= MMAP_BEGIN * PG /\ map[p] \subseteq AreaOf(h, s, list)
  BY <1>1 DEF Fine, Kept
<1>3. start \in Nat /\ end \in Nat
  BY LayoutAssumption DEF Starts
<1>4. CASE \E m \in Messages \ {"no"} : Panic(m)
  BY <1>4, PanicStep
<1>5. CASE /\ \A i \in Hits(list, start, end) : Part(list[i], start, end) # {}
           /\ Len(new) > Len(list) => NoNodes(1) = {}
           /\ UnmapPages(p, gone)
           /\ mmap' = [mmap EXCEPT ![p] = new]
           /\ nodes' = nodes + Len(list) - Len(new)
           /\ UNCHANGED <<live, heap, ustack, panic>>
  <2> HIDE DEF end, gone
  <2>1. /\ Sorted(new) /\ Len(new) <= Len(list) + 1
        /\ \A x : x \in Covered(new) <=> x \in Covered(list) /\ ~ (start <= x /\ x < end)
    BY <1>2, <1>3, <1>5, LeftKeeps
  <2>2. \A x : x \in gone <=> x \in Covered(list) /\ start <= x /\ x < end
    BY <1>2, <1>3, PartsOf DEF gone
  <2> HIDE DEF new
  <2>3. \A x \in Pages : /\ x \in AreaOf(h, s, list) <=>
                              \/ x = 1
                              \/ 2 <= x /\ x * PG < h
                              \/ TRAPFRAME - s <= x
                              \/ x \in Covered(list)
                         /\ x \in AreaOf(h, s, new) <=>
                              \/ x = 1
                              \/ 2 <= x /\ x * PG < h
                              \/ TRAPFRAME - s <= x
                              \/ x \in Covered(new)
    BY <1>2, <2>1, AreaItems
  <2>4. /\ map' = [map EXCEPT ![p] = map'[p]] /\ map'[p] = map[p] \ gone
        /\ nouser' = [nouser EXCEPT ![p] = nouser'[p]] /\ nouser'[p] \in SUBSET map'[p]
        /\ upool' \in Nat /\ tables' = tables /\ kpool' = kpool /\ tidy' = tidy
        /\ upool' + Cardinality(map'[p]) = upool + Cardinality(map[p])
    BY <1>5, UnmapBalance
  <2>5. /\ live' = live /\ heap' = heap /\ ustack' = ustack /\ panic' = panic
        /\ mmap' = [mmap EXCEPT ![p] = mmap'[p]] /\ mmap'[p] = new
        /\ nodes' = nodes + Len(list) - Len(new)
    BY <1>5 DEF IndInv, InvTypes
  <2>6. OneChanged(p)
    BY <2>4, <2>5 DEF OneChanged, IndInv, InvTypes
  <2>7. ASSUME tidy PROVE Kept(p)'
    <3>1. ASSUME NEW x \in map[p], x \notin gone PROVE x \in AreaOf(h, s, new)
      <4>1. x \in Pages /\ x \in AreaOf(h, s, list)
        BY <2>7, <1>2
      <4>2. x \in Covered(list) => x \in Covered(new)
        BY <2>1, <2>2, <3>1
      <4> QED
        BY <4>1, <4>2, <2>3
    <3>2. map'[p] \subseteq AreaOf(h, s, new)
      BY <3>1, <2>4
    <3> QED
      BY <2>5, <2>7, <1>2, <3>2 DEF Kept
  <2>8. Fine(p)'
    <3>1. map'[p] \in SUBSET Pages /\ {"tf", "root"} \subseteq tables'[p]
      BY <1>2, <2>4
    <3>2. /\ live'[p] \in BOOLEAN /\ live'[p] /\ (tidy' => Kept(p)')
          /\ heap'[p] = h /\ ustack'[p] = s /\ tables'[p] \in SUBSET Tables
      BY <1>1, <1>2, <2>4, <2>5, <2>7 DEF Fine
    <3> HIDE DEF h, s
    <3> QED
      BY <1>2, <2>1, <2>4, <2>5, <3>1, <3>2, FineNext
  <2>9. nodes' \in Nat /\ nodes' + Len(mmap'[p]) = nodes + Len(mmap[p])
    <3>1. Len(list) \in Nat /\ Len(new) \in Nat
      BY <1>2, <2>1 DEF Sorted, Near
    <3>2. nodes + Len(list) >= Len(new)
      <4>1. CASE Len(new) > Len(list)
        <5>1. 1 <= nodes
          BY <4>1, <1>1, <1>5 DEF NoNodes
        <5>2. \A a, b, c \in Nat : 1 <= a /\ c <= b + 1 => a + b >= c
          OBVIOUS
        <5> QED
          BY <1>1, <2>1, <3>1, <5>1, <5>2, Zenon
      <4>2. CASE ~ (Len(new) > Len(list))
        <5>1. \A a, b, c \in Nat : ~ (c > b) => a + b >= c
          OBVIOUS
        <5> QED
          BY <1>1, <3>1, <4>2, <5>1, Zenon
      <4> QED
        BY <4>1, <4>2
    <3>3. /\ nodes + Len(list) - Len(new) \in Nat
          /\ (nodes + Len(list) - Len(new)) + Len(new) = nodes + Len(list)
      BY <1>1, <3>1, <3>2, NodeBalance, Zenon
    <3> QED
      BY <2>5, <3>3, Zenon
  <2>10. kpool' + Cardinality(tables'[p]) <= kpool + Cardinality(tables[p])
    <3>1. Cardinality(tables[p]) \in Nat
      BY <1>2, FiniteSets
    <3>2. kpool + Cardinality(tables[p]) <= kpool + Cardinality(tables[p])
      BY <1>1, <3>1
    <3> QED
      BY <2>4, <3>2
  <2>11. upool' + Cardinality(map'[p]) <= upool + Cardinality(map[p])
    <3>1. Cardinality(map'[p]) \in Nat
      BY <1>2, <2>4, FiniteSets
    <3>2. upool' + Cardinality(map'[p]) <= upool' + Cardinality(map'[p])
      BY <2>4, <3>1
    <3> QED
      BY <2>4, <3>2
  <2>12. Balanced(p)
    BY <1>1, <2>4, <2>5, <2>9, <2>10, <2>11 DEF Balanced
  <2> QED
    BY <2>6, <2>8, <2>12, ChangeOne
<1> QED
  BY <1>4, <1>5, MunmapStep

\* What fork copies, and what it copies twice.
LEMMA Copied ==
  ASSUME IndInv, NEW p \in Procs, live[p]
  PROVE  /\ Areas(p) = AreaOf(heap[p], ustack[p], mmap[p]) /\ Areas(p) \in SUBSET Pages
         /\ Twice(p) \in SUBSET Pages /\ (tidy => Twice(p) = {})
<1>1. /\ heap[p] \in 0 .. (MMAP_END + 1) * PG /\ ustack[p] \in 0 .. TRAPFRAME - MMAP_END
      /\ Sorted(mmap[p]) /\ heap[p] \in Nat /\ (tidy => heap[p] <= MMAP_BEGIN * PG)
  <2>1. (MMAP_END + 1) * PG \in Nat
    BY Layout
  <2>2. Fine(p) /\ live[p]
    BY FineFrom
  <2>3. heap[p] \in 0 .. (MMAP_END + 1) * PG /\ ustack[p] \in 0 .. TRAPFRAME - MMAP_END
        /\ Sorted(mmap[p])
    BY <2>2 DEF Fine
  <2>4. tidy => heap[p] <= MMAP_BEGIN * PG
    BY <2>2 DEF Fine, Kept
  <2> QED
    BY <2>1, <2>3, <2>4
<1>2. Areas(p) = AreaOf(heap[p], ustack[p], mmap[p])
  BY AreasAre
<1>3. Areas(p) \in SUBSET Pages
  BY <1>1, <1>2, AreaItems
<1>4. Twice(p) \subseteq Areas(p)
  BY DEF Twice, Areas
<1>5. ASSUME tidy, NEW x \in Twice(p) PROVE FALSE
  <2>1. x \in HeapPages(heap[p])
    BY <1>5 DEF Twice
  <2>2. x \in Nat /\ x < Up(heap[p])
    BY <2>1, <1>1, Rounding DEF HeapPages, USER_BASE
  <2>3. x * PG < heap[p]
    BY <2>2, <1>1, Rounding
  <2>4. x < MMAP_BEGIN
    BY <2>2, <2>3, <1>1, <1>5, HeapBelow
  <2>5. x \notin Covered(mmap[p])
    BY <2>4, <1>1, <2>2, CoveredArea, Layout DEF Sorted
  <2>6. x \notin StackPages(ustack[p])
    BY <2>2, <2>4, <1>1, Layout DEF StackPages
  <2> QED
    BY <2>5, <2>6, <1>5 DEF Twice
<1> QED
  BY <1>2, <1>3, <1>4, <1>5

\* fork: the child gets the areas of its parent, all of it fresh.
LEMMA ForkKeeps ==
  ASSUME IndInv, NEW p \in Procs, NEW c \in Procs, Fork(p, c)
  PROVE  IndInv'
<1> DEFINE a == Areas(p)
           own == NewTables \union TablesFor(a)
           A == Cardinality(a)
           W == Cardinality(Twice(p))
           copies == A + W
           bad == (IF a \subseteq map[p] THEN {} ELSE {"pte missing"})
                  \union (IF Cardinality(own) > kpool THEN {"kernel pages"} ELSE {})
                  \union (IF copies > upool THEN {"user pages"} ELSE {})
                  \union NoNodes(Len(mmap[p]))
<1>1. /\ live[p] /\ ~ live[c] /\ Fine(p) /\ Fine(c) /\ panic \in Messages
      /\ nodes \in Nat /\ kpool \in Nat /\ upool \in Nat /\ tidy \in BOOLEAN
  BY FineFrom DEF Fork, Running, IndInv, InvTypes
<1>2. /\ a = AreaOf(heap[p], ustack[p], mmap[p]) /\ a \in SUBSET Pages
      /\ Twice(p) \in SUBSET Pages /\ (tidy => Twice(p) = {})
      /\ own \in SUBSET Tables /\ {"tf", "root"} \subseteq own
  BY <1>1, Copied, TablesType
<1>3. /\ Cardinality(own) \in Nat /\ A \in Nat /\ W \in Nat /\ Len(mmap[p]) \in Nat
      /\ (tidy => W = 0)
  BY <1>1, <1>2, FiniteSets, FS_EmptySet DEF Fine, Sorted, Near
<1>4. CASE \E m \in bad : Panic(m)
  <2>1. bad \subseteq Messages
    BY DEF NoNodes, Messages
  <2> QED
    BY <1>4, <2>1, PanicStep
<1>5. CASE /\ bad = {}
           /\ live' = [live EXCEPT ![c] = TRUE] /\ map' = [map EXCEPT ![c] = a]
           /\ nouser' = [nouser EXCEPT ![c] = nouser[p] \intersect a]
           /\ tables' = [tables EXCEPT ![c] = own] /\ mmap' = [mmap EXCEPT ![c] = mmap[p]]
           /\ heap' = [heap EXCEPT ![c] = heap[p]] /\ ustack' = [ustack EXCEPT ![c] = ustack[p]]
           /\ upool' = upool - copies /\ kpool' = kpool - Cardinality(own)
           /\ nodes' = nodes - Len(mmap[p]) /\ UNCHANGED <<tidy, panic>>
  <2>1. /\ ~ (Cardinality(own) > kpool) /\ ~ (copies > upool)
        /\ ~ (Len(mmap[p]) > nodes)
    BY <1>5 DEF NoNodes
  <2> HIDE DEF bad, own, a
  <2>2. /\ live'[c] = TRUE /\ map'[c] = a /\ tables'[c] = own /\ mmap'[c] = mmap[p]
        /\ heap'[c] = heap[p] /\ ustack'[c] = ustack[p] /\ nouser'[c] = nouser[p] \intersect a
        /\ tidy' = tidy
    BY <1>5 DEF IndInv, InvTypes
  <2>3. OneChanged(c)
    BY <1>5, <2>2 DEF OneChanged, IndInv, InvTypes
  <2>4. Fine(c)'
    <3>1. /\ heap[p] \in 0 .. (MMAP_END + 1) * PG /\ ustack[p] \in 0 .. TRAPFRAME - MMAP_END
          /\ Sorted(mmap[p])
      BY <1>1 DEF Fine
    <3>2. tidy' => Kept(c)'
      BY <1>1, <1>2, <2>2 DEF Kept, Fine
    <3>3. live'[c] \in BOOLEAN /\ live'[c] /\ nouser'[c] \in SUBSET map'[c]
      BY <2>2
    <3> QED
      BY <1>2, <2>2, <3>1, <3>2, <3>3, FineNext
  <2>5. /\ Cardinality(map[c]) = 0 /\ Cardinality(tables[c]) = 0 /\ Len(mmap[c]) = 0
    BY <1>1, FS_EmptySet DEF Fine
  <2> HIDE DEF A, W
  <2>6. \A x, y \in Nat : ~ (y > x) => /\ x - y \in Nat /\ (x - y) + y = x + 0
                                       /\ (x - y) + y <= x + 0
    OBVIOUS
  <2>7. /\ upool - copies \in Nat /\ (upool - copies) + A <= upool + 0
        /\ (W = 0 => (upool - copies) + A = upool + 0)
    BY <1>1, <1>3, <2>1
  <2>8. /\ kpool - Cardinality(own) \in Nat
        /\ (kpool - Cardinality(own)) + Cardinality(own) <= kpool + 0
    BY <1>1, <1>3, <2>1, <2>6, Zenon
  <2>9. /\ nodes - Len(mmap[p]) \in Nat
        /\ (nodes - Len(mmap[p])) + Len(mmap[p]) = nodes + 0
    BY <1>1, <1>3, <2>1, <2>6, Zenon
  <2>10. Balanced(c)
    <3>1. /\ upool' \in Nat /\ kpool' \in Nat /\ nodes' \in Nat /\ panic' \in Messages
          /\ tidy' \in BOOLEAN /\ (tidy' => tidy)
      BY <1>1, <1>5, <2>2, <2>7, <2>8, <2>9
    <3>2. upool' + Cardinality(map'[c]) <= upool + Cardinality(map[c])
      BY <1>5, <2>2, <2>5, <2>7, Zenon DEF A
    <3>3. tidy' => upool' + Cardinality(map'[c]) = upool + Cardinality(map[c])
      <4>1. ASSUME tidy' PROVE (upool - copies) + A = upool + 0
        BY <4>1, <1>3, <2>2, <2>7
      <4> QED
        BY <4>1, <1>5, <2>2, <2>5, Zenon DEF A
    <3>4. kpool' + Cardinality(tables'[c]) <= kpool + Cardinality(tables[c])
      BY <1>5, <2>2, <2>5, <2>8, Zenon
    <3>5. nodes' + Len(mmap'[c]) = nodes + Len(mmap[c])
      BY <1>5, <2>2, <2>5, <2>9, Zenon
    <3> QED
      BY <3>1, <3>2, <3>3, <3>4, <3>5 DEF Balanced
  <2> QED
    BY <2>3, <2>4, <2>10, ChangeOne
<1> QED
  BY <1>4, <1>5 DEF Fork

\* The pages and tables of a program.
LEMMA ImageItems ==
  ASSUME NEW prog \in Seq(Segments)
  PROVE  /\ Top(prog) \in 0 .. MMAP_END /\ Image(prog) \in SUBSET Pages
         /\ Covered(prog) \in SUBSET Pages
         /\ IsFiniteSet(Overwritten(prog)) /\ Cardinality(Overwritten(prog)) \in Nat
         /\ NewOwn(prog) \in SUBSET Tables /\ "tf" \notin NewOwn(prog) /\ "root" \in NewOwn(prog)
         /\ \A x \in Image(prog) : x <= Top(prog)
         /\ WellLaid(prog) => 1 <= Top(prog) /\ \A x \in Image(prog) : 1 <= x
<1> DEFINE E == {0} \union {End(s) : s \in Range(prog)}
<1>1. Len(prog) \in Nat /\ DOMAIN prog = 1 .. Len(prog)
  OBVIOUS
<1>2. ASSUME NEW i \in 1 .. Len(prog)
      PROVE  /\ prog[i].begin \in Nat /\ prog[i].npages \in Nat /\ End(prog[i]) \in Nat
             /\ prog[i].begin <= End(prog[i]) /\ End(prog[i]) <= MMAP_END
             /\ End(prog[i]) \in E /\ prog[i] \in Range(prog)
  <2>1. prog[i] \in Segments
    BY ElementOfSeq
  <2>2. prog[i].begin \in Nat /\ prog[i].npages \in Nat
        /\ prog[i].begin + prog[i].npages <= MMAP_END
    BY <2>1, Layout DEF Segments
  <2>3. End(prog[i]) = prog[i].begin + prog[i].npages
    BY DEF End
  <2>4. prog[i] \in Range(prog)
    BY <1>1 DEF Range
  <2> QED
    BY <2>2, <2>3, <2>4
<1>3. \A s \in Range(prog) : \E i \in 1 .. Len(prog) : s = prog[i]
  BY <1>1 DEF Range
<1>4. Top(prog) \in 0 .. MMAP_END /\ \A e \in E : e <= Top(prog)
  <2>1. E \in SUBSET (0 .. MMAP_END) /\ E # {}
    <3>1. ASSUME NEW s \in Range(prog) PROVE End(s) \in 0 .. MMAP_END
      <4>1. PICK i \in 1 .. Len(prog) : s = prog[i]
        BY <1>3
      <4>2. End(prog[i]) \in Nat /\ End(prog[i]) <= MMAP_END
        BY <1>2
      <4> QED
        BY <4>1, <4>2, Layout
    <3>2. 0 \in 0 .. MMAP_END
      BY Layout
    <3> QED
      BY <3>1, <3>2, Zenon
  <2>2. Max(E) \in E /\ \A e \in E : e <= Max(E)
    BY <2>1, MaxNat, Layout
  <2>3. Top(prog) = Max(E)
    BY DEF Top
  <2> HIDE DEF E
  <2> QED
    BY <2>1, <2>2, <2>3
<1>5. ASSUME NEW x \in Covered(prog)
      PROVE  /\ x \in Nat /\ x < Top(prog)
             /\ \E i \in 1 .. Len(prog) : prog[i].begin <= x
  <2>1. PICK s \in Range(prog) : x \in PagesOf(s)
    BY <1>5 DEF Covered
  <2>2. PICK i \in 1 .. Len(prog) : s = prog[i]
    BY <1>3
  <2>3. x \in prog[i].begin .. End(prog[i]) - 1
    BY <2>1, <2>2 DEF PagesOf
  <2>4. End(prog[i]) <= Top(prog) /\ prog[i].begin \in Nat /\ End(prog[i]) \in Nat
    BY <1>2, <1>4
  <2> HIDE DEF E
  <2>5. x \in Nat /\ x < Top(prog) /\ prog[i].begin <= x
    BY <2>3, <2>4, <1>4, Layout
  <2> QED
    BY <2>5
<1> HIDE DEF E
<1>6. Top(prog) \in Pages /\ Covered(prog) \in SUBSET Pages /\ Image(prog) \in SUBSET Pages
  <2>1. \A x \in Nat : x <= Top(prog) => x \in Pages
    BY <1>4, Layout DEF Pages
  <2> QED
    BY <1>4, <1>5, <2>1 DEF Image
<1>7. \A x \in Image(prog) : x <= Top(prog)
  BY <1>4, <1>5 DEF Image
<1>8. IsFiniteSet(Overwritten(prog)) /\ Cardinality(Overwritten(prog)) \in Nat
  <2>1. IsFiniteSet(1 .. Len(prog))
    BY <1>1, FS_Interval
  <2>2. IsFiniteSet((DOMAIN prog) \X Pages)
    BY <1>1, <2>1, FiniteSets, FS_Product
  <2>3. Overwritten(prog) \in SUBSET ((DOMAIN prog) \X Pages)
    BY DEF Overwritten
  <2> QED
    BY <2>2, <2>3, FS_Subset, FS_CardinalityType
<1>9. NewOwn(prog) \in SUBSET Tables /\ "tf" \notin NewOwn(prog) /\ "root" \in NewOwn(prog)
  <2>1. \A x : "tf" \notin TablesTo(x)
    BY DEF TablesTo
  <2>2. "tf" \notin TablesFor(Image(prog))
    BY <2>1 DEF TablesFor
  <2> QED
    BY <2>2, TablesType DEF NewOwn
<1>10. ASSUME WellLaid(prog)
       PROVE  1 <= Top(prog) /\ \A x \in Image(prog) : 1 <= x
  <2>1. \A i \in 1 .. Len(prog) : 1 <= prog[i].begin
    BY <1>1, <1>10 DEF WellLaid, USER_BASE
  <2>2. 1 \in 1 .. Len(prog)
    <3>1. Len(prog) # 0
      BY <1>10 DEF WellLaid
    <3> QED
      BY <1>1, <3>1
  <2>3. End(prog[1]) <= Top(prog)
    BY <1>2, <1>4, <2>2
  <2>4. 1 <= Top(prog)
    BY <1>2, <1>4, <2>1, <2>2, <2>3, Layout
  <2>5. ASSUME NEW x \in Covered(prog) PROVE 1 <= x
    BY <1>2, <1>5, <2>1
  <2> QED
    BY <2>4, <2>5 DEF Image
<1> QED
  BY <1>4, <1>6, <1>7, <1>8, <1>9, <1>10

\* exec: of the old page table the pages with PTE_U go back.
LEMMA ExecKeeps ==
  ASSUME IndInv, NEW p \in Procs, NEW prog \in Seq(Segments), Exec(p, prog)
  PROVE  IndInv'
<1> DEFINE image == Image(prog)
           I == Cardinality(image)
           V == Cardinality(Overwritten(prog))
           taken == I + V
           own == NewOwn(prog)
           bad == (IF taken > upool THEN {"user pages"} ELSE {})
                  \union (IF Cardinality(own) > kpool THEN {"kernel pages"} ELSE {})
           h == ExecHeap(Top(prog))
           l == mmap[p]
           M == Cardinality(map[p])
           D == Cardinality(Destroyed(p))
           O == Cardinality(own)
           T == Cardinality(tables[p] \ {"tf"})
<1>1. /\ live[p] /\ Fine(p) /\ panic \in Messages /\ nodes \in Nat /\ kpool \in Nat
      /\ upool \in Nat /\ tidy \in BOOLEAN
  BY FineFrom DEF Exec, Running, IndInv, InvTypes
<1>2. /\ Sorted(l) /\ map[p] \in SUBSET Pages
      /\ tables[p] \in SUBSET Tables /\ {"tf", "root"} \subseteq tables[p]
  BY <1>1 DEF Fine
<1>3. /\ image \in SUBSET Pages /\ own \in SUBSET Tables /\ "tf" \notin own /\ "root" \in own
      /\ Top(prog) \in 0 .. MMAP_END /\ V \in Nat
      /\ \A x \in image : x <= Top(prog)
      /\ WellLaid(prog) => 1 <= Top(prog) /\ \A x \in image : 1 <= x
  BY ImageItems
<1>4. CASE \E m \in bad : Panic(m)
  <2>1. bad \subseteq Messages
    BY DEF Messages
  <2> QED
    BY <1>4, <2>1, PanicStep
<1>5. CASE /\ bad = {}
           /\ upool' = upool - taken + D
           /\ kpool' = kpool - O + T
           /\ map' = [map EXCEPT ![p] = image]
           /\ nouser' = [nouser EXCEPT ![p] = {}]
           /\ tables' = [tables EXCEPT ![p] = own \union {"tf"}]
           /\ heap' = [heap EXCEPT ![p] = h]
           /\ ustack' = [ustack EXCEPT ![p] = 1]
           /\ tidy' = (tidy /\ WellLaid(prog) /\ nouser[p] = {})
           /\ UNCHANGED <<live, mmap, nodes, panic>>
  <2>1. ~ (taken > upool) /\ ~ (O > kpool)
    BY <1>5
  <2>2. /\ map'[p] = image /\ tables'[p] = own \union {"tf"} /\ heap'[p] = h
        /\ ustack'[p] = 1 /\ live' = live /\ mmap' = mmap /\ nodes' = nodes /\ panic' = panic
        /\ nouser'[p] = {}
    BY <1>5 DEF IndInv, InvTypes
  <2>3. OneChanged(p)
    BY <1>5, <2>2 DEF OneChanged, IndInv, InvTypes
  <2>4. tidy' \in BOOLEAN /\ (tidy' => tidy /\ WellLaid(prog) /\ nouser[p] = {})
    BY <1>5
  <2>5. h \in 0 .. (MMAP_END + 1) * PG /\ h = (Top(prog) + 1) * PG /\ h \in Nat
    <3>1. h = (Top(prog) + 1) * PG /\ h \in Nat /\ (MMAP_END + 1) * PG \in Nat
      BY <1>3, Layout DEF ExecHeap
    <3>2. (Top(prog) + 1) * PG <= (MMAP_END + 1) * PG
      BY <1>3, Layout, Times
    <3> HIDE DEF h
    <3> QED
      BY <3>1, <3>2
  <2>6. 1 \in 0 .. TRAPFRAME - MMAP_END
    BY Layout
  <2> HIDE DEF image, own, h, bad, l
  <2>7. ASSUME tidy' PROVE Kept(p)'
    <3>1. Top(prog) < MMAP_BEGIN /\ 1 <= Top(prog) /\ \A x \in image : 1 <= x
      BY <1>3, <2>4, <2>7 DEF WellLaid
    <3>2. 2 * PG <= (Top(prog) + 1) * PG /\ (Top(prog) + 1) * PG <= MMAP_BEGIN * PG
      BY <1>3, <3>1, Layout, Times
    <3>3. ASSUME NEW x \in image PROVE x \in AreaOf(h, 1, l)
      <4>1. x \in Pages /\ x \in Nat /\ 1 <= x /\ x <= Top(prog)
        BY <1>3, <3>1, Layout DEF Pages
      <4>2. (x + 1) * PG <= (Top(prog) + 1) * PG
        <5>1. x + 1 \in Nat /\ Top(prog) + 1 \in Nat /\ x + 1 <= Top(prog) + 1
          BY <1>3, <4>1
        <5> QED
          BY <5>1, Layout, Times, Zenon
      <4>3. (x + 1) * PG = x * PG + PG /\ x * PG \in Nat
        BY <4>1, Layout
      <4>4. x * PG < h
        BY <2>5, <4>2, <4>3, Layout
      <4>5. x = 1 \/ 2 <= x
        BY <4>1
      <4> QED
        BY <4>1, <4>4, <4>5, <1>2, <2>5, <2>6, AreaItems DEF l
    <3> QED
      BY <2>2, <2>5, <3>2, <3>3 DEF Kept, l
  <2>8. Fine(p)'
    <3>1. tables'[p] \in SUBSET Tables /\ {"tf", "root"} \subseteq tables'[p]
      BY <1>2, <1>3, <2>2
    <3>2. live'[p] \in BOOLEAN /\ live'[p] /\ nouser'[p] \in SUBSET map'[p] /\ Sorted(mmap'[p])
      BY <1>1, <2>2 DEF Fine
    <3> QED
      BY <1>3, <2>2, <2>5, <2>6, <2>7, <3>1, <3>2, FineNext
  <2>9. /\ I \in Nat /\ M \in Nat /\ O \in Nat /\ T \in Nat /\ D \in Nat /\ D <= M
        /\ IsFiniteSet(own) /\ IsFiniteSet(tables[p])
        /\ (tidy' => V = 0 /\ D = M)
    <3>1. Destroyed(p) \in SUBSET map[p] /\ Destroyed(p) \in SUBSET Pages
      BY <1>2 DEF Destroyed
    <3>2. D <= M
      BY <1>2, <3>1, FiniteSets, FS_Subset
    <3>3. tidy' => V = 0 /\ D = M
      <4>1. tidy' => Overwritten(prog) = {} /\ Destroyed(p) = map[p]
        BY <2>4 DEF WellLaid, Destroyed
      <4> QED
        BY <4>1, FS_EmptySet
    <3>4. tables[p] \ {"tf"} \in SUBSET Tables
      BY <1>2
    <3> QED
      BY <1>2, <1>3, <3>1, <3>2, <3>3, <3>4, FiniteSets
  <2>10. Cardinality(own \union {"tf"}) = O + 1
    BY <1>3, <2>9, FS_AddElement
  <2>11. Cardinality(tables[p]) = T + 1
    <3>1. Cardinality(tables[p] \ {"tf"}) = Cardinality(tables[p]) - 1
      BY <1>2, <2>9, FS_RemoveElement
    <3>2. Cardinality(tables[p]) \in Nat
      BY <1>2, FiniteSets
    <3> QED
      BY <3>1, <3>2
  <2> HIDE DEF I, V, M, O, T, D
  <2>12. \A u, x, y \in Nat : ~ (x > u) => /\ u - x + y \in Nat
                                           /\ (u - x + y) + (x + 1) <= u + (y + 1)
    OBVIOUS
  <2>13. /\ upool - taken + D \in Nat /\ (upool - taken + D) + I <= upool + M
         /\ (V = 0 /\ D = M => (upool - taken + D) + I = upool + M)
    BY <1>1, <1>3, <2>1, <2>9
  <2>14. kpool - O + T \in Nat /\ (kpool - O + T) + (O + 1) <= kpool + (T + 1)
    BY <1>1, <2>1, <2>9, <2>12, Zenon
  <2>15. Balanced(p)
    <3>1. upool' \in Nat /\ kpool' \in Nat
      BY <1>5, <2>13, <2>14
    <3>2. upool' + Cardinality(map'[p]) <= upool + Cardinality(map[p])
      BY <1>5, <2>2, <2>13, Zenon DEF I, M
    <3>3. tidy' => upool' + Cardinality(map'[p]) = upool + Cardinality(map[p])
      BY <1>5, <2>2, <2>9, <2>13, Zenon DEF I, M
    <3>4. kpool' + Cardinality(tables'[p]) <= kpool + Cardinality(tables[p])
      BY <1>5, <2>2, <2>10, <2>11, <2>14, Zenon
    <3> QED
      BY <1>1, <2>2, <2>4, <3>1, <3>2, <3>3, <3>4 DEF Balanced
  <2> QED
    BY <2>3, <2>8, <2>15, ChangeOne
<1> QED
  BY <1>4, <1>5 DEF Exec

\* exec that fails: the process keeps what it has, and the pool has lost the pages that
\* were mapped over.
LEMMA ExecFailsKeeps ==
  ASSUME IndInv, NEW p \in Procs, NEW prog \in Seq(Segments), ExecFails(p, prog)
  PROVE  IndInv'
<1> DEFINE C == Cardinality(Covered(prog))
           V == Cardinality(Overwritten(prog))
           M == Cardinality(map[p])
<1>1. /\ live[p] /\ Fine(p) /\ panic \in Messages /\ nodes \in Nat /\ kpool \in Nat
      /\ upool \in Nat /\ tidy \in BOOLEAN
  BY FineFrom DEF ExecFails, Running, IndInv, InvTypes
<1>2. /\ C + V <= upool /\ upool' = upool - V
      /\ UNCHANGED <<live, map, nouser, tables, mmap, heap, ustack, nodes, kpool, panic>>
      /\ tidy' = (tidy /\ Overwritten(prog) = {})
  BY DEF ExecFails, pvars
<1>3. C \in Nat /\ V \in Nat /\ M \in Nat
  BY <1>1, ImageItems, FiniteSets DEF Fine
<1>4. tidy' \in BOOLEAN /\ (tidy' => tidy) /\ (tidy' => V = 0)
  BY <1>2, FS_EmptySet
<1>5. OneChanged(p)
  BY <1>2 DEF OneChanged, IndInv, InvTypes
<1>6. Fine(p)'
  <2>1. live'[p] /\ tidy' => Kept(p)'
    BY <1>1, <1>2, <1>4 DEF Fine, Kept
  <2> QED
    BY <1>1, <1>2, <2>1 DEF Fine
<1> HIDE DEF C, V
<1>7. /\ upool' \in Nat /\ upool' + M <= upool + M /\ (V = 0 => upool' + M = upool + M)
  BY <1>1, <1>2, <1>3
<1>8. kpool + Cardinality(tables[p]) <= kpool + Cardinality(tables[p])
  <2>1. Cardinality(tables[p]) \in Nat
    BY <1>1, FiniteSets DEF Fine
  <2> QED
    BY <1>1, <2>1
<1>9. Balanced(p)
  BY <1>1, <1>2, <1>4, <1>7, <1>8 DEF Balanced
<1> QED
  BY <1>5, <1>6, <1>9, ChangeOne

\* proc_free gives back the pages in the areas of the process, and two of its tables.
LEMMA FreeKeeps ==
  ASSUME IndInv, NEW p \in Procs, Free(p)
  PROVE  IndInv'
<1> DEFINE M == Cardinality(map[p])
           P == Cardinality(map[p] \intersect Areas(p))
           T == Cardinality(tables[p])
           L == Len(mmap[p])
<1>1. /\ live[p] /\ Fine(p) /\ panic \in Messages /\ nodes \in Nat /\ kpool \in Nat
      /\ upool \in Nat /\ tidy \in BOOLEAN
  BY FineFrom DEF Free, Running, IndInv, InvTypes
<1>2. /\ map[p] \in SUBSET Pages /\ (tidy => map[p] \subseteq Areas(p))
      /\ tables[p] \in SUBSET Tables /\ {"tf", "root"} \subseteq tables[p] /\ Sorted(mmap[p])
  BY <1>1, AreasAre DEF Fine, Kept
<1>3. CASE Panic("zero length")
  BY <1>3, PanicStep DEF Messages
<1>4. CASE /\ upool' = upool + Cardinality(map[p] \intersect Areas(p))
           /\ kpool' = kpool + Cardinality({"tf", "root"})
           /\ nodes' = nodes + L
           /\ live' = [live EXCEPT ![p] = FALSE] /\ map' = [map EXCEPT ![p] = {}]
           /\ nouser' = [nouser EXCEPT ![p] = {}]
           /\ tables' = [tables EXCEPT ![p] = {}] /\ mmap' = [mmap EXCEPT ![p] = <<>>]
           /\ heap' = [heap EXCEPT ![p] = 0] /\ ustack' = [ustack EXCEPT ![p] = 0]
           /\ UNCHANGED <<tidy, panic>>
  <2>1. /\ live'[p] = FALSE /\ map'[p] = {} /\ tables'[p] = {} /\ mmap'[p] = <<>>
        /\ heap'[p] = 0 /\ ustack'[p] = 0 /\ panic' = panic /\ nouser'[p] = {} /\ tidy' = tidy
    BY <1>4 DEF IndInv, InvTypes
  <2>2. OneChanged(p)
    BY <1>4, <2>1 DEF OneChanged, IndInv, InvTypes
  <2>3. Fine(p)'
    <3>1. /\ live'[p] \in BOOLEAN /\ map'[p] \in SUBSET Pages /\ tables'[p] \in SUBSET Tables
          /\ ~ live'[p] /\ nouser'[p] \in SUBSET map'[p]
      BY <2>1
    <3>2. /\ heap'[p] \in 0 .. (MMAP_END + 1) * PG /\ ustack'[p] \in 0 .. TRAPFRAME - MMAP_END
      <4>1. (MMAP_END + 1) * PG \in Nat
        BY Layout
      <4> QED
        BY <2>1, <4>1, Layout
    <3>3. Sorted(mmap'[p])
      BY <2>1, NoRegion
    <3> QED
      BY <2>1, <3>1, <3>2, <3>3, Zenon DEF Fine
  <2>4. /\ P \in Nat /\ P <= M /\ (tidy => P = M)
    <3>1. /\ map[p] \intersect Areas(p) \in SUBSET map[p]
          /\ map[p] \intersect Areas(p) \in SUBSET Pages
          /\ (tidy => map[p] \intersect Areas(p) = map[p])
      BY <1>2
    <3> QED
      BY <1>2, <3>1, FiniteSets, FS_Subset
  <2>5. M \in Nat /\ T \in Nat /\ L \in Nat /\ Cardinality({"tf", "root"}) \in Nat
        /\ Cardinality({"tf", "root"}) <= T
    <3>1. IsFiniteSet(tables[p]) /\ {"tf", "root"} \in SUBSET tables[p]
      BY <1>2, FiniteSets
    <3>2. {"tf", "root"} \in SUBSET Tables
      BY DEF Tables
    <3> QED
      BY <1>2, <3>1, <3>2, FiniteSets, FS_Subset DEF Sorted, Near
  <2>6. Cardinality({}) = 0 /\ Len(<<>>) = 0
    BY FS_EmptySet
  <2> DEFINE two == Cardinality({"tf", "root"})
  <2> HIDE DEF M, P, T, L, two
  <2>7. \A x, y, z \in Nat : /\ x + y \in Nat /\ (x + y) + 0 = x + y
                             /\ y <= z => (x + y) + 0 <= x + z
    OBVIOUS
  <2>8. /\ upool + P \in Nat /\ (upool + P) + 0 <= upool + M
        /\ (tidy => (upool + P) + 0 = upool + M)
    BY <1>1, <2>4, <2>5
  <2>9. kpool + two \in Nat /\ (kpool + two) + 0 <= kpool + T
    BY <1>1, <2>5, <2>7 DEF two
  <2>10. nodes + L \in Nat /\ (nodes + L) + 0 = nodes + L
    BY <1>1, <2>5, <2>7
  <2>11. upool' = upool + P /\ kpool' = kpool + two /\ nodes' = nodes + L
    BY <1>4 DEF P, L, two
  <2>12. Balanced(p)
    <3>1. /\ upool' \in Nat /\ kpool' \in Nat /\ nodes' \in Nat /\ panic' \in Messages
          /\ tidy' \in BOOLEAN /\ (tidy' => tidy)
      BY <1>1, <2>1, <2>8, <2>9, <2>10, <2>11
    <3>2. upool' + Cardinality(map'[p]) <= upool + Cardinality(map[p])
      BY <2>1, <2>6, <2>8, <2>11, Zenon DEF M
    <3>5. tidy' => upool' + Cardinality(map'[p]) = upool + Cardinality(map[p])
      BY <2>1, <2>6, <2>8, <2>11, Zenon DEF M
    <3>3. kpool' + Cardinality(tables'[p]) <= kpool + Cardinality(tables[p])
      BY <2>1, <2>6, <2>9, <2>11, Zenon DEF T
    <3>4. nodes' + Len(mmap'[p]) = nodes + Len(mmap[p])
      BY <2>1, <2>6, <2>10, <2>11, Zenon DEF L
    <3> QED
      BY <3>1, <3>2, <3>3, <3>4, <3>5 DEF Balanced
  <2> QED
    BY <2>2, <2>3, <2>12, ChangeOne
<1> QED
  BY <1>3, <1>4 DEF Free

----------------------------------------------------------------------------
(* The first process *)

LEMMA InitCounts ==
  ASSUME NEW U, IsFiniteSet(U), NEW f \in [Procs -> SUBSET U],
         \A p \in Procs \ {Init0} : f[p] = {}
  PROVE  Count(f) = Cardinality(f[Init0]) /\ Count(f) \in Nat
<1> DEFINE z == [p \in Procs |-> {}]
<1>1. z \in [Procs -> SUBSET U] /\ z[Init0] = {} /\ Init0 \in Procs
      /\ \A p \in Procs \ {Init0} : f[p] = z[p]
  BY InitAssumption
<1>2. Count(z) = 0
  BY CountNothing
<1> HIDE DEF z
<1>3. /\ Count(f) \in Nat /\ Cardinality(f[Init0]) \in Nat
      /\ Count(f) + Cardinality(z[Init0]) = Count(z) + Cardinality(f[Init0])
  BY <1>1, CountUpdate
<1>4. Cardinality(z[Init0]) = 0
  BY <1>1, FS_EmptySet
<1> QED
  BY <1>2, <1>3, <1>4

LEMMA Initially ==
  ASSUME Init
  PROVE  IndInv
<1> USE DEF USER_BASE
<1> DEFINE first == {USER_BASE} \union StackPages(1)
           own == NewTables \union TablesFor(first)
<1>1. Init0 \in Procs /\ 2 <= NUser /\ 6 <= NKern
  BY InitAssumption
<1>2. /\ live = [p \in Procs |-> IF p = Init0 THEN TRUE ELSE FALSE]
      /\ map = [p \in Procs |-> IF p = Init0 THEN first ELSE {}]
      /\ nouser = [p \in Procs |-> {}]
      /\ tables = [p \in Procs |-> IF p = Init0 THEN own ELSE {}]
      /\ mmap = [p \in Procs |-> <<>>]
      /\ heap = [p \in Procs |-> IF p = Init0 THEN (USER_BASE + 1) * PG ELSE 0]
      /\ ustack = [p \in Procs |-> IF p = Init0 THEN 1 ELSE 0]
      /\ nodes = NMmap /\ upool = NUser - 2 /\ kpool = NKern - Cardinality(own)
      /\ tidy = TRUE /\ panic = "no"
  BY DEF Init
<1>3. first = {1, TRAPFRAME - 1} /\ TRAPFRAME - 1 # 1 /\ first \in SUBSET Pages
  <2>1. StackPages(1) = {TRAPFRAME - 1}
    BY Layout DEF StackPages
  <2>2. first = {1, TRAPFRAME - 1} /\ TRAPFRAME - 1 # 1
    BY <2>1, Layout
  <2> QED
    BY <2>2, Layout DEF Pages
<1>4. Cardinality(first) = 2
  <2>1. IsFiniteSet({1}) /\ Cardinality({1}) = 1
    BY FS_Singleton
  <2>2. TRAPFRAME - 1 \notin {1} /\ first = {1} \union {TRAPFRAME - 1}
    BY <1>3
  <2>3. Cardinality({1} \union {TRAPFRAME - 1}) = Cardinality({1}) + 1
    BY <2>1, <2>2, FS_AddElement
  <2> HIDE DEF first
  <2> QED
    BY <2>1, <2>2, <2>3
<1>5. /\ own \in SUBSET Tables /\ {"tf", "root"} \subseteq own /\ "mmap0" \notin own
  <2>1. TablesTo(1) = {"low1", "low0"} /\ TablesTo(TRAPFRAME - 1) = {"top1", "top0"}
        /\ TablesTo(TRAPFRAME) = {"top1", "top0"}
    BY Layout DEF TablesTo
  <2>2. \A x \in first : "mmap0" \notin TablesTo(x)
    BY <1>3, <2>1
  <2>3. "mmap0" \notin TablesFor(first)
    BY <2>2 DEF TablesFor
  <2> QED
    BY <2>1, <2>3, TablesType DEF NewTables
<1>6. Cardinality(own) \in Nat /\ Cardinality(own) <= 6
  <2>1. IsFiniteSet(own) /\ Cardinality(own) \in Nat
    BY <1>5, FiniteSets
  <2> DEFINE A == {"tf", "root", "top1", "top0", "low1", "low0"}
  <2>2. own \in SUBSET A
    BY <1>5 DEF Tables
  <2>3. IsFiniteSet({"tf"}) /\ Cardinality({"tf"}) = 1
    BY FS_Singleton
  <2>4. IsFiniteSet({"tf", "root"}) /\ Cardinality({"tf", "root"}) = 2
    <3>1. {"tf", "root"} = {"tf"} \union {"root"} /\ "root" \notin {"tf"}
      OBVIOUS
    <3> QED
      BY <2>3, <3>1, FS_AddElement, SMTT(60)
  <2>5. IsFiniteSet({"tf", "root", "top1"}) /\ Cardinality({"tf", "root", "top1"}) = 3
    <3>1. {"tf", "root", "top1"} = {"tf", "root"} \union {"top1"} /\ "top1" \notin {"tf", "root"}
      OBVIOUS
    <3> QED
      BY <2>4, <3>1, FS_AddElement
  <2>6. IsFiniteSet({"top0"}) /\ Cardinality({"top0"}) = 1
    BY FS_Singleton
  <2>7. IsFiniteSet({"top0", "low1"}) /\ Cardinality({"top0", "low1"}) = 2
    <3>1. {"top0", "low1"} = {"top0"} \union {"low1"} /\ "low1" \notin {"top0"}
      OBVIOUS
    <3> QED
      BY <2>6, <3>1, FS_AddElement
  <2>8. IsFiniteSet({"top0", "low1", "low0"}) /\ Cardinality({"top0", "low1", "low0"}) = 3
    <3>1. {"top0", "low1", "low0"} = {"top0", "low1"} \union {"low0"}
          /\ "low0" \notin {"top0", "low1"}
      OBVIOUS
    <3> QED
      BY <2>7, <3>1, FS_AddElement
  <2>9. IsFiniteSet(A) /\ Cardinality(A) = 6
    <3> DEFINE B == {"tf", "root", "top1"}
               C == {"top0", "low1", "low0"}
    <3>1. A = B \union C /\ B \intersect C = {}
      OBVIOUS
    <3>2. Cardinality(B \intersect C) = 0
      BY <3>1, FS_EmptySet
    <3>3. IsFiniteSet(B \union C) /\ Cardinality(B \union C) = 3 + 3 - Cardinality(B \intersect C)
      BY <2>5, <2>8, FS_Union
    <3> HIDE DEF A, B, C
    <3> QED
      BY <3>1, <3>2, <3>3
  <2> HIDE DEF A
  <2> QED
    BY <2>1, <2>2, <2>9, FS_Subset
<1>7. /\ first \subseteq AreaOf(2 * PG, 1, <<>>)
      /\ 2 * PG \in 0 .. (MMAP_END + 1) * PG /\ 0 \in 0 .. (MMAP_END + 1) * PG
      /\ 2 * PG <= MMAP_BEGIN * PG
  <2>1. 2 * PG <= (MMAP_END + 1) * PG /\ 2 * PG \in Nat /\ (MMAP_END + 1) * PG \in Nat
        /\ 2 * PG <= MMAP_BEGIN * PG
    BY Layout, Times
  <2> QED
    BY <1>3, <2>1, Layout DEF AreaOf, StackPages
<1> HIDE DEF first, own
<1>8. InvTypes
  <2>1. /\ live \in [Procs -> BOOLEAN] /\ map \in [Procs -> SUBSET Pages]
        /\ nouser \in [Procs -> SUBSET Pages] /\ tables \in [Procs -> SUBSET Tables]
    BY <1>2, <1>3, <1>5
  <2>2. /\ mmap \in [Procs -> Seq(Regions)] /\ heap \in [Procs -> 0 .. (MMAP_END + 1) * PG]
        /\ ustack \in [Procs -> 0 .. TRAPFRAME - MMAP_END]
    <3>1. (USER_BASE + 1) * PG = 2 * PG
      OBVIOUS
    <3>2. 0 \in 0 .. TRAPFRAME - MMAP_END /\ 1 \in 0 .. TRAPFRAME - MMAP_END
      BY Layout
    <3>3. <<>> \in Seq(Regions)
      OBVIOUS
    <3> QED
      BY <1>2, <1>7, <3>1, <3>2, <3>3
  <2>3. nodes \in Nat /\ upool \in Nat /\ kpool \in Nat /\ panic \in Messages /\ tidy \in BOOLEAN
    BY <1>1, <1>2, <1>6, Layout DEF Messages
  <2> QED
    BY <2>1, <2>2, <2>3 DEF InvTypes
<1>9. InvLists
  BY <1>2, NoRegion, Layout DEF InvLists
<1>10. InvLive
  <2>1. ASSUME NEW p \in Procs, p # Init0
        PROVE  ~ live[p] /\ map[p] = {} /\ tables[p] = {} /\ mmap[p] = <<>>
    BY <2>1, <1>2
  <2>2. /\ live[Init0] /\ map[Init0] = first /\ tables[Init0] = own /\ mmap[Init0] = <<>>
        /\ heap[Init0] = 2 * PG /\ ustack[Init0] = 1
    BY <1>1, <1>2
  <2>3. map[Init0] \subseteq Areas(Init0)
    BY <1>1, <1>7, <2>2, AreasAre
  <2>4. 2 * PG <= heap[Init0] /\ {"tf", "root"} \subseteq tables[Init0]
        /\ heap[Init0] <= MMAP_BEGIN * PG
    BY <1>5, <1>7, <2>2, Layout
  <2>5. \A p \in Procs : nouser[p] \subseteq map[p]
    BY <1>2
  <2> QED
    BY <2>1, <2>2, <2>3, <2>4, <2>5 DEF InvLive
<1>11. InvCounts
  <2>1. \A p \in Procs \ {Init0} : map[p] = {} /\ tables[p] = {}
    BY <1>2
  <2>2. map[Init0] = first /\ tables[Init0] = own
    BY <1>1, <1>2
  <2>3. Count(map) = 2
    BY <1>4, <1>8, <2>1, <2>2, FiniteSets, InitCounts DEF InvTypes
  <2>4. Count(tables) = Cardinality(own)
    BY <1>8, <2>1, <2>2, FiniteSets, InitCounts DEF InvTypes
  <2>5. Count(Positions(mmap)) = 0
    <3>1. \A p \in Procs : 1 .. Len(mmap[p]) = {}
      BY <1>2
    <3>2. Positions(mmap) = [p \in Procs |-> {}]
      BY <3>1 DEF Positions
    <3> QED
      BY <3>2, CountNothing
  <2> QED
    BY <1>1, <1>2, <1>6, <2>3, <2>4, <2>5, Layout DEF InvCounts
<1> QED
  BY <1>8, <1>9, <1>10, <1>11 DEF IndInv

----------------------------------------------------------------------------
(* The theorems *)

LEMMA Inductive ==
  ASSUME IndInv, [Next]_vars
  PROVE  IndInv'
<1>1. CASE UNCHANGED vars
  BY <1>1, PanicKeeps DEF vars, IndInv, InvTypes
<1>2. CASE Next
  <2> PICK p \in Procs :
        \/ \E addr \in PG .. MaxBrk * PG : Brk(p, addr)
        \/ \E page \in Pages : StackFault(p, page)
        \/ \E start \in Starts, n \in 0 .. MaxLen, user \in BOOLEAN : Mmap(p, start, n, user)
        \/ \E start \in Starts \ {0}, n \in 0 .. MaxLen : Munmap(p, start, n)
        \/ \E c \in Procs : Fork(p, c)
        \/ \E prog \in Programs : Exec(p, prog)
        \/ \E prog \in Programs : \E k \in 0 .. Len(prog) : ExecFails(p, SubSeq(prog, 1, k))
        \/ Free(p)
    BY <1>2 DEF Next
  <2>1. CASE \E addr \in PG .. MaxBrk * PG : Brk(p, addr)
    BY <2>1, BrkKeeps
  <2>2. CASE \E page \in Pages : StackFault(p, page)
    BY <2>2, StackFaultKeeps
  <2>3. CASE \E start \in Starts, n \in 0 .. MaxLen, user \in BOOLEAN : Mmap(p, start, n, user)
    BY <2>3, MmapKeeps
  <2>4. CASE \E start \in Starts \ {0}, n \in 0 .. MaxLen : Munmap(p, start, n)
    BY <2>4, MunmapKeeps
  <2>5. CASE \E c \in Procs : Fork(p, c)
    BY <2>5, ForkKeeps
  <2>6. CASE \E prog \in Programs : Exec(p, prog)
    BY <2>6, ProgramsAssumption, ExecKeeps
  <2>7. CASE \E prog \in Programs : \E k \in 0 .. Len(prog) : ExecFails(p, SubSeq(prog, 1, k))
    <3>1. PICK prog \in Programs : \E k \in 0 .. Len(prog) : ExecFails(p, SubSeq(prog, 1, k))
      BY <2>7
    <3>2. PICK k \in 0 .. Len(prog) : ExecFails(p, SubSeq(prog, 1, k))
      BY <3>1
    <3>3. prog \in Seq(Segments)
      BY ProgramsAssumption
    <3>4. SubSeq(prog, 1, k) \in Seq(Segments)
      BY <3>3
    <3> QED
      BY <3>2, <3>4, ExecFailsKeeps
  <2>8. CASE Free(p)
    BY <2>8, FreeKeeps
  <2> QED
    BY <2>1, <2>2, <2>3, <2>4, <2>5, <2>6, <2>7, <2>8
<1> QED
  BY <1>1, <1>2

\* The order of the regions, the areas and the counts, along every behaviour.
THEOREM InvariantHolds == Spec => []IndInv
<1>1. Init => IndInv
  BY Initially
<1>2. IndInv /\ [Next]_vars => IndInv'
  BY Inductive
<1> QED
  BY <1>1, <1>2, PTL DEF Spec

\* Every count within its bounds.
LEMMA CountsBounded ==
  ASSUME IndInv
  PROVE  nodes \in 0 .. NMmap /\ upool \in 0 .. NUser /\ kpool \in 0 .. NKern
<1>1. Init0 \in Procs
  BY InitAssumption
<1>2. Count(map) \in Nat /\ Count(tables) \in Nat
  <2>1. map \in [Procs -> SUBSET Pages] /\ tables \in [Procs -> SUBSET Tables]
    BY DEF IndInv, InvTypes
  <2> QED
    BY <1>1, <2>1, FiniteSets, CountUpdate
<1>3. Count(Positions(mmap)) \in Nat
  <2> DEFINE U == 1 .. NMmap
             f == Positions(mmap)
  <2>1. IsFiniteSet(U)
    BY Layout, FS_Interval
  <2>2. \A p \in Procs : 1 .. Len(mmap[p]) \in SUBSET U
    BY Layout DEF IndInv, InvTypes, InvLists
  <2>3. f \in [Procs -> SUBSET U]
    BY <2>2 DEF Positions
  <2> HIDE DEF U, f
  <2>4. Count(f) \in Nat
    BY <1>1, <2>1, <2>3, CountUpdate
  <2> QED
    BY <2>4 DEF f
<1> QED
  BY <1>2, <1>3, Layout DEF IndInv, InvTypes, InvCounts

\* Through every split and merge by mmap and munmap, and through fork, exec and
\* proc_free, the regions of a process are sorted, disjoint and apart.
THEOREM RegionsStayApart == Spec => []RegionsApart
<1>1. ASSUME IndInv PROVE RegionsApart
  <2>1. \A p \in Procs : /\ mmap[p] \in Seq(Regions) /\ Len(mmap[p]) <= NMmap
                         /\ Sorted(mmap[p])
    BY <1>1 DEF IndInv, InvTypes, InvLists
  <2>2. TypeOK
    <3>1. \A p \in Procs : Range(mmap[p]) \subseteq Regions
      BY <2>1 DEF Range
    <3>2. ustack \in [Procs -> Nat]
      <4>1. 0 .. TRAPFRAME - MMAP_END \subseteq Nat
        BY Layout
      <4> QED
        BY <1>1, <4>1 DEF IndInv, InvTypes
    <3>3. \A p \in Procs : nouser[p] \subseteq map[p]
      BY <1>1 DEF IndInv, InvLive
    <3> QED
      BY <1>1, <2>1, <3>1, <3>2, <3>3, CountsBounded DEF IndInv, InvTypes, TypeOK
  <2>3. ASSUME NEW p \in Procs, NEW i \in DOMAIN mmap[p]
        PROVE  /\ mmap[p][i].begin >= MMAP_BEGIN /\ End(mmap[p][i]) <= MMAP_END
               /\ i > 1 => End(mmap[p][i - 1]) < mmap[p][i].begin
    <3>1. mmap[p] \in Seq(Regions) /\ i \in 1 .. Len(mmap[p]) /\ Len(mmap[p]) \in Nat
      BY <2>1
    <3>2. mmap[p][i].begin >= MMAP_BEGIN /\ End(mmap[p][i]) <= MMAP_END
      BY <2>1, <3>1, ListItems, Layout DEF Sorted, Near
    <3>3. i > 1 => i - 1 \in 1 .. Len(mmap[p]) /\ i - 1 < i
      BY <3>1
    <3> QED
      BY <2>1, <3>1, <3>2, <3>3 DEF Sorted, Near
  <2> QED
    BY <2>2, <2>3 DEF RegionsApart
<1> QED
  BY <1>1, InvariantHolds, PTL

\* No user page is in two places or given back twice, whatever programs are executed;
\* and as long as proc_exec has loaded programs that are well laid out only, over page
\* tables without pages that lack PTE_U, none is lost, and no process maps a page that
\* proc_free would not find.
THEOREM PagesAreConserved == Spec => []PagesConserved
<1>1. IndInv => PagesConserved
  BY DEF IndInv, InvCounts, InvLive, PagesConserved
<1> QED
  BY <1>1, InvariantHolds, PTL

\* munmap takes out of the regions exactly the range, and out of the page table the
\* pages of the range that were in a region.
THEOREM MunmapIsExact == Spec => MunmapExact
<1> DEFINE Taken(p, start, n) ==
             /\ Covered(mmap'[p]) = Covered(mmap[p]) \ (start .. start + n - 1)
             /\ map'[p] = map[p] \ (Covered(mmap[p]) \intersect (start .. start + n - 1))
           Exact == \A p \in Procs :
                      live'[p] /\ mmap'[p] # mmap[p] =>
                        \A start \in Starts \ {0}, n \in 1 .. MaxLen :
                          Munmap(p, start, n) /\ panic' = "no" => Taken(p, start, n)
<1>1. IndInv => Exact
  <2> SUFFICES ASSUME IndInv, NEW p \in Procs, NEW start \in Starts \ {0},
                      NEW n \in 1 .. MaxLen, Munmap(p, start, n), panic' = "no"
               PROVE  Taken(p, start, n)
    OBVIOUS
  <2> DEFINE end == start + n
             list == mmap[p]
             new == Left(list, start, end)
             gone == UNION {Part(list[i], start, end) : i \in Hits(list, start, end)}
  <2>1. live[p] /\ Fine(p)
    BY FineFrom DEF Munmap, Running
  <2>2. start \in Nat /\ end \in Nat /\ n \in 0 .. MaxLen
    BY LayoutAssumption DEF Starts
  <2>3. ~ \E m \in Messages \ {"no"} : Panic(m)
    BY DEF Panic
  <2>4. /\ \A i \in Hits(list, start, end) : Part(list[i], start, end) # {}
        /\ UnmapPages(p, gone) /\ mmap' = [mmap EXCEPT ![p] = new]
    BY <2>2, <2>3, MunmapStep, ZenonT(60)
  <2>5. \A x : x \in start .. start + n - 1 <=> x \in Nat /\ start <= x /\ x < end
    BY <2>2
  <2> HIDE DEF end, gone
  <2>6. Sorted(list)
    BY <2>1 DEF Fine
  <2>7. \A x : x \in Covered(new) <=> x \in Covered(list) /\ ~ (start <= x /\ x < end)
    BY <2>2, <2>4, <2>6, LeftKeeps
  <2>8. \A x : x \in gone <=> x \in Covered(list) /\ start <= x /\ x < end
    BY <2>2, <2>6, PartsOf DEF gone
  <2>9. \A x \in Covered(list) : x \in Nat
    BY <2>6, CoveredArea DEF Sorted
  <2>10. mmap'[p] = new /\ map'[p] = map[p] \ gone
    BY <2>4 DEF UnmapPages, IndInv, InvTypes
  <2> HIDE DEF new
  <2>11. Covered(new) = Covered(list) \ (start .. start + n - 1)
    BY <2>5, <2>7, <2>9
  <2>12. gone = Covered(list) \intersect (start .. start + n - 1)
    BY <2>5, <2>8, <2>9
  <2> QED
    BY <2>10, <2>11, <2>12
<1>2. [][Exact]_mmap <=> MunmapExact
  BY DEF MunmapExact
<1> HIDE DEF Exact
<1>3. IndInv => [Exact]_mmap
  BY <1>1
<1> QED
  BY <1>2, <1>3, InvariantHolds, PTL

=============================================================================
