---------------------------- MODULE InodeProofs ----------------------------
(***************************************************************************)
(* Theorems about InodeCache for every number of threads, names, inodes    *)
(* and slots, and about InodeIndex for every number of files, shape of the *)
(* index and number of blocks.                                             *)
(*                                                                         *)
(* InodeCache.  RefsExact and SlotKeepsInode are inductive only together:  *)
(* that a slot taken from the unused ones changes its number under nobody  *)
(* needs the exact count, and the count needs that a slot is found by the  *)
(* number it was taken for.                                                *)
(*                                                                         *)
(* InodeIndex.  The argument is about places: an entry k of the inode and  *)
(* entries i, j of the index blocks on the way.  At(f, k, i, j) is the     *)
(* block there.  The invariant says that blocks at places are marked used, *)
(* that no block is at two places, that the disk names a part of what      *)
(* memory names, and that a walk stands at a place on the way to its       *)
(* block.  Content follows: a write changes one place, hence, Path being   *)
(* injective, one logical block of one file.                               *)
(***************************************************************************)
EXTENDS InodeCache, InodeIndex, FiniteSetTheorems, WellFoundedInduction, TLAPS

IndInv == RefsExact /\ SlotKeepsInode

Users(s) == {t \in Threads : HasRef(t, s)}

----------------------------------------------------------------------------
(* Minima and counts *)

\* The search loops find the first element: a nonempty set has a minimum.
LEMMA MinElement ==
  ASSUME NEW set \in SUBSET Nat, set # {}
  PROVE  Min(set) \in set
<1> DEFINE R == {ss \in Nat \X Nat : ss[1] < ss[2]}
<1>1. IsWellFoundedOn(R, Nat)
  BY NatLessThanWellFounded, Zenon DEF OpToRel
<1>2. \A a, b \in Nat : a < b => <<a, b>> \in R
  OBVIOUS
<1> HIDE DEF R
<1>3. PICK x \in set : \A y \in set : ~ (<<y, x>> \in R)
  BY <1>1, WFMin, Zenon
<1>4. ASSUME NEW y \in set PROVE x <= y
  <2>1. x \in Nat /\ y \in Nat
    OBVIOUS
  <2>2. ~ (y < x)
    BY <2>1, <1>2, <1>3, Zenon
  <2> QED
    BY <2>1, <2>2
<1> QED
  BY <1>4 DEF Min

\* The users of a slot are finitely many; none means that the count is zero.
LEMMA UsersCount ==
  ASSUME NEW s
  PROVE  /\ IsFiniteSet(Users(s)) /\ Cardinality(Users(s)) \in Nat
         /\ Cardinality(Users(s)) = 0 <=> Users(s) = {}
BY ThreadsAssumption, FS_Subset, FS_CardinalityType, FS_EmptySet DEF Users

----------------------------------------------------------------------------
(* InodeCache: the inductive invariant *)

\* inode_init establishes the invariant.
LEMMA IndInvInit == Init => IndInv
<1> SUFFICES ASSUME Init PROVE IndInv
  OBVIOUS
<1>1. TypeOK
  BY SizeAssumption DEF Init, TypeOK, Inums, Slots, Points, Ops
<1>2. \A t \in Threads, s \in Slots : ~ HasRef(t, s)
  BY DEF Init, HasRef
<1>3. ASSUME NEW s \in Slots
      PROVE  ref[s] = Cardinality({t \in Threads : HasRef(t, s)})
  <2>1. {t \in Threads : HasRef(t, s)} = {}
    BY <1>2
  <2> QED
    BY <2>1, FS_EmptySet DEF Init
<1> QED
  BY <1>1, <1>2, <1>3 DEF IndInv, RefsExact, SlotKeepsInode

\* A step that changes no count and no number, and under which the same threads
\* hold the same slots, preserves the invariant.
LEMMA QuietStep ==
  ASSUME IndInv, TypeOK', UNCHANGED <<ref, num, ip>>,
         \A t \in Threads : pc'[t] \in {"idle", "get"} <=> pc[t] \in {"idle", "get"},
         \A t \in Threads : pc[t] \notin {"idle", "get"} => inum'[t] = inum[t]
  PROVE  IndInv'
<1>1. \A t \in Threads, s \in Slots : HasRef(t, s)' <=> HasRef(t, s)
  BY DEF HasRef
<1>2. ASSUME NEW s \in Slots
      PROVE  {t \in Threads : HasRef(t, s)}' = {t \in Threads : HasRef(t, s)}
  BY <1>1
<1>3. RefsExact'
  BY <1>2 DEF IndInv, RefsExact
<1>4. SlotKeepsInode'
  BY <1>1 DEF IndInv, SlotKeepsInode, HasRef
<1> QED
  BY <1>3, <1>4 DEF IndInv

\* inode_get leaves t with a slot that has its number or that nobody used; either
\* way the slot has that number and one user more.
LEMMA GetSlot ==
  ASSUME TypeOK, NEW t \in Threads, Get(t)
  PROVE  \E s \in Slots :
           /\ num[s] = inum[t] \/ ref[s] = 0
           /\ ip' = [ip EXCEPT ![t] = s] /\ num' = [num EXCEPT ![s] = inum[t]]
           /\ ref' = [ref EXCEPT ![s] = @ + 1] /\ valid' \in [Slots -> BOOLEAN]
<1> USE DEF TypeOK
<1> DEFINE hit == {s \in Slots : num[s] = inum[t] /\ valid[s]}
           unused == {s \in Slots : ref[s] = 0}
<1>1. hit \in SUBSET Nat /\ unused \in SUBSET Nat
  BY DEF Slots
<1>2. CASE hit # {}
  <2>1. PICK s \in hit : s = Min(hit)
    BY <1>1, <1>2, MinElement, Zenon
  <2>2. /\ ref' = [ref EXCEPT ![s] = @ + 1] /\ UNCHANGED <<num, valid>>
        /\ ip' = [ip EXCEPT ![t] = s]
    BY <1>2, <2>1 DEF Get
  <2>3. s \in Slots /\ num[s] = inum[t] /\ num = [num EXCEPT ![s] = inum[t]]
    BY <2>1
  <2> QED
    BY <2>2, <2>3
<1>3. CASE hit = {}
  <2>1. unused # {}
    BY <1>3 DEF Get
  <2>2. PICK s \in unused : s = Min(unused)
    BY <1>1, <2>1, MinElement, Zenon
  <2>3. /\ ref' = [ref EXCEPT ![s] = 1] /\ num' = [num EXCEPT ![s] = inum[t]]
        /\ valid' = [valid EXCEPT ![s] = FALSE] /\ ip' = [ip EXCEPT ![t] = s]
    BY <1>3, <2>2 DEF Get
  <2>4. s \in Slots /\ ref[s] = 0
    BY <2>2
  <2>5. ref' = [ref EXCEPT ![s] = @ + 1] /\ valid' \in [Slots -> BOOLEAN]
    BY <2>3, <2>4
  <2> QED
    BY <2>3, <2>4, <2>5
<1> QED
  BY <1>2, <1>3

\* The type invariant is preserved by every step of a thread.
LEMMA TypeStep ==
  ASSUME IndInv, NEW t \in Threads, Step(t)
  PROVE  TypeOK'
<1> USE DEF IndInv, RefsExact, TypeOK, Goto, dvars, kvars, svars, tvars, Points
<1>1. ASSUME NEW n \in Names, NEW o \in Ops, Search(t, o, n) PROVE TypeOK'
  BY <1>1 DEF Search, Begin
<1>2. ASSUME NEW n \in Names, UnlinkEntry(t, n) PROVE TypeOK'
  BY <1>2 DEF UnlinkEntry, Begin, Ops
<1>3. ASSUME NEW n \in Names, CreateEntry(t, n) PROVE TypeOK'
  <2>1. Inums \ bitmap \in SUBSET Nat /\ Inums \ bitmap # {}
    <3>1. bitmap # Inums /\ bitmap \subseteq Inums
      BY <1>3 DEF CreateEntry
    <3>2. Inums \subseteq Nat
      BY DEF Inums
    <3> QED
      BY <3>1, <3>2, Zenon
  <2>2. PICK i \in Inums \ bitmap : i = Min(Inums \ bitmap)
    BY <2>1, MinElement, Zenon
  <2>3. bitmap' = bitmap \union {i} /\ Begin(t, "create", n, i)
    BY <1>3, <2>2 DEF CreateEntry
  <2> QED
    BY <1>3, <2>3 DEF CreateEntry, Begin, Ops
<1>4. ASSUME NEW n \in Names, LinkEntry(t, n) PROVE TypeOK'
  BY <1>4 DEF LinkEntry
<1>5. CASE Get(t)
  <2>1. PICK s \in Slots : /\ ip' = [ip EXCEPT ![t] = s]
                           /\ num' = [num EXCEPT ![s] = inum[t]]
                           /\ ref' = [ref EXCEPT ![s] = @ + 1]
                           /\ valid' \in [Slots -> BOOLEAN]
    BY <1>5, GetSlot
  <2>2. AfterGet(op[t]) \in Points
    BY DEF AfterGet
  <2> QED
    BY <1>5, <2>1, <2>2 DEF Get
<1>6. ASSUME NEW next \in Points, LockSlot(t, next), pc[t] \notin {"idle", "get"}
      PROVE  TypeOK'
  <2>1. num[ip[t]] \in Inums
    BY <1>6 DEF SlotKeepsInode, HasRef
  <2> QED
    BY <1>6, <2>1 DEF LockSlot
<1>7. CASE Lock(t) \/ DelLock(t)
  BY <1>6, <1>7 DEF Lock, DelLock
<1>8. CASE BodyUnlink(t)
  <2>1. nlink' \in [Slots -> Nat]
    BY <1>8 DEF BodyUnlink
  <2>2. dlink' \in [Inums -> Nat]
    BY <1>8, <2>1 DEF BodyUnlink
  <2> QED
    BY <1>8, <2>1, <2>2 DEF BodyUnlink
<1>9. CASE BodyCreate(t)
  BY <1>9 DEF BodyCreate
<1>10. CASE BodyLink(t)
  <2>1. nlink' \in [Slots -> Nat]
    BY <1>10 DEF BodyLink
  <2>2. dlink' \in [Inums -> Nat]
    BY <1>10, <2>1 DEF BodyLink
  <2> QED
    BY <1>10, <2>1, <2>2 DEF BodyLink
<1>11. ASSUME DropRef(t), pc[t] \notin {"idle", "get"} PROVE TypeOK'
  <2>1. t \in Users(ip[t])
    BY <1>11 DEF Users, HasRef
  <2>2. ref[ip[t]] \in Nat \ {0}
    BY <2>1, UsersCount DEF Users
  <2>3. ref' \in [Slots -> Nat]
    <3>1. ref[ip[t]] - 1 \in Nat
      BY <2>2
    <3>2. ref' = [ref EXCEPT ![ip[t]] = ref[ip[t]] - 1]
      BY <1>11 DEF DropRef
    <3> QED
      BY <3>1, <3>2
  <2> QED
    BY <1>11, <2>3 DEF DropRef
<1>12. CASE Put(t) \/ Drop(t)
  BY <1>11, <1>12 DEF Put, Drop
<1>13. CASE DelFree(t)
  BY <1>13 DEF DelFree
<1>14. CASE OpenCheck(t) \/ Close(t) \/ PutLast(t) \/ DelInval(t)
  BY <1>14 DEF OpenCheck, Close, PutLast, DelInval
<1>15. ASSUME NEW n \in Names, ReturnError(t, n) PROVE TypeOK'
  BY <1>15 DEF ReturnError, vars
<1> QED
  BY <1>1, <1>2, <1>3, <1>4, <1>5, <1>7, <1>8, <1>9, <1>10, <1>12, <1>13, <1>14,
     <1>15 DEF Step

\* One more user of a slot.
LEMMA UserAdded ==
  ASSUME NEW s, NEW t \in Threads, t \notin Users(s)
  PROVE  Cardinality(Users(s) \union {t}) = Cardinality(Users(s)) + 1
BY UsersCount, FS_AddElement

\* One fewer user of a slot.
LEMMA UserRemoved ==
  ASSUME NEW s, NEW t \in Users(s)
  PROVE  Cardinality(Users(s) \ {t}) = Cardinality(Users(s)) - 1
BY UsersCount, FS_RemoveElement

\* inode_get counts its caller and gives no held slot another number.
LEMMA GetStep ==
  ASSUME IndInv, NEW t \in Threads, Get(t), TypeOK'
  PROVE  IndInv'
<1> USE DEF IndInv, RefsExact, TypeOK
<1>1. PICK s \in Slots : /\ num[s] = inum[t] \/ ref[s] = 0
                         /\ ip' = [ip EXCEPT ![t] = s]
                         /\ num' = [num EXCEPT ![s] = inum[t]]
                         /\ ref' = [ref EXCEPT ![s] = @ + 1]
  BY GetSlot
<1>2. /\ pc[t] = "get" /\ pc'[t] \notin {"idle", "get"} /\ UNCHANGED inum
      /\ \A u \in Threads \ {t} : pc'[u] = pc[u]
  BY DEF Get, Goto, AfterGet
<1>3. ASSUME NEW r \in Slots
      PROVE  Users(r)' = IF r = s THEN Users(r) \union {t} ELSE Users(r)
  BY <1>1, <1>2 DEF Users, HasRef
<1>4. \A r \in Slots : ref[r] = Cardinality(Users(r))
  BY DEF Users
<1>5. ASSUME NEW r \in Slots PROVE ref'[r] = Cardinality(Users(r)')
  <2>1. CASE r = s
    <3>1. t \notin Users(s)
      BY <1>2 DEF Users, HasRef
    <3>2. Users(r)' = Users(s) \union {t}
      BY <1>3, <2>1
    <3>3. Cardinality(Users(r)') = Cardinality(Users(s)) + 1
      BY <3>1, <3>2, UserAdded
    <3>4. ref'[r] = ref[s] + 1
      BY <1>1, <2>1
    <3> QED
      BY <1>4, <3>3, <3>4
  <2>2. CASE r # s
    BY <1>1, <1>3, <1>4, <2>2
  <2> QED
    BY <2>1, <2>2
<1>6. RefsExact'
  BY <1>5 DEF Users
<1>7. ASSUME NEW u \in Threads, NEW r \in Slots, HasRef(u, r)'
      PROVE  num'[r] = inum'[u]
  <2>1. CASE u = t
    BY <1>1, <1>2, <1>7, <2>1 DEF HasRef
  <2>2. CASE u # t
    <3>1. HasRef(u, r) /\ num[r] = inum[u]
      BY <1>1, <1>2, <1>7, <2>2 DEF HasRef, SlotKeepsInode
    <3>2. ref[r] # 0
      BY <3>1, <1>4, UsersCount DEF Users
    <3>3. num'[r] = num[r]
      BY <1>1, <3>2
    <3> QED
      BY <1>2, <3>1, <3>3
  <2> QED
    BY <2>1, <2>2
<1> QED
  BY <1>6, <1>7 DEF SlotKeepsInode

\* inode_put forgets its caller.
LEMMA PutStep ==
  ASSUME IndInv, NEW t \in Threads, pc[t] \in {"put", "drop"}, DropRef(t), TypeOK'
  PROVE  IndInv'
<1> USE DEF IndInv, RefsExact, TypeOK
<1> DEFINE s == ip[t]
<1>1. /\ s \in Slots /\ ref' = [ref EXCEPT ![s] = @ - 1]
      /\ pc'[t] = "idle" /\ UNCHANGED <<num, inum, ip>>
      /\ \A u \in Threads \ {t} : pc'[u] = pc[u]
  BY DEF DropRef, Goto, tvars
<1>2. t \in Users(s)
  BY DEF Users, HasRef
<1>3. ASSUME NEW r \in Slots
      PROVE  Users(r)' = IF r = s THEN Users(r) \ {t} ELSE Users(r)
  BY <1>1 DEF Users, HasRef
<1> HIDE DEF s
<1>4. \A r \in Slots : ref[r] = Cardinality(Users(r))
  BY DEF Users
<1>5. ASSUME NEW r \in Slots PROVE ref'[r] = Cardinality(Users(r)')
  <2>1. CASE r = s
    BY <1>1, <1>2, <1>3, <1>4, <2>1, UserRemoved
  <2>2. CASE r # s
    BY <1>1, <1>3, <1>4, <2>2
  <2> QED
    BY <2>1, <2>2
<1>6. RefsExact'
  BY <1>5 DEF Users
<1>7. SlotKeepsInode'
  BY <1>1 DEF SlotKeepsInode, HasRef
<1> QED
  BY <1>6, <1>7

\* Every other step leaves counts, numbers and holders alone.
LEMMA OtherStep ==
  ASSUME IndInv, NEW t \in Threads, Step(t), ~ Get(t), ~ (Put(t) \/ Drop(t)), TypeOK'
  PROVE  IndInv'
<1> USE QuietStep DEF TypeOK, RefsExact, Goto, dvars, kvars, svars, tvars, Points
<1>0. TypeOK
  BY DEF IndInv
<1>1. ASSUME NEW n \in Names, NEW o \in Ops, Search(t, o, n) PROVE IndInv'
  BY <1>0, <1>1 DEF Search, Begin
<1>2. ASSUME NEW n \in Names, UnlinkEntry(t, n) PROVE IndInv'
  BY <1>0, <1>2 DEF UnlinkEntry, Begin
<1>3. ASSUME NEW n \in Names, CreateEntry(t, n) PROVE IndInv'
  BY <1>0, <1>3 DEF CreateEntry, Begin
<1>4. ASSUME NEW n \in Names, LinkEntry(t, n) PROVE IndInv'
  BY <1>0, <1>4 DEF LinkEntry
<1>5. CASE Lock(t) \/ DelLock(t)
  BY <1>0, <1>5 DEF Lock, DelLock, LockSlot
<1>6. CASE BodyUnlink(t) \/ BodyCreate(t) \/ BodyLink(t)
  BY <1>0, <1>6 DEF BodyUnlink, BodyCreate, BodyLink
<1>7. CASE OpenCheck(t) \/ Close(t) \/ PutLast(t) \/ DelFree(t) \/ DelInval(t)
  BY <1>0, <1>7 DEF OpenCheck, Close, PutLast, DelFree, DelInval
<1>8. ASSUME NEW n \in Names, ReturnError(t, n) PROVE IndInv'
  BY <1>0, <1>8 DEF ReturnError, vars
<1> QED
  BY <1>1, <1>2, <1>3, <1>4, <1>5, <1>6, <1>7, <1>8 DEF Step

\* The invariant holds in every reachable state.
THEOREM InvariantHolds == Spec => []IndInv
<1>1. IndInv /\ [Next]_vars => IndInv'
  <2> SUFFICES ASSUME IndInv, [Next]_vars PROVE IndInv'
    OBVIOUS
  <2>1. CASE UNCHANGED vars
    BY <2>1, QuietStep DEF vars, svars, tvars, dvars, kvars, IndInv, RefsExact, TypeOK
  <2>2. ASSUME NEW t \in Threads, Step(t) PROVE IndInv'
    <3>1. TypeOK'
      BY <2>2, TypeStep
    <3>2. CASE Get(t)
      BY <3>1, <3>2, GetStep
    <3>3. CASE Put(t) \/ Drop(t)
      BY <3>1, <3>3, PutStep DEF Put, Drop
    <3> QED
      BY <2>2, <3>1, <3>2, <3>3, OtherStep
  <2> QED
    BY <2>1, <2>2 DEF Next
<1> QED
  BY <1>1, IndInvInit, PTL DEF Spec

\* ref of every slot is the number of threads between inode_get and inode_put,
\* however gets, puts, deletions and reuses of slots interleave.
THEOREM InodeRefsExact == Spec => []RefsExact
<1>1. IndInv => RefsExact
  BY DEF IndInv
<1> QED
  BY <1>1, InvariantHolds, PTL

\* A slot that a thread holds keeps the inode that the thread asked for.
THEOREM HeldSlotKeepsInode == Spec => []SlotKeepsInode
<1>1. IndInv => SlotKeepsInode
  BY DEF IndInv
<1> QED
  BY <1>1, InvariantHolds, PTL

----------------------------------------------------------------------------
(* InodeIndex: the way to a block *)

\* The constants are positive numbers.
LEMMA Sizes == /\ D \in Nat /\ S \in Nat /\ F \in Nat /\ NBlocks \in Nat /\ MaxLen \in Nat
               /\ D >= 1 /\ S >= 1 /\ F >= 1 /\ NBlocks >= 1
BY IndexAssumption

\* Quotient and remainder.
LEMMA DivMod ==
  ASSUME NEW m \in Nat, NEW n \in Nat, n >= 1
  PROVE  m \div n \in Nat /\ m % n \in 0 .. n - 1 /\ m = n * (m \div n) + (m % n)
OBVIOUS

\* The quotient of a number below k * n by n is below k.
LEMMA DivBound ==
  ASSUME NEW m \in Nat, NEW n \in Nat, NEW k \in Nat, n >= 1, m < k * n
  PROVE  m \div n < k
<1>1. m \div n \in Nat /\ m % n \in 0 .. n - 1 /\ m = n * (m \div n) + (m % n)
  BY DivMod
<1> DEFINE q == m \div n
           r == m % n
<1>2. q \in Nat /\ r \in Nat /\ m = n * q + r
  BY <1>1
<1> HIDE DEF q, r
<1>3. ASSUME q >= k PROVE FALSE
  BY <1>2, <1>3
<1> QED
  BY <1>2, <1>3 DEF q

\* Places: an entry of the inode and at most one entry of each of two index
\* blocks, Stop for none.
Place(k, i, j) ==
  /\ k \in IndexSlots /\ i \in 0 .. F /\ j \in 0 .. F
  /\ k < D => i = Stop
  /\ k < D + S \/ i = Stop => j = Stop

\* The place of a data block: the way does not stop before the last level.
Leaf(k, i, j) == Place(k, i, j) /\ (k >= D => i < F) /\ (k = D + S => j < F)

\* The sizes of the three parts of an index are numbers.
LEMMA Products == S * F \in Nat /\ F * F \in Nat /\ NLogical \in Nat /\ NLogical >= 1
BY Sizes DEF NLogical

\* A logical block lies in one of the three parts.
LEMMA LogicalNat == \A l \in Logical : l \in Nat /\ l < D + S * F + F * F
BY Sizes, Products DEF Logical, NLogical

\* The way to a block with an entry in the inode ...
LEMMA PathDirect ==
  ASSUME NEW l \in Logical, l < D
  PROVE  Path(l) = <<l, Stop, Stop>> /\ Leaf(l, Stop, Stop)
BY Sizes, LogicalNat DEF Path, Leaf, Place, Stop, IndexSlots

\* ... by a block of single indirection: its parts are quotient and remainder ...
LEMMA PathSingle ==
  ASSUME NEW l \in Logical, ~ (l < D), l - D < S * F
  PROVE  LET m == l - D
             k == D + m \div F
             i == m % F
         IN /\ m \in Nat /\ l = D + m /\ m = F * (m \div F) + (m % F)
            /\ m \div F \in Nat /\ m \div F < S
            /\ Path(l) = <<k, i, Stop>> /\ Leaf(k, i, Stop)
<1> DEFINE m == l - D
<1>1. m \in Nat /\ l = D + m /\ m < S * F
  BY Sizes, LogicalNat
<1> DEFINE q == m \div F
           r == m % F
<1>2. q \in Nat /\ r \in 0 .. F - 1 /\ m = F * q + r
  BY <1>1, Sizes, DivMod
<1>3. q < S
  BY <1>1, Sizes, DivBound
<1>4. Path(l) = <<D + q, r, Stop>>
  BY DEF Path
<1> HIDE DEF m, q, r
<1>5. D + q \in IndexSlots /\ D + q >= D /\ D + q < D + S /\ r < F
  BY <1>2, <1>3, Sizes DEF IndexSlots
<1>6. Leaf(D + q, r, Stop)
  BY <1>2, <1>5, Sizes DEF Leaf, Place, Stop
<1> QED
  BY <1>1, <1>2, <1>3, <1>4, <1>6 DEF m, q, r

\* ... and by the two blocks of double indirection.
LEMMA PathDouble ==
  ASSUME NEW l \in Logical, ~ (l < D), ~ (l - D < S * F)
  PROVE  LET m == l - D - S * F
         IN /\ m \in Nat /\ l = D + (S * F) + m /\ m = F * (m \div F) + (m % F)
            /\ Path(l) = <<D + S, m \div F, m % F>> /\ Leaf(D + S, m \div F, m % F)
<1> DEFINE m == l - D - S * F
<1>1. m \in Nat /\ l = D + (S * F) + m /\ m < F * F
  BY Sizes, Products, LogicalNat
<1> DEFINE q == m \div F
           r == m % F
<1>2. q \in Nat /\ r \in 0 .. F - 1 /\ m = F * q + r
  BY <1>1, Sizes, DivMod
<1>3. q < F
  BY <1>1, Sizes, DivBound
<1>4. Path(l) = <<D + S, q, r>>
  BY DEF Path
<1> HIDE DEF m, q, r
<1>6. Leaf(D + S, q, r)
  BY <1>2, <1>3, Sizes DEF Leaf, Place, Stop, IndexSlots
<1> QED
  BY <1>1, <1>2, <1>4, <1>6 DEF m, q, r

\* Path leads to the place of a data block.
LEMMA PathLeaf ==
  ASSUME NEW l \in Logical
  PROVE  \E k, i, j : Path(l) = <<k, i, j>> /\ Leaf(k, i, j)
BY PathDirect, PathSingle, PathDouble

\* The logical block whose way is p.
NumberOf(p) ==
  IF p[1] < D THEN p[1]
  ELSE IF p[1] < D + S THEN D + (F * (p[1] - D) + p[2])
  ELSE D + (S * F) + (F * p[2] + p[3])

\* The number of a logical block can be computed from its way.
LEMMA PathNumber ==
  ASSUME NEW l \in Logical
  PROVE  NumberOf(Path(l)) = l
<1>1. CASE l < D
  BY <1>1, PathDirect DEF NumberOf
<1>2. CASE ~ (l < D) /\ l - D < S * F
  <2> DEFINE m == l - D
             q == m \div F
             r == m % F
  <2>1. m \in Nat /\ l = D + m /\ m = F * q + r /\ q \in Nat /\ q < S
        /\ Path(l) = <<D + q, r, Stop>>
    BY <1>2, PathSingle
  <2> HIDE DEF m, q, r
  <2>2. (D + q) - D = q /\ ~ (D + q < D) /\ D + q < D + S
    BY <2>1, Sizes
  <2> QED
    BY <2>1, <2>2 DEF NumberOf
<1>3. CASE ~ (l < D) /\ ~ (l - D < S * F)
  <2> DEFINE m == l - D - S * F
             q == m \div F
             r == m % F
  <2>1. m \in Nat /\ l = D + (S * F) + m /\ m = F * q + r
        /\ Path(l) = <<D + S, q, r>>
    BY <1>3, PathDouble
  <2> HIDE DEF m, q, r
  <2>2. ~ (D + S < D) /\ ~ (D + S < D + S)
    BY Sizes
  <2> QED
    BY <2>1, <2>2 DEF NumberOf
<1> QED
  BY <1>1, <1>2, <1>3

\* Two logical blocks have different places.
LEMMA PathInjective ==
  ASSUME NEW l \in Logical, NEW m \in Logical, Path(l) = Path(m)
  PROVE  l = m
BY PathNumber

----------------------------------------------------------------------------
(* InodeIndex: places, and the inductive invariant *)

\* BlockAt with the tables as a parameter, to speak of two states.
Look(idx, t, k, i, j) ==
  LET one == idx[k]
      two == IF i = Stop \/ one = NoEntry THEN one ELSE t[one][i]
  IN IF j = Stop \/ two = NoEntry THEN two ELSE t[two][j]

\* The block at a place of file f.
At(f, k, i, j) == Look(index[f], tab, k, i, j)

\* The place that the walk along p has reached after d entries.
Prefix(p, d) == <<p[1], IF d < 2 THEN Stop ELSE p[2], IF d < 3 THEN Stop ELSE p[3]>>

\* Every block at a place of a file is marked used.
InvOwned ==
  \A f \in live : \A k, i, j : Place(k, i, j) => At(f, k, i, j) \in blockmap \union {NoEntry}

\* No block is at two places.
InvUnique ==
  \A f, g \in live : \A k, i, j, x, y, z :
    /\ Place(k, i, j) /\ Place(x, y, z)
    /\ At(f, k, i, j) # NoEntry /\ At(f, k, i, j) = At(g, x, y, z)
    => f = g /\ k = x /\ i = y /\ j = z

\* The disk names what memory names, but for the entries set since inode_rw.
InvDisk ==
  \A f \in live, k \in IndexSlots :
    dindex[f][k] = IF k \in fresh[f] THEN NoEntry ELSE index[f][k]

\* The walk of f stands where the entries followed so far lead.
WalkOf(f) ==
  /\ mode[f] # "none" => f \in live
  /\ moved[f] => cur[f] <= NLogical
  /\ depth[f] > 0 =>
       /\ mode[f] # "none" /\ cur[f] \in Logical /\ depth[f] <= Levels(Path(cur[f]))
       /\ at[f] # NoEntry
       /\ \E k, i, j : /\ Place(k, i, j) /\ Prefix(Path(cur[f]), depth[f]) = <<k, i, j>>
                      /\ at[f] = At(f, k, i, j)

InvWalk == \A f \in Files : WalkOf(f)

\* What a reader of block l of file f should find.
Expected(f, l) == IF l \in lost[f] THEN 0 ELSE want[f][l]

\* The first part of ContentIsWritten.
InvContent == \A f \in live, l \in Logical : Content(index[f], l) = Expected(f, l)

\* What was written to l is below the size, or the size is about to pass it.
Inside(f, l) == l < size[f] \/ (mode[f] = "write" /\ moved[f] /\ l < cur[f])

\* The size, during a write too.
SizeOf(f) ==
  f \in live => dsize[f] = size[f] /\ \A l \in Logical : want[f][l] = 1 => Inside(f, l)

InvSize == \A f \in Files : SizeOf(f)

IndexIndInv ==
  IndexTypeOK /\ InvOwned /\ InvUnique /\ InvDisk /\ InvWalk /\ InvContent /\ InvSize

\* The way to a place leads over places.
LEMMA PlaceParts ==
  ASSUME NEW k, NEW i, NEW j, Place(k, i, j)
  PROVE  Place(k, Stop, Stop) /\ Place(k, i, Stop)
BY Sizes DEF Place, Stop

\* The block at a place, level by level.
LEMMA LookDef ==
  /\ \A idx, t, k : Look(idx, t, k, Stop, Stop) = idx[k]
  /\ \A idx, t, k, i : i # Stop =>
       Look(idx, t, k, i, Stop) = IF idx[k] = NoEntry THEN NoEntry ELSE t[idx[k]][i]
  /\ \A idx, t, k, i, j : j # Stop =>
       Look(idx, t, k, i, j) = IF Look(idx, t, k, i, Stop) = NoEntry THEN NoEntry
                               ELSE t[Look(idx, t, k, i, Stop)][j]
BY DEF Look

\* BlockAt is Look in the current tables.
LEMMA LookBlockAt ==
  \A idx, k, i, j : BlockAt(idx, <<k, i, j>>) = Look(idx, tab, k, i, j)
BY DEF BlockAt, Look

\* The block at a place of a file, level by level.
LEMMA AtDef ==
  /\ \A f, k : At(f, k, Stop, Stop) = index[f][k]
  /\ \A f, k, i : i # Stop =>
       At(f, k, i, Stop) = IF index[f][k] = NoEntry THEN NoEntry ELSE tab[index[f][k]][i]
  /\ \A f, k, i, j : j # Stop =>
       At(f, k, i, j) = IF At(f, k, i, Stop) = NoEntry THEN NoEntry
                        ELSE tab[At(f, k, i, Stop)][j]
BY LookDef DEF At

\* An entry of an index block is a block or empty.
LEMMA TabEntry ==
  ASSUME IndexTypeOK, NEW b \in Entries, b # NoEntry, NEW k \in 0 .. F - 1
  PROVE  tab[b][k] \in Entries
<1>1. b \in Blocks
  BY DEF Entries
<1>2. tab[b] \in [0 .. F - 1 -> Entries]
  BY <1>1 DEF IndexTypeOK
<1> QED
  BY <1>2

\* What is at a place is a block or nothing.
LEMMA AtType ==
  ASSUME IndexTypeOK, NEW f \in Files, NEW k, NEW i, NEW j, Place(k, i, j)
  PROVE  At(f, k, i, j) \in Entries
<1>1. index[f][k] \in Entries /\ NoEntry \in Entries
  BY DEF IndexTypeOK, Place, Entries
<1>2. (i # Stop => i \in 0 .. F - 1) /\ (j # Stop => j \in 0 .. F - 1)
  BY Sizes DEF Place, Stop
<1>3. /\ i = Stop => At(f, k, i, Stop) = index[f][k]
      /\ i # Stop /\ index[f][k] = NoEntry => At(f, k, i, Stop) = NoEntry
      /\ i # Stop /\ index[f][k] # NoEntry => At(f, k, i, Stop) = tab[index[f][k]][i]
  BY AtDef
<1>4. At(f, k, i, Stop) \in Entries
  BY <1>1, <1>2, <1>3, TabEntry, Zenon
<1>5. /\ j = Stop => At(f, k, i, j) = At(f, k, i, Stop)
      /\ j # Stop /\ At(f, k, i, Stop) = NoEntry => At(f, k, i, j) = NoEntry
      /\ j # Stop /\ At(f, k, i, Stop) # NoEntry =>
           At(f, k, i, j) = tab[At(f, k, i, Stop)][j]
  BY AtDef
<1> QED
  BY <1>1, <1>2, <1>4, <1>5, TabEntry, Zenon

\* bitmap_alloc_data finds a block that no file names.
LEMMA Fresh ==
  ASSUME IndexIndInv, blockmap # Blocks
  PROVE  LET b == Min(Blocks \ blockmap)
         IN /\ b \in Blocks \ blockmap /\ b # NoEntry
            /\ \A g \in live : \A k, i, j : Place(k, i, j) => At(g, k, i, j) # b
<1> DEFINE b == Min(Blocks \ blockmap)
<1>1. Blocks \ blockmap \in SUBSET Nat /\ Blocks \ blockmap # {}
  <2>1. blockmap \subseteq Blocks
    BY DEF IndexIndInv, IndexTypeOK
  <2>2. Blocks \subseteq Nat
    BY DEF Blocks
  <2> QED
    BY <2>1, <2>2, Zenon
<1>2. b \in Blocks \ blockmap
  BY <1>1, MinElement, Zenon
<1>3. b # NoEntry
  BY <1>2 DEF Blocks, NoEntry
<1> QED
  BY <1>2, <1>3 DEF IndexIndInv, InvOwned

\* Where the walk of f stands.
LEMMA WalkPlace ==
  ASSUME IndexIndInv, NEW f \in Files, Walking(f)
  PROVE  /\ f \in live /\ depth[f] \in {0, 1, 2} /\ depth[f] + 1 <= Levels(Path(cur[f]))
         /\ \E x, y, z :
              /\ Path(cur[f]) = <<x, y, z>> /\ Leaf(x, y, z) /\ Place(x, y, z)
              /\ Place(x, Stop, Stop) /\ Place(x, y, Stop)
              /\ depth[f] = 0 =>
                   /\ EntryOf(f) = index[f][x] /\ EntryOf(f) = At(f, x, Stop, Stop)
              /\ depth[f] = 1 =>
                   /\ y # Stop /\ at[f] = At(f, x, Stop, Stop) /\ at[f] # NoEntry
                   /\ EntryOf(f) = tab[at[f]][y] /\ EntryOf(f) = At(f, x, y, Stop)
              /\ depth[f] = 2 =>
                   /\ y # Stop /\ z # Stop /\ at[f] = At(f, x, y, Stop) /\ at[f] # NoEntry
                   /\ EntryOf(f) = tab[at[f]][z] /\ EntryOf(f) = At(f, x, y, z)
<1>1. cur[f] \in Logical /\ mode[f] # "none" /\ depth[f] < Levels(Path(cur[f]))
  BY DEF Walking
<1>2. f \in live
  BY <1>1 DEF IndexIndInv, InvWalk, WalkOf
<1>3. PICK x, y, z : Path(cur[f]) = <<x, y, z>> /\ Leaf(x, y, z)
  BY <1>1, PathLeaf
<1> DEFINE p == <<x, y, z>>
<1>4. Levels(p) = IF y = Stop THEN 1 ELSE IF z = Stop THEN 2 ELSE 3
  BY DEF Levels
<1>5. depth[f] \in 0 .. 3
  BY DEF IndexIndInv, IndexTypeOK
<1>6. depth[f] \in {0, 1, 2} /\ depth[f] + 1 <= Levels(p)
      /\ (depth[f] = 1 => y # Stop) /\ (depth[f] = 2 => y # Stop /\ z # Stop)
  BY <1>1, <1>3, <1>4, <1>5
<1>7. Place(x, y, z) /\ Place(x, Stop, Stop) /\ Place(x, y, Stop)
  BY <1>3, PlaceParts DEF Leaf
<1>8. CASE depth[f] = 0
  <2>1. EntryOf(f) = index[f][x]
    BY <1>3, <1>8 DEF EntryOf
  <2> QED
    BY <1>2, <1>3, <1>6, <1>7, <1>8, <2>1, AtDef
<1>9. CASE depth[f] = 1
  <2>1. EntryOf(f) = tab[at[f]][y]
    BY <1>3, <1>9 DEF EntryOf
  <2>2. at[f] # NoEntry /\ \E k, i, j : /\ Prefix(p, 1) = <<k, i, j>>
                                        /\ at[f] = At(f, k, i, j)
    BY <1>3, <1>9 DEF IndexIndInv, InvWalk, WalkOf
  <2>3. Prefix(p, 1) = <<x, Stop, Stop>>
    BY DEF Prefix
  <2>4. at[f] = At(f, x, Stop, Stop)
    BY <2>2, <2>3
  <2>5. EntryOf(f) = At(f, x, y, Stop)
    BY <1>6, <1>7, <1>9, <2>1, <2>2, <2>4, AtDef
  <2> QED
    BY <1>2, <1>3, <1>6, <1>7, <1>9, <2>1, <2>2, <2>4, <2>5
<1>10. CASE depth[f] = 2
  <2>1. EntryOf(f) = tab[at[f]][z]
    BY <1>3, <1>10 DEF EntryOf
  <2>2. at[f] # NoEntry /\ \E k, i, j : /\ Prefix(p, 2) = <<k, i, j>>
                                        /\ at[f] = At(f, k, i, j)
    BY <1>3, <1>10 DEF IndexIndInv, InvWalk, WalkOf
  <2>3. Prefix(p, 2) = <<x, y, Stop>>
    BY DEF Prefix
  <2>4. at[f] = At(f, x, y, Stop)
    BY <2>2, <2>3
  <2>5. EntryOf(f) = At(f, x, y, z)
    BY <1>6, <1>7, <1>10, <2>1, <2>2, <2>4, AtDef
  <2> QED
    BY <1>2, <1>3, <1>6, <1>7, <1>10, <2>1, <2>2, <2>4, <2>5
<1> QED
  BY <1>6, <1>8, <1>9, <1>10

\* The indices of entries on the way to a place.
LEMMA PlaceKeys ==
  ASSUME NEW k, NEW i, NEW j, Place(k, i, j)
  PROVE  /\ k \in IndexSlots /\ (i # Stop => i \in 0 .. F - 1)
         /\ (j # Stop => j \in 0 .. F - 1 /\ i # Stop /\ k = D + S)
         /\ (i = Stop => j = Stop)
BY Sizes DEF Place, Stop, IndexSlots

\* The tables once block b is zeroed and entry e of block a, if any, names it.
TabAfter(tb, a, e, b) ==
  \A c \in Blocks, d \in 0 .. F - 1 :
    tb[c][d] = IF c = b THEN NoEntry ELSE IF c = a /\ d = e THEN b ELSE tab[c][d]

\* The indices in memory once entry x of f names block b.
IndexAfter(ix, f, x, b) ==
  \A g \in Files, k \in IndexSlots :
    ix[g][k] = IF g = f /\ k = x THEN b ELSE index[g][k]

\* b is nowhere.
Unused(b) ==
  b \in Blocks /\ \A g \in live : \A k, i, j : Place(k, i, j) => At(g, k, i, j) # b

\* Two places with one block are one place.
LEMMA OnePlace ==
  ASSUME IndexIndInv, NEW f \in live, NEW g \in live,
         NEW k, NEW i, NEW j, Place(k, i, j), NEW x, NEW y, NEW z, Place(x, y, z),
         At(f, k, i, j) # NoEntry, At(f, k, i, j) = At(g, x, y, z)
  PROVE  f = g /\ k = x /\ i = y /\ j = z
<1>1. InvUnique
  BY DEF IndexIndInv
<1> QED
  BY <1>1 DEF InvUnique

\* What can be at a place and on the way to it.
LEMMA WayBlocks ==
  ASSUME IndexIndInv, NEW g \in live, NEW k, NEW i, NEW j, Place(k, i, j)
  PROVE  /\ g \in Files /\ Place(k, Stop, Stop) /\ Place(k, i, Stop)
         /\ k \in IndexSlots /\ (i # Stop => i \in 0 .. F - 1)
         /\ (j # Stop => j \in 0 .. F - 1 /\ i # Stop /\ k = D + S)
         /\ (i = Stop => j = Stop)
         /\ At(g, k, Stop, Stop) \in Blocks \/ At(g, k, Stop, Stop) = NoEntry
         /\ At(g, k, i, Stop) \in Blocks \/ At(g, k, i, Stop) = NoEntry
         /\ At(g, k, i, j) \in Blocks \/ At(g, k, i, j) = NoEntry
<1>1. g \in Files /\ IndexTypeOK
  BY DEF IndexIndInv, IndexTypeOK
<1>2. Place(k, Stop, Stop) /\ Place(k, i, Stop)
  BY PlaceParts
<1>3. /\ At(g, k, Stop, Stop) \in Entries /\ At(g, k, i, Stop) \in Entries
      /\ At(g, k, i, j) \in Entries
  BY <1>1, <1>2, AtType
<1> QED
  BY <1>1, <1>2, <1>3, PlaceKeys DEF Entries

\* A block entered in the inode.
LEMMA EnterRoot ==
  ASSUME IndexIndInv, NEW f \in live, NEW x, Place(x, Stop, Stop),
         At(f, x, Stop, Stop) = NoEntry, NEW b, Unused(b),
         NEW ix, NEW tb, IndexAfter(ix, f, x, b), TabAfter(tb, NoEntry, 0, b),
         NEW g \in live, NEW k, NEW i, NEW j, Place(k, i, j)
  PROVE  Look(ix[g], tb, k, i, j) = IF g = f /\ k = x /\ i = Stop /\ j = Stop THEN b
                                    ELSE At(g, k, i, j)
<1> DEFINE o == At(g, k, Stop, Stop)
           t == At(g, k, i, Stop)
<1>1. /\ g \in Files /\ k \in IndexSlots
      /\ (i # Stop => i \in 0 .. F - 1)
      /\ (j # Stop => j \in 0 .. F - 1 /\ i # Stop) /\ (i = Stop => j = Stop)
      /\ (o \in Blocks \/ o = NoEntry) /\ (t \in Blocks \/ t = NoEntry)
  BY WayBlocks
<1>2. o # b /\ t # b /\ b \in Blocks /\ b # NoEntry
  <2>1. Place(k, Stop, Stop) /\ Place(k, i, Stop)
    BY PlaceParts
  <2> QED
    BY <2>1 DEF Unused, Blocks, NoEntry
<1>3. o = index[g][k]
  BY AtDef, Zenon
<1> HIDE DEF o, t
<1>4. ix[g][k] = IF g = f /\ k = x THEN b ELSE o
  BY <1>1, <1>3 DEF IndexAfter
<1>5. \A c \in Blocks, d \in 0 .. F - 1 : tb[c][d] = IF c = b THEN NoEntry ELSE tab[c][d]
  BY DEF TabAfter, Blocks, NoEntry
<1>6. CASE g = f /\ k = x
  <2>1. ix[g][k] = b /\ o = NoEntry
    BY <1>4, <1>6 DEF o
  <2>2. CASE i = Stop
    BY <1>1, <1>6, <2>1, <2>2, LookDef
  <2>3. CASE i # Stop
    <3>1. Look(ix[g], tb, k, i, Stop) = NoEntry
      BY <1>1, <1>2, <1>5, <2>1, <2>3, LookDef
    <3>2. Look(ix[g], tb, k, i, j) = NoEntry
      BY <3>1, LookDef
    <3>3. At(g, k, i, j) = NoEntry
      <4>1. At(g, k, i, Stop) = NoEntry
        <5>1. At(g, k, i, Stop) = IF index[g][k] = NoEntry THEN NoEntry
                                  ELSE tab[index[g][k]][i]
          BY <2>3, AtDef
        <5> QED
          BY <1>3, <2>1, <5>1
      <4> QED
        BY <4>1, AtDef
    <3> QED
      BY <2>3, <3>2, <3>3
  <2> QED
    BY <2>2, <2>3
<1>7. CASE ~ (g = f /\ k = x)
  <2>1. ix[g][k] = o
    BY <1>4, <1>7
  <2>2. Look(ix[g], tb, k, i, Stop) = t
    <3>1. CASE i = Stop
      BY <1>3, <2>1, <3>1, LookDef, AtDef DEF t
    <3>2. CASE i # Stop
      <4>1. t = IF o = NoEntry THEN NoEntry ELSE tab[o][i]
        BY <1>3, <3>2, AtDef DEF t
      <4>2. Look(ix[g], tb, k, i, Stop) = IF o = NoEntry THEN NoEntry ELSE tb[o][i]
        BY <2>1, <3>2, LookDef
      <4> QED
        BY <1>1, <1>2, <1>5, <3>2, <4>1, <4>2
    <3> QED
      BY <3>1, <3>2
  <2>3. Look(ix[g], tb, k, i, j) = At(g, k, i, j)
    <3>1. CASE j = Stop
      BY <2>2, <3>1 DEF t
    <3>2. CASE j # Stop
      <4>1. At(g, k, i, j) = IF t = NoEntry THEN NoEntry ELSE tab[t][j]
        BY <3>2, AtDef DEF t
      <4>2. Look(ix[g], tb, k, i, j) = IF t = NoEntry THEN NoEntry ELSE tb[t][j]
        BY <2>2, <3>2, LookDef
      <4> QED
        BY <1>1, <1>2, <1>5, <3>2, <4>1, <4>2
    <3> QED
      BY <3>1, <3>2
  <2> QED
    BY <1>7, <2>3
<1> QED
  BY <1>6, <1>7

\* A block entered in an index block of single indirection, or in the first of
\* double indirection.
LEMMA EnterSecond ==
  ASSUME IndexIndInv, NEW f \in live, NEW x, NEW y, Place(x, y, Stop), y # Stop,
         NEW a, a = At(f, x, Stop, Stop), a # NoEntry, At(f, x, y, Stop) = NoEntry,
         NEW b, Unused(b), NEW tb, TabAfter(tb, a, y, b),
         NEW g \in live, NEW k, NEW i, NEW j, Place(k, i, j)
  PROVE  Look(index[g], tb, k, i, j) = IF g = f /\ k = x /\ i = y /\ j = Stop THEN b
                                       ELSE At(g, k, i, j)
<1> DEFINE o == At(g, k, Stop, Stop)
           t == At(g, k, i, Stop)
<1>1. /\ (i # Stop => i \in 0 .. F - 1)
      /\ (j # Stop => j \in 0 .. F - 1 /\ i # Stop) /\ (i = Stop => j = Stop)
      /\ (o \in Blocks \/ o = NoEntry) /\ (t \in Blocks \/ t = NoEntry)
      /\ Place(x, Stop, Stop) /\ Place(k, Stop, Stop) /\ Place(k, i, Stop)
  BY WayBlocks
<1>2. o # b /\ t # b /\ a # b /\ b \in Blocks
  BY <1>1 DEF Unused
<1>3. o = index[g][k]
  BY AtDef, Zenon
<1>4. (o = a => g = f /\ k = x) /\ (i # Stop => t # a)
  <2>1. ASSUME o = a PROVE g = f /\ k = x
    BY <1>1, <2>1, OnePlace
  <2>2. ASSUME i # Stop, t = a PROVE FALSE
    BY <1>1, <2>2, OnePlace
  <2> QED
    BY <2>1, <2>2
<1>5. \A c \in Blocks, d \in 0 .. F - 1 :
        tb[c][d] = IF c = b THEN NoEntry ELSE IF c = a /\ d = y THEN b ELSE tab[c][d]
  BY DEF TabAfter
<1> HIDE DEF o, t
<1>6. CASE i = Stop
  <2>1. Look(index[g], tb, k, i, j) = o /\ At(g, k, i, j) = o
    BY <1>1, <1>3, <1>6, LookDef, AtDef
  <2> QED
    BY <1>6, <2>1
<1>7. CASE i # Stop /\ g = f /\ k = x /\ i = y
  <2>1. o = a /\ t = NoEntry
    BY <1>7 DEF o, t
  <2>2. Look(index[g], tb, k, i, Stop) = tb[o][i]
    BY <1>3, <1>7, <2>1, LookDef
  <2>3. Look(index[g], tb, k, i, Stop) = b
    BY <1>1, <1>2, <1>5, <1>7, <2>1, <2>2
  <2>4. CASE j = Stop
    BY <1>7, <2>3, <2>4
  <2>5. CASE j # Stop
    <3>1. Look(index[g], tb, k, i, j) = tb[b][j]
      BY <1>2, <2>3, <2>5, LookDef DEF Blocks, NoEntry
    <3>2. At(g, k, i, j) = NoEntry
      BY <2>1, <2>5, AtDef DEF t
    <3> QED
      BY <1>1, <1>2, <1>5, <2>5, <3>1, <3>2
  <2> QED
    BY <2>4, <2>5
<1>8. CASE i # Stop /\ ~ (g = f /\ k = x /\ i = y)
  <2>1. Look(index[g], tb, k, i, Stop) = t
    <3>1. t = IF o = NoEntry THEN NoEntry ELSE tab[o][i]
      BY <1>3, <1>8, AtDef DEF t
    <3>2. Look(index[g], tb, k, i, Stop) = IF o = NoEntry THEN NoEntry ELSE tb[o][i]
      BY <1>3, <1>8, LookDef
    <3> QED
      BY <1>1, <1>2, <1>4, <1>5, <1>8, <3>1, <3>2
  <2>2. Look(index[g], tb, k, i, j) = At(g, k, i, j)
    <3>1. CASE j = Stop
      BY <2>1, <3>1 DEF t
    <3>2. CASE j # Stop
      <4>1. At(g, k, i, j) = IF t = NoEntry THEN NoEntry ELSE tab[t][j]
        BY <3>2, AtDef DEF t
      <4>2. Look(index[g], tb, k, i, j) = IF t = NoEntry THEN NoEntry ELSE tb[t][j]
        BY <2>1, <3>2, LookDef
      <4> QED
        BY <1>1, <1>2, <1>4, <1>5, <1>8, <3>2, <4>1, <4>2
    <3> QED
      BY <3>1, <3>2
  <2> QED
    BY <1>8, <2>2
<1> QED
  BY <1>6, <1>7, <1>8

\* A block entered in a second index block of double indirection.
LEMMA EnterThird ==
  ASSUME IndexIndInv, NEW f \in live, NEW x, NEW y, NEW z, Place(x, y, z),
         y # Stop, z # Stop,
         NEW a, a = At(f, x, y, Stop), a # NoEntry, At(f, x, y, z) = NoEntry,
         NEW b, Unused(b), NEW tb, TabAfter(tb, a, z, b),
         NEW g \in live, NEW k, NEW i, NEW j, Place(k, i, j)
  PROVE  Look(index[g], tb, k, i, j) = IF g = f /\ k = x /\ i = y /\ j = z THEN b
                                       ELSE At(g, k, i, j)
<1> DEFINE o == At(g, k, Stop, Stop)
           t == At(g, k, i, Stop)
<1>1. /\ (i # Stop => i \in 0 .. F - 1)
      /\ (j # Stop => j \in 0 .. F - 1 /\ i # Stop) /\ (i = Stop => j = Stop)
      /\ (o \in Blocks \/ o = NoEntry) /\ (t \in Blocks \/ t = NoEntry)
      /\ Place(x, y, Stop) /\ Place(k, Stop, Stop) /\ Place(k, i, Stop)
  BY WayBlocks
<1>2. o # b /\ t # b /\ a # b
  BY <1>1 DEF Unused
<1>3. o = index[g][k]
  BY AtDef, Zenon
<1>4. o # a /\ (t = a => g = f /\ k = x /\ i = y)
  <2>1. ASSUME o = a PROVE FALSE
    BY <1>1, <2>1, OnePlace
  <2>2. ASSUME t = a PROVE g = f /\ k = x /\ i = y
    BY <1>1, <2>2, OnePlace
  <2> QED
    BY <2>1, <2>2
<1>5. \A c \in Blocks, d \in 0 .. F - 1 :
        tb[c][d] = IF c = b THEN NoEntry ELSE IF c = a /\ d = z THEN b ELSE tab[c][d]
  BY DEF TabAfter
<1> HIDE DEF o, t
<1>6. Look(index[g], tb, k, i, Stop) = t
  <2>1. CASE i = Stop
    BY <1>3, <2>1, LookDef, AtDef DEF t
  <2>2. CASE i # Stop
    <3>1. t = IF o = NoEntry THEN NoEntry ELSE tab[o][i]
      BY <1>3, <2>2, AtDef DEF t
    <3>2. Look(index[g], tb, k, i, Stop) = IF o = NoEntry THEN NoEntry ELSE tb[o][i]
      BY <1>3, <2>2, LookDef
    <3> QED
      BY <1>1, <1>2, <1>4, <1>5, <2>2, <3>1, <3>2
  <2> QED
    BY <2>1, <2>2
<1>7. CASE j = Stop
  <2>1. Look(index[g], tb, k, i, j) = At(g, k, i, j)
    BY <1>6, <1>7 DEF t
  <2> QED
    BY <1>7, <2>1
<1>8. CASE j # Stop
  <2>1. At(g, k, i, j) = IF t = NoEntry THEN NoEntry ELSE tab[t][j]
    BY <1>8, AtDef DEF t
  <2>2. Look(index[g], tb, k, i, j) = IF t = NoEntry THEN NoEntry ELSE tb[t][j]
    BY <1>6, <1>8, LookDef
  <2>3. g = f /\ k = x /\ i = y => t = a
    BY DEF t
  <2> QED
    BY <1>1, <1>2, <1>4, <1>5, <1>8, <2>1, <2>2, <2>3
<1> QED
  BY <1>7, <1>8

\* The fresh block b is entered at the place (x, y, z) of f, where the walk
\* stands, and what is at the other places stays.
ExtendedAt(f, b, x, y, z) ==
  /\ Unused(b) /\ b \in Blocks \ blockmap /\ b # NoEntry
  /\ Place(x, y, z) /\ At(f, x, y, z) = NoEntry
  /\ Prefix(Path(cur[f]), depth[f] + 1) = <<x, y, z>>
  /\ blockmap' = blockmap \union {b} /\ data' = [data EXCEPT ![b] = 0]
  /\ Descend(f, b)
  /\ \A g \in live : \A k, i, j : Place(k, i, j) =>
       Look(index'[g], tab', k, i, j) =
         IF g = f /\ k = x /\ i = y /\ j = z THEN b ELSE At(g, k, i, j)

\* The entries of inodes that change were empty, and are in the history.
FreshGrows ==
  \A g \in Files, k \in IndexSlots :
    /\ k \in fresh[g] => k \in fresh'[g]
    /\ k \in fresh'[g] => k \in fresh[g] \/ index[g][k] = NoEntry
    /\ k \notin fresh'[g] => index'[g][k] = index[g][k]

\* Extend enters a fresh block at the place of the walk and moves no other.
LEMMA ExtendAt ==
  ASSUME IndexIndInv, NEW f \in Files, Extend(f)
  PROVE  /\ f \in live /\ tab' \in [Blocks -> [0 .. F - 1 -> Entries]]
         /\ index' \in [Files -> [IndexSlots -> Entries]]
         /\ fresh' \in [Files -> SUBSET IndexSlots] /\ FreshGrows
         /\ \E b, x, y, z : ExtendedAt(f, b, x, y, z)
<1> DEFINE b == Min(Blocks \ blockmap)
<1>1. Walking(f) /\ EntryOf(f) = NoEntry /\ blockmap # Blocks
      /\ blockmap' = blockmap \union {b} /\ data' = [data EXCEPT ![b] = 0]
      /\ Enter(f, b) /\ Descend(f, b)
      /\ fresh' = [fresh EXCEPT ![f] =
                     IF depth[f] = 0 THEN @ \union {Path(cur[f])[1]} ELSE @]
  BY DEF Extend
<1>2. b \in Blocks \ blockmap /\ b # NoEntry
      /\ \A g \in live : \A k, i, j : Place(k, i, j) => At(g, k, i, j) # b
  BY <1>1, Fresh
<1> HIDE DEF b
<1>3. Unused(b)
  BY <1>2 DEF Unused
<1>4. PICK x, y, z :
        /\ Path(cur[f]) = <<x, y, z>> /\ Leaf(x, y, z) /\ Place(x, y, z)
        /\ Place(x, Stop, Stop) /\ Place(x, y, Stop)
        /\ depth[f] = 0 =>
             /\ EntryOf(f) = index[f][x] /\ EntryOf(f) = At(f, x, Stop, Stop)
        /\ depth[f] = 1 =>
             /\ y # Stop /\ at[f] = At(f, x, Stop, Stop) /\ at[f] # NoEntry
             /\ EntryOf(f) = tab[at[f]][y] /\ EntryOf(f) = At(f, x, y, Stop)
        /\ depth[f] = 2 =>
             /\ y # Stop /\ z # Stop /\ at[f] = At(f, x, y, Stop) /\ at[f] # NoEntry
             /\ EntryOf(f) = tab[at[f]][z] /\ EntryOf(f) = At(f, x, y, z)
  BY <1>1, WalkPlace
<1>5. f \in live /\ depth[f] \in {0, 1, 2}
  BY <1>1, WalkPlace
<1>6. /\ tab \in [Blocks -> [0 .. F - 1 -> Entries]] /\ index \in [Files -> [IndexSlots -> Entries]]
      /\ b \in Entries /\ ZeroTab \in [0 .. F - 1 -> Entries]
      /\ fresh \in [Files -> SUBSET IndexSlots]
  BY <1>2 DEF IndexIndInv, IndexTypeOK, Entries, ZeroTab
<1>7. x \in IndexSlots /\ (y # Stop => y \in 0 .. F - 1) /\ (z # Stop => z \in 0 .. F - 1)
  BY <1>4, PlaceKeys
<1>8. CASE depth[f] = 0
  <2>1. index' = [index EXCEPT ![f][x] = b] /\ tab' = [tab EXCEPT ![b] = ZeroTab]
    BY <1>1, <1>4, <1>8 DEF Enter
  <2>2. TabAfter(tab', NoEntry, 0, b)
    BY <1>2, <1>6, <2>1 DEF TabAfter, ZeroTab, Blocks, NoEntry
  <2>3. IndexAfter(index', f, x, b)
    BY <1>6, <1>7, <2>1 DEF IndexAfter
  <2>4. Prefix(Path(cur[f]), depth[f] + 1) = <<x, Stop, Stop>>
    BY <1>4, <1>8 DEF Prefix
  <2>5. At(f, x, Stop, Stop) = NoEntry /\ index[f][x] = NoEntry
    BY <1>1, <1>4, <1>8
  <2>6. ASSUME NEW g \in live, NEW k, NEW i, NEW j, Place(k, i, j)
        PROVE  Look(index'[g], tab', k, i, j) =
                 IF g = f /\ k = x /\ i = Stop /\ j = Stop THEN b ELSE At(g, k, i, j)
    BY <1>3, <1>4, <1>5, <2>2, <2>3, <2>5, <2>6, EnterRoot
  <2>7. tab' \in [Blocks -> [0 .. F - 1 -> Entries]]
    BY <1>6, <2>1
  <2>8. index' \in [Files -> [IndexSlots -> Entries]]
    BY <1>6, <2>1
  <2>9. fresh' \in [Files -> SUBSET IndexSlots] /\ FreshGrows
    <3>1. fresh' = [fresh EXCEPT ![f] = @ \union {x}]
      BY <1>1, <1>4, <1>8
    <3>2. fresh' \in [Files -> SUBSET IndexSlots]
          /\ \A g \in Files : fresh'[g] = IF g = f THEN fresh[g] \union {x} ELSE fresh[g]
      BY <1>6, <1>7, <3>1
    <3> QED
      BY <3>2, <2>3, <2>5 DEF IndexAfter, FreshGrows
  <2>10. ExtendedAt(f, b, x, Stop, Stop)
    BY <1>1, <1>2, <1>3, <1>4, <2>4, <2>5, <2>6, Zenon DEF ExtendedAt
  <2> QED
    BY <1>5, <2>7, <2>8, <2>9, <2>10
<1> DEFINE Grown(k) == UNCHANGED index /\ tab' = [tab EXCEPT ![b] = ZeroTab, ![at[f]][k] = b]
<1>9. ASSUME NEW k \in 0 .. F - 1, Grown(k), at[f] \in Blocks, at[f] # b
      PROVE  TabAfter(tab', at[f], k, b) /\ tab' \in [Blocks -> [0 .. F - 1 -> Entries]]
  <2>1. tab'[b] = ZeroTab /\ tab'[at[f]] = [tab[at[f]] EXCEPT ![k] = b]
        /\ \A c \in Blocks \ {b, at[f]} : tab'[c] = tab[c]
    BY <1>2, <1>6, <1>9
  <2>2. TabAfter(tab', at[f], k, b)
    <3>1. SUFFICES ASSUME NEW c \in Blocks, NEW d \in 0 .. F - 1
                   PROVE  tab'[c][d] = IF c = b THEN NoEntry
                                       ELSE IF c = at[f] /\ d = k THEN b ELSE tab[c][d]
      BY DEF TabAfter
    <3>2. ZeroTab[d] = NoEntry
      BY DEF ZeroTab
    <3>3. [tab[at[f]] EXCEPT ![k] = b][d] = IF d = k THEN b ELSE tab[at[f]][d]
      BY <1>6, <1>9
    <3>4. CASE c = b
      BY <2>1, <3>2, <3>4
    <3>5. CASE c = at[f]
      <4>1. tab'[c] = [tab[at[f]] EXCEPT ![k] = b] /\ c # b
        BY <1>9, <2>1, <3>5
      <4> QED
        BY <3>3, <3>5, <4>1
    <3>6. CASE c # b /\ c # at[f]
      <4>1. tab'[c] = tab[c]
        BY <2>1, <3>6
      <4> QED
        BY <3>6, <4>1
    <3> QED
      BY <3>4, <3>5, <3>6
  <2>3. tab' \in [Blocks -> [0 .. F - 1 -> Entries]]
    BY <1>6, <1>9
  <2> QED
    BY <2>2, <2>3
<1>10. CASE depth[f] = 1
  <2>1. y \in 0 .. F - 1 /\ y # Stop /\ Grown(y)
    BY <1>1, <1>4, <1>7, <1>10 DEF Enter
  <2>2. at[f] = At(f, x, Stop, Stop) /\ at[f] # NoEntry /\ At(f, x, y, Stop) = NoEntry
    BY <1>1, <1>4, <1>10
  <2>3. at[f] \in Blocks /\ at[f] # b
    BY <1>2, <1>4, <1>5, <2>2, WayBlocks
  <2>4. TabAfter(tab', at[f], y, b) /\ tab' \in [Blocks -> [0 .. F - 1 -> Entries]]
    BY <1>9, <2>1, <2>3
  <2>5. Prefix(Path(cur[f]), depth[f] + 1) = <<x, y, Stop>>
    BY <1>4, <1>10 DEF Prefix
  <2>6. ASSUME NEW g \in live, NEW k, NEW i, NEW j, Place(k, i, j)
        PROVE  Look(index[g], tab', k, i, j) =
                 IF g = f /\ k = x /\ i = y /\ j = Stop THEN b ELSE At(g, k, i, j)
    BY <1>3, <1>4, <1>5, <2>1, <2>2, <2>4, <2>6, EnterSecond
  <2>7. index' = index
    BY <2>1
  <2>8. ASSUME NEW g \in live, NEW k, NEW i, NEW j, Place(k, i, j)
        PROVE  Look(index'[g], tab', k, i, j) =
                 IF g = f /\ k = x /\ i = y /\ j = Stop THEN b ELSE At(g, k, i, j)
    BY <2>6, <2>7, <2>8
  <2>9. ExtendedAt(f, b, x, y, Stop)
    BY <1>1, <1>2, <1>3, <1>4, <2>2, <2>5, <2>8, Zenon DEF ExtendedAt
  <2>10. fresh' = fresh
    BY <1>1, <1>6, <1>10
  <2>11. FreshGrows
    BY <2>7, <2>10 DEF FreshGrows
  <2> QED
    BY <1>5, <1>6, <2>4, <2>7, <2>9, <2>10, <2>11
<1>11. CASE depth[f] = 2
  <2>1. z \in 0 .. F - 1 /\ y # Stop /\ z # Stop /\ Grown(z)
    BY <1>1, <1>4, <1>7, <1>11 DEF Enter
  <2>2. at[f] = At(f, x, y, Stop) /\ at[f] # NoEntry /\ At(f, x, y, z) = NoEntry
    BY <1>1, <1>4, <1>11
  <2>3. at[f] \in Blocks /\ at[f] # b
    BY <1>2, <1>4, <1>5, <2>2, WayBlocks
  <2>4. TabAfter(tab', at[f], z, b) /\ tab' \in [Blocks -> [0 .. F - 1 -> Entries]]
    BY <1>9, <2>1, <2>3
  <2>5. Prefix(Path(cur[f]), depth[f] + 1) = <<x, y, z>>
    BY <1>4, <1>11 DEF Prefix
  <2>6. ASSUME NEW g \in live, NEW k, NEW i, NEW j, Place(k, i, j)
        PROVE  Look(index[g], tab', k, i, j) =
                 IF g = f /\ k = x /\ i = y /\ j = z THEN b ELSE At(g, k, i, j)
    BY <1>3, <1>4, <1>5, <2>1, <2>2, <2>4, <2>6, EnterThird
  <2>7. index' = index
    BY <2>1
  <2>8. ASSUME NEW g \in live, NEW k, NEW i, NEW j, Place(k, i, j)
        PROVE  Look(index'[g], tab', k, i, j) =
                 IF g = f /\ k = x /\ i = y /\ j = z THEN b ELSE At(g, k, i, j)
    BY <2>6, <2>7, <2>8
  <2>9. ExtendedAt(f, b, x, y, z)
    BY <1>1, <1>2, <1>3, <1>4, <2>2, <2>5, <2>8, Zenon DEF ExtendedAt
  <2>10. fresh' = fresh
    BY <1>1, <1>6, <1>11
  <2>11. FreshGrows
    BY <2>7, <2>10 DEF FreshGrows
  <2> QED
    BY <1>5, <1>6, <2>4, <2>7, <2>9, <2>10, <2>11
<1> QED
  BY <1>5, <1>8, <1>10, <1>11

----------------------------------------------------------------------------
(* InodeIndex: the steps *)

\* The places on the way to a logical block.
LEMMA PrefixPlace ==
  ASSUME NEW l \in Logical, NEW d \in 1 .. 3, d <= Levels(Path(l))
  PROVE  \E k, i, j : Prefix(Path(l), d) = <<k, i, j>> /\ Place(k, i, j)
<1>1. PICK x, y, z : Path(l) = <<x, y, z>> /\ Leaf(x, y, z)
  BY PathLeaf
<1>2. Place(x, y, z) /\ Place(x, y, Stop) /\ Place(x, Stop, Stop)
  BY <1>1, PlaceParts DEF Leaf
<1>3. Prefix(Path(l), d) = <<x, IF d < 2 THEN Stop ELSE y, IF d < 3 THEN Stop ELSE z>>
  BY <1>1 DEF Prefix
<1>4. CASE d = 1
  BY <1>2, <1>3, <1>4
<1>5. CASE d = 2
  BY <1>2, <1>3, <1>5
<1>6. CASE d = 3
  BY <1>2, <1>3, <1>6
<1> QED
  BY <1>4, <1>5, <1>6

\* The whole way is as long as its levels.
LEMMA PrefixWhole ==
  ASSUME NEW l \in Logical
  PROVE  Levels(Path(l)) \in 1 .. 3 /\ Prefix(Path(l), Levels(Path(l))) = Path(l)
<1>1. PICK x, y, z : Path(l) = <<x, y, z>> /\ Leaf(x, y, z)
  BY PathLeaf
<1>2. y = Stop => z = Stop
  BY <1>1, PlaceKeys DEF Leaf
<1>3. Levels(Path(l)) = IF y = Stop THEN 1 ELSE IF z = Stop THEN 2 ELSE 3
  BY <1>1 DEF Levels
<1>4. CASE y = Stop
  BY <1>1, <1>2, <1>3, <1>4 DEF Prefix
<1>5. CASE y # Stop /\ z = Stop
  BY <1>1, <1>3, <1>5 DEF Prefix
<1>6. CASE y # Stop /\ z # Stop
  BY <1>1, <1>3, <1>6 DEF Prefix
<1> QED
  BY <1>2, <1>4, <1>5, <1>6

\* What a reader finds depends on the block at the end of the way.
LEMMA ContentAt ==
  ASSUME NEW l \in Logical, NEW k, NEW i, NEW j, Path(l) = <<k, i, j>>
  PROVE  /\ \A g : Content(index[g], l) =
                     IF At(g, k, i, j) = NoEntry THEN 0 ELSE data[At(g, k, i, j)]
         /\ \A idx : Content(idx, l) = IF Look(idx, tab, k, i, j) = NoEntry THEN 0
                                       ELSE data[Look(idx, tab, k, i, j)]
BY LookBlockAt DEF Content, At

\* ContentAt in the next state.
LEMMA ContentNext ==
  ASSUME NEW l \in Logical, NEW k, NEW i, NEW j, Path(l) = <<k, i, j>>, NEW g
  PROVE  Content(index[g], l)' =
           IF Look(index'[g], tab', k, i, j) = NoEntry THEN 0
           ELSE data'[Look(index'[g], tab', k, i, j)]
BY DEF Content, BlockAt, Look

\* The parts of the invariant in the next state, said with Look.
LEMMA OwnedNext ==
  ASSUME \A g \in live' : \A k, i, j : Place(k, i, j) =>
           Look(index'[g], tab', k, i, j) \in blockmap' \union {NoEntry}
  PROVE  InvOwned'
BY DEF InvOwned, At

\* InvUnique in the next state, said with Look.
LEMMA UniqueNext ==
  ASSUME \A f, g \in live' : \A k, i, j, x, y, z :
           /\ Place(k, i, j) /\ Place(x, y, z)
           /\ Look(index'[f], tab', k, i, j) # NoEntry
           /\ Look(index'[f], tab', k, i, j) = Look(index'[g], tab', x, y, z)
           => f = g /\ k = x /\ i = y /\ j = z
  PROVE  InvUnique'
BY DEF InvUnique, At

\* The walk of a file goes on from where it was if what it found stays in place.
LEMMA WalkNext ==
  ASSUME IndexIndInv, IndexTypeOK', NEW g \in Files,
         mode'[g] = mode[g], moved'[g] = moved[g], cur'[g] = cur[g],
         depth'[g] = depth[g], at'[g] = at[g], g \in live => g \in live',
         g \in live => \A k, i, j : Place(k, i, j) /\ At(g, k, i, j) # NoEntry =>
           Look(index'[g], tab', k, i, j) = At(g, k, i, j)
  PROVE  WalkOf(g)'
<1>1. WalkOf(g) /\ depth[g] \in 0 .. 3
  BY DEF IndexIndInv, InvWalk, WalkOf, IndexTypeOK
<1>2. ASSUME depth[g] > 0
      PROVE  \E k, i, j : /\ Place(k, i, j)
                          /\ Prefix(Path(cur[g]), depth[g]) = <<k, i, j>>
                          /\ at'[g] = Look(index'[g], tab', k, i, j)
  <2>1. g \in live /\ at[g] # NoEntry
    BY <1>1, <1>2 DEF WalkOf
  <2>2. PICK k, i, j : /\ Place(k, i, j) /\ Prefix(Path(cur[g]), depth[g]) = <<k, i, j>>
                       /\ at[g] = At(g, k, i, j)
    BY <1>1, <1>2 DEF WalkOf
  <2>3. Look(index'[g], tab', k, i, j) = at[g]
    BY <2>1, <2>2
  <2> QED
    BY <2>2, <2>3
<1>3. CASE depth[g] > 0
  <2>1. /\ mode'[g] # "none" => g \in live'
        /\ moved'[g] => cur'[g] <= NLogical
        /\ mode'[g] # "none" /\ cur'[g] \in Logical /\ depth'[g] <= Levels(Path(cur'[g]))
        /\ at'[g] # NoEntry
    BY <1>1, <1>3 DEF WalkOf
  <2>2. \E k, i, j : /\ Place(k, i, j)
                     /\ Prefix(Path(cur'[g]), depth'[g]) = <<k, i, j>>
                     /\ at'[g] = Look(index'[g], tab', k, i, j)
    BY <1>2, <1>3, Zenon
  <2> QED
    BY <2>1, <2>2 DEF WalkOf, At
<1>4. CASE ~ (depth[g] > 0)
  BY <1>1, <1>4 DEF WalkOf
<1> QED
  BY <1>3, <1>4

\* locate_or_add_block adds a block.
LEMMA ExtendStep ==
  ASSUME IndexIndInv, NEW f \in Files, Extend(f)
  PROVE  IndexIndInv'
<1>1. /\ f \in live /\ tab' \in [Blocks -> [0 .. F - 1 -> Entries]]
      /\ index' \in [Files -> [IndexSlots -> Entries]]
      /\ fresh' \in [Files -> SUBSET IndexSlots] /\ FreshGrows
  BY ExtendAt
<1>2. PICK b, x, y, z : ExtendedAt(f, b, x, y, z)
  BY ExtendAt, Zenon
<1>3. /\ Unused(b) /\ b \in Blocks \ blockmap /\ b # NoEntry
      /\ Place(x, y, z) /\ At(f, x, y, z) = NoEntry
      /\ Prefix(Path(cur[f]), depth[f] + 1) = <<x, y, z>>
      /\ blockmap' = blockmap \union {b} /\ data' = [data EXCEPT ![b] = 0]
      /\ depth' = [depth EXCEPT ![f] = @ + 1] /\ at' = [at EXCEPT ![f] = b]
  BY <1>2 DEF ExtendedAt, Descend
<1>4. \A g \in live : \A k, i, j : Place(k, i, j) =>
        Look(index'[g], tab', k, i, j) =
          IF g = f /\ k = x /\ i = y /\ j = z THEN b ELSE At(g, k, i, j)
  BY <1>2, Zenon DEF ExtendedAt
<1>5. /\ UNCHANGED <<live, want, lost, size, dindex, dsize, mode, cur, end, moved>>
      /\ Walking(f)
  BY DEF Extend, dskvars
<1>6. \A g \in live : \A k, i, j : Place(k, i, j) => At(g, k, i, j) # b
  BY <1>3 DEF Unused
<1>7. depth[f] \in {0, 1, 2} /\ depth[f] + 1 <= Levels(Path(cur[f]))
      /\ mode[f] # "none" /\ cur[f] \in Logical
  BY <1>5, WalkPlace DEF Walking
<1>8. IndexTypeOK'
  <2>1. depth' \in [Files -> 0 .. 3] /\ at' \in [Files -> Entries]
    BY <1>3, <1>7 DEF IndexIndInv, IndexTypeOK, Entries
  <2>2. data' \in [Blocks -> 0 .. 1] /\ blockmap' \subseteq Blocks
    BY <1>3 DEF IndexIndInv, IndexTypeOK
  <2> QED
    BY <1>1, <1>5, <2>1, <2>2 DEF IndexIndInv, IndexTypeOK
<1>9. InvOwned'
  BY <1>3, <1>4, <1>5, OwnedNext DEF IndexIndInv, InvOwned
<1>10. InvUnique'
  <2>1. ASSUME NEW g \in live, NEW h \in live, NEW k, NEW i, NEW j, NEW u, NEW v, NEW w,
               Place(k, i, j), Place(u, v, w),
               Look(index'[g], tab', k, i, j) # NoEntry,
               Look(index'[g], tab', k, i, j) = Look(index'[h], tab', u, v, w)
        PROVE  g = h /\ k = u /\ i = v /\ j = w
    <3>1. /\ Look(index'[g], tab', k, i, j) =
               IF g = f /\ k = x /\ i = y /\ j = z THEN b ELSE At(g, k, i, j)
          /\ Look(index'[h], tab', u, v, w) =
               IF h = f /\ u = x /\ v = y /\ w = z THEN b ELSE At(h, u, v, w)
      BY <1>4, <2>1
    <3>2. At(g, k, i, j) # b /\ At(h, u, v, w) # b
      BY <1>6, <2>1
    <3>3. CASE g = f /\ k = x /\ i = y /\ j = z
      BY <2>1, <3>1, <3>2, <3>3
    <3>4. CASE ~ (g = f /\ k = x /\ i = y /\ j = z)
      <4>1. At(g, k, i, j) # NoEntry /\ At(g, k, i, j) = At(h, u, v, w)
        BY <2>1, <3>1, <3>2, <3>4
      <4> QED
        BY <2>1, <4>1, OnePlace
    <3> QED
      BY <3>3, <3>4
  <2>2. live' = live
    BY <1>5
  <2> QED
    BY <2>1, <2>2, UniqueNext
<1>11. InvDisk' /\ InvSize'
  BY <1>1, <1>5 DEF IndexIndInv, InvDisk, InvSize, SizeOf, Inside, IndexTypeOK, FreshGrows
<1>12. InvWalk'
  <2>1. ASSUME NEW g \in Files, g # f PROVE WalkOf(g)'
    <3>1. /\ mode'[g] = mode[g] /\ moved'[g] = moved[g] /\ cur'[g] = cur[g]
          /\ depth'[g] = depth[g] /\ at'[g] = at[g] /\ (g \in live => g \in live')
      BY <1>3, <1>5, <2>1 DEF IndexIndInv, IndexTypeOK
    <3>2. g \in live => \A k, i, j : Place(k, i, j) /\ At(g, k, i, j) # NoEntry =>
            Look(index'[g], tab', k, i, j) = At(g, k, i, j)
      BY <1>4, <2>1
    <3> QED
      BY <1>8, <3>1, <3>2, WalkNext
  <2>2. WalkOf(f)'
    <3>1. depth'[f] = depth[f] + 1 /\ at'[f] = b /\ mode'[f] = mode[f] /\ cur'[f] = cur[f]
          /\ moved'[f] = moved[f]
      BY <1>3, <1>5 DEF IndexIndInv, IndexTypeOK
    <3>2. at'[f] = Look(index'[f], tab', x, y, z)
      BY <1>1, <1>3, <1>4, <3>1
    <3>3. moved[f] => cur[f] <= NLogical
      BY DEF IndexIndInv, InvWalk, WalkOf
    <3> QED
      BY <1>1, <1>3, <1>5, <1>7, <3>1, <3>2, <3>3 DEF WalkOf, At
  <2> QED
    BY <2>1, <2>2 DEF InvWalk
<1>13. InvContent'
  <2>1. ASSUME NEW g \in live, NEW l \in Logical
        PROVE  Content(index[g], l)' = Expected(g, l)
    <3>1. PICK k, i, j : Path(l) = <<k, i, j>> /\ Place(k, i, j)
      BY PathLeaf DEF Leaf
    <3>2. Expected(g, l) = IF At(g, k, i, j) = NoEntry THEN 0 ELSE data[At(g, k, i, j)]
      BY <3>1, ContentAt DEF IndexIndInv, InvContent
    <3>3. Content(index[g], l)' = IF Look(index'[g], tab', k, i, j) = NoEntry THEN 0
                                  ELSE data'[Look(index'[g], tab', k, i, j)]
      BY <3>1, ContentNext
    <3>4. Look(index'[g], tab', k, i, j) =
            IF g = f /\ k = x /\ i = y /\ j = z THEN b ELSE At(g, k, i, j)
      BY <1>4, <3>1
    <3>5. data'[b] = 0
      BY <1>3 DEF IndexIndInv, IndexTypeOK
    <3>6. CASE g = f /\ k = x /\ i = y /\ j = z
      BY <1>3, <3>2, <3>3, <3>4, <3>5, <3>6
    <3>7. CASE ~ (g = f /\ k = x /\ i = y /\ j = z)
      <4>1. At(g, k, i, j) = NoEntry \/ At(g, k, i, j) \in Blocks \ {b}
        BY <1>6, <3>1, WayBlocks
      <4>2. \A c \in Blocks \ {b} : data'[c] = data[c]
        BY <1>3 DEF IndexIndInv, IndexTypeOK
      <4> QED
        BY <3>2, <3>3, <3>4, <3>7, <4>1, <4>2
    <3> QED
      BY <3>6, <3>7
  <2> QED
    BY <1>5, <2>1 DEF InvContent, Expected
<1> QED
  BY <1>8, <1>9, <1>10, <1>11, <1>12, <1>13 DEF IndexIndInv

\* A step that leaves the indices and the tables alone moves no block.
LEMMA BlocksStay ==
  ASSUME IndexIndInv, UNCHANGED <<live, index, tab, blockmap>>
  PROVE  /\ InvOwned' /\ InvUnique'
         /\ \A g, k, i, j : Look(index'[g], tab', k, i, j) = At(g, k, i, j)
<1>1. \A g, k, i, j : Look(index'[g], tab', k, i, j) = At(g, k, i, j)
  BY DEF At
<1>2. InvOwned'
  BY <1>1, OwnedNext DEF IndexIndInv, InvOwned
<1>3. InvUnique'
  <2>1. live' = live /\ InvUnique
    BY DEF IndexIndInv
  <2> QED
    BY <1>1, <2>1, UniqueNext DEF InvUnique
<1> QED
  BY <1>1, <1>2, <1>3

\* ... nor changes a file whose data stays.
LEMMA ContentStays ==
  ASSUME IndexIndInv, UNCHANGED <<live, index, tab, data, want, lost>>
  PROVE  InvContent'
<1>1. ASSUME NEW f \in live', NEW l \in Logical
      PROVE  Content(index[f], l)' = Expected(f, l)'
  <2>1. Content(index[f], l)' = Content(index[f], l)
    BY DEF Content, BlockAt
  <2>2. f \in live /\ Expected(f, l)' = Expected(f, l)
    BY DEF Expected
  <2> QED
    BY <2>1, <2>2 DEF IndexIndInv, InvContent
<1> QED
  BY <1>1, Zenon DEF InvContent

\* locate_or_add_block finds an entry.
LEMMA FollowStep ==
  ASSUME IndexIndInv, NEW f \in Files, Follow(f)
  PROVE  IndexIndInv'
<1>1. /\ Walking(f) /\ EntryOf(f) # NoEntry
      /\ depth' = [depth EXCEPT ![f] = @ + 1] /\ at' = [at EXCEPT ![f] = EntryOf(f)]
      /\ UNCHANGED <<live, want, fresh, lost, blockmap, tab, data, index, size, dindex,
                     dsize, mode, cur, end, moved>>
  BY DEF Follow, Descend, hisvars, blkvars, memvars, dskvars
<1>2. /\ f \in live /\ depth[f] \in {0, 1, 2} /\ depth[f] + 1 <= Levels(Path(cur[f]))
      /\ mode[f] # "none" /\ cur[f] \in Logical
  BY <1>1, WalkPlace DEF Walking
<1>3. \E k, i, j : /\ Place(k, i, j) /\ Prefix(Path(cur[f]), depth[f] + 1) = <<k, i, j>>
                   /\ EntryOf(f) = At(f, k, i, j)
  <2>1. PICK x, y, z :
          /\ Path(cur[f]) = <<x, y, z>> /\ Place(x, y, z)
          /\ Place(x, Stop, Stop) /\ Place(x, y, Stop)
          /\ depth[f] = 0 => EntryOf(f) = At(f, x, Stop, Stop)
          /\ depth[f] = 1 => EntryOf(f) = At(f, x, y, Stop)
          /\ depth[f] = 2 => EntryOf(f) = At(f, x, y, z)
    BY <1>1, WalkPlace
  <2>2. CASE depth[f] = 0
    <3>1. Prefix(Path(cur[f]), depth[f] + 1) = <<x, Stop, Stop>>
      BY <2>1, <2>2 DEF Prefix
    <3> QED
      BY <2>1, <2>2, <3>1
  <2>3. CASE depth[f] = 1
    <3>1. Prefix(Path(cur[f]), depth[f] + 1) = <<x, y, Stop>>
      BY <2>1, <2>3 DEF Prefix
    <3> QED
      BY <2>1, <2>3, <3>1
  <2>4. CASE depth[f] = 2
    <3>1. Prefix(Path(cur[f]), depth[f] + 1) = <<x, y, z>>
      BY <2>1, <2>4 DEF Prefix
    <3> QED
      BY <2>1, <2>4, <3>1
  <2> QED
    BY <1>2, <2>2, <2>3, <2>4
<1>4. EntryOf(f) \in Entries
  BY <1>2, <1>3, AtType DEF IndexIndInv
<1>5. IndexTypeOK'
  <2>1. depth' \in [Files -> 0 .. 3] /\ at' \in [Files -> Entries]
    BY <1>1, <1>2, <1>4 DEF IndexIndInv, IndexTypeOK
  <2> QED
    BY <1>1, <2>1 DEF IndexIndInv, IndexTypeOK
<1>6. /\ InvOwned' /\ InvUnique'
      /\ \A g, k, i, j : Look(index'[g], tab', k, i, j) = At(g, k, i, j)
  BY <1>1, BlocksStay
<1>7. InvDisk' /\ InvContent' /\ InvSize'
  BY <1>1, ContentStays DEF IndexIndInv, InvDisk, InvSize, SizeOf, Inside
<1>8. InvWalk'
  <2>1. ASSUME NEW g \in Files, g # f PROVE WalkOf(g)'
    <3>1. depth'[g] = depth[g] /\ at'[g] = at[g]
      BY <1>1, <2>1 DEF IndexIndInv, IndexTypeOK
    <3> QED
      BY <1>1, <1>5, <1>6, <3>1, WalkNext
  <2>2. WalkOf(f)'
    <3>1. depth'[f] = depth[f] + 1 /\ at'[f] = EntryOf(f)
      BY <1>1 DEF IndexIndInv, IndexTypeOK
    <3>2. moved[f] => cur[f] <= NLogical
      BY DEF IndexIndInv, InvWalk, WalkOf
    <3>3. \E k, i, j : /\ Place(k, i, j) /\ Prefix(Path(cur[f]), depth[f] + 1) = <<k, i, j>>
                       /\ at'[f] = Look(index'[f], tab', k, i, j)
      BY <1>3, <1>6, <3>1
    <3> QED
      BY <1>1, <1>2, <3>1, <3>2, <3>3 DEF WalkOf, At
  <2> QED
    BY <2>1, <2>2 DEF InvWalk
<1> QED
  BY <1>5, <1>6, <1>7, <1>8 DEF IndexIndInv

\* A read or write of one file f begins, gives up, ends: no block moves, and the
\* walk of f, if it has one, is over or stays.
LEMMA QuietFile ==
  ASSUME IndexIndInv, IndexTypeOK', NEW f \in Files,
         UNCHANGED <<live, want, lost, blockmap, tab, data, index>>, InvDisk', WalkOf(f)',
         SizeOf(f)',
         \A g \in Files \ {f} :
           /\ mode'[g] = mode[g] /\ moved'[g] = moved[g] /\ cur'[g] = cur[g]
           /\ depth'[g] = depth[g] /\ at'[g] = at[g]
           /\ size'[g] = size[g] /\ dsize'[g] = dsize[g]
  PROVE  IndexIndInv'
<1>1. /\ InvOwned' /\ InvUnique'
      /\ \A g, k, i, j : Look(index'[g], tab', k, i, j) = At(g, k, i, j)
  BY BlocksStay
<1>2. InvContent'
  BY ContentStays
<1>3. ASSUME NEW g \in Files, g # f PROVE WalkOf(g)'
  BY <1>1, <1>3, WalkNext
<1>4. ASSUME NEW g \in Files, g # f PROVE SizeOf(g)'
  BY <1>4 DEF IndexIndInv, InvSize, SizeOf, Inside
<1> QED
  BY <1>1, <1>2, <1>3, <1>4 DEF IndexIndInv, InvWalk, InvSize

\* locate_or_add_block returns -1.
LEMMA FailStep ==
  ASSUME IndexIndInv, NEW f \in Files, Fail(f)
  PROVE  IndexIndInv'
<1>1. /\ end' = [end EXCEPT ![f] = cur[f]]
      /\ UNCHANGED <<live, want, fresh, lost, blockmap, tab, data, index, size, dindex,
                     dsize, mode, cur, moved, depth, at>>
  BY DEF Fail, hisvars, blkvars, memvars, dskvars, walkvars
<1>2. IndexTypeOK'
  BY <1>1 DEF IndexIndInv, IndexTypeOK
<1>3. WalkOf(f)' /\ InvDisk'
  BY <1>1 DEF IndexIndInv, InvWalk, WalkOf, At, InvDisk
<1>4. SizeOf(f)'
  BY <1>1 DEF IndexIndInv, InvSize, SizeOf, Inside
<1> QED
  BY <1>1, <1>2, <1>3, <1>4, QuietFile

\* A file without a walk has no way to remember.
LEMMA NoWalk ==
  ASSUME IndexIndInv, NEW f \in Files, mode[f] = "none"
  PROVE  depth[f] = 0
<1>1. depth[f] \in 0 .. 3
  BY DEF IndexIndInv, IndexTypeOK
<1>2. ~ (depth[f] > 0)
  BY DEF IndexIndInv, InvWalk, WalkOf
<1> QED
  BY <1>1, <1>2

\* A read or write takes the lock of the inode.
LEMMA StartStep ==
  ASSUME IndexIndInv, NEW f \in Files, NEW what \in {"read", "write"},
         NEW first \in Nat, NEW last \in Nat, Start(f, what, first, last)
  PROVE  IndexIndInv'
<1>1. /\ f \in live /\ mode[f] = "none"
      /\ mode' = [mode EXCEPT ![f] = what] /\ moved' = [moved EXCEPT ![f] = FALSE]
      /\ cur' = [cur EXCEPT ![f] = first] /\ end' = [end EXCEPT ![f] = last]
      /\ UNCHANGED <<live, want, fresh, lost, blockmap, tab, data, index, size, dindex,
                     dsize, depth, at>>
  BY DEF Start, hisvars, blkvars, memvars, dskvars, walkvars
<1>2. IndexTypeOK'
  BY <1>1 DEF IndexIndInv, IndexTypeOK
<1>3. InvDisk'
  BY <1>1 DEF IndexIndInv, InvDisk
<1>4. depth'[f] = 0 /\ f \in live' /\ moved'[f] = FALSE
  BY <1>1, NoWalk DEF IndexIndInv, IndexTypeOK
<1>5. WalkOf(f)'
  BY <1>4 DEF WalkOf
<1>6. \A g \in Files \ {f} :
        /\ mode'[g] = mode[g] /\ moved'[g] = moved[g] /\ cur'[g] = cur[g]
        /\ depth'[g] = depth[g] /\ at'[g] = at[g]
  BY <1>1 DEF IndexIndInv, IndexTypeOK
<1>7. SizeOf(f)'
  BY <1>1 DEF IndexIndInv, InvSize, SizeOf, Inside
<1> QED
  BY <1>1, <1>2, <1>3, <1>5, <1>6, <1>7, QuietFile

\* A read or write ends; the inode is written if the file grew.
LEMMA FinishStep ==
  ASSUME IndexIndInv, NEW f \in Files, Finish(f)
  PROVE  IndexIndInv'
<1> DEFINE grows == mode[f] = "write" /\ moved[f] /\ cur[f] > size[f]
<1>1. /\ mode[f] # "none" /\ mode' = [mode EXCEPT ![f] = "none"]
      /\ cur' = [cur EXCEPT ![f] = 0] /\ end' = [end EXCEPT ![f] = 0]
      /\ moved' = [moved EXCEPT ![f] = FALSE]
      /\ depth' = [depth EXCEPT ![f] = 0] /\ at' = [at EXCEPT ![f] = NoEntry]
      /\ UNCHANGED <<live, want, lost, blockmap, tab, data, index>>
  BY DEF Finish, blkvars
<1>2. \/ /\ grows /\ size' = [size EXCEPT ![f] = cur[f]]
         /\ dsize' = [dsize EXCEPT ![f] = cur[f]] /\ dindex' = [dindex EXCEPT ![f] = index[f]]
         /\ fresh' = [fresh EXCEPT ![f] = {}]
      \/ ~ grows /\ UNCHANGED <<size, dindex, dsize, fresh>>
  BY DEF Finish, dskvars
<1>3. grows => cur[f] \in 0 .. NLogical
  BY Products DEF IndexIndInv, InvWalk, WalkOf, IndexTypeOK
<1>4. IndexTypeOK'
  <2>1. /\ size' \in [Files -> 0 .. NLogical] /\ dsize' \in [Files -> 0 .. NLogical]
        /\ dindex' \in [Files -> [IndexSlots -> Entries]]
        /\ fresh' \in [Files -> SUBSET IndexSlots]
    BY <1>2, <1>3 DEF IndexIndInv, IndexTypeOK
  <2>2. at' \in [Files -> Entries]
    BY <1>1 DEF Entries, IndexIndInv, IndexTypeOK
  <2>3. /\ mode' \in [Files -> {"none", "read", "write"}] /\ moved' \in [Files -> BOOLEAN]
        /\ cur' \in [Files -> Nat] /\ end' \in [Files -> Nat] /\ depth' \in [Files -> 0 .. 3]
    BY <1>1 DEF IndexIndInv, IndexTypeOK
  <2> QED
    BY <1>1, <2>1, <2>2, <2>3 DEF IndexIndInv, IndexTypeOK
<1>5. InvDisk'
  <2>1. /\ InvDisk /\ dindex \in [Files -> [IndexSlots -> Entries]] /\ live \subseteq Files
        /\ fresh \in [Files -> SUBSET IndexSlots]
    BY DEF IndexIndInv, IndexTypeOK
  <2>2. CASE dindex' = [dindex EXCEPT ![f] = index[f]] /\ fresh' = [fresh EXCEPT ![f] = {}]
    BY <1>1, <2>1, <2>2 DEF InvDisk
  <2>3. CASE dindex' = dindex /\ fresh' = fresh
    BY <1>1, <2>1, <2>3 DEF InvDisk
  <2> QED
    BY <1>2, <2>2, <2>3
<1>6. WalkOf(f)'
  BY <1>1 DEF IndexIndInv, IndexTypeOK, WalkOf
<1>7. \A g \in Files \ {f} :
        /\ mode'[g] = mode[g] /\ moved'[g] = moved[g] /\ cur'[g] = cur[g]
        /\ depth'[g] = depth[g] /\ at'[g] = at[g]
        /\ size'[g] = size[g] /\ dsize'[g] = dsize[g]
  BY <1>1, <1>2 DEF IndexIndInv, IndexTypeOK
<1>8. SizeOf(f)'
  <2>1. SUFFICES ASSUME f \in live
                 PROVE  dsize'[f] = size'[f] /\ \A l \in Logical : want[f][l] = 1 => l < size'[f]
    BY <1>1 DEF SizeOf, Inside
  <2>2. dsize[f] = size[f] /\ \A l \in Logical : want[f][l] = 1 => Inside(f, l)
    BY <2>1 DEF IndexIndInv, InvSize, SizeOf
  <2>3. /\ size \in [Files -> 0 .. NLogical] /\ dsize \in [Files -> 0 .. NLogical]
        /\ cur[f] \in Nat /\ size[f] \in Nat
    BY Products DEF IndexIndInv, IndexTypeOK
  <2>4. CASE grows
    <3>1. dsize'[f] = cur[f] /\ size'[f] = cur[f]
      BY <1>2, <2>3, <2>4
    <3> QED
      BY <2>2, <2>3, <2>4, <3>1, LogicalNat DEF Inside
  <2>5. CASE ~ grows
    <3>1. dsize'[f] = dsize[f] /\ size'[f] = size[f]
      BY <1>2, <2>5
    <3> QED
      BY <2>2, <2>3, <2>5, <3>1, LogicalNat DEF Inside
  <2> QED
    BY <2>4, <2>5
<1> QED
  BY <1>1, <1>4, <1>5, <1>6, <1>7, <1>8, QuietFile

\* inode_rw by path_link or path_unlink.
LEMMA SaveStep ==
  ASSUME IndexIndInv, NEW f \in Files, Save(f)
  PROVE  IndexIndInv'
<1>1. /\ dindex' = [dindex EXCEPT ![f] = index[f]] /\ dsize' = [dsize EXCEPT ![f] = size[f]]
      /\ fresh' = [fresh EXCEPT ![f] = {}]
      /\ UNCHANGED <<live, want, lost, blockmap, tab, data, index, size, mode, cur, end, moved,
                     depth, at>>
  BY DEF Save, blkvars, memvars, iovars, walkvars
<1>2. IndexTypeOK'
  BY <1>1 DEF IndexIndInv, IndexTypeOK
<1>3. InvDisk'
  BY <1>1 DEF IndexIndInv, IndexTypeOK, InvDisk
<1>4. WalkOf(f)'
  BY <1>1 DEF IndexIndInv, InvWalk, WalkOf, At
<1>5. SizeOf(f)'
  BY <1>1 DEF IndexIndInv, IndexTypeOK, InvSize, SizeOf, Inside
<1>6. \A g \in Files \ {f} : dsize'[g] = dsize[g]
  BY <1>1 DEF IndexIndInv, IndexTypeOK
<1> QED
  BY <1>1, <1>2, <1>3, <1>4, <1>5, <1>6, QuietFile

\* Where a finished walk stands.
LEMMA WalkEnd ==
  ASSUME IndexIndInv, NEW f \in Files, mode[f] # "none", cur[f] \in Logical,
         depth[f] = Levels(Path(cur[f]))
  PROVE  /\ f \in live /\ at[f] \in Blocks
         /\ \E k, i, j : /\ Place(k, i, j) /\ Path(cur[f]) = <<k, i, j>>
                         /\ at[f] = At(f, k, i, j)
<1>1. /\ f \in live
      /\ depth[f] > 0 =>
           /\ at[f] # NoEntry
           /\ \E k, i, j : /\ Place(k, i, j) /\ Prefix(Path(cur[f]), depth[f]) = <<k, i, j>>
                           /\ at[f] = At(f, k, i, j)
  BY DEF IndexIndInv, InvWalk, WalkOf
<1>2. depth[f] > 0 /\ Prefix(Path(cur[f]), depth[f]) = Path(cur[f])
  BY PrefixWhole
<1>3. PICK k, i, j : Place(k, i, j) /\ Path(cur[f]) = <<k, i, j>> /\ at[f] = At(f, k, i, j)
  BY <1>1, <1>2
<1> QED
  BY <1>1, <1>2, <1>3, WayBlocks

\* The block is read or written: only the content of its one logical block
\* changes, because no other place names it.
LEMMA TransferStep ==
  ASSUME IndexIndInv, NEW f \in Files, Transfer(f)
  PROVE  IndexIndInv'
<1>1. /\ mode[f] # "none" /\ cur[f] \in Logical /\ depth[f] = Levels(Path(cur[f]))
      /\ cur' = [cur EXCEPT ![f] = @ + 1] /\ moved' = [moved EXCEPT ![f] = TRUE]
      /\ depth' = [depth EXCEPT ![f] = 0] /\ at' = [at EXCEPT ![f] = NoEntry]
      /\ UNCHANGED <<live, fresh, blockmap, tab, index, size, dindex, dsize, mode, end>>
  BY DEF Transfer, memvars, dskvars
<1>2. \/ /\ data' = [data EXCEPT ![at[f]] = 1] /\ mode[f] = "write"
         /\ want' = [want EXCEPT ![f][cur[f]] = 1]
         /\ lost' = [lost EXCEPT ![f] = @ \ {cur[f]}]
      \/ UNCHANGED <<data, want, lost>>
  BY DEF Transfer
<1>3. f \in live /\ at[f] \in Blocks
  BY <1>1, WalkEnd
<1>4. PICK x, y, z : Place(x, y, z) /\ Path(cur[f]) = <<x, y, z>> /\ at[f] = At(f, x, y, z)
  BY <1>1, WalkEnd
<1>5. IndexTypeOK'
  <2>1. /\ data' \in [Blocks -> 0 .. 1] /\ want' \in [Files -> [Logical -> 0 .. 1]]
        /\ lost' \in [Files -> SUBSET Logical]
    <3>1. /\ data \in [Blocks -> 0 .. 1] /\ want \in [Files -> [Logical -> 0 .. 1]]
          /\ lost \in [Files -> SUBSET Logical]
      BY DEF IndexIndInv, IndexTypeOK
    <3>2. [data EXCEPT ![at[f]] = 1] \in [Blocks -> 0 .. 1]
      BY <1>3, <3>1
    <3>3. [want EXCEPT ![f][cur[f]] = 1] \in [Files -> [Logical -> 0 .. 1]]
      BY <1>1, <3>1
    <3>4. [lost EXCEPT ![f] = @ \ {cur[f]}] \in [Files -> SUBSET Logical]
      BY <3>1
    <3> QED
      BY <1>2, <3>1, <3>2, <3>3, <3>4
  <2>3. at' \in [Files -> Entries] /\ depth' \in [Files -> 0 .. 3]
    BY <1>1 DEF IndexIndInv, IndexTypeOK, Entries
  <2>4. cur' \in [Files -> Nat] /\ moved' \in [Files -> BOOLEAN]
    BY <1>1 DEF IndexIndInv, IndexTypeOK
  <2> QED
    BY <1>1, <2>1, <2>3, <2>4 DEF IndexIndInv, IndexTypeOK
<1>6. /\ InvOwned' /\ InvUnique'
      /\ \A g, k, i, j : Look(index'[g], tab', k, i, j) = At(g, k, i, j)
  BY <1>1, BlocksStay
<1>7. InvDisk'
  BY <1>1 DEF IndexIndInv, InvDisk
<1>8. InvWalk'
  <2>1. ASSUME NEW g \in Files, g # f PROVE WalkOf(g)'
    <3>1. /\ mode'[g] = mode[g] /\ moved'[g] = moved[g] /\ cur'[g] = cur[g]
          /\ depth'[g] = depth[g] /\ at'[g] = at[g]
      BY <1>1, <2>1 DEF IndexIndInv, IndexTypeOK
    <3>2. g \in live => \A k, i, j : Place(k, i, j) /\ At(g, k, i, j) # NoEntry =>
            Look(index'[g], tab', k, i, j) = At(g, k, i, j)
      BY <1>6
    <3>3. g \in live => g \in live'
      BY <1>1
    <3> QED
      BY <1>5, <3>1, <3>2, <3>3, WalkNext
  <2>2. WalkOf(f)'
    <3>1. depth'[f] = 0 /\ f \in live' /\ cur'[f] = cur[f] + 1
      BY <1>1, <1>3 DEF IndexIndInv, IndexTypeOK
    <3>2. cur'[f] <= NLogical
      BY <1>1, <3>1, Products DEF Logical
    <3> QED
      BY <3>1, <3>2 DEF WalkOf
  <2> QED
    BY <2>1, <2>2 DEF InvWalk
<1>9. InvContent'
  <2>1. CASE UNCHANGED <<data, want, lost>>
    BY <1>1, <2>1, ContentStays
  <2>2. CASE /\ data' = [data EXCEPT ![at[f]] = 1] /\ want' = [want EXCEPT ![f][cur[f]] = 1]
             /\ lost' = [lost EXCEPT ![f] = @ \ {cur[f]}]
    <3>1. ASSUME NEW g \in live, NEW l \in Logical
          PROVE  Content(index[g], l)' = Expected(g, l)'
      <4>1. PICK k, i, j : Path(l) = <<k, i, j>> /\ Place(k, i, j)
        BY PathLeaf DEF Leaf
      <4>2. Expected(g, l) = IF At(g, k, i, j) = NoEntry THEN 0 ELSE data[At(g, k, i, j)]
        BY <4>1, ContentAt DEF IndexIndInv, InvContent
      <4>3. Content(index[g], l)' = IF At(g, k, i, j) = NoEntry THEN 0
                                    ELSE data'[At(g, k, i, j)]
        BY <1>6, <4>1, ContentNext
      <4>4. At(g, k, i, j) = NoEntry \/ At(g, k, i, j) \in Blocks
        BY <4>1, WayBlocks
      <4>5. \A c \in Blocks : data'[c] = IF c = at[f] THEN 1 ELSE data[c]
        BY <2>2 DEF IndexIndInv, IndexTypeOK
      <4>6. Expected(g, l)' = IF g = f /\ l = cur[f] THEN 1 ELSE Expected(g, l)
        <5>1. g \in Files /\ want'[g][l] = IF g = f /\ l = cur[f] THEN 1 ELSE want[g][l]
          BY <1>1, <2>2 DEF IndexIndInv, IndexTypeOK
        <5>2. lost'[g] = IF g = f THEN lost[g] \ {cur[f]} ELSE lost[g]
          BY <2>2, <5>1 DEF IndexIndInv, IndexTypeOK
        <5> QED
          BY <5>1, <5>2 DEF Expected
      <4>7. at[f] # NoEntry
        BY <1>3 DEF Blocks, NoEntry
      <4>8. CASE g = f /\ l = cur[f]
        <5>1. At(g, k, i, j) = at[f]
          BY <1>4, <4>1, <4>8
        <5> QED
          BY <1>3, <4>3, <4>5, <4>6, <4>7, <4>8, <5>1
      <4>9. CASE ~ (g = f /\ l = cur[f])
        <5>1. At(g, k, i, j) # at[f]
          <6>1. ASSUME At(g, k, i, j) = at[f] PROVE FALSE
            <7>1. g = f /\ x = k /\ y = i /\ z = j
              BY <1>3, <1>4, <4>1, <4>7, <6>1, OnePlace
            <7>2. l = cur[f]
              BY <1>1, <1>4, <4>1, <7>1, PathInjective
            <7> QED
              BY <4>9, <7>1, <7>2
          <6> QED
            BY <6>1
        <5> QED
          BY <4>2, <4>3, <4>4, <4>5, <4>6, <4>9, <5>1
      <4> QED
        BY <4>8, <4>9
    <3> QED
      BY <1>1, <3>1 DEF InvContent
  <2> QED
    BY <1>2, <2>1, <2>2
<1>10. InvSize'
  <2>1. ASSUME NEW g \in live, NEW l \in Logical, want'[g][l] = 1 PROVE Inside(g, l)'
    <3>1. want[g][l] = 1 \/ (g = f /\ l = cur[f] /\ mode[f] = "write")
      BY <1>1, <1>2, <2>1 DEF IndexIndInv, IndexTypeOK
    <3>2. want[g][l] = 1 => Inside(g, l)
      BY DEF IndexIndInv, InvSize, SizeOf, IndexTypeOK
    <3>3. g \in Files /\ cur[g] \in Nat /\ l \in Nat /\ mode' = mode /\ size' = size
      BY <1>1, LogicalNat DEF IndexIndInv, IndexTypeOK
    <3>4. CASE g = f
      <4>1. cur'[g] = cur[g] + 1 /\ moved'[g] = TRUE
        BY <1>1, <3>3, <3>4 DEF IndexIndInv, IndexTypeOK
      <4> QED
        BY <3>1, <3>2, <3>3, <3>4, <4>1 DEF Inside
    <3>5. CASE g # f
      <4>1. cur'[g] = cur[g] /\ moved'[g] = moved[g]
        BY <1>1, <3>3, <3>5 DEF IndexIndInv, IndexTypeOK
      <4> QED
        BY <3>1, <3>2, <3>3, <3>5, <4>1 DEF Inside
    <3> QED
      BY <3>4, <3>5
  <2>2. \A g \in live : dsize[g] = size[g]
    BY DEF IndexIndInv, InvSize, SizeOf, IndexTypeOK
  <2> QED
    BY <1>1, <2>1, <2>2 DEF InvSize, SizeOf
<1> QED
  BY <1>5, <1>6, <1>7, <1>8, <1>9, <1>10 DEF IndexIndInv

\* Nothing is below an empty entry of an inode.
LEMMA LookEmpty ==
  ASSUME NEW idx, NEW t, NEW k, NEW i, NEW j, i = Stop => j = Stop, idx[k] = NoEntry
  PROVE  Look(idx, t, k, i, j) = NoEntry
<1>1. Look(idx, t, k, i, Stop) = NoEntry
  <2>1. CASE i = Stop
    BY <2>1, LookDef
  <2>2. CASE i # Stop
    BY <2>2, LookDef
  <2> QED
    BY <2>1, <2>2
<1>2. CASE j = Stop
  BY <1>1, <1>2
<1>3. CASE j # Stop
  BY <1>1, <1>3, LookDef
<1> QED
  BY <1>2, <1>3

\* What is at a place depends on one entry of the inode.
LEMMA LookEntry ==
  ASSUME NEW idx, NEW idy, NEW t, NEW k, idx[k] = idy[k]
  PROVE  \A i, j : Look(idx, t, k, i, j) = Look(idy, t, k, i, j)
BY DEF Look

\* A step after which a file has a part of its blocks, all marked used.
LEMMA FewerBlocks ==
  ASSUME IndexIndInv,
         \A g \in live' : \A k, i, j : Place(k, i, j) =>
           \/ Look(index'[g], tab', k, i, j) = NoEntry
           \/ /\ g \in live /\ Look(index'[g], tab', k, i, j) = At(g, k, i, j)
              /\ At(g, k, i, j) \in blockmap'
  PROVE  InvOwned' /\ InvUnique'
<1>1. InvOwned'
  BY OwnedNext
<1>2. ASSUME NEW f \in live', NEW g \in live',
             NEW k, NEW i, NEW j, NEW x, NEW y, NEW z, Place(k, i, j), Place(x, y, z),
             Look(index'[f], tab', k, i, j) # NoEntry,
             Look(index'[f], tab', k, i, j) = Look(index'[g], tab', x, y, z)
      PROVE  f = g /\ k = x /\ i = y /\ j = z
  <2>1. f \in live /\ Look(index'[f], tab', k, i, j) = At(f, k, i, j)
    BY <1>2
  <2>2. g \in live /\ Look(index'[g], tab', x, y, z) = At(g, x, y, z)
    BY <1>2
  <2>3. At(f, k, i, j) # NoEntry /\ At(f, k, i, j) = At(g, x, y, z)
    BY <1>2, <2>1, <2>2
  <2>4. f \in live /\ g \in live /\ Place(k, i, j) /\ Place(x, y, z)
    BY <1>2, <2>1, <2>2
  <2> QED
    BY <2>3, <2>4, OnePlace
<1>3. InvUnique'
  BY <1>2, UniqueNext
<1> QED
  BY <1>1, <1>3

\* A step of an idle file f that leaves the tables and the other files alone.
LEMMA OthersStay ==
  ASSUME IndexIndInv, IndexTypeOK', NEW f \in Files, mode[f] = "none",
         UNCHANGED <<tab, data, mode, cur, moved, depth, at>>,
         \A g \in Files \ {f} :
           /\ index'[g] = index[g] /\ want'[g] = want[g] /\ lost'[g] = lost[g]
           /\ size'[g] = size[g] /\ dsize'[g] = dsize[g]
           /\ (g \in live' <=> g \in live),
         \A l \in Logical : f \in live' => Content(index[f], l)' = Expected(f, l)',
         SizeOf(f)'
  PROVE  InvWalk' /\ InvContent' /\ InvSize'
<1>1. ASSUME NEW g \in Files, g # f PROVE WalkOf(g)'
  <2>0. index'[g] = index[g] /\ tab' = tab
    BY <1>1
  <2>1. \A k, i, j : Look(index'[g], tab', k, i, j) = At(g, k, i, j)
    BY <2>0 DEF At
  <2>2. /\ mode'[g] = mode[g] /\ moved'[g] = moved[g] /\ cur'[g] = cur[g]
        /\ depth'[g] = depth[g] /\ at'[g] = at[g] /\ (g \in live => g \in live')
    BY <1>1
  <2>3. g \in live => \A k, i, j : Place(k, i, j) /\ At(g, k, i, j) # NoEntry =>
          Look(index'[g], tab', k, i, j) = At(g, k, i, j)
    BY <2>1
  <2> QED
    BY <2>2, <2>3, WalkNext
<1>2. WalkOf(f)'
  <2>1. depth[f] = 0 /\ (moved[f] => cur[f] <= NLogical)
    BY NoWalk DEF IndexIndInv, InvWalk, WalkOf
  <2>2. depth'[f] = 0 /\ mode'[f] = "none" /\ (moved'[f] => cur'[f] <= NLogical)
    BY <2>1
  <2> QED
    BY <2>2 DEF WalkOf
<1>3. ASSUME NEW g \in live', NEW l \in Logical
      PROVE  Content(index[g], l)' = Expected(g, l)'
  <2>1. g \in Files
    BY DEF IndexTypeOK
  <2>2. CASE g = f
    BY <1>3, <2>2
  <2>3. CASE g # f
    <3>1. Content(index[g], l)' = Content(index[g], l)
      <4>1. index'[g] = index[g] /\ tab' = tab /\ data' = data
        BY <2>1, <2>3
      <4> QED
        BY <4>1 DEF Content, BlockAt
    <3>2. g \in live /\ Expected(g, l)' = Expected(g, l)
      BY <1>3, <2>1, <2>3 DEF Expected
    <3> QED
      BY <3>1, <3>2 DEF IndexIndInv, InvContent
  <2> QED
    BY <2>2, <2>3
<1>4. ASSUME NEW g \in Files, g # f PROVE SizeOf(g)'
  BY <1>4 DEF IndexIndInv, InvSize, SizeOf, Inside
<1>5. InvWalk' /\ InvSize'
  BY <1>1, <1>2, <1>4 DEF InvWalk, InvSize
<1> QED
  BY <1>3, <1>5, Zenon DEF InvContent

\* The slot is reused: the file falls back to what the disk names.
LEMMA EvictStep ==
  ASSUME IndexIndInv, NEW f \in Files, Evict(f)
  PROVE  IndexIndInv'
<1>1. /\ f \in live /\ mode[f] = "none"
      /\ index' = [index EXCEPT ![f] = dindex[f]] /\ size' = [size EXCEPT ![f] = dsize[f]]
      /\ lost' = [lost EXCEPT ![f] =
                    @ \union {l \in Logical : want[f][l] = 1 /\ Path(l)[1] \in fresh[f]}]
      /\ fresh' = [fresh EXCEPT ![f] = {}]
      /\ UNCHANGED <<live, want, blockmap, tab, data, dindex, dsize, mode, cur, end, moved,
                     depth, at>>
  BY DEF Evict, Idle, blkvars, dskvars, iovars, walkvars
<1>2. \A k, i, j : Place(k, i, j) =>
        Look(dindex[f], tab, k, i, j) \in {NoEntry, At(f, k, i, j)}
  <2>1. SUFFICES ASSUME NEW k, NEW i, NEW j, Place(k, i, j)
                 PROVE  Look(dindex[f], tab, k, i, j) \in {NoEntry, At(f, k, i, j)}
    OBVIOUS
  <2>5. k \in IndexSlots /\ (i = Stop => j = Stop)
    BY <2>1, PlaceKeys
  <2>2. dindex[f][k] \in {NoEntry, index[f][k]} /\ (i = Stop => j = Stop)
    BY <1>1, <2>5 DEF IndexIndInv, InvDisk
  <2>3. CASE dindex[f][k] = NoEntry
    BY <2>2, <2>3, LookEmpty
  <2>4. CASE dindex[f][k] = index[f][k]
    BY <2>4, LookEntry DEF At
  <2> QED
    BY <2>2, <2>3, <2>4
<1>3. /\ lost' \in [Files -> SUBSET Logical] /\ fresh' \in [Files -> SUBSET IndexSlots]
      /\ lost'[f] = lost[f] \union {l \in Logical : want[f][l] = 1 /\ Path(l)[1] \in fresh[f]}
      /\ \A g \in Files \ {f} : lost'[g] = lost[g] /\ fresh'[g] = fresh[g]
      /\ fresh'[f] = {}
  BY <1>1 DEF IndexIndInv, IndexTypeOK
<1>4. IndexTypeOK'
  <2>1. index' \in [Files -> [IndexSlots -> Entries]] /\ size' \in [Files -> 0 .. NLogical]
    BY <1>1 DEF IndexIndInv, IndexTypeOK
  <2> QED
    BY <1>1, <1>3, <2>1 DEF IndexIndInv, IndexTypeOK
<1>5. /\ index'[f] = dindex[f] /\ size'[f] = dsize[f]
      /\ \A g \in Files \ {f} : /\ index'[g] = index[g] /\ size'[g] = size[g]
                                /\ (g \in live' <=> g \in live)
  BY <1>1 DEF IndexIndInv, IndexTypeOK
<1>6. InvOwned' /\ InvUnique'
  <2>1. ASSUME NEW g \in live', NEW k, NEW i, NEW j, Place(k, i, j),
               Look(index'[g], tab', k, i, j) # NoEntry
        PROVE  /\ g \in live /\ Look(index'[g], tab', k, i, j) = At(g, k, i, j)
               /\ At(g, k, i, j) \in blockmap'
    <3>1. g \in live /\ g \in Files /\ tab' = tab /\ blockmap' = blockmap
      BY <1>1 DEF IndexIndInv, IndexTypeOK
    <3>2. Look(index'[g], tab', k, i, j) = At(g, k, i, j)
      <4>1. CASE g = f
        BY <1>2, <1>5, <2>1, <3>1, <4>1
      <4>2. CASE g # f
        BY <1>5, <3>1, <4>2 DEF At
      <4> QED
        BY <4>1, <4>2
    <3> QED
      BY <2>1, <3>1, <3>2 DEF IndexIndInv, InvOwned
  <2> QED
    BY <2>1, FewerBlocks
<1>7. InvDisk'
  <2>1. ASSUME NEW g \in live', NEW k \in IndexSlots
        PROVE  dindex'[g][k] = IF k \in fresh'[g] THEN NoEntry ELSE index'[g][k]
    <3>1. g \in live /\ g \in Files /\ dindex' = dindex
      BY <1>1 DEF IndexIndInv, IndexTypeOK
    <3> QED
      BY <1>3, <1>5, <3>1 DEF IndexIndInv, InvDisk
  <2> QED
    BY <2>1 DEF InvDisk
<1>8. \A l \in Logical : f \in live' => Content(index[f], l)' = Expected(f, l)'
  <2>1. ASSUME NEW l \in Logical PROVE Content(index[f], l)' = Expected(f, l)'
    <3>1. PICK k, i, j : Path(l) = <<k, i, j>> /\ Place(k, i, j)
      BY PathLeaf DEF Leaf
    <3>2. k \in IndexSlots /\ (i = Stop => j = Stop) /\ Path(l)[1] = k
      BY <3>1, PlaceKeys
    <3>3. Content(index[f], l)' = IF Look(dindex[f], tab, k, i, j) = NoEntry THEN 0
                                  ELSE data[Look(dindex[f], tab, k, i, j)]
      <4>1. index'[f] = dindex[f] /\ tab' = tab /\ data' = data
        BY <1>1, <1>5
      <4> QED
        BY <3>1, <4>1, ContentNext
    <3>4. l \in lost'[f] <=> l \in lost[f] \/ (want[f][l] = 1 /\ k \in fresh[f])
      BY <1>3, <3>2
    <3>5. CASE k \in fresh[f]
      <4>1. dindex[f][k] = NoEntry
        BY <1>1, <3>2, <3>5 DEF IndexIndInv, InvDisk
      <4>2. Content(index[f], l)' = 0
        BY <3>2, <3>3, <4>1, LookEmpty
      <4>3. want[f][l] \in 0 .. 1 /\ want' = want
        BY <1>1 DEF IndexIndInv, IndexTypeOK
      <4> QED
        BY <3>4, <3>5, <4>2, <4>3 DEF Expected
    <3>6. CASE k \notin fresh[f]
      <4>1. dindex[f][k] = index[f][k]
        BY <1>1, <3>2, <3>6 DEF IndexIndInv, InvDisk
      <4>2. Look(dindex[f], tab, k, i, j) = At(f, k, i, j)
        BY <4>1, LookEntry DEF At
      <4>3. Content(index[f], l)' = Content(index[f], l)
        BY <3>1, <3>3, <4>2, ContentAt
      <4>4. Content(index[f], l) = Expected(f, l)
        BY <1>1 DEF IndexIndInv, InvContent
      <4>5. Expected(f, l)' = Expected(f, l)
        BY <1>1, <3>4, <3>6 DEF Expected
      <4> QED
        BY <4>3, <4>4, <4>5
    <3> QED
      BY <3>5, <3>6
  <2> QED
    BY <2>1
<1>9. SizeOf(f)'
  <2>1. dsize[f] = size[f] /\ \A l \in Logical : want[f][l] = 1 => Inside(f, l)
    BY <1>1 DEF IndexIndInv, InvSize, SizeOf
  <2>2. size'[f] = size[f] /\ dsize'[f] = dsize[f]
    BY <1>1, <1>5, <2>1
  <2> QED
    BY <1>1, <2>1, <2>2 DEF SizeOf, Inside
<1>10. InvWalk' /\ InvContent' /\ InvSize'
  BY <1>1, <1>3, <1>4, <1>5, <1>8, <1>9, OthersStay
<1> QED
  BY <1>4, <1>6, <1>7, <1>10 DEF IndexIndInv

\* The entries of index blocks, as a set of blocks.
LEMMA NamedEntry ==
  ASSUME IndexTypeOK, NEW set \in SUBSET Blocks, NEW b \in Named(set)
  PROVE  b # NoEntry /\ \E c \in set, d \in 0 .. F - 1 : b = tab[c][d]
<1>1. b # NoEntry /\ \E c \in set : b \in Range(tab[c])
  <2>1. b \in UNION {Range(tab[c]) : c \in set} /\ b # NoEntry
    BY Zenon DEF Named
  <2> QED
    BY <2>1, Zenon
<1>2. PICK c \in set : b \in Range(tab[c])
  BY <1>1
<1>3. DOMAIN tab[c] = 0 .. F - 1
  BY DEF IndexTypeOK
<1>4. \E d \in 0 .. F - 1 : b = tab[c][d]
  BY <1>2, <1>3, Zenon DEF Range
<1> QED
  BY <1>1, <1>4

\* What is below an entry of an inode is at a place of the file.
LEMMA BelowPlace ==
  ASSUME IndexTypeOK, NEW f \in Files, NEW k \in IndexSlots,
         NEW b \in Below(index[f][k], Level(k))
  PROVE  b # NoEntry /\ \E i, j : Place(k, i, j) /\ At(f, k, i, j) = b
<1> DEFINE r == index[f][k]
<1>1. r # NoEntry /\ r \in Blocks
  BY DEF Below, IndexTypeOK, Entries
<1>2. At(f, k, Stop, Stop) = r /\ Place(k, Stop, Stop)
  BY AtDef, Sizes DEF Place, Stop
<1>3. ASSUME NEW c \in Named({r}), ~ (k < D)
      PROVE  c \in Blocks /\ \E i \in 0 .. F - 1 : /\ Place(k, i, Stop) /\ i # Stop
                                                   /\ At(f, k, i, Stop) = c
  <2>1. {r} \in SUBSET Blocks
    BY <1>1
  <2>2. c # NoEntry /\ \E d \in {r}, i \in 0 .. F - 1 : c = tab[d][i]
    BY <1>3, <2>1, NamedEntry, Zenon
  <2>3. PICK i \in 0 .. F - 1 : c = tab[r][i]
    BY <2>2
  <2>4. Place(k, i, Stop) /\ i # Stop
    BY <1>3, Sizes DEF Place, Stop, IndexSlots
  <2>5. At(f, k, i, Stop) = c
    BY <1>1, <2>3, <2>4, AtDef
  <2>6. c \in Entries
    BY <2>4, <2>5, AtType
  <2> QED
    BY <2>2, <2>4, <2>5, <2>6 DEF Entries
<1>4. ASSUME NEW c \in Named(Named({r})), ~ (k < D + S)
      PROVE  c # NoEntry /\ \E i, j : Place(k, i, j) /\ At(f, k, i, j) = c
  <2>1. ~ (k < D)
    BY <1>4, Sizes DEF IndexSlots
  <2>2. Named({r}) \in SUBSET Blocks
    BY <1>3, <2>1
  <2>3. c # NoEntry /\ \E d \in Named({r}), j \in 0 .. F - 1 : c = tab[d][j]
    BY <1>4, <2>2, NamedEntry, Zenon
  <2>8. PICK d \in Named({r}), j \in 0 .. F - 1 : c = tab[d][j] /\ c # NoEntry
    BY <2>3, Zenon
  <2>4. PICK i \in 0 .. F - 1 : Place(k, i, Stop) /\ i # Stop /\ At(f, k, i, Stop) = d
    BY <1>3, <2>1, <2>8
  <2>5. d # NoEntry
    <3>1. d \in Blocks
      BY <2>2
    <3> QED
      BY <3>1 DEF Blocks, NoEntry
  <2>6. Place(k, i, j) /\ j # Stop
    BY <1>4, <2>1, <2>4, Sizes DEF Place, Stop, IndexSlots
  <2>7. At(f, k, i, j) = c
    BY <2>8, <2>4, <2>5, <2>6, AtDef
  <2> QED
    BY <2>8, <2>6, <2>7
<1>5. CASE k < D
  <2>1. b = r
    BY <1>1, <1>5 DEF Below, Level
  <2> QED
    BY <1>1, <1>2, <2>1
<1>6. CASE ~ (k < D) /\ k < D + S
  <2>1. b \in {r} \union Named({r})
    BY <1>1, <1>6 DEF Below, Level
  <2>2. CASE b = r
    BY <1>1, <1>2, <2>2
  <2>3. CASE b \in Named({r})
    BY <1>3, <1>6, <2>3 DEF Blocks, NoEntry
  <2> QED
    BY <2>1, <2>2, <2>3
<1>7. CASE ~ (k < D) /\ ~ (k < D + S)
  <2>1. b \in {r} \union Named({r}) \union Named(Named({r}))
    BY <1>1, <1>7 DEF Below, Level
  <2>2. CASE b = r
    BY <1>1, <1>2, <2>2
  <2>3. CASE b \in Named({r})
    BY <1>3, <1>7, <2>3 DEF Blocks, NoEntry
  <2>4. CASE b \in Named(Named({r}))
    BY <1>4, <1>7, <2>4
  <2> QED
    BY <2>1, <2>2, <2>3, <2>4
<1> QED
  BY <1>5, <1>6, <1>7

\* inode_delete: what is given back belongs to no other file.
LEMMA DeleteStep ==
  ASSUME IndexIndInv, NEW f \in Files, Delete(f)
  PROVE  IndexIndInv'
<1> DEFINE gone == Freed(index[f])
           freed == UNION {Below(index[f][k], Level(k)) : k \in gone}
           rest == [k \in IndexSlots |-> IF k \in gone THEN NoEntry ELSE index[f][k]]
           zero == [l \in Logical |-> 0]
<1>1. /\ f \in live /\ mode[f] = "none" /\ live' = live \ {f}
      /\ blockmap' = blockmap \ freed
      /\ size' = [size EXCEPT ![f] = 0] /\ dsize' = [dsize EXCEPT ![f] = 0]
      /\ want' = [want EXCEPT ![f] = zero]
      /\ fresh' = [fresh EXCEPT ![f] = {}] /\ lost' = [lost EXCEPT ![f] = {}]
      /\ UNCHANGED <<tab, data, mode, cur, end, moved, depth, at>>
  BY DEF Delete, Idle, iovars, walkvars
<1>2. index' = [index EXCEPT ![f] = rest] /\ dindex' = [dindex EXCEPT ![f] = index'[f]]
  BY DEF Delete
<1>3. rest \in [IndexSlots -> Entries] /\ zero \in [Logical -> 0 .. 1]
  BY DEF IndexIndInv, IndexTypeOK, Entries
<1>4. \A b \in freed : \E k, i, j : b # NoEntry /\ Place(k, i, j) /\ At(f, k, i, j) = b
  <2>1. ASSUME NEW b \in freed
        PROVE  \E k, i, j : b # NoEntry /\ Place(k, i, j) /\ At(f, k, i, j) = b
    <3>1. PICK k \in IndexSlots : b \in Below(index[f][k], Level(k))
      BY DEF Freed
    <3>2. b # NoEntry /\ \E i, j : Place(k, i, j) /\ At(f, k, i, j) = b
      BY <3>1, BelowPlace DEF IndexIndInv
    <3> QED
      BY <3>2
  <2> QED
    BY <2>1
<1> HIDE DEF gone, freed, rest, zero
<1>5. IndexTypeOK'
  <2>1. index' \in [Files -> [IndexSlots -> Entries]] /\ index'[f] = rest
    BY <1>2, <1>3 DEF IndexIndInv, IndexTypeOK
  <2>2. dindex' \in [Files -> [IndexSlots -> Entries]]
    BY <1>2, <1>3, <2>1 DEF IndexIndInv, IndexTypeOK
  <2>3. size' \in [Files -> 0 .. NLogical] /\ dsize' \in [Files -> 0 .. NLogical]
    BY <1>1, Products DEF IndexIndInv, IndexTypeOK
  <2>4. /\ want' \in [Files -> [Logical -> 0 .. 1]]
        /\ fresh' \in [Files -> SUBSET IndexSlots] /\ lost' \in [Files -> SUBSET Logical]
    BY <1>1, <1>3 DEF IndexIndInv, IndexTypeOK
  <2> QED
    BY <1>1, <2>1, <2>2, <2>3, <2>4 DEF IndexIndInv, IndexTypeOK
<1>6. \A g \in Files \ {f} : /\ index'[g] = index[g] /\ want'[g] = want[g]
                             /\ lost'[g] = lost[g] /\ fresh'[g] = fresh[g]
                             /\ size'[g] = size[g] /\ dsize'[g] = dsize[g]
                             /\ dindex'[g] = dindex[g] /\ (g \in live' <=> g \in live)
  BY <1>1, <1>2 DEF IndexIndInv, IndexTypeOK
<1>7. InvOwned' /\ InvUnique'
  <2>1. ASSUME NEW g \in live', NEW k, NEW i, NEW j, Place(k, i, j),
               Look(index'[g], tab', k, i, j) # NoEntry
        PROVE  /\ g \in live /\ Look(index'[g], tab', k, i, j) = At(g, k, i, j)
               /\ At(g, k, i, j) \in blockmap'
    <3>1. g \in live /\ g \in Files /\ g # f /\ tab' = tab
      BY <1>1 DEF IndexIndInv, IndexTypeOK
    <3>2. Look(index'[g], tab', k, i, j) = At(g, k, i, j)
      BY <1>6, <3>1 DEF At
    <3>3. At(g, k, i, j) \in blockmap /\ At(g, k, i, j) # NoEntry
      BY <2>1, <3>1, <3>2 DEF IndexIndInv, InvOwned
    <3>4. At(g, k, i, j) \notin freed
      <4>1. ASSUME At(g, k, i, j) \in freed PROVE FALSE
        <5>1. PICK x, y, z : Place(x, y, z) /\ At(f, x, y, z) = At(g, k, i, j)
          BY <1>4, <4>1
        <5> QED
          BY <1>1, <2>1, <3>1, <3>3, <5>1, OnePlace
      <4> QED
        BY <4>1
    <3> QED
      BY <1>1, <3>1, <3>2, <3>3, <3>4
  <2> QED
    BY <2>1, FewerBlocks
<1>8. InvDisk'
  <2>1. ASSUME NEW g \in live', NEW k \in IndexSlots
        PROVE  dindex'[g][k] = IF k \in fresh'[g] THEN NoEntry ELSE index'[g][k]
    <3>1. g \in live /\ g \in Files /\ g # f
      BY <1>1 DEF IndexIndInv, IndexTypeOK
    <3>2. dindex'[g] = dindex[g] /\ index'[g] = index[g] /\ fresh'[g] = fresh[g]
      BY <1>6, <3>1
    <3> QED
      BY <3>1, <3>2 DEF IndexIndInv, InvDisk
  <2> QED
    BY <2>1 DEF InvDisk
<1>9. InvWalk' /\ InvContent' /\ InvSize'
  <2>1. f \notin live' /\ SizeOf(f)'
    BY <1>1 DEF SizeOf
  <2> QED
    BY <1>1, <1>5, <1>6, <2>1, OthersStay
<1> QED
  BY <1>5, <1>7, <1>8, <1>9 DEF IndexIndInv

\* A file that is not in use has nothing written to it.
InvDead == \A f \in Files \ live : want[f] = [l \in Logical |-> 0]

\* inode_create: the file is empty, and so is its history.
LEMMA CreateStep ==
  ASSUME IndexIndInv, InvDead, NEW f \in Files, Create(f)
  PROVE  IndexIndInv'
<1>1. /\ f \notin live /\ live' = live \union {f}
      /\ index' = [index EXCEPT ![f] = Empty] /\ dindex' = [dindex EXCEPT ![f] = Empty]
      /\ size' = [size EXCEPT ![f] = 0] /\ dsize' = [dsize EXCEPT ![f] = 0]
      /\ UNCHANGED <<want, fresh, lost, blockmap, tab, data, mode, cur, end, moved, depth, at>>
  BY DEF Create, hisvars, blkvars, iovars, walkvars
<1>2. mode[f] = "none"
  BY <1>1 DEF IndexIndInv, InvWalk, WalkOf
<1>3. IndexTypeOK'
  <2>1. Empty \in [IndexSlots -> Entries]
    BY DEF Empty, Entries
  <2>2. /\ index' \in [Files -> [IndexSlots -> Entries]]
        /\ dindex' \in [Files -> [IndexSlots -> Entries]]
    BY <1>1, <2>1 DEF IndexIndInv, IndexTypeOK
  <2>3. size' \in [Files -> 0 .. NLogical] /\ dsize' \in [Files -> 0 .. NLogical]
    BY <1>1, Products DEF IndexIndInv, IndexTypeOK
  <2> QED
    BY <1>1, <2>2, <2>3 DEF IndexIndInv, IndexTypeOK
<1>4. /\ index'[f] = Empty /\ dindex'[f] = Empty
      /\ \A g \in Files \ {f} : /\ index'[g] = index[g] /\ want'[g] = want[g]
                                /\ size'[g] = size[g] /\ dsize'[g] = dsize[g]
                                /\ dindex'[g] = dindex[g] /\ (g \in live' <=> g \in live)
  BY <1>1 DEF IndexIndInv, IndexTypeOK
<1>5. \A k, i, j : Place(k, i, j) => Look(index'[f], tab', k, i, j) = NoEntry
  <2>1. SUFFICES ASSUME NEW k, NEW i, NEW j, Place(k, i, j)
                 PROVE  Look(index'[f], tab', k, i, j) = NoEntry
    OBVIOUS
  <2>2. index'[f][k] = NoEntry /\ (i = Stop => j = Stop)
    BY <1>4, <2>1, PlaceKeys DEF Empty
  <2> QED
    BY <2>2, LookEmpty
<1>6. InvOwned' /\ InvUnique'
  <2>1. ASSUME NEW g \in live', NEW k, NEW i, NEW j, Place(k, i, j),
               Look(index'[g], tab', k, i, j) # NoEntry
        PROVE  /\ g \in live /\ Look(index'[g], tab', k, i, j) = At(g, k, i, j)
               /\ At(g, k, i, j) \in blockmap'
    <3>1. g # f /\ g \in live /\ g \in Files /\ tab' = tab /\ blockmap' = blockmap
      BY <1>1, <1>5, <2>1 DEF IndexIndInv, IndexTypeOK
    <3>2. Look(index'[g], tab', k, i, j) = At(g, k, i, j)
      BY <1>4, <3>1 DEF At
    <3> QED
      BY <2>1, <3>1, <3>2 DEF IndexIndInv, InvOwned
  <2> QED
    BY <2>1, FewerBlocks
<1>7. InvDisk'
  <2>1. ASSUME NEW g \in live', NEW k \in IndexSlots
        PROVE  dindex'[g][k] = IF k \in fresh'[g] THEN NoEntry ELSE index'[g][k]
    <3>1. CASE g = f
      BY <1>4, <3>1 DEF Empty
    <3>2. CASE g # f
      <4>1. g \in live /\ g \in Files
        BY <1>1, <3>2 DEF IndexIndInv, IndexTypeOK
      <4>2. dindex'[g] = dindex[g] /\ index'[g] = index[g] /\ fresh' = fresh
        BY <1>1, <1>4, <3>2, <4>1
      <4> QED
        BY <4>1, <4>2 DEF IndexIndInv, InvDisk
    <3> QED
      BY <3>1, <3>2
  <2> QED
    BY <2>1 DEF InvDisk
<1>8. \A l \in Logical : f \in live' => Content(index[f], l)' = Expected(f, l)'
  <2>1. ASSUME NEW l \in Logical PROVE Content(index[f], l)' = Expected(f, l)'
    <3>1. PICK k, i, j : Path(l) = <<k, i, j>> /\ Place(k, i, j)
      BY PathLeaf DEF Leaf
    <3>2. Content(index[f], l)' = 0
      BY <1>5, <3>1, ContentNext
    <3>3. want[f] = [m \in Logical |-> 0] /\ want' = want
      BY <1>1 DEF InvDead
    <3> QED
      BY <3>2, <3>3 DEF Expected
  <2> QED
    BY <2>1
<1>9. SizeOf(f)'
  <2>1. \A l \in Logical : want'[f][l] = 0
    BY <1>1 DEF InvDead
  <2>2. size'[f] = 0 /\ dsize'[f] = 0
    BY <1>1 DEF IndexIndInv, IndexTypeOK
  <2> QED
    BY <2>1, <2>2 DEF SizeOf
<1>10. InvWalk' /\ InvContent' /\ InvSize'
  BY <1>1, <1>2, <1>3, <1>4, <1>8, <1>9, OthersStay
<1> QED
  BY <1>3, <1>6, <1>7, <1>10 DEF IndexIndInv

\* Only a file in use is written to.
LEMMA DeadStep ==
  ASSUME IndexIndInv, InvDead, NEW f \in Files, FileStep(f)
  PROVE  InvDead'
<1> DEFINE zero == [l \in Logical |-> 0]
<1>1. CASE UNCHANGED <<live, want>>
  BY <1>1 DEF InvDead
<1>2. CASE Transfer(f)
  <2>1. /\ f \in live /\ live' = live
        /\ want' = want \/ want' = [want EXCEPT ![f][cur[f]] = 1]
    BY <1>2 DEF Transfer, IndexIndInv, InvWalk, WalkOf
  <2>2. \A g \in Files \ {f} : want'[g] = want[g]
    BY <2>1 DEF IndexIndInv, IndexTypeOK
  <2> QED
    BY <2>1, <2>2 DEF InvDead
<1>3. CASE Delete(f)
  <2>1. live' = live \ {f} /\ want' = [want EXCEPT ![f] = zero]
    BY <1>3 DEF Delete
  <2>2. want'[f] = zero /\ \A g \in Files \ {f} : want'[g] = want[g]
    BY <2>1 DEF IndexIndInv, IndexTypeOK
  <2> QED
    BY <2>1, <2>2 DEF InvDead
<1>4. CASE Create(f)
  BY <1>4 DEF Create, InvDead, hisvars
<1>5. \/ UNCHANGED <<live, want>> \/ Transfer(f) \/ Delete(f) \/ Create(f)
  BY DEF FileStep, StartWrite, StartRead, Start, Follow, Extend, Fail, Finish, Save, Evict,
         hisvars
<1> QED
  BY <1>1, <1>2, <1>3, <1>4, <1>5

\* Every step keeps the invariant.
LEMMA FileStepKeeps ==
  ASSUME IndexIndInv, InvDead, NEW f \in Files, FileStep(f)
  PROVE  IndexIndInv'
<1>1. ASSUME NEW off \in Logical, NEW n \in 1 .. MaxLen, StartWrite(f, off, n)
      PROVE  IndexIndInv'
  <2>1. off \in Nat /\ off + n \in Nat /\ Start(f, "write", off, off + n)
    BY <1>1, LogicalNat, Sizes DEF StartWrite
  <2> QED
    BY <2>1, StartStep
<1>2. ASSUME NEW off \in Logical, NEW n \in 1 .. MaxLen, StartRead(f, off, n)
      PROVE  IndexIndInv'
  <2> DEFINE last == IF off + n < size[f] THEN off + n ELSE size[f]
  <2>1. off \in Nat /\ off + n \in Nat /\ Start(f, "read", off, last)
    BY <1>2, LogicalNat, Sizes DEF StartRead
  <2>2. last \in Nat
    BY <2>1, Products DEF IndexIndInv, IndexTypeOK
  <2> HIDE DEF last
  <2> QED
    BY <2>1, <2>2, StartStep
<1>3. \/ \E off \in Logical, n \in 1 .. MaxLen : StartWrite(f, off, n) \/ StartRead(f, off, n)
      \/ Follow(f) \/ Extend(f) \/ Fail(f) \/ Transfer(f) \/ Finish(f)
      \/ Save(f) \/ Evict(f) \/ Delete(f) \/ Create(f)
  BY DEF FileStep
<1> QED
  BY <1>1, <1>2, <1>3, FollowStep, ExtendStep, FailStep, TransferStep, FinishStep, SaveStep,
     EvictStep, DeleteStep, CreateStep

\* The empty disk satisfies it.
LEMMA IndexInitial == IndexInit => IndexIndInv /\ InvDead
<1> SUFFICES ASSUME IndexInit PROVE IndexIndInv /\ InvDead
  OBVIOUS
<1>1. IndexTypeOK
  <2>1. Empty \in [IndexSlots -> Entries] /\ ZeroTab \in [0 .. F - 1 -> Entries]
    BY DEF Empty, ZeroTab, Entries
  <2>2. NoEntry \in Entries /\ 0 \in 0 .. NLogical
    BY Products DEF Entries
  <2> QED
    BY <2>1, <2>2 DEF IndexInit, IndexTypeOK
<1>2. InvOwned /\ InvUnique /\ InvDisk /\ InvContent /\ InvSize /\ InvDead
  BY DEF IndexInit, InvOwned, InvUnique, InvDisk, InvContent, InvSize, SizeOf, InvDead
<1>3. InvWalk
  BY DEF IndexInit, InvWalk, WalkOf
<1> QED
  BY <1>1, <1>2, <1>3 DEF IndexIndInv

\* The inductive invariant of the indices and walks.
THEOREM IndexInvariantHolds == IndexSpec => [](IndexIndInv /\ InvDead)
<1>1. IndexInit => IndexIndInv /\ InvDead
  BY IndexInitial
<1>2. IndexIndInv /\ InvDead /\ [IndexNext]_ixvars => (IndexIndInv /\ InvDead)'
  <2> SUFFICES ASSUME IndexIndInv, InvDead, [IndexNext]_ixvars
               PROVE  IndexIndInv' /\ InvDead'
    OBVIOUS
  <2>1. CASE IndexNext
    BY <2>1, FileStepKeeps, DeadStep DEF IndexNext
  <2>2. CASE UNCHANGED ixvars
    <3>1. UNCHANGED <<live, want, fresh, lost, blockmap, tab, data, index, size, dindex,
                      dsize, mode, cur, end, moved, depth, at>>
      BY <2>2 DEF ixvars, hisvars, blkvars, memvars, dskvars, iovars, walkvars
    <3>2. IndexTypeOK' /\ InvDisk' /\ InvSize' /\ InvDead'
      BY <3>1 DEF IndexIndInv, IndexTypeOK, InvDisk, InvSize, SizeOf, Inside, InvDead
    <3>3. InvOwned' /\ InvUnique' /\ InvContent'
      BY <3>1, BlocksStay, ContentStays
    <3>4. InvWalk'
      BY <3>1 DEF IndexIndInv, InvWalk, WalkOf, At
    <3> QED
      BY <3>2, <3>3, <3>4 DEF IndexIndInv
  <2> QED
    BY <2>1, <2>2
<1> QED
  BY <1>1, <1>2, PTL DEF IndexSpec

\* A file holds what was written to it and zeroes elsewhere, whatever the walks of
\* other files did in between, but for what a write that did not grow the file put
\* below a new entry of the inode before its slot was reused; and between two calls
\* the disk has the size, with every written block below it.
THEOREM ContentAsWritten == IndexSpec => []ContentIsWritten
<1>1. ASSUME IndexIndInv PROVE ContentIsWritten
  <2>1. ASSUME NEW f \in live, mode[f] = "none"
        PROVE  dsize[f] = size[f] /\ \A l \in Logical : want[f][l] = 1 => l < size[f]
    BY <1>1, <2>1 DEF IndexIndInv, IndexTypeOK, InvSize, SizeOf, Inside
  <2> QED
    BY <1>1, <2>1 DEF IndexIndInv, InvContent, Expected, ContentIsWritten
<1> QED
  BY <1>1, IndexInvariantHolds, PTL

\* What can be reached from an inode is at places of the file, of which the
\* disk names a part.
LEMMA ReachOwned ==
  ASSUME IndexIndInv, NEW f \in live
  PROVE  Reach(index[f]) \union Reach(dindex[f]) \subseteq blockmap
<1>1. f \in Files
  BY DEF IndexIndInv, IndexTypeOK
<1>2. ASSUME NEW k \in IndexSlots, NEW b \in Below(index[f][k], Level(k))
      PROVE  b \in blockmap
  <2>1. PICK i, j : Place(k, i, j) /\ At(f, k, i, j) = b
    BY <1>1, BelowPlace DEF IndexIndInv
  <2>2. b # NoEntry
    BY <1>1, BelowPlace DEF IndexIndInv
  <2> QED
    BY <2>1, <2>2 DEF IndexIndInv, InvOwned
<1>3. ASSUME NEW k \in IndexSlots, NEW b \in Below(dindex[f][k], Level(k))
      PROVE  b \in blockmap
  <2>1. dindex[f][k] # NoEntry
    BY DEF Below
  <2>2. dindex[f][k] = index[f][k]
    BY <1>1, <2>1 DEF IndexIndInv, InvDisk
  <2>3. b \in Below(index[f][k], Level(k))
    BY <2>2
  <2> QED
    BY <1>2, <2>3
<1>4. Reach(index[f]) \subseteq blockmap
  BY <1>2, Zenon DEF Reach
<1>5. Reach(dindex[f]) \subseteq blockmap
  BY <1>3, Zenon DEF Reach
<1> QED
  BY <1>4, <1>5

\* The entry that names the block at a place.
NamerOf(f, k, i, j) ==
  IF i = Stop THEN <<"inode", f, k>>
  ELSE IF j = Stop THEN <<"block", At(f, k, Stop, Stop), i>>
  ELSE <<"block", At(f, k, i, Stop), j>>

\* Every entry that names a block stands for a place of a file.
LEMMA NamerPlace ==
  ASSUME IndexIndInv, NEW b \in Blocks, NEW x \in Namers(b)
  PROVE  \E f \in live : \E k, i, j : /\ Place(k, i, j) /\ At(f, k, i, j) = b
                                      /\ x = NamerOf(f, k, i, j)
<1>1. IndexTypeOK /\ b # NoEntry
  BY DEF IndexIndInv, Blocks, NoEntry
<1>2. ASSUME NEW f \in live, NEW k \in IndexSlots, index[f][k] = b, x = <<"inode", f, k>>
      PROVE  \E i, j : /\ Place(k, i, j) /\ At(f, k, i, j) = b /\ x = NamerOf(f, k, i, j)
  <2>1. Place(k, Stop, Stop)
    BY Sizes DEF Place, Stop
  <2>2. At(f, k, Stop, Stop) = b
    BY <1>2, AtDef
  <2> QED
    BY <1>2, <2>1, <2>2 DEF NamerOf
<1>3. ASSUME NEW f \in live, NEW c \in IndexBlocks(f), NEW d \in 0 .. F - 1, tab[c][d] = b,
             x = <<"block", c, d>>
      PROVE  \E k, i, j : /\ Place(k, i, j) /\ At(f, k, i, j) = b /\ x = NamerOf(f, k, i, j)
  <2>1. PICK k \in D .. D + S : c \in Below(index[f][k], Level(k) - 1)
    BY Zenon DEF IndexBlocks
  <2> DEFINE r == index[f][k]
  <2>2. k \in IndexSlots /\ ~ (k < D) /\ f \in Files
    BY <1>1, Sizes DEF IndexSlots, IndexTypeOK
  <2>3. r # NoEntry /\ r \in Blocks
    BY <1>1, <2>1, <2>2 DEF Below, IndexTypeOK, Entries
  <2>4. c = r \/ (~ (k < D + S) /\ c \in Named({r}))
    <3>1. CASE k < D + S
      <4>1. Level(k) - 1 = 0
        BY <2>2, <3>1 DEF Level
      <4> QED
        BY <2>1, <2>3, <4>1 DEF Below
    <3>2. CASE ~ (k < D + S)
      <4>1. Level(k) - 1 = 1
        BY <2>2, <3>2 DEF Level
      <4> QED
        BY <2>1, <2>3, <3>2, <4>1 DEF Below
    <3> QED
      BY <3>1, <3>2
  <2>5. CASE c = r
    <3>1. Place(k, d, Stop) /\ d # Stop
      BY <2>2, Sizes DEF Place, Stop
    <3>2. At(f, k, d, Stop) = b /\ At(f, k, Stop, Stop) = r
      BY <1>3, <2>3, <2>5, <3>1, AtDef
    <3> QED
      BY <1>3, <2>5, <3>1, <3>2 DEF NamerOf
  <2>6. CASE ~ (k < D + S) /\ c \in Named({r})
    <3>1. {r} \in SUBSET Blocks
      BY <2>3
    <3>2. c # NoEntry /\ \E e \in {r}, i \in 0 .. F - 1 : c = tab[e][i]
      BY <1>1, <2>6, <3>1, NamedEntry, Zenon
    <3>3. PICK i \in 0 .. F - 1 : c = tab[r][i]
      BY <3>2
    <3>4. i # Stop /\ d # Stop /\ Place(k, i, d)
      BY <2>2, <2>6, Sizes DEF Place, Stop, IndexSlots
    <3>5. At(f, k, i, Stop) = c
      BY <2>3, <3>3, <3>4, AtDef
    <3>6. At(f, k, i, d) = b
      BY <1>3, <3>2, <3>4, <3>5, AtDef
    <3> QED
      BY <1>3, <3>4, <3>5, <3>6 DEF NamerOf
  <2> QED
    BY <2>4, <2>5, <2>6
<1> DEFINE entry == {y \in live \X IndexSlots : index[y[1]][y[2]] = b}
           inner == {y \in (UNION {IndexBlocks(f) : f \in live}) \X (0 .. F - 1) :
                       tab[y[1]][y[2]] = b}
<1>4. \/ \E y \in entry : x = <<"inode", y[1], y[2]>>
      \/ \E y \in inner : x = <<"block", y[1], y[2]>>
  BY Zenon DEF Namers
<1>5. CASE \E y \in entry : x = <<"inode", y[1], y[2]>>
  <2>1. PICK f \in live, k \in IndexSlots : index[f][k] = b /\ x = <<"inode", f, k>>
    BY <1>5
  <2> QED
    BY <1>2, <2>1
<1>6. CASE \E y \in inner : x = <<"block", y[1], y[2]>>
  <2>1. PICK c \in UNION {IndexBlocks(f) : f \in live}, d \in 0 .. F - 1 :
          tab[c][d] = b /\ x = <<"block", c, d>>
    BY <1>6
  <2>2. PICK f \in live : c \in IndexBlocks(f)
    BY <2>1
  <2> QED
    BY <1>3, <2>1, <2>2
<1> QED
  BY <1>4, <1>5, <1>6

\* Every block that an inode reaches, in memory or on disk, is marked used and
\* named by one entry only, however allocations, failures, evictions and deletions
\* of the files interleave.
THEOREM BlocksAreOwned == IndexSpec => []BlocksOwned
<1>1. ASSUME IndexIndInv PROVE BlocksOwned
  <2>1. \A f \in live : Reach(index[f]) \union Reach(dindex[f]) \subseteq blockmap
    BY <1>1, ReachOwned
  <2>2. ASSUME NEW b \in Blocks PROVE Cardinality(Namers(b)) <= 1
    <3>1. \A x, y \in Namers(b) : x = y
      <4>1. SUFFICES ASSUME NEW x \in Namers(b), NEW y \in Namers(b) PROVE x = y
        OBVIOUS
      <4>2. PICK f \in live : \E k, i, j : /\ Place(k, i, j) /\ At(f, k, i, j) = b
                                           /\ x = NamerOf(f, k, i, j)
        BY <1>1, NamerPlace
      <4>3. PICK k, i, j : Place(k, i, j) /\ At(f, k, i, j) = b /\ x = NamerOf(f, k, i, j)
        BY <4>2
      <4>4. PICK g \in live : \E u, v, w : /\ Place(u, v, w) /\ At(g, u, v, w) = b
                                           /\ y = NamerOf(g, u, v, w)
        BY <1>1, NamerPlace
      <4>5. PICK u, v, w : Place(u, v, w) /\ At(g, u, v, w) = b /\ y = NamerOf(g, u, v, w)
        BY <4>4
      <4>6. b # NoEntry
        BY DEF Blocks, NoEntry
      <4>7. f = g /\ k = u /\ i = v /\ j = w
        BY <1>1, <4>3, <4>5, <4>6, OnePlace
      <4> QED
        BY <4>3, <4>5, <4>7
    <3>2. CASE Namers(b) = {}
      BY <3>2, FS_EmptySet
    <3>3. CASE Namers(b) # {}
      <4>1. PICK x \in Namers(b) : TRUE
        BY <3>3
      <4>2. Namers(b) = {x}
        BY <3>1, <4>1
      <4>3. Cardinality({x}) = 1
        BY FS_Singleton
      <4> QED
        BY <4>2, <4>3
    <3> QED
      BY <3>2, <3>3
  <2> QED
    BY <1>1, <2>1, <2>2 DEF BlocksOwned, IndexIndInv
<1> QED
  BY <1>1, IndexInvariantHolds, PTL
=============================================================================
