-------------------------- MODULE FileTableProofs --------------------------
(***************************************************************************)
(* Theorems about FileTable for every number of processes, files,          *)
(* descriptors and inodes.  The counts are exact because only one process  *)
(* at a time works on the descriptors of a process: the process itself     *)
(* while it runs, its parent while it is being made (proc_fork) or freed   *)
(* (proc_free).  That is what the invariants below say besides the counts. *)
(***************************************************************************)
EXTENDS FileTable, FiniteSetTheorems, WellFoundedInduction, TLAPS

\* A process inside the kernel runs; what its locals mean at each point.
InvLocals ==
  \A p \in Procs :
    /\ pc[p] # "idle" => st[p] = "run"
    /\ pc[p] \in {"idle", "open", "install", "xfer", "device"} => loc[p].q = p /\ loc[p].k = Nil
    /\ pc[p] \in {"open", "put", "delete"} => loc[p].ip \in Inodes
    /\ pc[p] \in {"put", "delete"} => loc[p].k \in Fds \union {Nil}
    /\ pc[p] \in {"install", "xfer", "device"} => loc[p].f \in Files
    /\ pc[p] = "free" => loc[p].k = Nil

\* A process that works on another one's descriptors is making or freeing it.
InvOther ==
  \A p \in Procs :
    /\ pc[p] \in {"fork", "free"} => loc[p].q # p
    /\ pc[p] = "fork" =>
         /\ st[loc[p].q] = "new" /\ loc[p].k \in 0 .. NFd
         /\ \A k \in Fds : k >= loc[p].k => fd[loc[p].q][k] = Nil
    /\ pc[p] \in {"put", "delete", "free"} /\ loc[p].q # p =>
         st[loc[p].q] = "zombie" /\ cwd[loc[p].q] = Nil

\* No two processes make or free the same one.
InvAlone ==
  \A p, r \in Procs : loc[p].q # p /\ loc[r].q # r /\ loc[p].q = loc[r].q => p = r

\* A slot that is not in use holds nothing; a process has a working directory
\* until somebody frees it.
InvSlots ==
  \A q \in Procs :
    /\ st[q] = "unused" => cwd[q] = Nil /\ \A k \in Fds : fd[q][k] = Nil
    /\ st[q] \in {"new", "run"} => cwd[q] \in Inodes
    /\ st[q] = "zombie" /\ (\A r \in Procs : loc[r].q = q => r = q) => cwd[q] \in Inodes

\* A transfer goes through a descriptor of its process.
InvXfer ==
  \A p \in Procs : pc[p] \in {"xfer", "device"} => \E k \in Fds : fd[p][k] = loc[p].f

IndInv ==
  /\ FileRefsExact /\ InodeRefsExact /\ TransferKeepsPlace
  /\ InvLocals /\ InvOther /\ InvAlone /\ InvSlots /\ InvXfer

----------------------------------------------------------------------------
(* Minima and counts *)

\* The search loops take the first element: a nonempty set has a minimum.
LEMMA MinElement ==
  ASSUME NEW S \in SUBSET Nat, S # {}
  PROVE  Min(S) \in S
<1> DEFINE R == {ss \in Nat \X Nat : ss[1] < ss[2]}
<1>1. IsWellFoundedOn(R, Nat)
  BY NatLessThanWellFounded, Zenon DEF OpToRel
<1>2. \A a, b \in Nat : a < b => <<a, b>> \in R
  OBVIOUS
<1> HIDE DEF R
<1>3. PICK x \in S : \A y \in S : ~ (<<y, x>> \in R)
  BY <1>1, WFMin, Zenon
<1>4. ASSUME NEW y \in S PROVE x <= y
  <2>1. x \in Nat /\ y \in Nat
    OBVIOUS
  <2>2. ~ (y < x)
    BY <2>1, <1>2, <1>3, Zenon
  <2> QED
    BY <2>1, <2>2
<1> QED
  BY <1>4 DEF Min

\* file_alloc, sys_open and sys_dup find an entry that is free, proc_free one
\* that is not, where there is one.
LEMMA FirstFound ==
  ASSUME TypeOK, NEW p \in Procs
  PROVE  /\ FreeFds(p) # {} => Min(FreeFds(p)) \in FreeFds(p)
         /\ FreeFiles # {} => Min(FreeFiles) \in FreeFiles
         /\ LET open == {k \in Fds : fd[p][k] # Nil} IN open # {} => Min(open) \in open
<1>1. Fds \in SUBSET Nat /\ Files \in SUBSET Nat
  BY SizeAssumption DEF Fds, Files
<1>2. /\ FreeFds(p) \in SUBSET Nat /\ FreeFiles \in SUBSET Nat
      /\ {k \in Fds : fd[p][k] # Nil} \in SUBSET Nat
  BY <1>1 DEF FreeFds, FreeFiles
<1> QED
  BY <1>2, MinElement, Zenon

\* What the counts are taken of: the file a descriptor holds, the file a call
\* of sys_open is about to install, the inode of a file, the inode in hand of
\* a call.
HeldV == [x \in Procs \X Fds |-> IF Released(x[1], x[2]) THEN Nil ELSE fd[x[1]][x[2]]]
InstV == [p \in Procs |-> IF pc[p] = "install" THEN loc[p].f ELSE Nil]
OpenV == [f \in Files |-> file[f].ip]
CallV == [p \in Procs |-> IF pc[p] \in {"open", "put", "delete"} THEN loc[p].ip ELSE Nil]

Count(D, g, v) == Cardinality({x \in D : g[x] = v})
Eq(v, w) == IF v = w THEN 1 ELSE 0

\* h counts as g does but for what they hold at d.
CountMoves(D, g, h, d, v) ==
  /\ Count(D, g, v) \in Nat /\ Count(D, h, v) \in Nat
  /\ Count(D, h, v) + Eq(g[d], v) = Count(D, g, v) + Eq(h[d], v)

\* One change of a function moves one element from one count to another.
LEMMA CountChange ==
  ASSUME NEW D, IsFiniteSet(D), NEW g, NEW h, NEW d \in D,
         \A x \in D \ {d} : h[x] = g[x], NEW v
  PROVE  CountMoves(D, g, h, d, v)
<1> DEFINE S == {x \in D : g[x] = v}
           T == {x \in D : h[x] = v}
           U == {x \in D \ {d} : g[x] = v}
<1>1. U \subseteq D /\ d \notin U
  OBVIOUS
<1>2. S = IF g[d] = v THEN U \union {d} ELSE U
  OBVIOUS
<1>3. T = IF h[d] = v THEN U \union {d} ELSE U
  OBVIOUS
<1> HIDE DEF S, T, U
<1>4. IsFiniteSet(U)
  BY <1>1, FS_Subset
<1>5. Cardinality(U) \in Nat /\ Cardinality(U \union {d}) = Cardinality(U) + 1
  BY <1>1, <1>4, FS_AddElement, FS_CardinalityType
<1>6. Cardinality(S) = Cardinality(U) + Eq(g[d], v)
  BY <1>2, <1>5 DEF Eq
<1>7. Cardinality(T) = Cardinality(U) + Eq(h[d], v)
  BY <1>3, <1>5 DEF Eq
<1>8. Eq(g[d], v) \in {0, 1} /\ Eq(h[d], v) \in {0, 1}
  BY DEF Eq
<1>9. Count(D, g, v) = Cardinality(S) /\ Count(D, h, v) = Cardinality(T)
  BY DEF Count, S, T
<1> QED
  BY <1>5, <1>6, <1>7, <1>8, <1>9 DEF CountMoves

\* A count that has an element is not zero.
LEMMA CountPositive ==
  ASSUME NEW D, IsFiniteSet(D), NEW g, NEW d \in D
  PROVE  Count(D, g, g[d]) \in Nat /\ Count(D, g, g[d]) > 0
<1> DEFINE S == {x \in D : g[x] = g[d]}
<1>1. S \subseteq D /\ d \in S
  OBVIOUS
<1>2. Count(D, g, g[d]) = Cardinality(S)
  BY DEF Count
<1> HIDE DEF S
<1>3. IsFiniteSet(S) /\ S # {}
  BY <1>1, FS_Subset
<1>4. Cardinality(S) \in Nat /\ Cardinality(S) # 0
  BY <1>3, FS_CardinalityType, FS_EmptySet
<1> QED
  BY <1>2, <1>4

\* Processes, files and descriptors are finitely many.
LEMMA FiniteDomains ==
  IsFiniteSet(Procs) /\ IsFiniteSet(Files) /\ IsFiniteSet(Procs \X Fds)
<1>1. IsFiniteSet(Files) /\ IsFiniteSet(Fds)
  BY SizeAssumption, FS_Interval DEF Files, Fds
<1> QED
  BY <1>1, ProcAssumption, FS_Product

\* The two exact counts, in these words.
CountsAsViews ==
  /\ FileRefsExact <=>
       \A f \in Files : file[f].ref = Count(Procs \X Fds, HeldV, f) + Count(Procs, InstV, f)
  /\ InodeRefsExact <=>
       /\ TypeOK
       /\ \A f \in Files : file[f].ref > 0 <=> file[f].ip # Nil
       /\ \A i \in Inodes :
            iref[i] = Count(Files, OpenV, i) + Count(Procs, cwd, i) + Count(Procs, CallV, i)

\* They are the properties of FileTable.
LEMMA CountsDef == CountsAsViews
<1>1. Nil \notin Files
  BY NilAssumption, SizeAssumption DEF Files
<1>2. ASSUME NEW f \in Files
      PROVE  {x \in Procs \X Fds : fd[x[1]][x[2]] = f /\ ~Released(x[1], x[2])}
               = {x \in Procs \X Fds : HeldV[x] = f}
  BY <1>1, <1>2 DEF HeldV
<1>3. ASSUME NEW f \in Files
      PROVE  {p \in Procs : pc[p] = "install" /\ loc[p].f = f} = {p \in Procs : InstV[p] = f}
  BY <1>1, <1>3 DEF InstV
<1>4. ASSUME NEW i \in Inodes
      PROVE  /\ {f \in Files : file[f].ip = i} = {f \in Files : OpenV[f] = i}
             /\ {p \in Procs : pc[p] \in {"open", "put", "delete"} /\ loc[p].ip = i}
                  = {p \in Procs : CallV[p] = i}
  BY InodeAssumption, <1>4 DEF OpenV, CallV
<1>5. FileRefsExact <=>
       \A f \in Files : file[f].ref = Count(Procs \X Fds, HeldV, f) + Count(Procs, InstV, f)
  BY <1>2, <1>3 DEF FileRefsExact, Count
<1>6. InodeRefsExact <=>
       /\ TypeOK
       /\ \A f \in Files : file[f].ref > 0 <=> file[f].ip # Nil
       /\ \A i \in Inodes :
            iref[i] = Count(Files, OpenV, i) + Count(Procs, cwd, i) + Count(Procs, CallV, i)
  BY <1>4 DEF InodeRefsExact, Count
<1> QED
  BY <1>5, <1>6 DEF CountsAsViews

\* A step that changes what one descriptor and one call hold keeps the counts of
\* files when the counters follow.
LEMMA FileRefsStep ==
  ASSUME FileRefsExact, TypeOK, TypeOK', NEW x \in Procs \X Fds, NEW p \in Procs,
         \A y \in (Procs \X Fds) \ {x} : HeldV'[y] = HeldV[y],
         \A r \in Procs \ {p} : InstV'[r] = InstV[r],
         \A f \in Files :
           file'[f].ref + Eq(HeldV[x], f) + Eq(InstV[p], f)
             = file[f].ref + Eq(HeldV'[x], f) + Eq(InstV'[p], f)
  PROVE  FileRefsExact'
<1>0. CountsAsViews'
  BY CountsDef, PTL
<1> SUFFICES ASSUME NEW f \in Files
             PROVE  file'[f].ref = Count(Procs \X Fds, HeldV', f) + Count(Procs, InstV', f)
  BY <1>0 DEF CountsAsViews, Count
<1>1. CountMoves(Procs \X Fds, HeldV, HeldV', x, f)
  BY FiniteDomains, CountChange, Zenon
<1>2. CountMoves(Procs, InstV, InstV', p, f)
  BY FiniteDomains, CountChange, Zenon
<1>3. file[f].ref = Count(Procs \X Fds, HeldV, f) + Count(Procs, InstV, f)
  BY CountsDef DEF CountsAsViews
<1>4. file'[f].ref \in Nat /\ file[f].ref \in Nat
  BY DEF TypeOK, File
<1>5. /\ Eq(HeldV[x], f) \in Nat /\ Eq(HeldV'[x], f) \in Nat
      /\ Eq(InstV[p], f) \in Nat /\ Eq(InstV'[p], f) \in Nat
  BY DEF Eq
<1> QED
  BY <1>1, <1>2, <1>3, <1>4, <1>5 DEF CountMoves

\* A step that changes one file, one working directory and what one call holds
\* keeps the counts of inodes when the counters follow.
LEMMA InodeRefsStep ==
  ASSUME InodeRefsExact, TypeOK', NEW h \in Files, NEW q \in Procs, NEW p \in Procs,
         \A f \in Files \ {h} : OpenV'[f] = OpenV[f],
         \A r \in Procs \ {q} : cwd'[r] = cwd[r],
         \A r \in Procs \ {p} : CallV'[r] = CallV[r],
         \A f \in Files : file'[f].ref > 0 <=> file'[f].ip # Nil,
         \A i \in Inodes :
           iref'[i] + Eq(OpenV[h], i) + Eq(cwd[q], i) + Eq(CallV[p], i)
             = iref[i] + Eq(OpenV'[h], i) + Eq(cwd'[q], i) + Eq(CallV'[p], i)
  PROVE  InodeRefsExact'
<1>0. CountsAsViews'
  BY CountsDef, PTL
<1>a. TypeOK
  BY DEF InodeRefsExact
<1> SUFFICES ASSUME NEW i \in Inodes
             PROVE  iref'[i] = Count(Files, OpenV', i) + Count(Procs, cwd', i)
                               + Count(Procs, CallV', i)
  BY <1>0 DEF CountsAsViews, Count
<1>1. CountMoves(Files, OpenV, OpenV', h, i)
  BY FiniteDomains, CountChange, Zenon
<1>2. CountMoves(Procs, cwd, cwd', q, i)
  BY FiniteDomains, CountChange, Zenon
<1>3. CountMoves(Procs, CallV, CallV', p, i)
  BY FiniteDomains, CountChange, Zenon
<1>4. iref[i] = Count(Files, OpenV, i) + Count(Procs, cwd, i) + Count(Procs, CallV, i)
  BY CountsDef DEF CountsAsViews
<1>5. iref'[i] \in Nat /\ iref[i] \in Nat
  BY <1>a DEF TypeOK
<1>6. /\ Eq(OpenV[h], i) \in Nat /\ Eq(OpenV'[h], i) \in Nat
      /\ Eq(cwd[q], i) \in Nat /\ Eq(cwd'[q], i) \in Nat
      /\ Eq(CallV[p], i) \in Nat /\ Eq(CallV'[p], i) \in Nat
  BY DEF Eq
<1> QED
  BY <1>1, <1>2, <1>3, <1>4, <1>5, <1>6 DEF CountMoves

\* The inode a call has in hand is counted.
LEMMA CallCounted ==
  ASSUME InodeRefsExact, NEW p \in Procs, pc[p] \in {"open", "put", "delete"},
         loc[p].ip \in Inodes
  PROVE  iref[loc[p].ip] \in Nat \ {0}
<1> DEFINE i == loc[p].ip
<1>1. CallV[p] = i
  BY DEF CallV
<1>2. Count(Procs, CallV, i) \in Nat /\ Count(Procs, CallV, i) > 0
  BY <1>1, FiniteDomains, CountPositive
<1>3. CountMoves(Files, OpenV, OpenV, CHOOSE h \in Files : TRUE, i)
  <2>1. (CHOOSE h \in Files : TRUE) \in Files
    <3>1. 1 \in Files
      BY SizeAssumption DEF Files
    <3> QED
      BY <3>1
  <2> QED
    BY <2>1, FiniteDomains, CountChange, Zenon
<1>4. CountMoves(Procs, cwd, cwd, p, i)
  BY FiniteDomains, CountChange, Zenon
<1>5. iref[i] = Count(Files, OpenV, i) + Count(Procs, cwd, i) + Count(Procs, CallV, i)
  BY CountsDef DEF CountsAsViews
<1> QED
  BY <1>2, <1>3, <1>4, <1>5 DEF CountMoves

----------------------------------------------------------------------------
(* Who works on whose descriptors *)

Struct == TypeOK /\ InvLocals /\ InvOther /\ InvAlone /\ InvSlots /\ InvXfer

\* Fresh locals are locals.
LEMMA BlankType ==
  ASSUME NEW p \in Procs
  PROVE  Blank(p) \in Local
<1>1. 0 \in Offsets
  BY SizeAssumption DEF Offsets
<1> QED
  BY <1>1 DEF Blank, Local

\* A process goes on to a point of the kernel.
LEMMA GotoType ==
  ASSUME TypeOK, NEW p \in Procs, NEW point \in Points, NEW l \in Local, Goto(p, point, l)
  PROVE  pc' \in [Procs -> Points] /\ loc' \in [Procs -> Local]
BY DEF TypeOK, Goto

\* What works on the descriptors of another process makes it or frees it.
LEMMA WorksOnOther ==
  ASSUME Struct, NEW r \in Procs, loc[r].q # r
  PROVE  /\ pc[r] \in {"put", "delete", "fork", "free"} /\ st[r] = "run"
         /\ st[loc[r].q] \in {"new", "zombie"}
BY DEF Struct, TypeOK, Points, InvLocals, InvOther

\* The counter or the offset of an entry of the table changes.
LEMMA FileType ==
  ASSUME TypeOK, NEW f \in Files
  PROVE  /\ [file EXCEPT ![f].ref = @ + 1] \in [Files -> File]
         /\ file[f].ref > 1 => [file EXCEPT ![f].ref = @ - 1] \in [Files -> File]
         /\ \A o \in Offsets : [file EXCEPT ![f].offset = o] \in [Files -> File]
         /\ \A n \in 0 .. MaxLen :
              [file EXCEPT ![f].offset = (@ + n) % (MaxOff + 1)] \in [Files -> File]
<1>1. file \in [Files -> File] /\ file[f] \in File
  BY DEF TypeOK
<1>2. /\ [file[f] EXCEPT !.ref = @ + 1] \in File
      /\ file[f].ref > 1 => [file[f] EXCEPT !.ref = @ - 1] \in File
      /\ \A o \in Offsets : [file[f] EXCEPT !.offset = o] \in File
  BY <1>1 DEF File
<1>3. \A n \in 0 .. MaxLen : (file[f].offset + n) % (MaxOff + 1) \in Offsets
  BY <1>1, SizeAssumption DEF File, Offsets
<1>4. \A v \in File : [file EXCEPT ![f] = v] \in [Files -> File]
  BY <1>1
<1> QED
  BY <1>1, <1>2, <1>3, <1>4

\* A file starts at offset zero.
LEMMA ZeroOffset == 0 \in Offsets
BY SizeAssumption DEF Offsets

\* A descriptor of a process changes.
LEMMA FdType ==
  ASSUME TypeOK, NEW q \in Procs, NEW k \in Fds, NEW v \in Files \union {Nil},
         fd' = [fd EXCEPT ![q][k] = v]
  PROVE  /\ fd' \in [Procs -> [Fds -> Files \union {Nil}]]
         /\ fd'[q][k] = v
         /\ \A j \in Fds \ {k} : fd'[q][j] = fd[q][j]
         /\ \A r \in Procs \ {q} : fd'[r] = fd[r]
<1>1. fd \in [Procs -> [Fds -> Files \union {Nil}]] /\ fd[q] \in [Fds -> Files \union {Nil}]
  BY DEF TypeOK
<1>2. [fd[q] EXCEPT ![k] = v] \in [Fds -> Files \union {Nil}]
  BY <1>1
<1> QED
  BY <1>1, <1>2

\* One round of the loop of proc_fork changes the descriptor it stands at.
LEMMA ForkFileFd ==
  ASSUME TypeOK, NEW p \in Procs, ForkFile(p), loc[p].q \in Procs, loc[p].k \in Fds
  PROVE  /\ fd' \in [Procs -> [Fds -> Files \union {Nil}]]
         /\ \A k \in Fds : k # loc[p].k => fd'[loc[p].q][k] = fd[loc[p].q][k]
         /\ \A r \in Procs \ {loc[p].q} : fd'[r] = fd[r]
<1>1. fd[p][loc[p].k] \in Files \union {Nil}
  BY DEF TypeOK
<1>2. fd' = fd \/ fd' = [fd EXCEPT ![loc[p].q][loc[p].k] = fd[p][loc[p].k]]
  BY DEF ForkFile
<1>3. fd \in [Procs -> [Fds -> Files \union {Nil}]]
  BY DEF TypeOK
<1>4. CASE fd' = fd
  BY <1>3, <1>4
<1>5. CASE fd' = [fd EXCEPT ![loc[p].q][loc[p].k] = fd[p][loc[p].k]]
  <2> DEFINE c == loc[p].q
             j == loc[p].k
             v == fd[p][j]
  <2>1. c \in Procs /\ j \in Fds /\ v \in Files \union {Nil} /\ fd' = [fd EXCEPT ![c][j] = v]
    BY <1>1, <1>5
  <2> HIDE DEF c, j, v
  <2>2. /\ fd' \in [Procs -> [Fds -> Files \union {Nil}]]
        /\ \A k \in Fds \ {j} : fd'[c][k] = fd[c][k]
        /\ \A r \in Procs \ {c} : fd'[r] = fd[r]
    BY <2>1, FdType
  <2> QED
    BY <2>2 DEF c, j
<1> QED
  BY <1>2, <1>4, <1>5

\* Where a round of that loop is: at a descriptor of another process, still empty.
LEMMA ForkFileAt ==
  ASSUME Struct, NEW p \in Procs, ForkFile(p)
  PROVE  /\ pc[p] = "fork" /\ pc'[p] = "fork" /\ st[p] = "run"
         /\ loc[p].q \in Procs /\ loc[p].q # p /\ loc[p].k \in Fds
         /\ fd[loc[p].q][loc[p].k] = Nil
<1>1. pc[p] = "fork" /\ loc[p].k < NFd
  BY DEF ForkFile
<1>2. st[p] = "run"
  BY <1>1 DEF Struct, InvLocals
<1>3. /\ loc[p].q # p /\ loc[p].k \in 0 .. NFd
      /\ \A k \in Fds : k >= loc[p].k => fd[loc[p].q][k] = Nil
  BY <1>1 DEF Struct, InvOther
<1>4. loc[p].q \in Procs /\ pc \in [Procs -> Points]
  BY DEF Struct, TypeOK, Local
<1>5. pc'[p] = "fork"
  BY <1>4 DEF ForkFile, Goto
<1> DEFINE j == loc[p].k
<1>6. j \in 0 .. NFd /\ j < NFd
  BY <1>1, <1>3
<1> HIDE DEF j
<1>7. j \in Fds /\ j >= j
  BY <1>6, SizeAssumption DEF Fds
<1> QED
  BY <1>1, <1>2, <1>3, <1>4, <1>5, <1>7 DEF j

\* The lookup of sys_open takes a reference for the process itself.
LEMMA OpenLookupStruct ==
  ASSUME Struct, NEW p \in Procs, NEW mode \in Modes, OpenLookup(p, mode)
  PROVE  Struct'
<1> USE DEF OpenLookup, Struct, Ready
<1>1. TypeOK'
  <2> PICK i \in Inodes : /\ iref' = [iref EXCEPT ![i] = @ + 1]
                          /\ Goto(p, "open", [Blank(p) EXCEPT !.ip = i, !.mode = mode])
    OBVIOUS
  <2>1. [Blank(p) EXCEPT !.ip = i, !.mode = mode] \in Local
    BY BlankType DEF Local
  <2> QED
    BY <2>1, GotoType DEF TypeOK, Points
<1> USE DEF Goto, Return, Blank
<1>2. InvLocals'
  BY <1>1, FirstFound DEF InvLocals, TypeOK, Local, FreeFiles
<1>3. InvOther'
  BY <1>1, FirstFound DEF InvLocals, InvOther, InvAlone, TypeOK, Local
<1>4. InvAlone'
  BY <1>1 DEF InvLocals, InvOther, InvAlone, TypeOK, Local
<1>5. InvSlots'
  BY <1>1, FirstFound DEF InvLocals, InvOther, InvAlone, InvSlots, TypeOK, Local, FreeFds
<1>6. InvXfer'
  BY <1>1, FirstFound DEF InvLocals, InvOther, InvXfer, TypeOK, Local, FreeFds
<1> QED
  BY <1>1, <1>2, <1>3, <1>4, <1>5, <1>6

\* inode_put goes on to delete the inode it has in hand.
LEMMA PutLastStruct ==
  ASSUME Struct, NEW p \in Procs, PutLast(p)
  PROVE  Struct'
<1> USE DEF PutLast, Struct, Ready
<1>1. TypeOK'
  BY BlankType, GotoType DEF TypeOK, Points, Local, Return
<1> USE DEF Goto, Return, Blank
<1>2. InvLocals'
  BY <1>1, FirstFound DEF InvLocals, TypeOK, Local, FreeFiles
<1>3. InvOther'
  BY <1>1, FirstFound DEF InvLocals, InvOther, InvAlone, TypeOK, Local
<1>4. InvAlone'
  BY <1>1 DEF InvLocals, InvOther, InvAlone, TypeOK, Local
<1>5. InvSlots'
  BY <1>1, FirstFound DEF InvLocals, InvOther, InvAlone, InvSlots, TypeOK, Local, FreeFds
<1>6. InvXfer'
  BY <1>1, FirstFound DEF InvLocals, InvOther, InvXfer, TypeOK, Local, FreeFds
<1> QED
  BY <1>1, <1>2, <1>3, <1>4, <1>5, <1>6

\* A transfer starts on a descriptor of the process.
LEMMA XferStartStruct ==
  ASSUME Struct, NEW p \in Procs, NEW k \in Fds, NEW write \in BOOLEAN, XferStart(p, k, write)
  PROVE  Struct'
<1> USE DEF XferStart, Struct, Ready
<1>1. TypeOK'
  <2>1. fd[p][k] \in Files /\ file[fd[p][k]] \in File
    BY DEF TypeOK
  <2>2. [Blank(p) EXCEPT !.f = fd[p][k], !.at = file[fd[p][k]].offset] \in Local
    BY <2>1, ZeroOffset DEF Blank, Local, File
  <2> QED
    BY <2>2, GotoType DEF TypeOK, Points
<1> USE DEF Goto, Return, Blank
<1>2. InvLocals'
  BY <1>1, FirstFound DEF InvLocals, TypeOK, Local, FreeFiles
<1>3. InvOther'
  BY <1>1, FirstFound DEF InvLocals, InvOther, InvAlone, TypeOK, Local
<1>4. InvAlone'
  BY <1>1 DEF InvLocals, InvOther, InvAlone, TypeOK, Local
<1>5. InvSlots'
  BY <1>1, FirstFound DEF InvLocals, InvOther, InvAlone, InvSlots, TypeOK, Local, FreeFds
<1>6. InvXfer'
  BY <1>1, FirstFound DEF InvLocals, InvOther, InvXfer, TypeOK, Local, FreeFds
<1> QED
  BY <1>1, <1>2, <1>3, <1>4, <1>5, <1>6

\* A transfer ends.
LEMMA XferEndStruct ==
  ASSUME Struct, NEW p \in Procs, XferEnd(p)
  PROVE  Struct'
<1> USE DEF XferEnd, Struct, Ready
<1>1. TypeOK'
  <2>1. loc[p].f \in Files
    BY DEF InvLocals
  <2>3. file' \in [Files -> File]
    <3>1. PICK n \in 0 .. MaxLen :
            file' = [file EXCEPT ![loc[p].f].offset = (@ + n) % (MaxOff + 1)]
      OBVIOUS
    <3> QED
      BY <2>1, <3>1, FileType
  <2> QED
    BY <2>3, BlankType, GotoType DEF TypeOK, Points, Return
<1> USE DEF Goto, Return, Blank
<1>2. InvLocals'
  BY <1>1, FirstFound DEF InvLocals, TypeOK, Local, FreeFiles
<1>3. InvOther'
  BY <1>1, FirstFound DEF InvLocals, InvOther, InvAlone, TypeOK, Local
<1>4. InvAlone'
  BY <1>1 DEF InvLocals, InvOther, InvAlone, TypeOK, Local
<1>5. InvSlots'
  BY <1>1, FirstFound DEF InvLocals, InvOther, InvAlone, InvSlots, TypeOK, Local, FreeFds
<1>6. InvXfer'
  BY <1>1, FirstFound DEF InvLocals, InvOther, InvXfer, TypeOK, Local, FreeFds
<1> QED
  BY <1>1, <1>2, <1>3, <1>4, <1>5, <1>6

\* A call of a device starts on a descriptor of the process.
LEMMA DeviceStartStruct ==
  ASSUME Struct, NEW p \in Procs, NEW k \in Fds, NEW write \in BOOLEAN, DeviceStart(p, k, write)
  PROVE  Struct'
<1> USE DEF DeviceStart, Struct, Ready
<1>1. TypeOK'
  <2>1. fd[p][k] \in Files
    BY DEF TypeOK
  <2>2. [Blank(p) EXCEPT !.f = fd[p][k]] \in Local
    BY <2>1, ZeroOffset DEF Blank, Local
  <2> QED
    BY <2>2, GotoType DEF TypeOK, Points
<1> USE DEF Goto, Return, Blank
<1>2. InvLocals'
  BY <1>1, FirstFound DEF InvLocals, TypeOK, Local, FreeFiles
<1>3. InvOther'
  BY <1>1, FirstFound DEF InvLocals, InvOther, InvAlone, TypeOK, Local
<1>4. InvAlone'
  BY <1>1 DEF InvLocals, InvOther, InvAlone, TypeOK, Local
<1>5. InvSlots'
  BY <1>1, FirstFound DEF InvLocals, InvOther, InvAlone, InvSlots, TypeOK, Local, FreeFds
<1>6. InvXfer'
  BY <1>1, FirstFound DEF InvLocals, InvOther, InvXfer, TypeOK, Local, FreeFds
<1> QED
  BY <1>1, <1>2, <1>3, <1>4, <1>5, <1>6

\* A call of a device ends.
LEMMA DeviceEndStruct ==
  ASSUME Struct, NEW p \in Procs, DeviceEnd(p)
  PROVE  Struct'
<1> USE DEF DeviceEnd, Struct, Ready
<1>1. TypeOK'
  BY BlankType, GotoType DEF TypeOK, Points, Local, Return
<1> USE DEF Goto, Return, Blank
<1>2. InvLocals'
  BY <1>1, FirstFound DEF InvLocals, TypeOK, Local, FreeFiles
<1>3. InvOther'
  BY <1>1, FirstFound DEF InvLocals, InvOther, InvAlone, TypeOK, Local
<1>4. InvAlone'
  BY <1>1 DEF InvLocals, InvOther, InvAlone, TypeOK, Local
<1>5. InvSlots'
  BY <1>1, FirstFound DEF InvLocals, InvOther, InvAlone, InvSlots, TypeOK, Local, FreeFds
<1>6. InvXfer'
  BY <1>1, FirstFound DEF InvLocals, InvOther, InvXfer, TypeOK, Local, FreeFds
<1> QED
  BY <1>1, <1>2, <1>3, <1>4, <1>5, <1>6

\* file_lseek changes an offset only.
LEMMA LseekStruct ==
  ASSUME Struct, NEW p \in Procs, NEW k \in Fds, Lseek(p, k)
  PROVE  Struct'
<1> USE DEF Lseek, Struct, Ready
<1>1. TypeOK'
  <2>1. fd[p][k] \in Files
    BY DEF TypeOK
  <2>2. file' \in [Files -> File]
    <3>1. PICK o \in Offsets : file' = [file EXCEPT ![fd[p][k]].offset = o]
      OBVIOUS
    <3> QED
      BY <2>1, <3>1, FileType
  <2> QED
    BY <2>2 DEF TypeOK
<1> USE DEF Goto, Return, Blank
<1>2. InvLocals'
  BY <1>1, FirstFound DEF InvLocals, TypeOK, Local, FreeFiles
<1>3. InvOther'
  BY <1>1, FirstFound DEF InvLocals, InvOther, InvAlone, TypeOK, Local
<1>4. InvAlone'
  BY <1>1 DEF InvLocals, InvOther, InvAlone, TypeOK, Local
<1>5. InvSlots'
  BY <1>1, FirstFound DEF InvLocals, InvOther, InvAlone, InvSlots, TypeOK, Local, FreeFds
<1>6. InvXfer'
  BY <1>1, FirstFound DEF InvLocals, InvOther, InvXfer, TypeOK, Local, FreeFds
<1> QED
  BY <1>1, <1>2, <1>3, <1>4, <1>5, <1>6

\* sys_dup fills a free descriptor of the process.
LEMMA DupStruct ==
  ASSUME Struct, NEW p \in Procs, NEW k \in Fds, Dup(p, k)
  PROVE  Struct'
<1> USE DEF Dup, Struct, Ready
<1>1. TypeOK'
  <2>0. Min(FreeFds(p)) \in Fds
    BY FirstFound DEF FreeFds
  <2>1. fd[p][k] \in Files
    BY DEF TypeOK
  <2>2. file' \in [Files -> File]
    BY <2>1, FileType
  <2>3. fd' \in [Procs -> [Fds -> Files \union {Nil}]]
    BY <2>0, <2>1 DEF TypeOK
  <2> QED
    BY <2>2, <2>3 DEF TypeOK
<1> USE DEF Goto, Return, Blank
<1>2. InvLocals'
  BY <1>1, FirstFound DEF InvLocals, TypeOK, Local, FreeFiles
<1>3. InvOther'
  BY <1>1, FirstFound DEF InvLocals, InvOther, InvAlone, TypeOK, Local
<1>4. InvAlone'
  BY <1>1 DEF InvLocals, InvOther, InvAlone, TypeOK, Local
<1>5. InvSlots'
  BY <1>1, FirstFound DEF InvLocals, InvOther, InvAlone, InvSlots, TypeOK, Local, FreeFds
<1>6. InvXfer'
  BY <1>1, FirstFound DEF InvLocals, InvOther, InvXfer, TypeOK, Local, FreeFds
<1> QED
  BY <1>1, <1>2, <1>3, <1>4, <1>5, <1>6

\* proc_fork takes a slot that nobody works on.
LEMMA ForkStruct ==
  ASSUME Struct, NEW p \in Procs, NEW c \in Procs, Fork(p, c)
  PROVE  Struct'
<1> USE DEF Fork, Struct, Ready
<1>1. TypeOK'
  <2>1. [Blank(p) EXCEPT !.q = c, !.k = 0] \in Local
    <3>1. 0 \in Fds
      BY SizeAssumption DEF Fds
    <3> QED
      BY <3>1, ZeroOffset DEF Blank, Local
  <2>2. cwd[p] \in Inodes
    BY DEF InvSlots
  <2> QED
    BY <2>1, <2>2, GotoType DEF TypeOK, Points
<1> USE DEF Goto, Return, Blank
<1>2. InvLocals'
  BY <1>1, FirstFound DEF InvLocals, TypeOK, Local, FreeFiles
<1>3. InvOther'
  <2>1. c # p /\ \A r \in Procs : loc[r].q # r => loc[r].q # c
    BY WorksOnOther
  <2>2. \A k \in Fds : fd[c][k] = Nil
    BY DEF InvSlots
  <2> QED
    BY <1>1, <2>1, <2>2, SizeAssumption DEF InvLocals, InvOther, TypeOK, Local, Fds
<1>4. InvAlone'
  <2>1. \A r \in Procs : loc[r].q # r => loc[r].q # c
    BY WorksOnOther
  <2> QED
    BY <1>1, <2>1 DEF InvLocals, InvAlone, TypeOK, Local
<1>5. InvSlots'
  BY <1>1, FirstFound DEF InvLocals, InvOther, InvAlone, InvSlots, TypeOK, Local, FreeFds
<1>6. InvXfer'
  BY <1>1, FirstFound DEF InvLocals, InvOther, InvXfer, TypeOK, Local, FreeFds
<1> QED
  BY <1>1, <1>2, <1>3, <1>4, <1>5, <1>6

\* proc_fork fills the descriptors of the new process one after the other.
LEMMA ForkFileStruct ==
  ASSUME Struct, NEW p \in Procs, ForkFile(p)
  PROVE  Struct'
<1> USE DEF ForkFile, Struct, Ready
<1>1. TypeOK'
  <2>1. loc[p].q \in Procs /\ loc[p].k \in Fds /\ loc[p].k + 1 \in Fds \union {NFd}
    BY SizeAssumption DEF TypeOK, Local, InvOther, Fds
  <2>2. [loc[p] EXCEPT !.k = @ + 1] \in Local
    <3>1. loc[p] \in Local
      BY DEF TypeOK
    <3> QED
      BY <3>1, <2>1 DEF Local
  <2>3. file' \in [Files -> File]
    <3>1. fd[p][loc[p].k] # Nil => fd[p][loc[p].k] \in Files
      BY <2>1 DEF TypeOK
    <3>2. file \in [Files -> File]
      BY DEF TypeOK
    <3> QED
      BY <3>1, <3>2, FileType, ZenonT(30)
  <2>4. fd' \in [Procs -> [Fds -> Files \union {Nil}]]
    BY <2>1, ForkFileFd DEF TypeOK
  <2> QED
    BY <2>2, <2>3, <2>4, GotoType DEF TypeOK, Points
<1> USE DEF Goto, Return, Blank
<1>2. InvLocals'
  BY <1>1, FirstFound DEF InvLocals, TypeOK, Local, FreeFiles
<1>3. InvOther'
  <2>1. loc[p].q \in Procs /\ loc[p].q # p /\ loc[p].k \in Fds
    BY SizeAssumption DEF TypeOK, Local, InvOther, Fds
  <2>2. \A r \in Procs \ {p} : loc[r].q # r => loc[r].q # loc[p].q
    BY <2>1 DEF InvAlone
  <2>3. \A r \in Procs \ {p}, k \in Fds : loc[r].q # r => fd'[loc[r].q][k] = fd[loc[r].q][k]
    BY <2>2 DEF TypeOK, Local
  <2>4. \A k \in Fds : k >= loc[p].k + 1 => fd'[loc[p].q][k] = Nil
    <3>1. \A k \in Fds : k >= loc[p].k + 1 => k # loc[p].k /\ k >= loc[p].k
      BY <2>1, SizeAssumption DEF Fds
    <3>2. \A k \in Fds : k # loc[p].k => fd'[loc[p].q][k] = fd[loc[p].q][k]
      BY <2>1, ForkFileFd
    <3> QED
      BY <3>1, <3>2 DEF InvOther
  <2>5. /\ UNCHANGED <<st, cwd>>
        /\ \A r \in Procs : pc'[r] = pc[r]
        /\ \A r \in Procs \ {p} : loc'[r] = loc[r]
        /\ loc'[p].q = loc[p].q /\ loc'[p].k = loc[p].k + 1
    BY DEF TypeOK, Local
  <2>6. loc[p].k + 1 \in 0 .. NFd
    BY <2>1, SizeAssumption DEF Fds
  <2> DEFINE Good(r) ==
        /\ pc[r] \in {"fork", "free"} => loc[r].q # r
        /\ pc[r] = "fork" =>
             /\ st[loc[r].q] = "new" /\ loc[r].k \in 0 .. NFd
             /\ \A k \in Fds : k >= loc[r].k => fd[loc[r].q][k] = Nil
        /\ pc[r] \in {"put", "delete", "free"} /\ loc[r].q # r =>
             st[loc[r].q] = "zombie" /\ cwd[loc[r].q] = Nil
  <2>7. \A r \in Procs : Good(r)
    BY DEF InvOther
  <2>8. pc[p] = "fork"
    OBVIOUS
  <2> HIDE DEF ForkFile, Goto
  <2>9. Good(p)'
    BY <2>1, <2>4, <2>5, <2>6, <2>7, <2>8
  <2>10. ASSUME NEW r \in Procs \ {p} PROVE Good(r)'
    BY <2>3, <2>5, <2>7
  <2>11. \A r \in Procs : Good(r)'
    BY <2>9, <2>10
  <2> QED
    BY <2>11 DEF InvOther
<1>4. InvAlone'
  BY <1>1 DEF InvLocals, InvOther, InvAlone, TypeOK, Local
<1>5. InvSlots'
  <2>1. UNCHANGED <<st, cwd>> /\ \A r \in Procs : loc'[r].q = loc[r].q
    BY DEF TypeOK, Local
  <2>2. st[loc[p].q] = "new"
    BY DEF InvOther
  <2>3. \A r \in Procs \ {loc[p].q} : fd'[r] = fd[r]
    BY ForkFileAt, ForkFileFd
  <2> HIDE DEF ForkFile, Goto
  <2> QED
    BY <2>1, <2>2, <2>3 DEF InvSlots
<1>6. InvXfer'
  <2>1. \A r \in Procs : pc'[r] \in {"xfer", "device"} => r # loc[p].q
    BY DEF InvLocals, InvOther, TypeOK
  <2>2. \A r \in Procs : pc'[r] \in {"xfer", "device"} => fd'[r] = fd[r]
    BY <2>1 DEF TypeOK, Local
  <2> QED
    BY <2>2 DEF InvXfer, TypeOK
<1> QED
  BY <1>1, <1>2, <1>3, <1>4, <1>5, <1>6

\* The new process runs; nobody works on it any more.
LEMMA ForkDoneStruct ==
  ASSUME Struct, NEW p \in Procs, ForkDone(p)
  PROVE  Struct'
<1> USE DEF ForkDone, Struct, Ready
<1>1. TypeOK'
  BY BlankType, GotoType DEF TypeOK, Points, Local, Return
<1> USE DEF Goto, Return, Blank
<1>2. InvLocals'
  BY <1>1, FirstFound DEF InvLocals, TypeOK, Local, FreeFiles
<1>3. InvOther'
  BY <1>1, FirstFound DEF InvLocals, InvOther, InvAlone, TypeOK, Local
<1>4. InvAlone'
  BY <1>1 DEF InvLocals, InvOther, InvAlone, TypeOK, Local
<1>5. InvSlots'
  BY <1>1, FirstFound DEF InvLocals, InvOther, InvAlone, InvSlots, TypeOK, Local, FreeFds
<1>6. InvXfer'
  BY <1>1, FirstFound DEF InvLocals, InvOther, InvXfer, TypeOK, Local, FreeFds
<1> QED
  BY <1>1, <1>2, <1>3, <1>4, <1>5, <1>6

\* A process exits between its calls.
LEMMA ExitStruct ==
  ASSUME Struct, NEW p \in Procs, Exit(p)
  PROVE  Struct'
<1> USE DEF Exit, Struct, Ready
<1>1. TypeOK'
  BY BlankType, GotoType DEF TypeOK, Points, Local, Return
<1> USE DEF Goto, Return, Blank
<1>2. InvLocals'
  BY <1>1, FirstFound DEF InvLocals, TypeOK, Local, FreeFiles
<1>3. InvOther'
  BY <1>1, FirstFound DEF InvLocals, InvOther, InvAlone, TypeOK, Local
<1>4. InvAlone'
  BY <1>1 DEF InvLocals, InvOther, InvAlone, TypeOK, Local
<1>5. InvSlots'
  BY <1>1, FirstFound DEF InvLocals, InvOther, InvAlone, InvSlots, TypeOK, Local, FreeFds
<1>6. InvXfer'
  BY <1>1, FirstFound DEF InvLocals, InvOther, InvXfer, TypeOK, Local, FreeFds
<1> QED
  BY <1>1, <1>2, <1>3, <1>4, <1>5, <1>6

\* proc_wait takes a zombie that nobody works on.
LEMMA ReapStruct ==
  ASSUME Struct, NEW p \in Procs, NEW c \in Procs, Reap(p, c)
  PROVE  Struct'
<1> USE DEF Reap, Struct, Ready
<1>1. TypeOK'
  <2>1. cwd[c] \in Inodes
    BY DEF InvSlots
  <2>2. [Blank(p) EXCEPT !.q = c, !.ip = cwd[c]] \in Local
    BY <2>1, ZeroOffset DEF Blank, Local
  <2> QED
    BY <2>2, GotoType DEF TypeOK, Points
<1> USE DEF Goto, Return, Blank
<1>2. InvLocals'
  <2>1. cwd[c] \in Inodes
    BY DEF InvSlots
  <2> QED
    BY <1>1, <2>1 DEF InvLocals, TypeOK, Local
<1>3. InvOther'
  BY <1>1, FirstFound DEF InvLocals, InvOther, InvAlone, TypeOK, Local
<1>4. InvAlone'
  BY <1>1 DEF InvLocals, InvOther, InvAlone, TypeOK, Local
<1>5. InvSlots'
  BY <1>1, FirstFound DEF InvLocals, InvOther, InvAlone, InvSlots, TypeOK, Local, FreeFds
<1>6. InvXfer'
  BY <1>1, FirstFound DEF InvLocals, InvOther, InvXfer, TypeOK, Local, FreeFds
<1> QED
  BY <1>1, <1>2, <1>3, <1>4, <1>5, <1>6

\* After file_close or inode_put the process that worked on a descriptor clears
\* it, returns or goes on with proc_free.
LEMMA FinishStruct ==
  ASSUME Struct, NEW p \in Procs, NEW l \in Local, l.q = loc[p].q, l.k \in Fds \union {Nil},
         st[p] = "run", pc[p] \in {"idle", "install", "put", "delete", "free"},
         Finish(p, l), UNCHANGED <<st, cwd, slk>>,
         file' \in [Files -> File], iref' \in [Inodes -> Nat]
  PROVE  Struct'
<1> USE DEF Struct
<1>0. l.q \in Procs
  BY DEF Local
<1>a. /\ l.q # p => pc[p] \in {"put", "delete", "free"} /\ st[l.q] = "zombie" /\ cwd[l.q] = Nil
      /\ l.k = Nil => fd' = fd
      /\ l.k # Nil => fd' = [fd EXCEPT ![l.q][l.k] = Nil]
  BY DEF InvLocals, InvOther, Finish
<1>b. /\ fd' \in [Procs -> [Fds -> Files \union {Nil}]]
      /\ \A r \in Procs, k \in Fds : fd[r][k] = Nil => fd'[r][k] = Nil
      /\ \A r \in Procs \ {l.q} : fd'[r] = fd[r]
  <2>1. fd \in [Procs -> [Fds -> Files \union {Nil}]]
    BY DEF TypeOK
  <2>2. CASE l.k = Nil
    BY <1>a, <2>1, <2>2
  <2>3. CASE l.k # Nil
    <3> DEFINE q == l.q
               k == l.k
    <3>1. q \in Procs /\ k \in Fds /\ fd' = [fd EXCEPT ![q][k] = Nil]
      BY <2>3, <1>0, <1>a
    <3> HIDE DEF q, k
    <3>0. /\ fd' \in [Procs -> [Fds -> Files \union {Nil}]] /\ fd'[q][k] = Nil
          /\ \A j \in Fds \ {k} : fd'[q][j] = fd[q][j]
          /\ \A r \in Procs \ {q} : fd'[r] = fd[r]
      BY <3>1, FdType, ZenonT(30)
    <3>2. /\ fd' \in [Procs -> [Fds -> Files \union {Nil}]] /\ fd'[l.q][l.k] = Nil
          /\ \A j \in Fds \ {l.k} : fd'[l.q][j] = fd[l.q][j]
          /\ \A r \in Procs \ {l.q} : fd'[r] = fd[r]
      BY <3>0 DEF q, k
    <3> QED
      BY <3>2
  <2> QED
    BY <2>2, <2>3
<1>c. \/ l.q = p /\ Goto(p, "idle", Blank(p))
      \/ l.q # p /\ Goto(p, "free", [Blank(p) EXCEPT !.q = l.q])
  BY DEF Finish, Return
<1>1. TypeOK'
  <2>1. [Blank(p) EXCEPT !.q = l.q] \in Local
    BY <1>0, ZeroOffset DEF Blank, Local
  <2> QED
    BY <1>b, <1>c, <2>1, BlankType, GotoType DEF TypeOK, Points
<1> USE DEF Goto, Blank
<1>d. /\ \A r \in Procs : loc'[r].q = loc[r].q
      /\ \A r \in Procs \ {p} : loc'[r] = loc[r] /\ pc'[r] = pc[r]
      /\ pc'[p] \in {"idle", "free"}
      /\ pc'[p] = "free" => l.q # p
      /\ loc'[p].k = Nil
  <2>0. pc \in [Procs -> Points] /\ loc \in [Procs -> Local]
    BY DEF TypeOK
  <2>1. CASE l.q = p
    <3>1. pc' = [pc EXCEPT ![p] = "idle"] /\ loc' = [loc EXCEPT ![p] = Blank(p)]
      BY <1>c, <2>1
    <3>2. Blank(p).q = p /\ Blank(p).k = Nil
      OBVIOUS
    <3> HIDE DEF Blank
    <3> QED
      BY <2>0, <2>1, <3>1, <3>2
  <2>2. CASE l.q # p
    BY <1>c, <2>0, <2>2
  <2> QED
    BY <2>1, <2>2
<1>2. InvLocals'
  BY <1>1, <1>c DEF InvLocals, TypeOK, Local
<1>3. InvOther'
  <2>1. ASSUME NEW r \in Procs, r # p, pc'[r] = "fork", NEW k \in Fds, k >= loc'[r].k
        PROVE  fd'[loc'[r].q][k] = Nil
    <3>1. pc[r] = "fork" /\ loc[r] = loc'[r] /\ loc[r].q \in Procs
      BY <2>1, <1>c DEF TypeOK, Local
    <3> QED
      BY <2>1, <3>1, <1>b DEF InvOther
  <2> QED
    BY <1>1, <1>a, <1>d, <2>1 DEF InvOther
<1>4. InvAlone'
  BY <1>d DEF InvAlone
<1>5. InvSlots'
  BY <1>b, <1>d DEF InvSlots
<1>6. InvXfer'
  <2>1. ASSUME NEW r \in Procs, pc'[r] \in {"xfer", "device"}
        PROVE  r # p /\ r # l.q /\ pc[r] = pc'[r] /\ loc[r] = loc'[r]
    BY <2>1, <1>a, <1>c DEF TypeOK, InvLocals
  <2> QED
    BY <2>1, <1>b DEF InvXfer
<1> QED
  BY <1>1, <1>2, <1>3, <1>4, <1>5, <1>6

\* The process takes an inode in hand to put it.
LEMMA GotoPutStruct ==
  ASSUME Struct, NEW p \in Procs, NEW l \in Local, l.k \in Fds \union {Nil}, l.ip \in Inodes,
         st[p] = "run", pc[p] \in {"idle", "open", "install", "free"}, l.q = loc[p].q,
         Goto(p, "put", l), UNCHANGED <<fd, st, slk>>,
         cwd' \in [Procs -> Inodes \union {Nil}],
         \A q \in Procs : cwd'[q] \in Inodes <=> cwd[q] \in Inodes,
         file' \in [Files -> File], iref' \in [Inodes -> Nat]
  PROVE  Struct'
<1> USE DEF Struct
<1>0. /\ l.q \in Procs
      /\ l.q # p => pc[p] = "free" /\ st[l.q] = "zombie" /\ cwd[l.q] = Nil
      /\ \A q \in Procs : cwd'[q] = Nil <=> cwd[q] = Nil
  BY InodeAssumption DEF Local, InvLocals, InvOther, TypeOK
<1>1. TypeOK'
  BY GotoType DEF TypeOK, Points
<1> USE DEF Goto
<1>2. InvLocals'
  BY <1>1 DEF InvLocals, TypeOK, Local
<1>3. InvOther'
  BY <1>0, <1>1 DEF InvLocals, InvOther, TypeOK, Local
<1>4. InvAlone'
  BY <1>1 DEF InvLocals, InvAlone, TypeOK, Local
<1>5. InvSlots'
  BY <1>0, <1>1 DEF InvLocals, InvAlone, InvSlots, TypeOK, Local
<1>6. InvXfer'
  BY <1>1 DEF InvXfer, TypeOK
<1> QED
  BY <1>1, <1>2, <1>3, <1>4, <1>5, <1>6

\* file_close clears the descriptor, or takes the inode in hand to put it.
LEMMA FileCloseStruct ==
  ASSUME Struct, InodeRefsExact, NEW p \in Procs, NEW l \in Local, l.q = loc[p].q,
         l.k \in Fds \union {Nil}, l.f \in Files,
         st[p] = "run", pc[p] \in {"idle", "install", "free"},
         FileClose(p, l), UNCHANGED <<st, cwd, iref, slk>>
  PROVE  Struct'
<1>0. iref' \in [Inodes -> Nat] /\ cwd' \in [Procs -> Inodes \union {Nil}]
  BY DEF Struct, TypeOK
<1>1. CASE file[l.f].ref > 1 /\ file' = [file EXCEPT ![l.f].ref = @ - 1] /\ Finish(p, l)
  <2>1. file' \in [Files -> File]
    BY <1>1, FileType DEF Struct
  <2> QED
    BY <1>0, <1>1, <2>1, FinishStruct
<1>2. CASE /\ file[l.f].ref = 1 /\ file' = [file EXCEPT ![l.f] = NoFile]
           /\ Goto(p, "put", [l EXCEPT !.f = Nil, !.ip = file[l.f].ip]) /\ UNCHANGED fd
  <2> DEFINE m == [l EXCEPT !.f = Nil, !.ip = file[l.f].ip]
  <2>1. NoFile \in File
    BY ZeroOffset DEF NoFile, File
  <2>2. file' \in [Files -> File]
    BY <1>2, <2>1 DEF Struct, TypeOK
  <2>3. file[l.f].ip \in Inodes
    BY <1>2 DEF InodeRefsExact, TypeOK, File
  <2>4. m \in Local /\ m.q = l.q /\ m.k = l.k /\ m.ip \in Inodes
    BY <2>3 DEF Local
  <2>5. Goto(p, "put", m)
    BY <1>2
  <2> HIDE DEF m
  <2> QED
    BY <1>0, <1>2, <2>2, <2>4, <2>5, GotoPutStruct
<1> QED
  BY <1>1, <1>2 DEF FileClose

\* sys_close works on a descriptor of its process.
LEMMA CloseStruct ==
  ASSUME Struct, InodeRefsExact, NEW p \in Procs, NEW k \in Fds, Close(p, k)
  PROVE  Struct'
<1> DEFINE l == [Blank(p) EXCEPT !.k = k, !.f = fd[p][k]]
<1>1. fd[p][k] \in Files
  BY DEF Close, Struct, TypeOK
<1>2. l \in Local /\ l.q = p /\ l.k = k /\ l.f \in Files
  BY <1>1, ZeroOffset DEF Blank, Local
<1>3. st[p] = "run" /\ pc[p] = "idle" /\ FileClose(p, l) /\ UNCHANGED <<st, cwd, iref, slk>>
  BY DEF Close, Ready
<1>4. loc[p].q = p
  BY <1>3 DEF Struct, InvLocals
<1> HIDE DEF l
<1> QED
  BY <1>2, <1>3, <1>4, FileCloseStruct

\* proc_free works on the descriptors of the process it frees, which is unused
\* once they are all clear.
LEMMA FreeFileStruct ==
  ASSUME Struct, InodeRefsExact, NEW p \in Procs, FreeFile(p)
  PROVE  Struct'
<1> DEFINE q == loc[p].q
           open == {k \in Fds : fd[q][k] # Nil}
           k == Min(open)
           l == [loc[p] EXCEPT !.k = k, !.f = fd[q][k]]
<1>0. /\ pc[p] = "free" /\ st[p] = "run" /\ q # p /\ q \in Procs /\ loc[p].k = Nil
      /\ st[q] = "zombie" /\ cwd[q] = Nil /\ loc[p] \in Local
  BY DEF Struct, FreeFile, InvLocals, InvOther, TypeOK, Local
<1>1. CASE open # {} /\ UNCHANGED st /\ FileClose(p, l)
  <2>1. k \in Fds /\ fd[q][k] \in Files
    <3>1. k \in open
      BY <1>0, <1>1, FirstFound DEF Struct
    <3>2. k \in Fds /\ fd[q][k] # Nil
      BY <3>1
    <3> HIDE DEF k, q
    <3> QED
      BY <1>0, <3>2 DEF Struct, TypeOK
  <2> HIDE DEF k
  <2>2. l \in Local /\ l.q = loc[p].q /\ l.k = k /\ l.f \in Files
    BY <1>0, <2>1 DEF Local
  <2>3. UNCHANGED <<st, cwd, iref, slk>>
    BY <1>1 DEF FreeFile
  <2> HIDE DEF l, q
  <2> QED
    BY <1>0, <1>1, <2>1, <2>2, <2>3, FileCloseStruct
<1>2. CASE /\ open = {} /\ st' = [st EXCEPT ![q] = "unused"]
           /\ Return(p) /\ UNCHANGED <<file, fd>>
  <2>0. UNCHANGED <<file, fd, cwd, iref, slk>> /\ \A j \in Fds : fd[q][j] = Nil
    BY <1>2 DEF FreeFile
  <2>a. /\ \A r \in Procs \ {p} : loc'[r] = loc[r] /\ pc'[r] = pc[r]
        /\ pc'[p] = "idle" /\ loc'[p].q = p /\ loc'[p].k = Nil
    BY <1>2 DEF Struct, TypeOK, Return, Goto, Blank
  <2>b. \A r \in Procs \ {p} : loc[r].q # r => loc[r].q # q
    BY <1>0 DEF Struct, InvAlone
  <2>c. \A r \in Procs : st'[r] = IF r = q THEN "unused" ELSE st[r]
    BY <1>2 DEF Struct, TypeOK
  <2>1. TypeOK'
    BY <1>2, <2>0, BlankType, GotoType DEF Struct, TypeOK, Return, Points
  <2> HIDE DEF q
  <2>d. /\ InvLocals /\ InvOther /\ InvAlone /\ InvSlots /\ InvXfer /\ TypeOK
    BY DEF Struct
  <2>e. pc[q] = "idle" /\ loc[q].q = q
    BY <1>0, <2>d DEF InvLocals, TypeOK
  <2>2. InvLocals'
    BY <1>0, <2>a, <2>c, <2>d, <2>e DEF InvLocals
  <2>3. InvOther'
    <3>1. \A r \in Procs : loc[r].q \in Procs
      BY <2>d DEF TypeOK, Local
    <3>2. \A r \in Procs \ {p} : loc'[r].q # r => st'[loc'[r].q] = st[loc[r].q]
      BY <3>1, <2>a, <2>b, <2>c
    <3>3. \A r \in Procs \ {p} : pc'[r] \in {"fork", "free"} => loc[r].q # r
      BY <2>a, <2>d DEF InvOther
    <3> QED
      BY <2>0, <2>a, <2>d, <3>2, <3>3 DEF InvOther
  <2>4. InvAlone'
    BY <2>a, <2>d DEF InvAlone
  <2>5. InvSlots'
    BY <1>0, <2>0, <2>a, <2>c, <2>d DEF InvSlots, q
  <2>6. InvXfer'
    BY <2>0, <2>a, <2>d DEF InvXfer
  <2> QED
    BY <2>1, <2>2, <2>3, <2>4, <2>5, <2>6 DEF Struct
<1> QED
  BY <1>1, <1>2 DEF FreeFile

\* sys_open fills a free descriptor of its process, or closes the file again.
LEMMA InstallStruct ==
  ASSUME Struct, InodeRefsExact, NEW p \in Procs, Install(p)
  PROVE  Struct'
<1>0. /\ pc[p] = "install" /\ st[p] = "run" /\ loc[p].q = p /\ loc[p].k = Nil
      /\ loc[p].f \in Files /\ loc[p] \in Local
      /\ UNCHANGED <<st, cwd, iref, slk>>
  BY DEF Install, Struct, InvLocals, TypeOK
<1>1. CASE /\ FreeFds(p) # {} /\ Return(p) /\ UNCHANGED file
           /\ fd' = [fd EXCEPT ![p][Min(FreeFds(p))] = loc[p].f]
  <2> DEFINE k == Min(FreeFds(p))
  <2>1. k \in Fds /\ fd[p][k] = Nil
    BY <1>1, FirstFound DEF Struct, FreeFds
  <2>2. fd' = [fd EXCEPT ![p][k] = loc[p].f]
    BY <1>1
  <2> HIDE DEF k
  <2>3. /\ fd' \in [Procs -> [Fds -> Files \union {Nil}]]
        /\ \A r \in Procs \ {p} : fd'[r] = fd[r]
    BY <1>0, <2>1, <2>2, FdType DEF Struct
  <2>a. /\ \A r \in Procs \ {p} : loc'[r] = loc[r] /\ pc'[r] = pc[r]
        /\ pc'[p] = "idle" /\ loc'[p].q = p /\ loc'[p].k = Nil
    BY <1>1 DEF Struct, TypeOK, Return, Goto, Blank
  <2>4. TypeOK'
    BY <1>0, <1>1, <2>3, BlankType, GotoType DEF Struct, TypeOK, Return, Points
  <2>b. /\ InvLocals /\ InvOther /\ InvAlone /\ InvSlots /\ InvXfer
        /\ \A r \in Procs : loc[r].q \in Procs
    BY DEF Struct, TypeOK, Local
  <2>5. InvLocals'
    BY <1>0, <2>a, <2>b DEF InvLocals
  <2>6. InvOther'
    BY <1>0, <2>3, <2>a, <2>b DEF InvOther
  <2>7. InvAlone'
    BY <2>a, <2>b DEF InvAlone
  <2>8. InvSlots'
    BY <1>0, <2>3, <2>a, <2>b DEF InvSlots
  <2>9. InvXfer'
    BY <2>3, <2>a, <2>b DEF InvXfer
  <2> QED
    BY <2>4, <2>5, <2>6, <2>7, <2>8, <2>9 DEF Struct
<1>2. CASE FileClose(p, loc[p])
  BY <1>0, <1>2, FileCloseStruct
<1> QED
  BY <1>1, <1>2 DEF Install

\* inode_put and inode_delete drop the reference in hand.
LEMMA DropRefStruct ==
  ASSUME Struct, InodeRefsExact, NEW p \in Procs, pc[p] \in {"put", "delete"}, DropRef(p)
  PROVE  Struct'
<1>1. /\ st[p] = "run" /\ loc[p].ip \in Inodes /\ loc[p] \in Local
      /\ loc[p].k \in Fds \union {Nil}
  BY DEF Struct, InvLocals, TypeOK
<1>2. iref' \in [Inodes -> Nat]
  <2>1. iref[loc[p].ip] \in Nat \ {0}
    BY <1>1, CallCounted
  <2>2. iref \in [Inodes -> Nat] /\ iref' = [iref EXCEPT ![loc[p].ip] = @ - 1]
    BY DEF DropRef, Struct, TypeOK
  <2> QED
    BY <1>1, <2>1, <2>2
<1>3. file' \in [Files -> File] /\ UNCHANGED <<st, cwd, slk>> /\ Finish(p, loc[p])
  BY DEF DropRef, Struct, TypeOK
<1> QED
  BY <1>1, <1>2, <1>3, FinishStruct

\* sys_chdir puts one directory or the other.
LEMMA ChdirStruct ==
  ASSUME Struct, NEW p \in Procs, Chdir(p)
  PROVE  Struct'
<1>0. /\ pc[p] = "idle" /\ st[p] = "run" /\ loc[p].q = p /\ cwd[p] \in Inodes
      /\ UNCHANGED <<file, st, fd, slk>>
  BY DEF Chdir, Ready, Struct, InvLocals, InvSlots
<1>1. PICK i \in Inodes :
        /\ iref' = [iref EXCEPT ![i] = @ + 1]
        /\ \/ /\ cwd' = [cwd EXCEPT ![p] = i]
              /\ Goto(p, "put", [Blank(p) EXCEPT !.ip = cwd[p]])
           \/ UNCHANGED cwd /\ Goto(p, "put", [Blank(p) EXCEPT !.ip = i])
  BY DEF Chdir
<1>2. PICK j \in Inodes : Goto(p, "put", [Blank(p) EXCEPT !.ip = j])
  BY <1>0, <1>1
<1> DEFINE l == [Blank(p) EXCEPT !.ip = j]
<1>3. l \in Local /\ l.q = p /\ l.k = Nil /\ l.ip \in Inodes /\ Goto(p, "put", l)
  BY <1>2, ZeroOffset DEF Blank, Local
<1>4. iref' \in [Inodes -> Nat] /\ file' \in [Files -> File]
  BY <1>0, <1>1 DEF Struct, TypeOK
<1>5. /\ cwd' \in [Procs -> Inodes \union {Nil}]
      /\ \A q \in Procs : cwd'[q] \in Inodes <=> cwd[q] \in Inodes
  BY <1>0, <1>1, ZenonT(30) DEF Struct, TypeOK
<1> HIDE DEF l
<1> QED
  BY <1>0, <1>3, <1>4, <1>5, GotoPutStruct

\* What file_alloc makes of a free entry.
LEMMA OpenCheckEffect ==
  ASSUME TypeOK, NEW p \in Procs, OpenCheck(p), loc[p].ip \in Inodes
  PROVE  \/ Goto(p, "put", [loc[p] EXCEPT !.mode = {}]) /\ UNCHANGED file
         \/ \E f \in Files, e \in File :
              /\ file[f].ref = 0 /\ e.ref = 1 /\ e.ip = loc[p].ip
              /\ file' = [file EXCEPT ![f] = e]
              /\ Goto(p, "install", [Blank(p) EXCEPT !.f = f])
<1>1. CASE OpenRefused(loc[p].ip, loc[p].mode)
  BY <1>1 DEF OpenCheck
<1>2. CASE ~OpenRefused(loc[p].ip, loc[p].mode)
  <2> DEFINE f == Min(FreeFiles)
  <2>1. f \in Files /\ file[f].ref = 0
    <3>1. FreeFiles # {}
      BY <1>2 DEF OpenRefused
    <3>2. f \in FreeFiles
      BY <3>1, FirstFound
    <3> QED
      BY <3>2 DEF FreeFiles
  <2>2. PICK o \in Offsets :
          file' = [file EXCEPT ![f] =
            [ref |-> 1, ip |-> loc[p].ip, offset |-> o,
             readable |-> "write" \notin loc[p].mode,
             writable |-> {"read", "write"} \intersect loc[p].mode # {}]]
    BY <1>2 DEF OpenCheck
  <2> DEFINE e == [ref |-> 1, ip |-> loc[p].ip, offset |-> o,
                   readable |-> "write" \notin loc[p].mode,
                   writable |-> {"read", "write"} \intersect loc[p].mode # {}]
  <2>3. e \in File /\ e.ref = 1 /\ e.ip = loc[p].ip
    BY DEF File
  <2>4. Goto(p, "install", [Blank(p) EXCEPT !.f = f])
    BY <1>2 DEF OpenCheck
  <2>5. file' = [file EXCEPT ![f] = e]
    BY <2>2
  <2> HIDE DEF e, f
  <2> QED
    BY <2>1, <2>3, <2>4, <2>5
<1> QED
  BY <1>1, <1>2

\* file_open puts the inode again, or hands its process a file.
LEMMA OpenCheckStruct ==
  ASSUME Struct, NEW p \in Procs, OpenCheck(p)
  PROVE  Struct'
<1>0. /\ pc[p] = "open" /\ st[p] = "run" /\ loc[p].q = p /\ loc[p].k = Nil
      /\ loc[p].ip \in Inodes /\ loc[p] \in Local /\ UNCHANGED <<st, fd, cwd, iref, slk>>
  BY DEF OpenCheck, Struct, InvLocals, TypeOK
<1>1. CASE Goto(p, "put", [loc[p] EXCEPT !.mode = {}]) /\ UNCHANGED file
  <2> DEFINE l == [loc[p] EXCEPT !.mode = {}]
  <2>1. l \in Local /\ l.q = loc[p].q /\ l.k = Nil /\ l.ip \in Inodes /\ Goto(p, "put", l)
    BY <1>0, <1>1 DEF Local
  <2>2. /\ file' \in [Files -> File] /\ iref' \in [Inodes -> Nat]
        /\ cwd' \in [Procs -> Inodes \union {Nil}]
    BY <1>0, <1>1 DEF Struct, TypeOK
  <2> HIDE DEF l
  <2> QED
    BY <1>0, <2>1, <2>2, GotoPutStruct
<1>2. ASSUME NEW f \in Files, NEW e \in File,
             file' = [file EXCEPT ![f] = e], Goto(p, "install", [Blank(p) EXCEPT !.f = f])
      PROVE  Struct'
  <2>1. [Blank(p) EXCEPT !.f = f] \in Local
    BY ZeroOffset DEF Blank, Local
  <2>2. TypeOK'
    BY <1>0, <1>2, <2>1, GotoType DEF Struct, TypeOK, Points
  <2>a. /\ \A r \in Procs \ {p} : loc'[r] = loc[r] /\ pc'[r] = pc[r]
        /\ pc'[p] = "install" /\ loc'[p].q = p /\ loc'[p].k = Nil /\ loc'[p].f = f
    BY <1>2 DEF Struct, TypeOK, Goto, Blank
  <2>b. /\ InvLocals /\ InvOther /\ InvAlone /\ InvSlots /\ InvXfer
        /\ \A r \in Procs : loc[r].q \in Procs
    BY DEF Struct, TypeOK, Local
  <2>3. InvLocals'
    BY <1>0, <2>a, <2>b DEF InvLocals
  <2>4. InvOther'
    BY <1>0, <2>a, <2>b DEF InvOther
  <2>5. InvAlone'
    BY <2>a, <2>b DEF InvAlone
  <2>6. InvSlots'
    BY <1>0, <2>a, <2>b DEF InvSlots
  <2>7. InvXfer'
    BY <1>0, <2>a, <2>b DEF InvXfer
  <2> QED
    BY <2>2, <2>3, <2>4, <2>5, <2>6, <2>7 DEF Struct
<1> QED
  BY <1>0, <1>1, <1>2, OpenCheckEffect DEF Struct

\* Every step keeps who works on whose descriptors.
LEMMA StructStep ==
  ASSUME Struct, InodeRefsExact, NEW p \in Procs, Step(p)
  PROVE  Struct'
<1>1. CASE OpenCheck(p) \/ Install(p) \/ PutLast(p) \/ Chdir(p)
  BY <1>1, OpenCheckStruct, InstallStruct, PutLastStruct, ChdirStruct
<1>2. CASE Put(p) \/ Delete(p)
  BY <1>2, DropRefStruct DEF Put, Delete
<1>3. CASE XferEnd(p) \/ DeviceEnd(p) \/ ForkFile(p) \/ ForkDone(p) \/ Exit(p) \/ FreeFile(p)
  BY <1>3, XferEndStruct, DeviceEndStruct, ForkFileStruct, ForkDoneStruct, ExitStruct,
     FreeFileStruct
<1>4. CASE \E mode \in Modes : OpenLookup(p, mode)
  BY <1>4, OpenLookupStruct
<1>5. CASE \E k \in Fds : Close(p, k) \/ Lseek(p, k) \/ Dup(p, k)
  BY <1>5, CloseStruct, LseekStruct, DupStruct
<1>6. CASE \E k \in Fds, write \in BOOLEAN : XferStart(p, k, write) \/ DeviceStart(p, k, write)
  BY <1>6, XferStartStruct, DeviceStartStruct
<1>7. CASE \E c \in Procs : Fork(p, c) \/ Reap(p, c)
  BY <1>7, ForkStruct, ReapStruct
<1> QED
  BY <1>1, <1>2, <1>3, <1>4, <1>5, <1>6, <1>7 DEF Step

----------------------------------------------------------------------------
(* What a step changes *)

\* A process works with its own locals.
OthersKeep(p) == \A r \in Procs \ {p} : pc'[r] = pc[r] /\ loc'[r] = loc[r]

\* A step of a process leaves the points and locals of the others alone.
LEMMA StepLocal ==
  ASSUME TypeOK, NEW p \in Procs, Step(p)
  PROVE  OthersKeep(p)
<1>1. \A point, l : Goto(p, point, l) => OthersKeep(p)
  BY DEF Goto, TypeOK, OthersKeep
<1>2. UNCHANGED <<pc, loc>> => OthersKeep(p)
  BY DEF OthersKeep
<1>3. \A l : Finish(p, l) => OthersKeep(p)
  BY <1>1 DEF Finish, Return
<1>4. \A l : FileClose(p, l) => OthersKeep(p)
  BY <1>1, <1>3 DEF FileClose
<1>5. CASE OpenCheck(p) \/ PutLast(p) \/ Chdir(p) \/ XferEnd(p) \/ DeviceEnd(p) \/ ForkFile(p)
           \/ ForkDone(p)
  BY <1>1, <1>5 DEF OpenCheck, PutLast, Chdir, XferEnd, DeviceEnd, ForkFile, ForkDone, Return
<1>6. CASE Install(p) \/ Put(p) \/ Delete(p) \/ FreeFile(p) \/ Exit(p)
  BY <1>1, <1>2, <1>3, <1>4, <1>6 DEF Install, Put, Delete, DropRef, FreeFile, Exit, Return
<1>7. CASE \E mode \in Modes : OpenLookup(p, mode)
  BY <1>1, <1>7 DEF OpenLookup
<1>8. CASE \E k \in Fds : Close(p, k) \/ Lseek(p, k) \/ Dup(p, k)
  BY <1>2, <1>4, <1>8 DEF Close, Lseek, Dup
<1>9. CASE \E k \in Fds, write \in BOOLEAN : XferStart(p, k, write) \/ DeviceStart(p, k, write)
  BY <1>1, <1>9 DEF XferStart, DeviceStart
<1>10. CASE \E c \in Procs : Fork(p, c) \/ Reap(p, c)
  BY <1>1, <1>10 DEF Fork, Reap
<1> QED
  BY <1>5, <1>6, <1>7, <1>8, <1>9, <1>10 DEF Step

\* So what the other calls hold does not change.
LEMMA ViewsLocal ==
  ASSUME NEW p \in Procs, OthersKeep(p)
  PROVE  \A r \in Procs \ {p} : InstV'[r] = InstV[r] /\ CallV'[r] = CallV[r]
BY DEF OthersKeep, InstV, CallV

\* p is putting the inode of descriptor k of q.
Releases(p, q, k) == pc[p] \in {"put", "delete"} /\ loc[p].q = q /\ loc[p].k = k

\* Descriptors that p neither changes nor releases hold what they held.
LEMMA HeldOthers ==
  ASSUME NEW p \in Procs, OthersKeep(p), NEW x \in Procs \X Fds,
         fd'[x[1]][x[2]] = fd[x[1]][x[2]],
         Releases(p, x[1], x[2])' <=> Releases(p, x[1], x[2])
  PROVE  HeldV'[x] = HeldV[x]
<1>1. Released(x[1], x[2])' <=> Released(x[1], x[2])
  BY DEF OthersKeep, Released, Releases
<1> QED
  BY <1>1 DEF HeldV

\* Nobody releases a descriptor of a process that is itself elsewhere in the
\* kernel, or that is being made, or whose next descriptor is to be freed.
LEMMA NobodyReleases ==
  ASSUME Struct, NEW p \in Procs, NEW q \in Procs,
         \/ q = p /\ st[p] = "run" /\ pc[p] \notin {"put", "delete"}
         \/ q = loc[p].q /\ pc[p] \in {"fork", "free"}
  PROVE  /\ \A k \in Fds : ~ Released(q, k) /\ HeldV[<<q, k>>] = fd[q][k]
         /\ \A r \in Procs : pc[r] \in {"put", "delete"} => loc[r].q # q
<1>1. ASSUME NEW r \in Procs, pc[r] \in {"put", "delete"}, loc[r].q = q
      PROVE  FALSE
  <2>1. CASE q = p /\ st[p] = "run" /\ pc[p] \notin {"put", "delete"}
    BY <1>1, <2>1 DEF Struct, InvOther
  <2>2. CASE q = loc[p].q /\ pc[p] \in {"fork", "free"}
    <3>1. q # p /\ st[q] \in {"new", "zombie"}
      BY <2>2 DEF Struct, InvOther
    <3>2. r # q
      BY <1>1, <3>1 DEF Struct, InvLocals
    <3> QED
      BY <1>1, <2>2, <3>1, <3>2 DEF Struct, InvAlone
  <2> QED
    BY <2>1, <2>2
<1>2. ASSUME NEW k \in Fds PROVE ~ Released(q, k)
  BY <1>1 DEF Released
<1>3. ASSUME NEW k \in Fds PROVE HeldV[<<q, k>>] = fd[q][k]
  <2>1. <<q, k>> \in Procs \X Fds /\ <<q, k>>[1] = q /\ <<q, k>>[2] = k
    OBVIOUS
  <2> QED
    BY <1>2, <2>1 DEF HeldV
<1> QED
  BY <1>1, <1>2, <1>3

\* Where nothing that is counted changes, the files count on.
LEMMA FileRefsQuiet ==
  ASSUME FileRefsExact, \A x \in Procs \X Fds : HeldV'[x] = HeldV[x],
         \A r \in Procs : InstV'[r] = InstV[r],
         \A f \in Files : file'[f].ref = file[f].ref
  PROVE  FileRefsExact'
<1>0. CountsAsViews'
  BY CountsDef, PTL
<1>1. ASSUME NEW f \in Files
      PROVE  /\ Count(Procs \X Fds, HeldV', f) = Count(Procs \X Fds, HeldV, f)
             /\ Count(Procs, InstV', f) = Count(Procs, InstV, f)
  <2>1. {x \in Procs \X Fds : HeldV'[x] = f} = {x \in Procs \X Fds : HeldV[x] = f}
    OBVIOUS
  <2>2. {r \in Procs : InstV'[r] = f} = {r \in Procs : InstV[r] = f}
    OBVIOUS
  <2> QED
    BY <2>1, <2>2 DEF Count
<1>2. ASSUME NEW f \in Files
      PROVE  file'[f].ref = Count(Procs \X Fds, HeldV', f) + Count(Procs, InstV', f)
  BY <1>1, CountsDef DEF CountsAsViews
<1> QED
  BY <1>0, <1>2 DEF CountsAsViews, Count

----------------------------------------------------------------------------
(* The counts of files *)

\* A step that touches no descriptor and no counter of a file.
LEMMA FileRefsSilent ==
  ASSUME FileRefsExact, NEW p \in Procs, OthersKeep(p), UNCHANGED fd,
         \A f \in Files : file'[f].ref = file[f].ref,
         pc[p] # "install", pc'[p] # "install",
         \A q \in Procs, k \in Fds : Releases(p, q, k)' <=> Releases(p, q, k)
  PROVE  FileRefsExact'
<1>1. \A x \in Procs \X Fds : HeldV'[x] = HeldV[x]
  BY HeldOthers
<1>2. \A r \in Procs : InstV'[r] = InstV[r]
  BY ViewsLocal DEF InstV
<1> QED
  BY <1>1, <1>2, FileRefsQuiet

\* Nil is no descriptor and no file.
LEMMA NilApart == Nil \notin Fds /\ Nil \notin Files
BY NilAssumption, SizeAssumption DEF Fds, Files

\* The calls that only move a process from point to point.
LEMMA FileRefsMoves ==
  ASSUME Struct, FileRefsExact, NEW p \in Procs, OthersKeep(p),
         \/ \E mode \in Modes : OpenLookup(p, mode)
         \/ PutLast(p) \/ Chdir(p) \/ XferEnd(p) \/ DeviceEnd(p) \/ ForkDone(p) \/ Exit(p)
         \/ \E k \in Fds : Lseek(p, k)
         \/ \E k \in Fds, write \in BOOLEAN : XferStart(p, k, write) \/ DeviceStart(p, k, write)
         \/ \E c \in Procs : Fork(p, c) \/ Reap(p, c)
  PROVE  FileRefsExact'
<1> USE DEF Goto, Return, Ready
<1>0. /\ file \in [Files -> File] /\ pc \in [Procs -> Points] /\ loc \in [Procs -> Local]
      /\ fd \in [Procs -> [Fds -> Files \union {Nil}]]
  BY DEF Struct, TypeOK
<1>1. UNCHANGED fd
  BY DEF OpenLookup, PutLast, Chdir, XferEnd, DeviceEnd, ForkDone, Exit, Lseek, XferStart,
         DeviceStart, Fork, Reap
<1>2. \A f \in Files : file'[f].ref = file[f].ref
  <2>1. CASE UNCHANGED file
    BY <2>1
  <2>2. CASE XferEnd(p)
    BY <1>0, <2>2 DEF XferEnd, File
  <2>3. CASE \E k \in Fds : Lseek(p, k)
    BY <1>0, <2>3 DEF Lseek, File
  <2> QED
    BY <2>1, <2>2, <2>3 DEF OpenLookup, PutLast, Chdir, DeviceEnd, ForkDone, Exit, XferStart,
         DeviceStart, Fork, Reap
<1>3. pc[p] # "install" /\ pc'[p] # "install"
  BY <1>0 DEF OpenLookup, PutLast, Chdir, XferEnd, DeviceEnd, ForkDone, Exit, Lseek, XferStart,
         DeviceStart, Fork, Reap
<1>4. ASSUME NEW q \in Procs, NEW k \in Fds
      PROVE  Releases(p, q, k)' <=> Releases(p, q, k)
  <2>1. CASE PutLast(p)
    BY <1>0, <2>1 DEF PutLast, Releases
  <2>2. CASE UNCHANGED <<pc, loc>>
    BY <2>2 DEF Releases
  <2>3. CASE pc[p] \notin {"put", "delete"} /\ (pc'[p] \notin {"put", "delete"} \/ loc'[p].k = Nil)
    BY <2>3, NilApart DEF Releases
  <2>4. CASE Chdir(p)
    BY <1>0, <2>3, <2>4 DEF Chdir, Blank
  <2>5. CASE \E c \in Procs : Reap(p, c)
    <3>1. PICK c \in Procs : Ready(p) /\ Goto(p, "put", [Blank(p) EXCEPT !.q = c, !.ip = cwd[c]])
      BY <2>5 DEF Reap
    <3>2. pc[p] = "idle" /\ pc'[p] = "put" /\ loc'[p] = [Blank(p) EXCEPT !.q = c, !.ip = cwd[c]]
      BY <1>0, <3>1
    <3>3. loc'[p].k = Nil
      BY <3>2 DEF Blank
    <3> QED
      BY <2>3, <3>2, <3>3
  <2>6. CASE \/ \E mode \in Modes : OpenLookup(p, mode)
             \/ XferEnd(p) \/ DeviceEnd(p) \/ ForkDone(p)
             \/ \E i \in Fds, write \in BOOLEAN : XferStart(p, i, write) \/ DeviceStart(p, i, write)
             \/ \E c \in Procs : Fork(p, c)
    BY <1>0, <2>3, <2>6 DEF OpenLookup, XferEnd, DeviceEnd, ForkDone, XferStart, DeviceStart, Fork
  <2> QED
    BY <2>1, <2>2, <2>4, <2>5, <2>6 DEF Exit, Lseek
<1> QED
  BY <1>1, <1>2, <1>3, <1>4, FileRefsSilent

\* inode_put clears a descriptor that holds no file any more.
LEMMA FileRefsDrop ==
  ASSUME Struct, Struct', FileRefsExact, NEW p \in Procs, OthersKeep(p),
         pc[p] \in {"put", "delete"}, DropRef(p)
  PROVE  FileRefsExact'
<1> DEFINE l == loc[p]
<1>0. /\ file' = file /\ Finish(p, l) /\ l.q \in Procs /\ l.k \in Fds \union {Nil}
      /\ pc \in [Procs -> Points] /\ loc \in [Procs -> Local]
  BY DEF DropRef, Struct, TypeOK, InvLocals, Local
<1>1. pc'[p] \in {"idle", "free"}
  BY <1>0 DEF Finish, Return, Goto
<1>2. \A r \in Procs : InstV'[r] = InstV[r]
  BY <1>1, ViewsLocal DEF InstV
<1>3. ASSUME NEW x \in Procs \X Fds PROVE HeldV'[x] = HeldV[x]
  <2>1. CASE x[1] = l.q /\ x[2] = l.k
    <3>1. Released(x[1], x[2])
      BY <2>1 DEF Released
    <3>2. HeldV[x] = Nil
      BY <3>1 DEF HeldV
    <3>3. fd' = [fd EXCEPT ![l.q][l.k] = Nil] /\ l.k \in Fds
      BY <1>0, <2>1, NilApart DEF Finish
    <3>4. fd'[x[1]][x[2]] = Nil
      <4> DEFINE q == l.q
                 k == l.k
      <4>1. q \in Procs /\ k \in Fds /\ fd' = [fd EXCEPT ![q][k] = Nil] /\ x[1] = q /\ x[2] = k
        BY <1>0, <2>1, <3>3
      <4> HIDE DEF q, k
      <4> QED
        BY <4>1, FdType DEF Struct
    <3>5. HeldV'[x] = Nil
      BY <3>4 DEF HeldV
    <3> QED
      BY <3>2, <3>5
  <2>2. CASE ~ (x[1] = l.q /\ x[2] = l.k)
    <3>1. ~ Releases(p, x[1], x[2])
      BY <2>2 DEF Releases
    <3>2. ~ Releases(p, x[1], x[2])'
      BY <1>1 DEF Releases
    <3>3. fd'[x[1]][x[2]] = fd[x[1]][x[2]]
      <4>1. CASE l.k = Nil
        BY <1>0, <4>1 DEF Finish
      <4>2. CASE l.k # Nil
        <5> DEFINE q == l.q
                   k == l.k
        <5>1. q \in Procs /\ k \in Fds /\ fd' = [fd EXCEPT ![q][k] = Nil]
              /\ ~ (x[1] = q /\ x[2] = k) /\ x[1] \in Procs /\ x[2] \in Fds
          BY <1>0, <2>2, <4>2 DEF Finish
        <5> HIDE DEF q, k
        <5> QED
          BY <5>1, FdType DEF Struct
      <4> QED
        BY <4>1, <4>2
    <3> QED
      BY <3>1, <3>2, <3>3, HeldOthers
  <2> QED
    BY <2>1, <2>2
<1> QED
  BY <1>0, <1>2, <1>3, FileRefsQuiet

\* A descriptor that is free takes a file; the counter of the file goes up, or
\* the call that held it gives it up.
LEMMA FileRefsFill ==
  ASSUME Struct, Struct', FileRefsExact, NEW p \in Procs, OthersKeep(p),
         NEW q \in Procs, NEW k \in Fds, NEW f \in Files,
         \/ q = p /\ st[p] = "run" /\ pc[p] \notin {"put", "delete"}
         \/ q = loc[p].q /\ pc[p] = "fork",
         pc'[p] \in {"idle", "fork"}, fd[q][k] = Nil, fd' = [fd EXCEPT ![q][k] = f],
         \/ /\ pc[p] = "install" /\ loc[p].f = f
            /\ \A g \in Files : file'[g].ref = file[g].ref
         \/ /\ pc[p] # "install" /\ file'[f].ref = file[f].ref + 1
            /\ \A g \in Files \ {f} : file'[g].ref = file[g].ref
  PROVE  FileRefsExact'
<1> DEFINE x == <<q, k>>
<1>0. x \in Procs \X Fds /\ x[1] = q /\ x[2] = k
  OBVIOUS
<1>1. ASSUME NEW r \in Procs, pc[r] \in {"put", "delete"}
      PROVE  loc[r].q # q
  BY <1>1, NobodyReleases
<1>2. HeldV[x] = Nil
  BY NobodyReleases
<1>3. /\ fd'[q][k] = f
      /\ \A y \in (Procs \X Fds) \ {x} : fd'[y[1]][y[2]] = fd[y[1]][y[2]]
  <2>1. /\ fd'[q][k] = f
        /\ \A j \in Fds \ {k} : fd'[q][j] = fd[q][j]
        /\ \A r \in Procs \ {q} : fd'[r] = fd[r]
    BY FdType DEF Struct
  <2> QED
    BY <2>1
<1>4. ~ Released(q, k)'
  BY <1>1 DEF Released, OthersKeep
<1>5. HeldV'[x] = f
  BY <1>0, <1>3, <1>4 DEF HeldV
<1>6. \A y \in (Procs \X Fds) \ {x} : HeldV'[y] = HeldV[y]
  <2>1. \A r \in Procs, j \in Fds : ~ Releases(p, r, j) /\ ~ Releases(p, r, j)'
    BY DEF Releases
  <2> QED
    BY <1>3, <2>1, HeldOthers
<1>7. InstV'[p] = Nil /\ InstV[p] = IF pc[p] = "install" THEN loc[p].f ELSE Nil
  BY DEF InstV
<1>8. \A g \in Files : file[g].ref \in Nat
  BY DEF Struct, TypeOK, File
<1>9. ASSUME NEW g \in Files
      PROVE  file'[g].ref + Eq(HeldV[x], g) + Eq(InstV[p], g)
               = file[g].ref + Eq(HeldV'[x], g) + Eq(InstV'[p], g)
  BY <1>2, <1>5, <1>7, <1>8, NilApart DEF Eq
<1> HIDE DEF x
<1> QED
  BY <1>0, <1>6, <1>9, ViewsLocal, FileRefsStep DEF Struct

\* sys_dup and one round of proc_fork.
LEMMA FileRefsCopy ==
  ASSUME Struct, Struct', FileRefsExact, NEW p \in Procs, OthersKeep(p),
         (\E k \in Fds : Dup(p, k)) \/ ForkFile(p)
  PROVE  FileRefsExact'
<1>0. \A f \in Files, g \in Files :
        file' = [file EXCEPT ![f].ref = @ + 1]
          => file'[g].ref = IF g = f THEN file[g].ref + 1 ELSE file[g].ref
  BY DEF Struct, TypeOK, File
<1>1. ASSUME NEW k \in Fds, Dup(p, k) PROVE FileRefsExact'
  <2> DEFINE j == Min(FreeFds(p))
             f == fd[p][k]
  <2>1. j \in Fds /\ fd[p][j] = Nil
    BY <1>1, FirstFound DEF Struct, FreeFds, Dup
  <2>2. f \in Files
    BY <1>1 DEF Dup, Struct, TypeOK
  <2>3. /\ st[p] = "run" /\ pc[p] = "idle" /\ pc'[p] = "idle"
        /\ fd' = [fd EXCEPT ![p][j] = f] /\ file' = [file EXCEPT ![f].ref = @ + 1]
    BY <1>1 DEF Dup, Ready
  <2> HIDE DEF j, f
  <2> QED
    BY <1>0, <2>1, <2>2, <2>3, FileRefsFill
<1>2. CASE ForkFile(p)
  <2> DEFINE c == loc[p].q
             k == loc[p].k
             f == fd[p][k]
  <2>1. /\ pc[p] = "fork" /\ pc'[p] = "fork" /\ c \in Procs /\ c # p /\ k \in Fds
        /\ fd[c][k] = Nil
    BY <1>0, <1>2, ForkFileAt
  <2>2. CASE f # Nil /\ file' = [file EXCEPT ![f].ref = @ + 1] /\ fd' = [fd EXCEPT ![c][k] = f]
    <3>1. f \in Files
      BY <2>1, <2>2 DEF Struct, TypeOK
    <3>2. c = loc[p].q
      OBVIOUS
    <3> HIDE DEF c, k, f
    <3>3. file'[f].ref = file[f].ref + 1 /\ \A g \in Files \ {f} : file'[g].ref = file[g].ref
      BY <1>0, <2>2, <3>1
    <3>4. fd' = [fd EXCEPT ![c][k] = f]
      BY <2>2
    <3> QED
      BY <2>1, <3>1, <3>2, <3>3, <3>4, FileRefsFill
  <2>3. CASE f = Nil /\ UNCHANGED <<file, fd>>
    <3>1. \A r \in Procs, j \in Fds : Releases(p, r, j)' <=> Releases(p, r, j)
      BY <2>1 DEF Releases
    <3> QED
      BY <2>1, <2>3, <3>1, FileRefsSilent
  <2> QED
    BY <1>2, <2>2, <2>3 DEF ForkFile
<1> QED
  BY <1>1, <1>2

\* file_close gives up the reference of a descriptor, or of a call of sys_open.
LEMMA FileRefsClose ==
  ASSUME Struct, Struct', FileRefsExact, NEW p \in Procs, OthersKeep(p),
         NEW q \in Procs, NEW k \in Fds \union {Nil}, NEW f \in Files,
         NEW l \in Local, l.q = q, l.k = k, l.f = f,
         \/ q = p /\ st[p] = "run" /\ pc[p] \in {"idle", "install"}
         \/ q = loc[p].q /\ pc[p] = "free",
         k # Nil => fd[q][k] = f /\ pc[p] # "install",
         k = Nil => pc[p] = "install" /\ loc[p].f = f,
         FileClose(p, l)
  PROVE  FileRefsExact'
<1>a. \A g \in Files : file[g].ref \in Nat
  BY DEF Struct, TypeOK, File
<1>b. file'[f].ref + 1 = file[f].ref /\ \A g \in Files \ {f} : file'[g].ref = file[g].ref
  <2>1. file \in [Files -> File]
    BY DEF Struct, TypeOK
  <2>2. CASE file[f].ref > 1 /\ file' = [file EXCEPT ![f].ref = @ - 1]
    BY <1>a, <2>1, <2>2 DEF File
  <2>3. CASE file[f].ref = 1 /\ file' = [file EXCEPT ![f] = NoFile]
    BY <2>1, <2>3 DEF NoFile
  <2> QED
    BY <2>2, <2>3 DEF FileClose
<1>c. /\ pc'[p] \in {"idle", "free", "put"} /\ (pc'[p] = "put" => loc'[p].q = q /\ loc'[p].k = k)
      /\ (pc'[p] = "put" => fd' = fd)
      /\ (pc'[p] # "put" => fd' = IF k = Nil THEN fd ELSE [fd EXCEPT ![q][k] = Nil])
  <2>1. pc \in [Procs -> Points] /\ loc \in [Procs -> Local]
    BY DEF Struct, TypeOK
  <2>2. CASE Finish(p, l)
    BY <2>1, <2>2 DEF Finish, Return, Goto
  <2>3. CASE Goto(p, "put", [l EXCEPT !.f = Nil, !.ip = file[f].ip]) /\ UNCHANGED fd
    <3>1. pc'[p] = "put" /\ loc'[p] = [l EXCEPT !.f = Nil, !.ip = file[f].ip]
      BY <2>1, <2>3 DEF Goto
    <3> QED
      BY <2>3, <3>1 DEF Local
  <2> QED
    BY <2>2, <2>3 DEF FileClose
<1>d. InstV'[p] = Nil /\ InstV[p] = IF pc[p] = "install" THEN loc[p].f ELSE Nil
  BY <1>c DEF InstV
<1>1. CASE k # Nil
  <2> DEFINE x == <<q, k>>
  <2>0. k \in Fds /\ x \in Procs \X Fds /\ x[1] = q /\ x[2] = k
    BY <1>1
  <2>1. HeldV[x] = f
    BY <1>1, <2>0, NobodyReleases
  <2>2. HeldV'[x] = Nil
    <3>1. CASE pc'[p] = "put"
      BY <1>c, <2>0, <3>1 DEF HeldV, Released
    <3>2. CASE pc'[p] # "put"
      <4>1. fd'[q][k] = Nil
        BY <1>1, <1>c, <2>0, <3>2, FdType DEF Struct
      <4> QED
        BY <2>0, <4>1 DEF HeldV
    <3> QED
      BY <3>1, <3>2
  <2>3. \A y \in (Procs \X Fds) \ {x} : fd'[y[1]][y[2]] = fd[y[1]][y[2]]
    <3>1. CASE fd' = fd
      BY <3>1
    <3>2. CASE fd' = [fd EXCEPT ![q][k] = Nil]
      <4>1. /\ \A j \in Fds \ {k} : fd'[q][j] = fd[q][j]
            /\ \A r \in Procs \ {q} : fd'[r] = fd[r]
        BY <2>0, <3>2, FdType DEF Struct
      <4> QED
        BY <4>1
    <3> QED
      BY <1>1, <1>c, <3>1, <3>2
  <2>4. \A y \in (Procs \X Fds) \ {x} : ~ Releases(p, y[1], y[2]) /\ ~ Releases(p, y[1], y[2])'
    BY <1>c DEF Releases
  <2>5. \A y \in (Procs \X Fds) \ {x} : HeldV'[y] = HeldV[y]
    BY <2>3, <2>4, HeldOthers
  <2>6. ASSUME NEW g \in Files
        PROVE  file'[g].ref + Eq(HeldV[x], g) + Eq(InstV[p], g)
                 = file[g].ref + Eq(HeldV'[x], g) + Eq(InstV'[p], g)
    <3>1. file'[g].ref \in Nat
      BY DEF Struct, TypeOK, File
    <3> QED
      BY <1>1, <1>a, <1>b, <1>d, <2>1, <2>2, <3>1, NilApart DEF Eq
  <2> HIDE DEF x
  <2> QED
    BY <2>0, <2>5, <2>6, ViewsLocal, FileRefsStep DEF Struct
<1>2. CASE k = Nil
  <2> DEFINE x == <<p, 0>>
  <2>0. x \in Procs \X Fds
    BY SizeAssumption DEF Fds
  <2>1. \A y \in Procs \X Fds : ~ Releases(p, y[1], y[2]) /\ ~ Releases(p, y[1], y[2])'
    BY <1>2, <1>c, NilApart DEF Releases
  <2>2. \A y \in Procs \X Fds : HeldV'[y] = HeldV[y]
    BY <1>2, <1>c, <2>1, HeldOthers
  <2>3. ASSUME NEW g \in Files
        PROVE  file'[g].ref + Eq(HeldV[x], g) + Eq(InstV[p], g)
                 = file[g].ref + Eq(HeldV'[x], g) + Eq(InstV'[p], g)
    <3>1. file'[g].ref \in Nat
      BY DEF Struct, TypeOK, File
    <3>2. HeldV'[x] = HeldV[x] /\ Eq(HeldV[x], g) \in Nat
      BY <2>0, <2>2 DEF Eq
    <3>3. Eq(InstV'[p], g) = 0 /\ Eq(InstV[p], g) = IF g = f THEN 1 ELSE 0
      BY <1>2, <1>d, NilApart DEF Eq
    <3> QED
      BY <1>a, <1>b, <3>1, <3>2, <3>3
  <2> HIDE DEF x
  <2> QED
    BY <2>0, <2>2, <2>3, ViewsLocal, FileRefsStep DEF Struct
<1> QED
  BY <1>1, <1>2

\* Every step keeps the counts of files.
LEMMA FileRefsNext ==
  ASSUME Struct, Struct', InodeRefsExact, FileRefsExact, NEW p \in Procs, OthersKeep(p), Step(p)
  PROVE  FileRefsExact'
<1>1. CASE OpenCheck(p)
  <2>0. /\ pc[p] = "open" /\ loc[p].k = Nil /\ loc[p].ip \in Inodes /\ UNCHANGED fd
        /\ pc \in [Procs -> Points] /\ loc \in [Procs -> Local] /\ file \in [Files -> File]
    BY <1>1 DEF OpenCheck, Struct, InvLocals, TypeOK
  <2>1. CASE Goto(p, "put", [loc[p] EXCEPT !.mode = {}]) /\ UNCHANGED file
    <3>1. pc'[p] = "put" /\ loc'[p].k = Nil
      BY <2>0, <2>1 DEF Goto, Local
    <3>2. \A q \in Procs, k \in Fds : Releases(p, q, k)' <=> Releases(p, q, k)
      BY <2>0, <3>1, NilApart DEF Releases
    <3> QED
      BY <2>0, <2>1, <3>1, <3>2, FileRefsSilent
  <2>2. ASSUME NEW f \in Files, NEW e \in File, file[f].ref = 0, e.ref = 1,
               file' = [file EXCEPT ![f] = e], Goto(p, "install", [Blank(p) EXCEPT !.f = f])
        PROVE  FileRefsExact'
    <3> DEFINE x == <<p, 0>>
    <3>0. x \in Procs \X Fds
      BY SizeAssumption DEF Fds
    <3>1. pc'[p] = "install" /\ loc'[p].f = f
      BY <2>0, <2>2 DEF Goto, Blank
    <3>2. \A y \in Procs \X Fds : ~ Releases(p, y[1], y[2]) /\ ~ Releases(p, y[1], y[2])'
      BY <2>0, <3>1 DEF Releases
    <3>3. \A y \in Procs \X Fds : HeldV'[y] = HeldV[y]
      BY <2>0, <3>2, HeldOthers
    <3>4. InstV[p] = Nil /\ InstV'[p] = f
      BY <2>0, <3>1 DEF InstV
    <3>5. ASSUME NEW g \in Files
          PROVE  file'[g].ref + Eq(HeldV[x], g) + Eq(InstV[p], g)
                   = file[g].ref + Eq(HeldV'[x], g) + Eq(InstV'[p], g)
      <4>1. file[g].ref \in Nat /\ file'[g].ref = IF g = f THEN 1 ELSE file[g].ref
        BY <2>0, <2>2 DEF File
      <4>2. HeldV'[x] = HeldV[x] /\ Eq(HeldV[x], g) \in Nat
        BY <3>0, <3>3 DEF Eq
      <4>3. Eq(InstV[p], g) = 0 /\ Eq(InstV'[p], g) = IF g = f THEN 1 ELSE 0
        BY <3>4, NilApart DEF Eq
      <4> QED
        BY <2>2, <4>1, <4>2, <4>3
    <3> HIDE DEF x
    <3> QED
      BY <3>0, <3>3, <3>5, ViewsLocal, FileRefsStep DEF Struct
  <2> QED
    BY <1>1, <2>0, <2>1, <2>2, OpenCheckEffect DEF Struct
<1>2. CASE Install(p)
  <2>0. /\ pc[p] = "install" /\ st[p] = "run" /\ loc[p].q = p /\ loc[p].k = Nil
        /\ loc[p].f \in Files /\ loc[p] \in Local
    BY <1>2 DEF Install, Struct, InvLocals, TypeOK
  <2>1. CASE /\ FreeFds(p) # {} /\ Return(p) /\ UNCHANGED file
             /\ fd' = [fd EXCEPT ![p][Min(FreeFds(p))] = loc[p].f]
    <3> DEFINE k == Min(FreeFds(p))
               f == loc[p].f
    <3>1. k \in Fds /\ fd[p][k] = Nil
      BY <2>1, FirstFound DEF Struct, FreeFds
    <3>2. pc'[p] = "idle" /\ fd' = [fd EXCEPT ![p][k] = f] /\ f \in Files /\ loc[p].f = f
      BY <2>0, <2>1 DEF Struct, TypeOK, Return, Goto
    <3>3. \A g \in Files : file'[g].ref = file[g].ref
      BY <2>1
    <3> HIDE DEF k, f
    <3> QED
      BY <2>0, <3>1, <3>2, <3>3, FileRefsFill
  <2>2. CASE FileClose(p, loc[p])
    BY <2>0, <2>2, FileRefsClose
  <2> QED
    BY <1>2, <2>1, <2>2 DEF Install
<1>3. CASE Put(p) \/ Delete(p)
  BY <1>3, FileRefsDrop DEF Put, Delete
<1>4. ASSUME NEW k \in Fds, Close(p, k) PROVE FileRefsExact'
  <2> DEFINE f == fd[p][k]
             l == [Blank(p) EXCEPT !.k = k, !.f = f]
  <2>1. f \in Files
    BY <1>4 DEF Close, Struct, TypeOK
  <2>2. l \in Local /\ l.q = p /\ l.k = k /\ l.f = f
    BY <2>1, ZeroOffset DEF Blank, Local
  <2>3. st[p] = "run" /\ pc[p] = "idle" /\ FileClose(p, l) /\ fd[p][k] = f
    BY <1>4 DEF Close, Ready
  <2>4. k # Nil
    BY NilApart
  <2> HIDE DEF l, f
  <2> QED
    BY <2>1, <2>2, <2>3, <2>4, FileRefsClose
<1>5. CASE FreeFile(p)
  <2> DEFINE q == loc[p].q
             open == {j \in Fds : fd[q][j] # Nil}
             k == Min(open)
             f == fd[q][k]
             l == [loc[p] EXCEPT !.k = k, !.f = f]
  <2>0. /\ pc[p] = "free" /\ st[p] = "run" /\ q # p /\ q \in Procs /\ loc[p] \in Local
    BY <1>5 DEF Struct, FreeFile, InvLocals, InvOther, TypeOK, Local
  <2>1. CASE open # {} /\ FileClose(p, l)
    <3>1. k \in open
      BY <2>0, <2>1, FirstFound DEF Struct
    <3>2. k \in Fds /\ f # Nil
      BY <3>1
    <3> HIDE DEF k
    <3>3. f \in Files
      BY <2>0, <3>2 DEF Struct, TypeOK
    <3>4. l \in Local /\ l.q = q /\ l.k = k /\ l.f = f /\ FileClose(p, l)
      BY <2>0, <2>1, <3>2, <3>3 DEF Local
    <3>5. q = loc[p].q /\ fd[q][k] = f /\ k # Nil
      BY <3>2, NilApart
    <3> HIDE DEF l, f, q
    <3> QED
      BY <2>0, <3>2, <3>3, <3>4, <3>5, FileRefsClose
  <2>2. CASE Return(p) /\ UNCHANGED <<file, fd>>
    <3>1. pc'[p] = "idle"
      BY <2>2 DEF Return, Goto, Struct, TypeOK
    <3>2. \A r \in Procs, j \in Fds : Releases(p, r, j)' <=> Releases(p, r, j)
      BY <2>0, <3>1 DEF Releases
    <3> QED
      BY <2>0, <2>2, <3>1, <3>2, FileRefsSilent
  <2> QED
    BY <1>5, <2>1, <2>2 DEF FreeFile
<1> QED
  BY <1>1, <1>2, <1>3, <1>4, <1>5, FileRefsMoves, FileRefsCopy DEF Step

----------------------------------------------------------------------------
(* The counts of inodes *)

\* A step that opens and closes no file and takes and drops no reference.
LEMMA InodeRefsQuiet ==
  ASSUME InodeRefsExact, TypeOK', NEW p \in Procs, OthersKeep(p), UNCHANGED <<cwd, iref>>,
         \A f \in Files : file'[f].ip = file[f].ip /\ (file'[f].ref > 0 <=> file[f].ref > 0),
         CallV'[p] = CallV[p]
  PROVE  InodeRefsExact'
<1>0. 1 \in Files
  BY SizeAssumption DEF Files
<1>1. \A f \in Files : OpenV'[f] = OpenV[f]
  BY DEF OpenV
<1>2. \A f \in Files : file'[f].ref > 0 <=> file'[f].ip # Nil
  BY DEF InodeRefsExact
<1>3. ASSUME NEW i \in Inodes
      PROVE  iref'[i] + Eq(OpenV[1], i) + Eq(cwd[p], i) + Eq(CallV[p], i)
               = iref[i] + Eq(OpenV'[1], i) + Eq(cwd'[p], i) + Eq(CallV'[p], i)
  BY <1>0, <1>1
<1> QED
  BY <1>0, <1>1, <1>2, <1>3, ViewsLocal, InodeRefsStep

\* A file that a descriptor of a running process holds is open.
LEMMA HeldCounted ==
  ASSUME Struct, FileRefsExact, NEW p \in Procs, NEW k \in Fds, fd[p][k] \in Files,
         st[p] = "run", pc[p] \notin {"put", "delete"}
  PROVE  file[fd[p][k]].ref > 0
<1> DEFINE f == fd[p][k]
           D == Procs \X Fds
<1>1. <<p, k>> \in D /\ HeldV[<<p, k>>] = f
  BY NobodyReleases
<1>2. IsFiniteSet(D) /\ IsFiniteSet(Procs)
  BY FiniteDomains
<1>3. file[f].ref = Count(D, HeldV, f) + Count(Procs, InstV, f)
  BY CountsDef DEF CountsAsViews
<1>4. CountMoves(Procs, InstV, InstV, p, f)
  BY <1>2, CountChange, Zenon
<1> HIDE DEF f, D
<1>5. Count(D, HeldV, f) \in Nat /\ Count(D, HeldV, f) > 0
  BY <1>1, <1>2, CountPositive
<1> QED
  BY <1>3, <1>4, <1>5 DEF CountMoves, f

\* The calls that do so.
LEMMA InodeRefsMoves ==
  ASSUME Struct, TypeOK', InodeRefsExact, FileRefsExact, NEW p \in Procs, OthersKeep(p),
         \/ PutLast(p) \/ XferEnd(p) \/ DeviceEnd(p) \/ ForkFile(p) \/ ForkDone(p) \/ Exit(p)
         \/ \E k \in Fds : Lseek(p, k) \/ Dup(p, k)
         \/ \E k \in Fds, write \in BOOLEAN : XferStart(p, k, write) \/ DeviceStart(p, k, write)
  PROVE  InodeRefsExact'
<1> USE DEF Goto, Return, Ready
<1>0. /\ file \in [Files -> File] /\ pc \in [Procs -> Points] /\ loc \in [Procs -> Local]
      /\ fd \in [Procs -> [Fds -> Files \union {Nil}]]
      /\ \A f \in Files : file[f].ref \in Nat
  BY DEF Struct, TypeOK, File
<1>1. UNCHANGED <<cwd, iref>>
  BY DEF PutLast, XferEnd, DeviceEnd, ForkDone, ForkFile, Exit, Lseek, Dup, XferStart, DeviceStart
<1>2. ASSUME NEW f \in Files
      PROVE  file'[f].ip = file[f].ip
  <2>1. CASE UNCHANGED file
    BY <2>1
  <2>2. CASE XferEnd(p)
    BY <1>0, <2>2 DEF XferEnd, File, Struct, InvLocals
  <2>3. CASE \E k \in Fds : Lseek(p, k)
    BY <1>0, <2>3 DEF Lseek, File
  <2>4. CASE \E k \in Fds : Dup(p, k)
    BY <1>0, <2>4 DEF Dup, File
  <2>5. CASE ForkFile(p)
    BY <1>0, <2>5, SMTT(30) DEF ForkFile, File
  <2> QED
    BY <2>1, <2>2, <2>3, <2>4, <2>5 DEF PutLast, DeviceEnd, ForkDone, Exit, XferStart, DeviceStart
<1>3. ASSUME NEW f \in Files
      PROVE  file'[f].ref > 0 <=> file[f].ref > 0
  <2>1. CASE file'[f].ref = file[f].ref
    BY <2>1
  <2>2. CASE XferEnd(p)
    BY <1>0, <2>1, <2>2 DEF XferEnd, File
  <2>3. CASE \E k \in Fds : Lseek(p, k)
    BY <1>0, <2>1, <2>3 DEF Lseek, File
  <2>a. ASSUME NEW g \in Files, file[g].ref > 0, file' = [file EXCEPT ![g].ref = @ + 1]
        PROVE  file'[f].ref > 0 <=> file[f].ref > 0
    BY <1>0, <2>a DEF File
  <2>4. ASSUME NEW k \in Fds, Dup(p, k) PROVE file'[f].ref > 0 <=> file[f].ref > 0
    <3>1. fd[p][k] \in Files /\ file[fd[p][k]].ref > 0
      BY <1>0, <2>4, HeldCounted DEF Dup
    <3>2. file' = [file EXCEPT ![fd[p][k]].ref = @ + 1]
      BY <2>4 DEF Dup
    <3> QED
      BY <2>a, <3>1, <3>2
  <2>5. CASE ForkFile(p)
    <3>1. CASE UNCHANGED file
      BY <3>1
    <3>2. CASE fd[p][loc[p].k] # Nil /\ file' = [file EXCEPT ![fd[p][loc[p].k]].ref = @ + 1]
      <4>1. pc[p] = "fork" /\ st[p] = "run" /\ loc[p].k \in Fds
        BY <2>5, ForkFileAt
      <4> DEFINE g == fd[p][loc[p].k]
      <4>2. g \in Files /\ file[g].ref > 0
        BY <1>0, <3>2, <4>1, HeldCounted
      <4>3. file' = [file EXCEPT ![g].ref = @ + 1]
        BY <3>2
      <4> HIDE DEF g
      <4> QED
        BY <2>a, <4>2, <4>3
    <3> QED
      BY <2>5, <3>1, <3>2 DEF ForkFile
  <2> QED
    BY <2>1, <2>2, <2>3, <2>4, <2>5
       DEF PutLast, DeviceEnd, ForkDone, Exit, XferStart, DeviceStart
<1>4. CallV'[p] = CallV[p]
  <2>1. CASE PutLast(p)
    BY <1>0, <2>1 DEF PutLast, CallV
  <2>2. CASE UNCHANGED <<pc, loc>>
    BY <2>2 DEF CallV
  <2>3. CASE pc[p] \notin {"open", "put", "delete"} /\ pc'[p] \notin {"open", "put", "delete"}
    BY <2>3 DEF CallV
  <2>4. CASE \/ XferEnd(p) \/ DeviceEnd(p) \/ ForkFile(p) \/ ForkDone(p)
             \/ \E k \in Fds, write \in BOOLEAN : XferStart(p, k, write) \/ DeviceStart(p, k, write)
    BY <1>0, <2>3, <2>4 DEF XferEnd, DeviceEnd, ForkDone, ForkFile, XferStart, DeviceStart
  <2> QED
    BY <2>1, <2>2, <2>4 DEF Exit, Lseek, Dup
<1> QED
  BY <1>1, <1>2, <1>3, <1>4, InodeRefsQuiet

\* file_close hands the reference of the file to the call that puts it.
LEMMA InodeRefsClose ==
  ASSUME Struct, TypeOK', InodeRefsExact, NEW p \in Procs, OthersKeep(p),
         NEW l \in Local, NEW f \in Files, l.f = f,
         pc[p] \notin {"open", "put", "delete"}, FileClose(p, l), UNCHANGED <<cwd, iref>>
  PROVE  InodeRefsExact'
<1>0. /\ file \in [Files -> File] /\ pc \in [Procs -> Points] /\ loc \in [Procs -> Local]
      /\ file[f] \in File /\ iref \in [Inodes -> Nat] /\ CallV[p] = Nil
  BY DEF Struct, TypeOK, CallV
<1>1. CASE file[f].ref > 1 /\ file' = [file EXCEPT ![f].ref = @ - 1] /\ Finish(p, l)
  <2>1. pc'[p] \in {"idle", "free"}
    BY <1>0, <1>1 DEF Finish, Return, Goto
  <2>2. CallV'[p] = CallV[p]
    BY <1>0, <2>1 DEF CallV
  <2>3. \A g \in Files : file'[g].ip = file[g].ip /\ (file'[g].ref > 0 <=> file[g].ref > 0)
    BY <1>0, <1>1 DEF File
  <2> QED
    BY <2>2, <2>3, InodeRefsQuiet
<1>2. CASE /\ file[f].ref = 1 /\ file' = [file EXCEPT ![f] = NoFile]
           /\ Goto(p, "put", [l EXCEPT !.f = Nil, !.ip = file[f].ip])
  <2> DEFINE i == file[f].ip
  <2>1. i \in Inodes
    BY <1>0, <1>2 DEF InodeRefsExact, File
  <2>2. pc'[p] = "put" /\ loc'[p].ip = i
    <3>1. pc'[p] = "put" /\ loc'[p] = [l EXCEPT !.f = Nil, !.ip = file[f].ip]
      BY <1>0, <1>2 DEF Goto
    <3> QED
      BY <3>1 DEF Local
  <2>3. CallV'[p] = i /\ OpenV[f] = i /\ OpenV'[f] = Nil
    BY <1>0, <1>2, <2>2 DEF CallV, OpenV, NoFile
  <2>4. \A g \in Files \ {f} : OpenV'[g] = OpenV[g]
    BY <1>0, <1>2 DEF OpenV
  <2>5. \A g \in Files : file'[g].ref > 0 <=> file'[g].ip # Nil
    BY <1>0, <1>2 DEF NoFile, InodeRefsExact
  <2>6. ASSUME NEW j \in Inodes
        PROVE  iref'[j] + Eq(OpenV[f], j) + Eq(cwd[p], j) + Eq(CallV[p], j)
                 = iref[j] + Eq(OpenV'[f], j) + Eq(cwd'[p], j) + Eq(CallV'[p], j)
    BY <1>0, <2>3, InodeAssumption DEF Eq
  <2> QED
    BY <2>4, <2>5, <2>6, ViewsLocal, InodeRefsStep
<1> QED
  BY <1>1, <1>2 DEF FileClose

\* sys_close, sys_open without a free descriptor, and proc_free.
LEMMA InodeRefsCloses ==
  ASSUME Struct, TypeOK', InodeRefsExact, NEW p \in Procs, OthersKeep(p),
         (\E k \in Fds : Close(p, k)) \/ Install(p) \/ FreeFile(p)
  PROVE  InodeRefsExact'
<1>a. /\ pc \in [Procs -> Points] /\ loc \in [Procs -> Local]
      /\ fd \in [Procs -> [Fds -> Files \union {Nil}]]
  BY DEF Struct, TypeOK
<1>b. ASSUME pc[p] \notin {"open", "put", "delete"}, pc'[p] = "idle", UNCHANGED <<file, cwd, iref>>
      PROVE  InodeRefsExact'
  <2>1. CallV'[p] = CallV[p]
    BY <1>b DEF CallV
  <2> QED
    BY <1>b, <2>1, InodeRefsQuiet
<1>1. ASSUME NEW k \in Fds, Close(p, k) PROVE InodeRefsExact'
  <2> DEFINE l == [Blank(p) EXCEPT !.k = k, !.f = fd[p][k]]
  <2>1. fd[p][k] \in Files
    BY <1>a, <1>1 DEF Close
  <2>2. l \in Local /\ l.f = fd[p][k]
    BY <2>1, ZeroOffset DEF Blank, Local
  <2>3. pc[p] = "idle" /\ FileClose(p, l) /\ UNCHANGED <<cwd, iref>>
    BY <1>1 DEF Close, Ready
  <2> HIDE DEF l
  <2> QED
    BY <2>1, <2>2, <2>3, InodeRefsClose
<1>2. CASE Install(p)
  <2>0. /\ pc[p] = "install" /\ loc[p].f \in Files /\ loc[p] \in Local /\ UNCHANGED <<cwd, iref>>
    BY <1>a, <1>2 DEF Install, Struct, InvLocals
  <2>1. CASE Return(p) /\ UNCHANGED file
    BY <1>a, <1>b, <2>0, <2>1 DEF Return, Goto
  <2>2. CASE FileClose(p, loc[p])
    BY <2>0, <2>2, InodeRefsClose
  <2> QED
    BY <1>2, <2>1, <2>2 DEF Install
<1>3. CASE FreeFile(p)
  <2> DEFINE q == loc[p].q
             open == {j \in Fds : fd[q][j] # Nil}
             k == Min(open)
             f == fd[q][k]
             l == [loc[p] EXCEPT !.k = k, !.f = f]
  <2>0. pc[p] = "free" /\ q \in Procs /\ loc[p] \in Local /\ UNCHANGED <<cwd, iref>>
    BY <1>a, <1>3 DEF FreeFile, Local
  <2>1. CASE open # {} /\ FileClose(p, l)
    <3>1. k \in open
      BY <2>0, <2>1, FirstFound DEF Struct
    <3>2. k \in Fds /\ f # Nil
      BY <3>1
    <3> HIDE DEF k
    <3>3. f \in Files
      BY <1>a, <2>0, <3>2
    <3>4. l \in Local /\ l.f = f /\ FileClose(p, l)
      BY <2>0, <2>1, <3>2, <3>3 DEF Local
    <3> HIDE DEF l, f, q
    <3> QED
      BY <2>0, <3>3, <3>4, InodeRefsClose
  <2>2. CASE Return(p) /\ UNCHANGED file
    BY <1>a, <1>b, <2>0, <2>2 DEF Return, Goto
  <2> QED
    BY <1>3, <2>1, <2>2 DEF FreeFile
<1> QED
  BY <1>1, <1>2, <1>3

\* inode_put and inode_delete drop the reference of their call.
LEMMA InodeRefsDrop ==
  ASSUME Struct, TypeOK', InodeRefsExact, NEW p \in Procs, OthersKeep(p),
         pc[p] \in {"put", "delete"}, DropRef(p)
  PROVE  InodeRefsExact'
<1> DEFINE i == loc[p].ip
<1>0. /\ pc \in [Procs -> Points] /\ loc \in [Procs -> Local] /\ iref \in [Inodes -> Nat]
      /\ i \in Inodes /\ UNCHANGED <<file, cwd>> /\ iref' = [iref EXCEPT ![i] = @ - 1]
      /\ Finish(p, loc[p])
  BY DEF Struct, TypeOK, InvLocals, DropRef
<1>1. pc'[p] \in {"idle", "free"}
  BY <1>0 DEF Finish, Return, Goto
<1>2. CallV[p] = i /\ CallV'[p] = Nil
  BY <1>1 DEF CallV
<1>3. 1 \in Files /\ \A f \in Files : OpenV'[f] = OpenV[f]
  BY <1>0, SizeAssumption DEF OpenV, Files
<1>4. \A f \in Files : file'[f].ref > 0 <=> file'[f].ip # Nil
  BY <1>0 DEF InodeRefsExact
<1>5. iref[i] \in Nat \ {0}
  BY <1>0, CallCounted
<1> HIDE DEF i
<1>6. ASSUME NEW j \in Inodes
      PROVE  iref'[j] + Eq(OpenV[1], j) + Eq(cwd[p], j) + Eq(CallV[p], j)
               = iref[j] + Eq(OpenV'[1], j) + Eq(cwd'[p], j) + Eq(CallV'[p], j)
  <2>1. /\ Eq(OpenV'[1], j) = Eq(OpenV[1], j) /\ Eq(OpenV[1], j) \in Nat
        /\ Eq(cwd'[p], j) = Eq(cwd[p], j) /\ Eq(cwd[p], j) \in Nat
    BY <1>0, <1>3 DEF Eq
  <2>2. Eq(CallV'[p], j) = 0 /\ Eq(CallV[p], j) = IF i = j THEN 1 ELSE 0
    BY <1>2, InodeAssumption DEF Eq
  <2>3. iref[j] \in Nat /\ iref'[j] = IF i = j THEN iref[j] - 1 ELSE iref[j]
    BY <1>0
  <2> QED
    BY <2>1, <2>2, <2>3
<1>7. \A r \in Procs \ {p} : cwd'[r] = cwd[r]
  BY <1>0
<1> QED
  BY <1>3, <1>4, <1>6, <1>7, ViewsLocal, InodeRefsStep

\* A lookup, chdir, fork and wait move references between the working
\* directories and the calls, and count the new one.
LEMMA InodeRefsTake ==
  ASSUME Struct, TypeOK', InodeRefsExact, NEW p \in Procs, OthersKeep(p),
         \/ \E mode \in Modes : OpenLookup(p, mode)
         \/ Chdir(p)
         \/ \E c \in Procs : Fork(p, c) \/ Reap(p, c)
  PROVE  InodeRefsExact'
<1>0. /\ pc \in [Procs -> Points] /\ loc \in [Procs -> Local] /\ iref \in [Inodes -> Nat]
      /\ cwd \in [Procs -> Inodes \union {Nil}]
      /\ st[p] = "run" /\ pc[p] = "idle" /\ CallV[p] = Nil /\ cwd[p] \in Inodes
      /\ UNCHANGED file
  BY DEF Struct, TypeOK, InvSlots, CallV, OpenLookup, Chdir, Fork, Reap, Ready
<1>1. 1 \in Files /\ \A f \in Files : OpenV'[f] = OpenV[f]
  BY <1>0, SizeAssumption DEF OpenV, Files
<1>2. \A f \in Files : file'[f].ref > 0 <=> file'[f].ip # Nil
  BY <1>0 DEF InodeRefsExact
<1>3. ASSUME NEW q \in Procs, \A r \in Procs \ {q} : cwd'[r] = cwd[r],
             \A j \in Inodes : iref'[j] + Eq(cwd[q], j) = iref[j] + Eq(cwd'[q], j) + Eq(CallV'[p], j)
      PROVE  InodeRefsExact'
  <2>1. ASSUME NEW j \in Inodes
        PROVE  iref'[j] + Eq(OpenV[1], j) + Eq(cwd[q], j) + Eq(CallV[p], j)
                 = iref[j] + Eq(OpenV'[1], j) + Eq(cwd'[q], j) + Eq(CallV'[p], j)
    <3>1. /\ Eq(OpenV'[1], j) = Eq(OpenV[1], j) /\ Eq(OpenV[1], j) \in Nat
          /\ Eq(cwd[q], j) \in Nat /\ Eq(cwd'[q], j) \in Nat /\ Eq(CallV'[p], j) \in Nat
          /\ Eq(CallV[p], j) = 0
      BY <1>0, <1>1, InodeAssumption DEF Eq
    <3>2. iref[j] \in Nat /\ iref'[j] \in Nat
      BY <1>0 DEF TypeOK
    <3> QED
      BY <1>3, <3>1, <3>2
  <2> QED
    BY <1>1, <1>2, <1>3, <2>1, ViewsLocal, InodeRefsStep
<1>a. \A point, l : Goto(p, point, l) => pc'[p] = point /\ loc'[p] = l
  BY <1>0 DEF Goto
<1>4. ASSUME NEW mode \in Modes, OpenLookup(p, mode) PROVE InodeRefsExact'
  <2>1. PICK i \in Inodes : /\ iref' = [iref EXCEPT ![i] = @ + 1]
                            /\ Goto(p, "open", [Blank(p) EXCEPT !.ip = i, !.mode = mode])
    BY <1>4 DEF OpenLookup
  <2>2. pc'[p] = "open" /\ loc'[p].ip = i
    <3>1. pc'[p] = "open" /\ loc'[p] = [Blank(p) EXCEPT !.ip = i, !.mode = mode]
      BY <1>a, <2>1
    <3> QED
      BY <3>1 DEF Blank
  <2>3. CallV'[p] = i /\ cwd' = cwd
    BY <1>4, <2>2 DEF CallV, OpenLookup
  <2>4. ASSUME NEW j \in Inodes
        PROVE  iref'[j] + Eq(cwd[p], j) = iref[j] + Eq(cwd'[p], j) + Eq(CallV'[p], j)
    BY <1>0, <2>1, <2>3 DEF Eq
  <2> QED
    BY <1>3, <2>3, <2>4
<1>5. CASE Chdir(p)
  <2>1. PICK i \in Inodes :
          /\ iref' = [iref EXCEPT ![i] = @ + 1]
          /\ \/ /\ cwd' = [cwd EXCEPT ![p] = i]
                /\ Goto(p, "put", [Blank(p) EXCEPT !.ip = cwd[p]])
             \/ UNCHANGED cwd /\ Goto(p, "put", [Blank(p) EXCEPT !.ip = i])
    BY <1>5 DEF Chdir
  <2>2. CASE cwd' = [cwd EXCEPT ![p] = i] /\ Goto(p, "put", [Blank(p) EXCEPT !.ip = cwd[p]])
    <3>1. pc'[p] = "put" /\ loc'[p].ip = cwd[p]
      BY <1>a, <2>2 DEF Blank
    <3>2. CallV'[p] = cwd[p] /\ cwd'[p] = i
      BY <1>0, <2>2, <3>1 DEF CallV
    <3>3. ASSUME NEW j \in Inodes
          PROVE  iref'[j] + Eq(cwd[p], j) = iref[j] + Eq(cwd'[p], j) + Eq(CallV'[p], j)
      BY <1>0, <2>1, <3>2 DEF Eq
    <3>4. \A r \in Procs \ {p} : cwd'[r] = cwd[r]
      BY <1>0, <2>2
    <3> QED
      BY <1>3, <3>3, <3>4
  <2>3. CASE UNCHANGED cwd /\ Goto(p, "put", [Blank(p) EXCEPT !.ip = i])
    <3>1. pc'[p] = "put" /\ loc'[p].ip = i
      BY <1>a, <2>3 DEF Blank
    <3>2. CallV'[p] = i
      BY <3>1 DEF CallV
    <3>3. ASSUME NEW j \in Inodes
          PROVE  iref'[j] + Eq(cwd[p], j) = iref[j] + Eq(cwd'[p], j) + Eq(CallV'[p], j)
      BY <1>0, <2>1, <2>3, <3>2 DEF Eq
    <3> QED
      BY <1>3, <2>3, <3>3
  <2> QED
    BY <2>1, <2>2, <2>3
<1>6. ASSUME NEW c \in Procs, Fork(p, c) PROVE InodeRefsExact'
  <2>1. /\ cwd' = [cwd EXCEPT ![c] = cwd[p]] /\ iref' = [iref EXCEPT ![cwd[p]] = @ + 1]
        /\ cwd[c] = Nil /\ pc'[p] = "fork"
    BY <1>0, <1>6, <1>a DEF Fork, Struct, InvSlots
  <2>2. CallV'[p] = Nil /\ cwd'[c] = cwd[p]
    BY <1>0, <2>1 DEF CallV
  <2>3. ASSUME NEW j \in Inodes
        PROVE  iref'[j] + Eq(cwd[c], j) = iref[j] + Eq(cwd'[c], j) + Eq(CallV'[p], j)
    BY <1>0, <2>1, <2>2, InodeAssumption DEF Eq
  <2>4. \A r \in Procs \ {c} : cwd'[r] = cwd[r]
    BY <1>0, <2>1
  <2> QED
    BY <1>3, <2>3, <2>4
<1>7. ASSUME NEW c \in Procs, Reap(p, c) PROVE InodeRefsExact'
  <2>1. /\ cwd' = [cwd EXCEPT ![c] = Nil] /\ UNCHANGED iref
        /\ Goto(p, "put", [Blank(p) EXCEPT !.q = c, !.ip = cwd[c]])
    BY <1>7 DEF Reap
  <2>2. pc'[p] = "put" /\ loc'[p].ip = cwd[c]
    <3>1. pc'[p] = "put" /\ loc'[p] = [Blank(p) EXCEPT !.q = c, !.ip = cwd[c]]
      BY <1>a, <2>1
    <3> QED
      BY <3>1 DEF Blank
  <2>3. CallV'[p] = cwd[c] /\ cwd'[c] = Nil
    BY <1>0, <2>1, <2>2 DEF CallV
  <2>4. ASSUME NEW j \in Inodes
        PROVE  iref'[j] + Eq(cwd[c], j) = iref[j] + Eq(cwd'[c], j) + Eq(CallV'[p], j)
    BY <1>0, <2>1, <2>3, InodeAssumption DEF Eq
  <2>5. \A r \in Procs \ {c} : cwd'[r] = cwd[r]
    BY <1>0, <2>1
  <2> QED
    BY <1>3, <2>4, <2>5
<1> QED
  BY <1>4, <1>5, <1>6, <1>7

\* file_open hands the reference of its call to the file, or keeps it to put it.
LEMMA InodeRefsOpen ==
  ASSUME Struct, TypeOK', InodeRefsExact, NEW p \in Procs, OthersKeep(p), OpenCheck(p)
  PROVE  InodeRefsExact'
<1> DEFINE i == loc[p].ip
<1>0. /\ pc \in [Procs -> Points] /\ loc \in [Procs -> Local] /\ iref \in [Inodes -> Nat]
      /\ file \in [Files -> File] /\ pc[p] = "open" /\ i \in Inodes /\ UNCHANGED <<cwd, iref>>
      /\ CallV[p] = i
  BY DEF Struct, TypeOK, InvLocals, OpenCheck, CallV
<1>1. CASE Goto(p, "put", [loc[p] EXCEPT !.mode = {}]) /\ UNCHANGED file
  <2>1. pc'[p] = "put" /\ loc'[p].ip = i
    BY <1>0, <1>1 DEF Goto, Local
  <2>2. CallV'[p] = CallV[p]
    BY <1>0, <2>1 DEF CallV
  <2> QED
    BY <1>0, <1>1, <2>2, InodeRefsQuiet
<1>2. ASSUME NEW f \in Files, NEW e \in File, file[f].ref = 0, e.ref = 1, e.ip = i,
             file' = [file EXCEPT ![f] = e], Goto(p, "install", [Blank(p) EXCEPT !.f = f])
      PROVE  InodeRefsExact'
  <2>1. pc'[p] = "install"
    BY <1>0, <1>2 DEF Goto
  <2>2. CallV'[p] = Nil
    BY <2>1 DEF CallV
  <2>3. OpenV[f] = Nil /\ OpenV'[f] = i /\ \A g \in Files \ {f} : OpenV'[g] = OpenV[g]
    BY <1>0, <1>2 DEF OpenV, InodeRefsExact
  <2>4. \A g \in Files : file'[g].ref > 0 <=> file'[g].ip # Nil
    BY <1>0, <1>2, InodeAssumption DEF InodeRefsExact
  <2> HIDE DEF i
  <2>5. ASSUME NEW j \in Inodes
        PROVE  iref'[j] + Eq(OpenV[f], j) + Eq(cwd[p], j) + Eq(CallV[p], j)
                 = iref[j] + Eq(OpenV'[f], j) + Eq(cwd'[p], j) + Eq(CallV'[p], j)
    BY <1>0, <2>2, <2>3, InodeAssumption DEF Eq
  <2>6. \A r \in Procs \ {p} : cwd'[r] = cwd[r]
    BY <1>0
  <2> QED
    BY <2>3, <2>4, <2>5, <2>6, ViewsLocal, InodeRefsStep
<1> QED
  BY <1>0, <1>1, <1>2, OpenCheckEffect DEF Struct

\* Every step keeps the counts of inodes.
LEMMA InodeRefsNext ==
  ASSUME Struct, TypeOK', InodeRefsExact, FileRefsExact, NEW p \in Procs, OthersKeep(p), Step(p)
  PROVE  InodeRefsExact'
<1>1. CASE Put(p) \/ Delete(p)
  BY <1>1, InodeRefsDrop DEF Put, Delete
<1> QED
  BY <1>1, InodeRefsMoves, InodeRefsCloses, InodeRefsTake, InodeRefsOpen DEF Step

----------------------------------------------------------------------------
(* The place of a transfer *)

\* The file of a transfer is open: a descriptor of its process holds it.
XferOpen ==
  Struct /\ FileRefsExact =>
    \A r \in Procs : pc[r] = "xfer" => loc[r].f \in Files /\ file[loc[r].f].ref > 0

\* It is in every state.
LEMMA XferOpenHolds == XferOpen
<1> SUFFICES ASSUME Struct, FileRefsExact, NEW r \in Procs, pc[r] = "xfer"
             PROVE  loc[r].f \in Files /\ file[loc[r].f].ref > 0
  BY DEF XferOpen
<1>1. st[r] = "run" /\ loc[r].f \in Files
  BY DEF Struct, InvLocals
<1>2. PICK k \in Fds : fd[r][k] = loc[r].f
  BY DEF Struct, InvXfer
<1> QED
  BY <1>1, <1>2, HeldCounted

\* A step of p changes the inode of a file that stays open for nobody, its
\* offset and the holder of its inode only when nobody else holds the inode.
LEMMA FileKept ==
  ASSUME Struct, FileRefsExact, InodeRefsExact, TransferKeepsPlace, NEW p \in Procs, Step(p)
  PROVE  /\ \A f \in Files :
              file[f].ref > 0 /\ file'[f].ref > 0 =>
                /\ file'[f].ip = file[f].ip
                /\ file'[f].offset # file[f].offset => slk[file[f].ip] \in {Nil, p}
         /\ \A i \in Inodes : slk[i] \notin {Nil, p} => slk'[i] = slk[i]
<1> DEFINE Kept == \A f \in Files :
                     file[f].ref > 0 /\ file'[f].ref > 0 =>
                       /\ file'[f].ip = file[f].ip
                       /\ file'[f].offset # file[f].offset => slk[file[f].ip] \in {Nil, p}
           Locked == \A i \in Inodes : slk[i] \notin {Nil, p} => slk'[i] = slk[i]
<1>0. /\ file \in [Files -> File] /\ fd \in [Procs -> [Fds -> Files \union {Nil}]]
      /\ loc \in [Procs -> Local] /\ slk \in [Inodes -> Procs \union {Nil}]
  BY DEF Struct, TypeOK
<1>a. UNCHANGED file => Kept
  OBVIOUS
<1>b. UNCHANGED slk => Locked
  OBVIOUS
<1>c. \A g \in Files : file' = [file EXCEPT ![g].ref = @ + 1] => Kept
  BY <1>0 DEF File
<1>d. ASSUME NEW l \in Local, l.f \in Files, FileClose(p, l) PROVE Kept
  <2>1. CASE file' = [file EXCEPT ![l.f].ref = @ - 1]
    BY <1>0, <1>d, <2>1 DEF File
  <2>2. CASE file' = [file EXCEPT ![l.f] = NoFile]
    BY <1>0, <1>d, <2>2 DEF NoFile
  <2> QED
    BY <1>d, <2>1, <2>2 DEF FileClose
<1>1. CASE OpenCheck(p)
  <2>0. loc[p].ip \in Inodes
    BY <1>1 DEF OpenCheck, Struct, InvLocals
  <2>1. UNCHANGED file \/ \E f \in Files, e \in File :
                            file[f].ref = 0 /\ file' = [file EXCEPT ![f] = e]
    BY <1>1, <2>0, OpenCheckEffect DEF Struct
  <2>2. Kept
    BY <1>0, <2>1
  <2> QED
    BY <1>1, <1>b, <2>2 DEF OpenCheck
<1>2. CASE Install(p)
  <2>1. loc[p].f \in Files /\ loc[p] \in Local
    BY <1>0, <1>2 DEF Install, Struct, InvLocals
  <2>2. Kept
    BY <1>2, <1>a, <1>d, <2>1 DEF Install
  <2> QED
    BY <1>2, <1>b, <2>2 DEF Install
<1>3. CASE Put(p) \/ Delete(p) \/ PutLast(p) \/ DeviceEnd(p) \/ Chdir(p) \/ ForkDone(p) \/ Exit(p)
  <2>1. UNCHANGED <<file, slk>>
    BY <1>3 DEF Put, Delete, DropRef, PutLast, DeviceEnd, Chdir, ForkDone, Exit
  <2> QED
    BY <1>a, <1>b, <2>1
<1>4. CASE XferEnd(p)
  <2> DEFINE f == loc[p].f
             i == file[f].ip
  <2>1. f \in Files /\ i \in Inodes /\ slk[i] = p
    <3>1. f \in Files /\ file[f].ref > 0 /\ slk[i] = p
      BY <1>4, XferOpenHolds DEF XferOpen, XferEnd, TransferKeepsPlace
    <3> QED
      BY <1>0, <3>1 DEF InodeRefsExact, File
  <2>2. PICK n \in 0 .. MaxLen : file' = [file EXCEPT ![f].offset = (@ + n) % (MaxOff + 1)]
    BY <1>4 DEF XferEnd
  <2>3. slk' = [slk EXCEPT ![i] = Nil]
    BY <1>4 DEF XferEnd
  <2> HIDE DEF f
  <2>4. Kept
    BY <1>0, <2>1, <2>2 DEF File
  <2>5. Locked
    BY <1>0, <2>1, <2>3
  <2> QED
    BY <2>4, <2>5
<1>5. CASE ForkFile(p)
  <2>1. UNCHANGED slk /\ loc[p].k \in Fds
    BY <1>5, ForkFileAt DEF ForkFile
  <2>2. Kept
    BY <1>5, <1>0, <1>a, <1>c, <2>1 DEF ForkFile
  <2> QED
    BY <1>b, <2>1, <2>2
<1>6. CASE FreeFile(p)
  <2> DEFINE q == loc[p].q
             open == {j \in Fds : fd[q][j] # Nil}
             k == Min(open)
             f == fd[q][k]
             l == [loc[p] EXCEPT !.k = k, !.f = f]
  <2>0. q \in Procs /\ loc[p] \in Local /\ UNCHANGED slk
    BY <1>0, <1>6 DEF FreeFile, Local
  <2>1. CASE open # {} /\ FileClose(p, l)
    <3>1. k \in open
      BY <2>0, <2>1, FirstFound DEF Struct
    <3>2. k \in Fds /\ f # Nil
      BY <3>1
    <3> HIDE DEF k
    <3>3. f \in Files
      BY <1>0, <2>0, <3>2
    <3>4. l \in Local /\ l.f = f /\ FileClose(p, l)
      BY <2>0, <2>1, <3>2, <3>3 DEF Local
    <3> HIDE DEF l, f, q
    <3>5. Kept
      BY <1>d, <3>3, <3>4
    <3> QED
      BY <1>b, <2>0, <3>5
  <2>2. CASE UNCHANGED file
    BY <1>a, <1>b, <2>0, <2>2
  <2> QED
    BY <1>6, <2>1, <2>2 DEF FreeFile
<1>7. CASE \E mode \in Modes : OpenLookup(p, mode)
  BY <1>7, <1>a, <1>b DEF OpenLookup
<1>8. ASSUME NEW k \in Fds, Close(p, k) PROVE Kept /\ Locked
  <2> DEFINE l == [Blank(p) EXCEPT !.k = k, !.f = fd[p][k]]
  <2>1. fd[p][k] \in Files
    BY <1>0, <1>8 DEF Close
  <2>2. l \in Local /\ l.f \in Files
    BY <2>1, ZeroOffset DEF Blank, Local
  <2>3. FileClose(p, l) /\ UNCHANGED slk
    BY <1>8 DEF Close
  <2> HIDE DEF l
  <2> QED
    BY <1>b, <1>d, <2>2, <2>3
<1>9. ASSUME NEW k \in Fds, Lseek(p, k) PROVE Kept /\ Locked
  <2>1. fd[p][k] \in Files /\ slk[file[fd[p][k]].ip] = Nil /\ UNCHANGED slk
    BY <1>0, <1>9 DEF Lseek
  <2>2. PICK o \in Offsets : file' = [file EXCEPT ![fd[p][k]].offset = o]
    BY <1>9 DEF Lseek
  <2>3. Kept
    BY <1>0, <2>1, <2>2 DEF File
  <2> QED
    BY <1>b, <2>1, <2>3
<1>10. ASSUME NEW k \in Fds, Dup(p, k) PROVE Kept /\ Locked
  <2>1. fd[p][k] \in Files /\ UNCHANGED slk /\ file' = [file EXCEPT ![fd[p][k]].ref = @ + 1]
    BY <1>0, <1>10 DEF Dup
  <2> QED
    BY <1>b, <1>c, <2>1
<1>11. CASE \E k \in Fds, write \in BOOLEAN : XferStart(p, k, write) \/ DeviceStart(p, k, write)
  BY <1>11, <1>0, <1>a DEF XferStart, DeviceStart
<1>12. CASE \E c \in Procs : Fork(p, c) \/ Reap(p, c)
  BY <1>12, <1>a, <1>b DEF Fork, Reap
<1> QED
  BY <1>1, <1>2, <1>3, <1>4, <1>5, <1>6, <1>7, <1>8, <1>9, <1>10, <1>11, <1>12 DEF Step

\* A step starts a transfer only from XferStart.
LEMMA XferStarts ==
  ASSUME TypeOK, NEW p \in Procs, Step(p), pc'[p] = "xfer"
  PROVE  \E k \in Fds, write \in BOOLEAN : XferStart(p, k, write)
<1>0. \A point, l : Goto(p, point, l) => pc'[p] = point
  BY DEF TypeOK, Goto
<1>1. \A l : ~ Finish(p, l) /\ ~ FileClose(p, l)
  BY <1>0 DEF Finish, FileClose, Return
<1> QED
  BY <1>0, <1>1 DEF Step, OpenCheck, Install, Put, PutLast, Delete, DropRef, XferEnd, DeviceEnd,
     Chdir, ForkFile, ForkDone, Exit, FreeFile, OpenLookup, Close, Lseek, Dup, DeviceStart, Fork,
     Reap, Return, Ready

\* Every step keeps the place of the transfers under way.
LEMMA TransferNext ==
  ASSUME Struct, Struct', FileRefsExact, FileRefsExact', InodeRefsExact, TransferKeepsPlace,
         NEW p \in Procs, OthersKeep(p), Step(p)
  PROVE  TransferKeepsPlace'
<1>1. XferOpen'
  BY XferOpenHolds, PTL
<1> SUFFICES ASSUME NEW r \in Procs, pc'[r] = "xfer"
             PROVE  LET f == loc'[r].f IN
                      /\ file'[f].ref > 0 /\ slk'[file'[f].ip] = r
                      /\ file'[f].offset = loc'[r].at
  BY DEF TransferKeepsPlace
<1>2. loc'[r].f \in Files /\ file'[loc'[r].f].ref > 0
  BY <1>1 DEF XferOpen
<1>3. CASE r # p
  <2> DEFINE f == loc[r].f
             i == file[f].ip
  <2>1. pc[r] = "xfer" /\ loc'[r] = loc[r]
    BY <1>3 DEF OthersKeep
  <2>2. f \in Files /\ file[f].ref > 0 /\ slk[i] = r /\ file[f].offset = loc[r].at
    BY <1>2, <2>1 DEF TransferKeepsPlace
  <2>3. i \in Inodes
    BY <2>2 DEF InodeRefsExact, TypeOK, File
  <2>4. slk[i] \notin {Nil, p}
    BY <1>3, <2>2, ProcAssumption
  <2>5. file'[f].ip = i /\ file'[f].offset = file[f].offset /\ slk'[i] = slk[i]
    BY <1>2, <2>1, <2>2, <2>3, <2>4, FileKept
  <2> QED
    BY <1>2, <2>1, <2>2, <2>5
<1>4. CASE r = p
  <2>1. PICK k \in Fds, write \in BOOLEAN : XferStart(p, k, write)
    BY <1>4, XferStarts DEF Struct
  <2> DEFINE f == fd[p][k]
             i == file[f].ip
  <2>2. /\ UNCHANGED file /\ slk' = [slk EXCEPT ![i] = p]
        /\ Goto(p, "xfer", [Blank(p) EXCEPT !.f = f, !.at = file[f].offset])
    BY <2>1 DEF XferStart
  <2>3. loc'[p].f = f /\ loc'[p].at = file[f].offset
    <3>1. loc'[p] = [Blank(p) EXCEPT !.f = f, !.at = file[f].offset]
      BY <2>2 DEF Goto, Struct, TypeOK
    <3> QED
      BY <3>1 DEF Blank
  <2>4. i \in Inodes
    BY <1>2, <1>4, <2>2, <2>3 DEF InodeRefsExact, TypeOK, File
  <2>5. slk'[i] = p
    BY <2>2, <2>4 DEF Struct, TypeOK
  <2> QED
    BY <1>2, <1>4, <2>2, <2>3, <2>5
<1> QED
  BY <1>3, <1>4

----------------------------------------------------------------------------
(* The theorems *)

\* file_init and the first process establish the invariant.
LEMMA IndInvInit == Init => IndInv
<1> SUFFICES ASSUME Init PROVE IndInv
  OBVIOUS
<1>0. /\ \A p \in Procs : Blank(p) \in Local /\ Blank(p).q = p /\ Blank(p).k = Nil
      /\ NoFile \in File /\ NoFile.ref = 0 /\ NoFile.ip = Nil
  BY BlankType, ZeroOffset DEF Blank, NoFile, File
<1>a. /\ file \in [Files -> File] /\ \A f \in Files : file[f].ref = 0 /\ file[f].ip = Nil
      /\ \A p \in Procs : pc[p] = "idle" /\ loc[p].q = p /\ loc[p].k = Nil
      /\ loc \in [Procs -> Local] /\ \A p \in Procs, k \in Fds : fd[p][k] = Nil
      /\ \A p \in Procs : cwd[p] = IF p = InitProc THEN Root ELSE Nil
      /\ \A p \in Procs : st[p] = IF p = InitProc THEN "run" ELSE "unused"
      /\ \A i \in Inodes : iref[i] = IF i = Root THEN 1 ELSE 0
  BY <1>0 DEF Init
<1>1. TypeOK
  BY <1>a, InodeAssumption DEF Init, TypeOK, Points
<1>2. InvLocals /\ InvOther /\ InvAlone /\ InvSlots /\ InvXfer
  BY <1>a, InodeAssumption DEF InvLocals, InvOther, InvAlone, InvSlots, InvXfer
<1>3. TransferKeepsPlace
  BY <1>a DEF TransferKeepsPlace
<1>b. Cardinality({}) = 0 /\ Cardinality({InitProc}) = 1
  BY FS_EmptySet, FS_Singleton
<1>4. FileRefsExact
  <2> SUFFICES ASSUME NEW f \in Files
               PROVE  file[f].ref = Count(Procs \X Fds, HeldV, f) + Count(Procs, InstV, f)
    BY CountsDef DEF CountsAsViews
  <2>1. {x \in Procs \X Fds : HeldV[x] = f} = {}
    BY <1>a, NilApart DEF HeldV
  <2>2. {p \in Procs : InstV[p] = f} = {}
    BY <1>a, NilApart DEF InstV
  <2>3. Count(Procs \X Fds, HeldV, f) = 0
    BY <1>b, <2>1 DEF Count
  <2>4. Count(Procs, InstV, f) = 0
    BY <1>b, <2>2 DEF Count
  <2> QED
    BY <1>a, <2>3, <2>4
<1>5. InodeRefsExact
  <2>1. ASSUME NEW i \in Inodes
        PROVE  iref[i] = Count(Files, OpenV, i) + Count(Procs, cwd, i) + Count(Procs, CallV, i)
    <3>1. {f \in Files : OpenV[f] = i} = {}
      BY <1>a, InodeAssumption DEF OpenV
    <3>2. {p \in Procs : CallV[p] = i} = {}
      BY <1>a, InodeAssumption DEF CallV
    <3>3. {q \in Procs : cwd[q] = i} = IF i = Root THEN {InitProc} ELSE {}
      BY <1>a, InodeAssumption, ProcAssumption
    <3>4. Count(Files, OpenV, i) = 0
      BY <1>b, <3>1 DEF Count
    <3>5. Count(Procs, CallV, i) = 0
      BY <1>b, <3>2 DEF Count
    <3>6. Count(Procs, cwd, i) = IF i = Root THEN 1 ELSE 0
      BY <1>b, <3>3 DEF Count
    <3> QED
      BY <1>a, <3>4, <3>5, <3>6
  <2>2. \A f \in Files : file[f].ref > 0 <=> file[f].ip # Nil
    BY <1>a
  <2> QED
    BY <1>1, <2>1, <2>2, CountsDef DEF CountsAsViews
<1> QED
  BY <1>2, <1>3, <1>4, <1>5 DEF IndInv

\* Every step of the specification preserves it.
LEMMA IndInvNext == IndInv /\ [Next]_vars => IndInv'
<1> SUFFICES ASSUME IndInv, [Next]_vars PROVE IndInv'
  OBVIOUS
<1>1. CASE UNCHANGED vars
  BY <1>1, SMTT(30) DEF vars, IndInv, FileRefsExact, InodeRefsExact, TransferKeepsPlace, TypeOK, Released,
     InvLocals, InvOther, InvAlone, InvSlots, InvXfer
<1>2. CASE Next
  <2>1. PICK p \in Procs : Step(p)
    BY <1>2 DEF Next
  <2>2. Struct
    BY DEF IndInv, InodeRefsExact, Struct
  <2>3. OthersKeep(p)
    BY <2>1, <2>2, StepLocal DEF Struct
  <2>4. Struct'
    BY <2>1, <2>2, StructStep DEF IndInv
  <2>5. FileRefsExact'
    BY <2>1, <2>2, <2>3, <2>4, FileRefsNext DEF IndInv
  <2>6. InodeRefsExact'
    BY <2>1, <2>2, <2>3, <2>4, InodeRefsNext DEF IndInv, Struct
  <2>7. TransferKeepsPlace'
    BY <2>1, <2>2, <2>3, <2>4, <2>5, TransferNext DEF IndInv
  <2> QED
    BY <2>4, <2>5, <2>6, <2>7 DEF IndInv, Struct
<1> QED
  BY <1>1, <1>2

\* The inductive invariant holds of every behaviour of the file table, its
\* processes and their working directories.
THEOREM InvariantHolds == Spec => []IndInv
BY IndInvInit, IndInvNext, PTL DEF Spec

\* file_dup and file_close keep the counter of every file exact, whatever the
\* number of processes that share it and the order of their calls.
THEOREM FileTableFileRefs == Spec => []FileRefsExact
<1>1. IndInv => FileRefsExact
  BY DEF IndInv
<1> QED
  BY <1>1, InvariantHolds, PTL

\* The counter of every inode is exact through sys_open, file_close, sys_chdir,
\* proc_fork and proc_free, their failures included.
THEOREM FileTableInodeRefs == Spec => []InodeRefsExact
<1>1. IndInv => InodeRefsExact
  BY DEF IndInv
<1> QED
  BY <1>1, InvariantHolds, PTL

\* The file of a transfer stays open, its inode locked and its offset in place
\* until file_read or file_write moves it.
THEOREM FileTableTransfer == Spec => []TransferKeepsPlace
<1>1. IndInv => TransferKeepsPlace
  BY DEF IndInv
<1> QED
  BY <1>1, InvariantHolds, PTL

=============================================================================
