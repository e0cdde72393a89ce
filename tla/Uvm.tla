--------------------------------- MODULE Uvm ---------------------------------
(***************************************************************************)
(* User address spaces: src/kernel/mem/uvm.c, mmap.c, the page table       *)
(* operations of kvm.c, the two pools of pmem.c, and their use by brk,     *)
(* mmap, munmap, page faults, fork, exec and proc_free.                    *)
(*                                                                         *)
(* A page table is the set of user pages it maps (map), those of them that *)
(* lack PTE_U (nouser), and the set of kernel pages it is made of          *)
(* (tables); pools and free region nodes are counts.  Page addresses are   *)
(* page numbers, and programs pass aligned ones; heap_top has a finer      *)
(* unit, PG per page.  An operation is one step: a process alone uses its  *)
(* address space, and the pools are left consistent at every release of    *)
(* their locks.                                                            *)
(***************************************************************************)
EXTENDS Naturals, SequencesExt, FiniteSetsExt

CONSTANTS
  Procs, Init0,               \* process slots, and the first process
  PG,                         \* heap units per page (PGSIZE)
  MMAP_BEGIN, MMAP_END,       \* page numbers
  TRAPFRAME,
  LenLimit,                   \* 2^32, in heap units: lengths are uint32
  MaxBrk,                     \* bound on the addresses given to brk, in pages
  MaxLen,                     \* bound on the pages of one mmap
  Programs,                   \* the programs to execute, sequences of segments
  NMmap,                      \* N_MMAP
  NUser, NKern                \* pages of the two pools

\* brk cannot reach MMAP_BEGIN: the user pool is far smaller than the gap.
ASSUME LayoutAssumption ==
  /\ {PG, MMAP_BEGIN, MMAP_END, TRAPFRAME, LenLimit, MaxBrk, MaxLen, NMmap, NUser, NKern}
       \subseteq Nat \ {0}
  /\ 2 <= MaxBrk /\ MaxBrk < MMAP_BEGIN
  /\ MMAP_BEGIN < MMAP_END /\ MMAP_END < TRAPFRAME
\* There is memory for the first process.
ASSUME InitAssumption ==
  Init0 \in Procs /\ IsFiniteSet(Procs) /\ 2 <= NUser /\ 6 <= NKern

\* The pages of a PT_LOAD segment, from ALIGN_DOWN(vaddr) to ALIGN_UP(vaddr +
\* memsz): anywhere below the area of the stack, without the end's being checked.
Segments == {s \in [begin : 0 .. MMAP_END, npages : 0 .. MMAP_END] :
               s.begin + s.npages <= MMAP_END}
ASSUME ProgramsAssumption == \A prog \in Programs : prog \in Seq(Segments)

VARIABLES
  live, map, nouser, tables,  \* page table of each process
  mmap, heap, ustack,         \* p->mmap, p->heap_top, p->ustack_npage
  nodes, upool, kpool,        \* free nodes and pages
  tidy,                       \* history: no page was lost in proc_exec
  panic                       \* "no", or the message of the panic

pvars == <<live, map, nouser, tables, mmap, heap, ustack>>
vars == <<pvars, nodes, upool, kpool, tidy, panic>>

USER_BASE == 1
Pages == 0 .. TRAPFRAME - 1
Regions == [begin : MMAP_BEGIN .. MMAP_END, npages : 0 .. MMAP_END - MMAP_BEGIN]
Tables == {"tf", "root", "top1", "top0", "low1", "low0", "mmap0"}
Messages == {"no", "uvm_mmap", "overlap", "nodes", "user pages", "kernel pages",
             "out of range", "zero length", "pte missing"}

\* The type invariant.
TypeOK ==
  /\ live \in [Procs -> BOOLEAN] /\ map \in [Procs -> SUBSET Pages]
  /\ \A p \in Procs : nouser[p] \subseteq map[p]
  /\ tables \in [Procs -> SUBSET Tables]
  /\ \A p \in Procs : /\ Range(mmap[p]) \subseteq Regions
                      /\ Len(mmap[p]) <= NMmap
  /\ heap \in [Procs -> 0 .. (MMAP_END + 1) * PG] /\ ustack \in [Procs -> Nat]
  /\ nodes \in 0 .. NMmap /\ upool \in 0 .. NUser /\ kpool \in 0 .. NKern
  /\ tidy \in BOOLEAN /\ panic \in Messages

End(r) == r.begin + r.npages
PagesOf(r) == r.begin .. End(r) - 1
Covered(list) == UNION {PagesOf(r) : r \in Range(list)}

\* PGSIZE - 1 rounding: the first page at or above a heap address.
Up(a) == (a + PG - 1) \div PG
HeapPages(top) == USER_BASE + 1 .. Up(top) - 1
StackPages(n) == TRAPFRAME - n .. TRAPFRAME - 1

\* vm_getpte with alloc: the page table pages on the way to a page.
TablesTo(page) ==
  CASE page < MMAP_BEGIN -> {"low1", "low0"}
    [] page \in MMAP_BEGIN .. MMAP_END - 1 -> {"top1", "mmap0"}
    [] OTHER -> {"top1", "top0"}
TablesFor(pages) == UNION {TablesTo(page) : page \in pages}

\* proc_alloc: trapframe and page table, with trampoline and trapframe mapped.
NewTables == {"tf", "root"} \union TablesTo(TRAPFRAME)

\* proc_make_first: a code page, a stack page, an empty heap.
Init ==
  LET first == {USER_BASE} \union StackPages(1)
      own == NewTables \union TablesFor(first)
      only(x, y) == [p \in Procs |-> IF p = Init0 THEN x ELSE y]
  IN /\ live = only(TRUE, FALSE) /\ map = only(first, {}) /\ tables = only(own, {})
     /\ nouser = [p \in Procs |-> {}]
     /\ mmap = [p \in Procs |-> <<>>] /\ heap = only((USER_BASE + 1) * PG, 0)
     /\ ustack = only(1, 0)
     /\ nodes = NMmap /\ upool = NUser - 2 /\ kpool = NKern - Cardinality(own)
     /\ tidy = TRUE /\ panic = "no"

Running(p) == live[p] /\ panic = "no"

----------------------------------------------------------------------------
(* pmem_alloc, vm_mappages, vm_unmappages *)

Panic(m) == panic' = m /\ UNCHANGED <<pvars, nodes, upool, kpool, tidy>>

\* What stops the mapping of new pages.
NoPages(p, pages) ==
  {m \in {"user pages", "kernel pages"} :
     \/ m = "user pages" /\ Cardinality(pages) > upool
     \/ m = "kernel pages" /\ Cardinality(TablesFor(pages) \ tables[p]) > kpool}

\* mmap_region_alloc finds the pool too small.
NoNodes(wanted) == IF wanted > nodes THEN {"nodes"} ELSE {}

\* vm_mappages overwrites an entry that is valid: the page it held is lost.
MapPages(p, pages, user) ==
  /\ upool' = upool - Cardinality(pages)
  /\ kpool' = kpool - Cardinality(TablesFor(pages) \ tables[p])
  /\ map' = [map EXCEPT ![p] = @ \union pages]
  /\ nouser' = [nouser EXCEPT ![p] = IF user THEN @ \ pages ELSE @ \union pages]
  /\ tables' = [tables EXCEPT ![p] = @ \union TablesFor(pages)]

\* Entries that are not valid are skipped; tables are never given back.
UnmapPages(p, pages) ==
  /\ upool' = upool + Cardinality(pages \intersect map[p])
  /\ map' = [map EXCEPT ![p] = @ \ pages]
  /\ nouser' = [nouser EXCEPT ![p] = @ \ pages]
  /\ UNCHANGED <<kpool, tables, tidy>>

----------------------------------------------------------------------------
(* brk and the stack *)

\* uvm_heap_grow: the pages from the rounded-up old top to the new one.
Grow(old, new) == {page \in Pages : page >= Up(old) /\ page * PG < new}

\* Mutant: the page at an aligned new top is kept.
UngrowAbove(old, new) == Max({new \div PG + 1, USER_BASE + 1}) .. Up(old) - 1

\* uvm_heap_ungrow.
Ungrow(old, new) == Max({Up(new), USER_BASE + 1}) .. Up(old) - 1

\* sys_brk: the length goes through a uint32; an address below the heap's start
\* changes nothing.
Brk(p, addr) ==
  /\ Running(p)
  /\ LET old == heap[p]
         grown == old + ((addr - old) % LenLimit)
         shrunk == old - ((old - addr) % LenLimit)
         fresh == Grow(old, grown)
     IN \/ /\ addr > old /\ NoPages(p, fresh) # {}
           /\ \E m \in NoPages(p, fresh) : Panic(m)
        \/ /\ addr > old /\ NoPages(p, fresh) = {}
           /\ MapPages(p, fresh, TRUE) /\ heap' = [heap EXCEPT ![p] = grown]
           /\ UNCHANGED <<live, mmap, ustack, nodes, tidy, panic>>
        \/ /\ addr < old /\ addr >= (USER_BASE + 1) * PG
           /\ UnmapPages(p, Ungrow(old, shrunk))
           /\ heap' = [heap EXCEPT ![p] = shrunk]
           /\ UNCHANGED <<live, mmap, ustack, nodes, panic>>

\* Page fault of a page that is not mapped: uvm_ustack_grow.  A page outside
\* the stack's area kills the process, which module Proc follows.
StackFault(p, page) ==
  LET bottom == TRAPFRAME - ustack[p]
      fresh == page .. bottom - 1
  IN /\ Running(p) /\ page \in MMAP_END .. TRAPFRAME - 1 /\ page \notin map[p]
     /\ \/ page >= bottom /\ UNCHANGED vars
        \/ /\ page < bottom /\ NoPages(p, fresh) # {}
           /\ \E m \in NoPages(p, fresh) : Panic(m)
        \/ /\ page < bottom /\ NoPages(p, fresh) = {}
           /\ MapPages(p, fresh, TRUE)
           /\ ustack' = [ustack EXCEPT ![p] = TRAPFRAME - page]
           /\ UNCHANGED <<live, mmap, heap, nodes, tidy, panic>>

----------------------------------------------------------------------------
(* mmap and munmap *)

\* find_free_region: the first gap, after how many nodes; none is Len + 1.
Candidate(list, i) == IF i = 0 THEN MMAP_BEGIN ELSE End(list[i])

FindFree(list, n) ==
  Min({Len(list) + 1} \union
      {i \in 0 .. Len(list) :
         Candidate(list, i) + n <= IF i < Len(list) THEN list[i + 1].begin
                                                    ELSE MMAP_END})

\* The nodes before a given address.
Before(list, start) == Cardinality({i \in DOMAIN list : list[i].begin < start})

Overlaps(list, start, n) ==
  LET i == Before(list, start)
  IN \/ i > 0 /\ End(list[i]) > start
     \/ i < Len(list) /\ start + n > list[i + 1].begin

\* Node k absorbs its successor if they touch.
MergeAt(list, k) ==
  IF k \in 1 .. Len(list) - 1 /\ End(list[k]) = list[k + 1].begin
  THEN RemoveAt([list EXCEPT ![k].npages = @ + list[k + 1].npages], k + 1)
  ELSE list

\* Mutant: the new node absorbs its successor only.
InsertNext(list, i, r) == MergeAt(InsertAt(list, i + 1, r), i + 1)

\* Insert after i nodes, merge with the successor, then with the predecessor.
Insert(list, i, r) == MergeAt(MergeAt(InsertAt(list, i + 1, r), i + 1), i)

\* prot is the program's: its pages have PTE_U only when user is TRUE.
Mmap(p, start, n, user) ==
  LET list == mmap[p]
      i == IF start = 0 THEN FindFree(list, n) ELSE Before(list, start)
      addr == IF start = 0 /\ i <= Len(list) THEN Candidate(list, i) ELSE start
      fresh == addr .. addr + n - 1
      bad == IF \/ start = 0 /\ i > Len(list)
                \/ start # 0 /\ (start < MMAP_BEGIN \/ start + n > MMAP_END)
             THEN {"uvm_mmap"}
             ELSE IF start # 0 /\ Overlaps(list, start, n) THEN {"overlap"}
             ELSE NoNodes(1) \union NoPages(p, fresh)
  IN /\ Running(p)
     /\ \/ \E m \in bad : Panic(m)
        \/ /\ bad = {}
           /\ mmap' = [mmap EXCEPT ![p] = Insert(list, i, [begin |-> addr, npages |-> n])]
           /\ nodes' = nodes + Len(list) - Len(mmap'[p])
           /\ MapPages(p, fresh, user)
           /\ UNCHANGED <<live, heap, ustack, tidy, panic>>

LeftPart(r, start) ==
  IF start > r.begin THEN <<[begin |-> r.begin, npages |-> start - r.begin]>> ELSE <<>>
RightPart(r, end) ==
  IF end < End(r) THEN <<[begin |-> end, npages |-> End(r) - end]>> ELSE <<>>

\* The nodes that meet the range, and the pages of one that lie in it.
Hits(list, start, end) ==
  {i \in DOMAIN list : list[i].begin < end /\ start < End(list[i])}
Part(r, start, end) == Max({start, r.begin}) .. Min({end, End(r)}) - 1

\* The regions are sorted, so that those that meet the range follow one
\* another, from node i to node j: of these the part of the first before the
\* range and the part of the last behind it are left.
Cut(list, i, j, start, end) ==
  SubSeq(list, 1, i - 1) \o LeftPart(list[i], start)
    \o RightPart(list[j], end) \o SubSeq(list, j + 1, Len(list))

\* Mutant: the page behind the range counts as part of it.
UnmapEndOver(start, n) == start + n + 1

\* unmap_end.
UnmapEnd(start, n) == start + n

Munmap(p, start, n) ==
  LET end == UnmapEnd(start, n)
      list == mmap[p]
      hits == Hits(list, start, end)
      left == IF hits = {} THEN list ELSE Cut(list, Min(hits), Max(hits), start, end)
      bad == IF start < MMAP_BEGIN \/ end > MMAP_END THEN {"out of range"}
             ELSE IF \E i \in hits : Part(list[i], start, end) = {} THEN {"zero length"}
             ELSE IF Len(left) > Len(list) THEN NoNodes(1) ELSE {}
  IN /\ Running(p)
     /\ \/ \E m \in bad : Panic(m)
        \/ /\ bad = {}
           /\ UnmapPages(p, UNION {Part(list[i], start, end) : i \in hits})
           /\ mmap' = [mmap EXCEPT ![p] = left]
           /\ nodes' = nodes + Len(list) - Len(left)
           /\ UNCHANGED <<live, heap, ustack, panic>>

----------------------------------------------------------------------------
(* fork, exec, proc_free *)

\* The areas that uvm_copy_pgtbl copies and proc_free gives back.
Areas(p) == {USER_BASE} \union HeapPages(heap[p]) \union StackPages(ustack[p])
              \union Covered(mmap[p])

\* A heap that reaches into the other areas is copied a second time with them, over
\* the first copy.
Twice(p) == HeapPages(heap[p]) \intersect (StackPages(ustack[p]) \union Covered(mmap[p]))

\* proc_alloc, uvm_copy_pgtbl and the copy of the region list.
Fork(p, c) ==
  LET own == NewTables \union TablesFor(Areas(p))
      copies == Cardinality(Areas(p)) + Cardinality(Twice(p))
      bad == (IF Areas(p) \subseteq map[p] THEN {} ELSE {"pte missing"})
             \union (IF Cardinality(own) > kpool THEN {"kernel pages"} ELSE {})
             \union (IF copies > upool THEN {"user pages"} ELSE {})
             \union NoNodes(Len(mmap[p]))
  IN /\ Running(p) /\ ~live[c]
     /\ \/ \E m \in bad : Panic(m)
        \/ /\ bad = {}
           /\ live' = [live EXCEPT ![c] = TRUE]
           /\ map' = [map EXCEPT ![c] = Areas(p)]
           /\ nouser' = [nouser EXCEPT ![c] = nouser[p] \intersect Areas(p)]
           /\ tables' = [tables EXCEPT ![c] = own]
           /\ mmap' = [mmap EXCEPT ![c] = mmap[p]]
           /\ heap' = [heap EXCEPT ![c] = heap[p]]
           /\ ustack' = [ustack EXCEPT ![c] = ustack[p]]
           /\ upool' = upool - copies
           /\ kpool' = kpool - Cardinality(own)
           /\ nodes' = nodes - Len(mmap[p])
           /\ UNCHANGED <<tidy, panic>>

\* The highest end of a segment: the stack page is put there.
Top(prog) == Max({0} \union {End(s) : s \in Range(prog)})
Image(prog) == Covered(prog) \union {Top(prog)}
NewOwn(prog) == (NewTables \ {"tf"}) \union TablesFor(Image(prog))

\* The pages uvm_alloc takes for a segment and maps over later: where two segments
\* share a page, the entry is overwritten.
Overwritten(prog) ==
  {c \in (DOMAIN prog) \X Pages :
     /\ c[2] \in PagesOf(prog[c[1]])
     /\ \E j \in DOMAIN prog : c[1] < j /\ c[2] \in PagesOf(prog[j])}

\* A program as linkers lay it out: no two segments share a page, and they and the
\* stack page lie between USER_BASE and MMAP_BEGIN.
WellLaid(prog) ==
  /\ Overwritten(prog) = {}
  /\ prog # <<>> /\ Top(prog) < MMAP_BEGIN
  /\ \A i \in DOMAIN prog : USER_BASE <= prog[i].begin

\* The heap of the new program starts at the end of its stack page.
ExecHeap(top) == (top + 1) * PG

\* uvm_destroy_pgtbl gives back the leaves with PTE_U, and all tables.
Destroyed(p) == map[p] \ nouser[p]

\* proc_exec: the new page table is filled before the old one is destroyed.
Exec(p, prog) ==
  LET image == Image(prog)
      taken == Cardinality(image) + Cardinality(Overwritten(prog))
      own == NewOwn(prog)
      bad == (IF taken > upool THEN {"user pages"} ELSE {})
             \union (IF Cardinality(own) > kpool THEN {"kernel pages"} ELSE {})
  IN /\ Running(p)
     /\ \/ \E m \in bad : Panic(m)
        \/ /\ bad = {}
           /\ upool' = upool - taken + Cardinality(Destroyed(p))
           /\ kpool' = kpool - Cardinality(own) + Cardinality(tables[p] \ {"tf"})
           /\ map' = [map EXCEPT ![p] = image]
           /\ nouser' = [nouser EXCEPT ![p] = {}]
           /\ tables' = [tables EXCEPT ![p] = own \union {"tf"}]
           /\ heap' = [heap EXCEPT ![p] = ExecHeap(Top(prog))]
           /\ ustack' = [ustack EXCEPT ![p] = 1]
           /\ tidy' = (tidy /\ WellLaid(prog) /\ nouser[p] = {})
           /\ UNCHANGED <<live, mmap, nodes, panic>>

\* proc_exec fails when it has mapped the segments of prog: the new page table is
\* destroyed with what it still maps.
ExecFails(p, prog) ==
  /\ Running(p)
  /\ Cardinality(Covered(prog)) + Cardinality(Overwritten(prog)) <= upool
  /\ Cardinality((NewTables \ {"tf"}) \union TablesFor(Covered(prog))) <= kpool
  /\ upool' = upool - Cardinality(Overwritten(prog))
  /\ tidy' = (tidy /\ Overwritten(prog) = {})
  /\ UNCHANGED <<pvars, nodes, kpool, panic>>

\* proc_free of a process that has exited: its areas, its trapframe and the
\* root of its page table.
Free(p) ==
  /\ Running(p) /\ p # Init0
  /\ \/ /\ \E r \in Range(mmap[p]) : r.npages = 0
        /\ Panic("zero length")
     \/ /\ \A r \in Range(mmap[p]) : r.npages > 0
        /\ upool' = upool + Cardinality(map[p] \intersect Areas(p))
        /\ kpool' = kpool + Cardinality({"tf", "root"})
        /\ nodes' = nodes + Len(mmap[p])
        /\ live' = [live EXCEPT ![p] = FALSE]
        /\ map' = [map EXCEPT ![p] = {}] /\ nouser' = [nouser EXCEPT ![p] = {}]
        /\ tables' = [tables EXCEPT ![p] = {}] /\ mmap' = [mmap EXCEPT ![p] = <<>>]
        /\ heap' = [heap EXCEPT ![p] = 0] /\ ustack' = [ustack EXCEPT ![p] = 0]
        /\ UNCHANGED <<tidy, panic>>

\* mmap chooses the address itself when it is given 0.
Starts == {0} \union MMAP_BEGIN .. MMAP_END - 1

Next ==
  \E p \in Procs :
    \/ \E addr \in PG .. MaxBrk * PG : Brk(p, addr)
    \/ \E page \in Pages : StackFault(p, page)
    \/ \E start \in Starts, n \in 0 .. MaxLen, user \in BOOLEAN : Mmap(p, start, n, user)
    \/ \E start \in Starts \ {0}, n \in 0 .. MaxLen : Munmap(p, start, n)
    \/ \E c \in Procs : Fork(p, c)
    \/ \E prog \in Programs :
         Exec(p, prog) \/ \E k \in 0 .. Len(prog) : ExecFails(p, SubSeq(prog, 1, k))
    \/ Free(p)

Spec == Init /\ [][Next]_vars

----------------------------------------------------------------------------
(* Properties *)

\* Through every split and merge the list stays sorted, disjoint and within
\* its area, and neighbours never touch (they are merged).
RegionsApart ==
  /\ TypeOK
  /\ \A p \in Procs : \A i \in DOMAIN mmap[p] :
       /\ mmap[p][i].begin >= MMAP_BEGIN /\ End(mmap[p][i]) <= MMAP_END
       /\ i > 1 => End(mmap[p][i - 1]) < mmap[p][i].begin

\* How much there is in all of what f[p] holds for each process.
Count(f) == Cardinality(UNION {{p} \X f[p] : p \in Procs})

\* No user page is in two places or freed twice, whatever programs do; and none is
\* lost through brk, the stack, mmap, munmap, fork, exec and proc_free, which finds
\* every page of a process in one of its areas, until proc_exec loads a program that
\* is not well laid out or destroys a page table that has pages without PTE_U.
PagesConserved ==
  /\ upool + Count(map) <= NUser
  /\ tidy => /\ upool + Count(map) = NUser
             /\ \A p \in Procs : live[p] => map[p] \subseteq Areas(p)

\* munmap takes exactly the requested pages out of the region list, and out of the
\* page table those that were in it, whichever regions the range cuts, splits or
\* swallows.  (A munmap that changes no list, as of another process, has nothing to
\* take out.)
MunmapExact ==
  [][\A p \in Procs :
       live'[p] /\ mmap'[p] # mmap[p] =>
         \A start \in Starts \ {0}, n \in 1 .. MaxLen :
           Munmap(p, start, n) /\ panic' = "no" =>
             /\ Covered(mmap'[p]) = Covered(mmap[p]) \ (start .. start + n - 1)
             /\ map'[p] = map[p] \ (Covered(mmap[p]) \intersect (start .. start + n - 1))]_mmap

----------------------------------------------------------------------------
(* What the comments and assertions of the code say, and the model refutes *)

\* uvm.c line 450 (assertion): fork finds every page of its parent.
ForkFindsPages == panic # "pte missing"

\* kvm.c line 104 (assertion): no empty range is unmapped.
UnmapsNonEmpty == panic # "zero length"

\* proc/type.h line 103: ustack_npage counts the pages of the user stack.  A
\* fault in a counted page is taken for resolved (uvm_ustack_grow) and would
\* repeat for ever if the page were not there.
StackMapped == \A p \in Procs : live[p] => StackPages(ustack[p]) \subseteq map[p]

\* uvm.c line 415: uvm_destroy_pgtbl destroys the page table and the physical memory
\* it maps.
UserPagesReturned == upool + Count(map) = NUser

\* proc.c line 158: proc_free releases the resources of a process, its page
\* table pages too.
TablesReturned == kpool + Count(tables) = NKern

=============================================================================
