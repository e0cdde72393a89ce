------------------------------ MODULE BufCache ------------------------------
(***************************************************************************)
(* The block buffer cache, src/kernel/fs/buf.c.  Threads call buffer_get,  *)
(* change the data and call buffer_write, then buffer_put; another caller  *)
(* gives pages back with buffer_freemem.                                   *)
(*                                                                         *)
(* A section under lk_buf_cache is one step.  Each buffer's sleeping lock  *)
(* is an AbsLock (what SleepLock is shown to implement): owner[n] is its   *)
(* holder.  A disk transfer happens inside virtio_disk_rw while the caller *)
(* holds the buffer's lock, and is one step.                               *)
(*                                                                         *)
(* A block's content is [blk, ver]: whose content it is, and how often it  *)
(* was modified.  Threads use one buffer at a time, as read and write of a *)
(* block do; every modification in the file system is followed by          *)
(* buffer_write before buffer_put.                                         *)
(***************************************************************************)
EXTENDS Naturals, SequencesExt

CONSTANTS
  Threads,   \* processes inside the file system
  Blocks,    \* block numbers
  NBuf,      \* N_BUFFER
  MaxVer,    \* bound on modifications of a block's content
  Unused,    \* BLOCK_NUM_UNUSED
  None       \* NULL data; a free sleeping lock; no buffer

ASSUME NBufAssumption == NBuf \in Nat \ {0}
ASSUME MaxVerAssumption == MaxVer \in Nat
ASSUME ThreadsAssumption == IsFiniteSet(Threads)
ASSUME NoneAssumption == Unused \notin Blocks /\ None \notin Threads

Bufs == 1 .. NBuf

VARIABLES
  active, inactive,  \* the two lists, from head->next on
  block_num, ref,    \* block_num[n], ref[n]: protected by lk_buf_cache
  data,              \* data[n]: content of the page, or None
  owner,             \* owner[n]: the holder of buf.slk
  disk,              \* disk[b]: content of block b on disk
  pc,                \* pc[t]: where t is in its use of a buffer
  cur,               \* cur[t]: the buffer it uses
  want,              \* want[t]: the block it asked for
  fill,              \* fill[t]: its buffer_get missed and must read the disk
  panic              \* buffer_get found no free buffer

tvars == <<pc, cur, want, fill>>
vars == <<active, inactive, block_num, ref, data, owner, disk, tvars, panic>>

Content == [blk : Blocks \union {Unused}, ver : 0 .. MaxVer]
ASSUME PageAssumption == None \notin Content
Zeroed == [blk |-> Unused, ver |-> 0]      \* a page fresh from pmem_alloc

\* The type invariant.
TypeOK ==
  /\ active \in Seq(Bufs) /\ inactive \in Seq(Bufs)
  /\ block_num \in [Bufs -> Blocks \union {Unused}]
  /\ ref \in [Bufs -> 0 .. Cardinality(Threads)]
  /\ data \in [Bufs -> Content \union {None}]
  /\ owner \in [Bufs -> Threads \union {None}]
  /\ disk \in [Blocks -> Content]
  /\ pc \in [Threads -> {"idle", "lock", "read", "hold", "dirty", "unlock"}]
  /\ cur \in [Threads -> Bufs \union {None}]
  /\ want \in [Threads -> Blocks \union {Unused}]
  /\ fill \in [Threads -> BOOLEAN]
  /\ panic \in BOOLEAN

\* buffer_init: every node goes to the head of the inactive list.
Init ==
  /\ active = << >> /\ inactive = Reverse([i \in Bufs |-> i])
  /\ block_num = [n \in Bufs |-> Unused]
  /\ ref = [n \in Bufs |-> 0]
  /\ data = [n \in Bufs |-> None]
  /\ owner = [n \in Bufs |-> None]
  /\ disk = [b \in Blocks |-> [blk |-> b, ver |-> 0]]
  /\ pc = [t \in Threads |-> "idle"]
  /\ cur = [t \in Threads |-> None]
  /\ want = [t \in Threads |-> Unused]
  /\ fill = [t \in Threads |-> FALSE]
  /\ panic = FALSE

\* insert_node(node, active?, true): unlink n, then link it behind a list's head.
ToActive(n) ==
  /\ active' = <<n>> \o RemoveFirst(active, n)
  /\ inactive' = RemoveFirst(inactive, n)

ToInactive(n) ==
  /\ active' = RemoveFirst(active, n)
  /\ inactive' = <<n>> \o RemoveFirst(inactive, n)

Holds(list, b) == \E i \in DOMAIN list : block_num[list[i]] = b
FirstHolding(list, b) == list[SelectInSeq(list, LAMBDA n : block_num[n] = b)]

\* t leaves lk_buf_cache with a reference to n and goes for buf.slk.
Referenced(t, n, b, miss) ==
  /\ pc' = [pc EXCEPT ![t] = "lock"]
  /\ cur' = [cur EXCEPT ![t] = n]
  /\ want' = [want EXCEPT ![t] = b]
  /\ fill' = [fill EXCEPT ![t] = miss]
  /\ UNCHANGED <<owner, disk, panic>>

----------------------------------------------------------------------------
(* buffer_get *)

\* Mutant: a hit in the active list is not counted.
GetActiveNoRef(t, b) ==
  /\ ~panic /\ pc[t] = "idle" /\ Holds(active, b)
  /\ Referenced(t, FirstHolding(active, b), b, FALSE)
  /\ UNCHANGED <<active, inactive, block_num, ref, data>>

GetActive(t, b) ==
  /\ ~panic /\ pc[t] = "idle" /\ Holds(active, b)
  /\ LET n == FirstHolding(active, b) IN
       /\ ref' = [ref EXCEPT ![n] = @ + 1]
       /\ Referenced(t, n, b, FALSE)
  /\ UNCHANGED <<active, inactive, block_num, data>>

GetInactive(t, b) ==
  /\ ~panic /\ pc[t] = "idle" /\ ~Holds(active, b) /\ Holds(inactive, b)
  /\ LET n == FirstHolding(inactive, b) IN
       /\ ref' = [ref EXCEPT ![n] = 1]
       /\ ToActive(n)
       /\ Referenced(t, n, b, FALSE)
  /\ UNCHANGED <<block_num, data>>

\* Mutant: a miss does not look for the block in the inactive list.
GetMissBlind(t, b) ==
  /\ ~panic /\ pc[t] = "idle" /\ ~Holds(active, b)
  /\ inactive # << >>
  /\ LET n == Head(inactive) IN
       /\ block_num' = [block_num EXCEPT ![n] = b]
       /\ ref' = [ref EXCEPT ![n] = 1]
       /\ data' = [data EXCEPT ![n] = IF @ = None THEN Zeroed ELSE @]
       /\ ToActive(n)
       /\ Referenced(t, n, b, TRUE)

\* The victim is the first inactive node; it gets a page if it has none.
GetMiss(t, b) ==
  /\ ~panic /\ pc[t] = "idle" /\ ~Holds(active, b) /\ ~Holds(inactive, b)
  /\ inactive # << >>
  /\ LET n == Head(inactive) IN
       /\ block_num' = [block_num EXCEPT ![n] = b]
       /\ ref' = [ref EXCEPT ![n] = 1]
       /\ data' = [data EXCEPT ![n] = IF @ = None THEN Zeroed ELSE @]
       /\ ToActive(n)
       /\ Referenced(t, n, b, TRUE)

GetPanics(t, b) ==
  /\ ~panic /\ pc[t] = "idle" /\ ~Holds(active, b) /\ inactive = << >>
  /\ panic' = TRUE
  /\ UNCHANGED <<active, inactive, block_num, ref, data, owner, disk, tvars>>

\* sleeplock_acquire(&buf->slk).
LockBuf(t) ==
  /\ ~panic /\ pc[t] = "lock" /\ owner[cur[t]] = None
  /\ owner' = [owner EXCEPT ![cur[t]] = t]
  /\ pc' = [pc EXCEPT ![t] = IF fill[t] THEN "read" ELSE "hold"]
  /\ UNCHANGED <<active, inactive, block_num, ref, data, disk, cur, want, fill, panic>>

\* buffer_read; buffer_get returns.
ReadBlock(t) ==
  /\ ~panic /\ pc[t] = "read"
  /\ data' = [data EXCEPT ![cur[t]] = disk[block_num[cur[t]]]]
  /\ pc' = [pc EXCEPT ![t] = "hold"]
  /\ fill' = [fill EXCEPT ![t] = FALSE]
  /\ UNCHANGED <<active, inactive, block_num, ref, owner, disk, cur, want, panic>>

----------------------------------------------------------------------------
(* The caller's change to the data, and buffer_write *)

Modify(t) ==
  /\ ~panic /\ pc[t] = "hold" /\ data[cur[t]].ver < MaxVer
  /\ data' = [data EXCEPT ![cur[t]].ver = @ + 1]
  /\ pc' = [pc EXCEPT ![t] = "dirty"]
  /\ UNCHANGED <<active, inactive, block_num, ref, owner, disk, cur, want, fill, panic>>

\* Mutant: the block is not written.
WriteLost(t) ==
  /\ ~panic /\ pc[t] = "dirty"
  /\ pc' = [pc EXCEPT ![t] = "hold"]
  /\ UNCHANGED <<active, inactive, block_num, ref, data, owner, disk, cur, want, fill, panic>>

WriteBlock(t) ==
  /\ ~panic /\ pc[t] = "dirty"
  /\ disk' = [disk EXCEPT ![block_num[cur[t]]] = data[cur[t]]]
  /\ pc' = [pc EXCEPT ![t] = "hold"]
  /\ UNCHANGED <<active, inactive, block_num, ref, data, owner, cur, want, fill, panic>>

----------------------------------------------------------------------------
(* buffer_put: the reference goes first, the sleeping lock after it *)

\* Mutant: the reference is dropped twice.
PutTwice(t) ==
  /\ ~panic /\ pc[t] = "hold"
  /\ ref' = [ref EXCEPT ![cur[t]] = @ - 2]
  /\ IF ref[cur[t]] = 2 THEN ToInactive(cur[t]) ELSE UNCHANGED <<active, inactive>>
  /\ pc' = [pc EXCEPT ![t] = "unlock"]
  /\ UNCHANGED <<block_num, data, owner, disk, cur, want, fill, panic>>

PutRef(t) ==
  /\ ~panic /\ pc[t] = "hold"
  /\ ref' = [ref EXCEPT ![cur[t]] = @ - 1]
  /\ IF ref[cur[t]] = 1 THEN ToInactive(cur[t]) ELSE UNCHANGED <<active, inactive>>
  /\ pc' = [pc EXCEPT ![t] = "unlock"]
  /\ UNCHANGED <<block_num, data, owner, disk, cur, want, fill, panic>>

PutUnlock(t) ==
  /\ ~panic /\ pc[t] = "unlock"
  /\ owner' = [owner EXCEPT ![cur[t]] = None]
  /\ pc' = [pc EXCEPT ![t] = "idle"]
  /\ cur' = [cur EXCEPT ![t] = None]
  /\ want' = [want EXCEPT ![t] = Unused]
  /\ UNCHANGED <<active, inactive, block_num, ref, data, disk, fill, panic>>

----------------------------------------------------------------------------
(* buffer_freemem(count): walk the inactive list from its head and drop up *)
(* to count pages.                                                         *)

\* The nodes of a list that a walk from its head with this budget gives up.
Victims(list, count) ==
  LET HasPage(i) == data[list[i]] # None
  IN  {list[i] : i \in {j \in DOMAIN list :
         HasPage(j) /\ Cardinality({k \in 1 .. j : HasPage(k)}) <= count}}

Drop(V) ==
  /\ V # {}
  /\ data' = [n \in Bufs |-> IF n \in V THEN None ELSE data[n]]
  /\ block_num' = [n \in Bufs |-> IF n \in V THEN Unused ELSE block_num[n]]
  /\ UNCHANGED <<active, inactive, ref, owner, disk, tvars, panic>>

\* Mutant: pages are taken from the active list too.
FreememBothLists(count) ==
  /\ ~panic
  /\ Drop(Victims(inactive \o active, count))

Freemem(count) ==
  /\ ~panic
  /\ Drop(Victims(inactive, count))

Halted == panic /\ UNCHANGED vars

Next ==
  \/ \E t \in Threads, b \in Blocks :
       GetActive(t, b) \/ GetInactive(t, b) \/ GetMiss(t, b) \/ GetPanics(t, b)
  \/ \E t \in Threads :
       \/ LockBuf(t) \/ ReadBlock(t) \/ Modify(t) \/ WriteBlock(t)
       \/ PutRef(t) \/ PutUnlock(t)
  \/ \E count \in Bufs : Freemem(count)
  \/ Halted

Spec == Init /\ [][Next]_vars

----------------------------------------------------------------------------
(* Properties *)

\* t holds a reference to cur[t]: between buffer_get's section under
\* lk_buf_cache and buffer_put's.
Refers(t) == pc[t] \in {"lock", "read", "hold", "dirty"}

\* ref counts the threads that use or wait for the buffer, and the lists
\* partition the nodes by it: whatever the interleaving of gets and puts, the
\* victim search and buffer_freemem meet only nodes that nobody refers to.
RefCountsUsers ==
  /\ \A n \in Bufs : ref[n] = Cardinality({t \in Threads : Refers(t) /\ cur[t] = n})
  /\ IsInjective(active) /\ IsInjective(inactive)
  /\ \A n \in Bufs : /\ n \in Range(active) <=> ref[n] > 0
                     /\ n \in Range(inactive) <=> ref[n] = 0

\* A block is cached once: two threads after the same block meet in one buffer.
OneBufferPerBlock ==
  \A m, n \in Bufs : block_num[m] = block_num[n] /\ block_num[n] # Unused => m = n

\* While a thread waits for or uses a buffer, the buffer keeps the block the
\* thread asked for and keeps its page: neither a miss elsewhere nor
\* buffer_freemem takes it away, although both ignore buf.slk.
UsersKeepTheirBlock ==
  \A t \in Threads : Refers(t) => block_num[cur[t]] = want[t] /\ data[cur[t]] # None

\* A cached block equals the block on disk unless it is still to be read or its
\* user has changed it and not yet written it back.
CacheCoherent ==
  \A n \in Bufs :
    \/ block_num[n] = Unused
    \/ \E t \in Threads : Refers(t) /\ cur[t] = n /\ (fill[t] \/ pc[t] = "dirty")
    \/ data[n] = disk[block_num[n]]

----------------------------------------------------------------------------
(* What the comments and assertions of the code say, and the model refutes *)

\* What buffer_get returns is the content of the block asked for.
GetReturnsBlock ==
  \A t \in Threads : pc[t] = "hold" => data[cur[t]].blk = want[t]

\* buffer_freemem prefers the far end of the inactive list.
FreesFromBack ==
  [][\A i, j \in DOMAIN inactive :
       i < j /\ data[inactive[i]] # None /\ data'[inactive[i]] = None
         => data'[inactive[j]] = None]_vars

\* A buffer that has been used is given to a new block only when it is the least
\* recently released one.
VictimIsLRU ==
  [][\A b \in Blocks, n \in Bufs :
       data[n] # None /\ block_num[n] # b /\ block_num'[n] = b
         => n = Last(inactive)]_vars

=============================================================================
