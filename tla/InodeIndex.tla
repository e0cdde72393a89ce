----------------------------- MODULE InodeIndex -----------------------------
(***************************************************************************)
(* The block index of an inode and the data bitmap: locate_or_add_block,   *)
(* free_data_blocks, inode_read_data, inode_write_data, inode_rw and       *)
(* inode_delete of src/kernel/fs/inode.c over src/kernel/fs/bitmap.c.      *)
(*                                                                         *)
(* An inode has D direct entries, S entries of single and one of double    *)
(* indirection; an index block has F entries.  The unit of offsets and     *)
(* sizes is a block.  Blocks are written through (buffer_write); the inode *)
(* itself is written by inode_rw only, and its copy in memory is lost when *)
(* its slot of the inode cache goes to another inode.                      *)
(*                                                                         *)
(* A read or write holds the sleeping lock of its inode from Start to      *)
(* Finish and goes through its blocks entry by entry; in between, the      *)
(* other files read, write, grow and go.  A block is taken from the bitmap *)
(* in one step, under the lock of the bitmap's buffer, together with its   *)
(* entry and its zeroing: until then nobody else knows the block.  Deleting*)
(* is one step: the file has no user left, and what it gives back one by   *)
(* one nobody else names.  That an inode has one copy in memory is the     *)
(* business of InodeCache.                                                 *)
(***************************************************************************)
EXTENDS Naturals, FiniteSetsExt, Functions

CONSTANTS
  Files,
  D, S,           \* INODE_INDEX_1, INODE_INDEX_2 - INODE_INDEX_1
  F,              \* 1024, entries of an index block
  NBlocks,        \* sb.data_blocks
  MaxLen          \* bound on the blocks of one read or write

ASSUME IndexAssumption == {D, S, F, NBlocks, MaxLen} \subseteq Nat \ {0}

Blocks == 1 .. NBlocks
IndexSlots == 0 .. D + S
NLogical == D + S * F + F * F
Logical == 0 .. NLogical - 1
NoEntry == 0

VARIABLES
  live,                       \* inodes in use
  blockmap,                   \* data blocks marked used
  tab, data,                  \* contents of a block, as index and as data
  index, size,                \* disk_info in memory
  dindex, dsize,              \* disk_info on disk
  mode, cur, end, moved,      \* each file: who holds slk, cur, end, total > 0
  depth, at,                  \* entries followed for block cur, where they led
  want,                       \* history: what was written to each file
  fresh,                      \* history: entries of the inode set since inode_rw
  lost                        \* history: blocks whose content went with the slot

hisvars == <<want, fresh, lost>>
blkvars == <<blockmap, tab, data>>
memvars == <<index, size>>
dskvars == <<dindex, dsize>>
walkvars == <<depth, at>>
iovars == <<mode, cur, end, moved, walkvars>>
ixvars == <<live, hisvars, blkvars, memvars, dskvars, iovars>>

Empty == [k \in IndexSlots |-> NoEntry]
ZeroTab == [k \in 0 .. F - 1 |-> NoEntry]
Entries == Blocks \union {NoEntry}

\* The type invariant.
IndexTypeOK ==
  /\ live \subseteq Files /\ want \in [Files -> [Logical -> 0 .. 1]]
  /\ fresh \in [Files -> SUBSET IndexSlots] /\ lost \in [Files -> SUBSET Logical]
  /\ blockmap \subseteq Blocks
  /\ tab \in [Blocks -> [0 .. F - 1 -> Entries]] /\ data \in [Blocks -> 0 .. 1]
  /\ index \in [Files -> [IndexSlots -> Entries]] /\ size \in [Files -> 0 .. NLogical]
  /\ dindex \in [Files -> [IndexSlots -> Entries]] /\ dsize \in [Files -> 0 .. NLogical]
  /\ mode \in [Files -> {"none", "read", "write"}] /\ moved \in [Files -> BOOLEAN]
  /\ cur \in [Files -> Nat] /\ end \in [Files -> Nat]
  /\ depth \in [Files -> 0 .. 3] /\ at \in [Files -> Entries]

\* An empty disk.
IndexInit ==
  /\ live = {} /\ want = [f \in Files |-> [l \in Logical |-> 0]]
  /\ fresh = [f \in Files |-> {}] /\ lost = fresh
  /\ blockmap = {} /\ tab = [b \in Blocks |-> ZeroTab] /\ data = [b \in Blocks |-> 0]
  /\ index = [f \in Files |-> Empty] /\ dindex = index
  /\ size = [f \in Files |-> 0] /\ dsize = size
  /\ mode = [f \in Files |-> "none"] /\ moved = [f \in Files |-> FALSE]
  /\ cur = [f \in Files |-> 0] /\ end = cur
  /\ depth = [f \in Files |-> 0] /\ at = [f \in Files |-> NoEntry]

----------------------------------------------------------------------------
(* locate_or_add_block *)

Stop == F                     \* the way to a block ends here

\* The entries that lead to a logical block: one of the inode, then one of
\* each index block.
Path(l) ==
  IF l < D THEN <<l, Stop, Stop>>
  ELSE IF l - D < S * F THEN <<D + (l - D) \div F, (l - D) % F, Stop>>
  ELSE LET m == l - D - S * F IN <<D + S, m \div F, m % F>>

Levels(p) == IF p[2] = Stop THEN 1 ELSE IF p[3] = Stop THEN 2 ELSE 3

\* The entry that the walk for block cur[f] looks at.
EntryOf(f) ==
  LET k == Path(cur[f])[depth[f] + 1]
  IN IF depth[f] = 0 THEN index[f][k] ELSE tab[at[f]][k]

Walking(f) ==
  /\ mode[f] # "none" /\ cur[f] < end[f] /\ cur[f] \in Logical
  /\ depth[f] < Levels(Path(cur[f]))

Descend(f, b) ==
  /\ depth' = [depth EXCEPT ![f] = @ + 1] /\ at' = [at EXCEPT ![f] = b]

Follow(f) ==
  /\ Walking(f) /\ EntryOf(f) # NoEntry /\ Descend(f, EntryOf(f))
  /\ UNCHANGED <<live, hisvars, blkvars, memvars, dskvars, mode, cur, end, moved>>

\* Mutant: a new block keeps what it held before.
EnterDirty(f, b) ==
  LET k == Path(cur[f])[depth[f] + 1]
  IN IF depth[f] = 0
     THEN index' = [index EXCEPT ![f][k] = b] /\ UNCHANGED tab
     ELSE tab' = [tab EXCEPT ![at[f]][k] = b] /\ UNCHANGED index

\* A missing block is entered and zeroed.
Enter(f, b) ==
  LET k == Path(cur[f])[depth[f] + 1]
  IN IF depth[f] = 0
     THEN index' = [index EXCEPT ![f][k] = b] /\ tab' = [tab EXCEPT ![b] = ZeroTab]
     ELSE tab' = [tab EXCEPT ![b] = ZeroTab, ![at[f]][k] = b] /\ UNCHANGED index

\* The block is the lowest free one of the bitmap.
Extend(f) ==
  /\ Walking(f) /\ EntryOf(f) = NoEntry /\ blockmap # Blocks
  /\ LET b == Min(Blocks \ blockmap) IN
       /\ blockmap' = blockmap \union {b} /\ data' = [data EXCEPT ![b] = 0]
       /\ Enter(f, b) /\ Descend(f, b)
  /\ fresh' = [fresh EXCEPT ![f] =
                 IF depth[f] = 0 THEN @ \union {Path(cur[f])[1]} ELSE @]
  /\ UNCHANGED <<live, want, lost, size, dskvars, mode, cur, end, moved>>

\* No block left, or none so far behind: -1, and the loop of the caller ends.
\* What was added on the way stays.
Fail(f) ==
  /\ mode[f] # "none" /\ cur[f] < end[f]
  /\ cur[f] \notin Logical \/ (Walking(f) /\ EntryOf(f) = NoEntry /\ blockmap = Blocks)
  /\ end' = [end EXCEPT ![f] = cur[f]]
  /\ UNCHANGED <<live, hisvars, blkvars, memvars, dskvars, mode, cur, moved, walkvars>>

----------------------------------------------------------------------------
(* inode_read_data, inode_write_data *)

Start(f, what, first, last) ==
  /\ f \in live /\ mode[f] = "none"
  /\ mode' = [mode EXCEPT ![f] = what] /\ moved' = [moved EXCEPT ![f] = FALSE]
  /\ cur' = [cur EXCEPT ![f] = first] /\ end' = [end EXCEPT ![f] = last]
  /\ UNCHANGED <<live, hisvars, blkvars, memvars, dskvars, walkvars>>

\* Any offset lseek can set, also beyond the size.
StartWrite(f, off, n) == Start(f, "write", off, off + n)

\* Up to the size, whether the blocks exist or not.
StartRead(f, off, n) ==
  off < size[f] /\ Start(f, "read", off, IF off + n < size[f] THEN off + n ELSE size[f])

\* The block is found; a write leaves 1 in it, and the next block is looked for.
Transfer(f) ==
  /\ mode[f] # "none" /\ cur[f] < end[f] /\ cur[f] \in Logical
  /\ depth[f] = Levels(Path(cur[f]))
  /\ \/ /\ mode[f] = "write"
        /\ data' = [data EXCEPT ![at[f]] = 1] /\ want' = [want EXCEPT ![f][cur[f]] = 1]
        /\ lost' = [lost EXCEPT ![f] = @ \ {cur[f]}]
     \/ mode[f] = "read" /\ UNCHANGED <<data, want, lost>>
  /\ cur' = [cur EXCEPT ![f] = @ + 1] /\ moved' = [moved EXCEPT ![f] = TRUE]
  /\ depth' = [depth EXCEPT ![f] = 0] /\ at' = [at EXCEPT ![f] = NoEntry]
  /\ UNCHANGED <<live, fresh, blockmap, tab, memvars, dskvars, mode, end>>

\* Mutant: a write that grew the file does not write the inode.
FinishNoSave(f) ==
  LET grows == mode[f] = "write" /\ moved[f] /\ cur[f] > size[f] IN
    /\ mode[f] # "none" /\ cur[f] = end[f]
    /\ size' = [size EXCEPT ![f] = IF grows THEN cur[f] ELSE @]
    /\ fresh' = [fresh EXCEPT ![f] = IF grows THEN {} ELSE @]
    /\ mode' = [mode EXCEPT ![f] = "none"]
    /\ cur' = [cur EXCEPT ![f] = 0] /\ end' = [end EXCEPT ![f] = 0]
    /\ moved' = [moved EXCEPT ![f] = FALSE]
    /\ depth' = [depth EXCEPT ![f] = 0] /\ at' = [at EXCEPT ![f] = NoEntry]
    /\ UNCHANGED <<live, want, lost, blkvars, index, dskvars>>

\* inode_rw if the file grew; the lock is released.
Finish(f) ==
  LET grows == mode[f] = "write" /\ moved[f] /\ cur[f] > size[f] IN
    /\ mode[f] # "none" /\ cur[f] = end[f]
    /\ \/ /\ grows
          /\ size' = [size EXCEPT ![f] = cur[f]] /\ dsize' = [dsize EXCEPT ![f] = cur[f]]
          /\ dindex' = [dindex EXCEPT ![f] = index[f]]
          /\ fresh' = [fresh EXCEPT ![f] = {}]
       \/ ~ grows /\ UNCHANGED <<size, dskvars, fresh>>
    /\ mode' = [mode EXCEPT ![f] = "none"]
    /\ cur' = [cur EXCEPT ![f] = 0] /\ end' = [end EXCEPT ![f] = 0]
    /\ moved' = [moved EXCEPT ![f] = FALSE]
    /\ depth' = [depth EXCEPT ![f] = 0] /\ at' = [at EXCEPT ![f] = NoEntry]
    /\ UNCHANGED <<live, want, lost, blkvars, index>>

----------------------------------------------------------------------------
(* The inode as a whole, its lock free *)

Idle(f) == f \in live /\ mode[f] = "none"

\* path_link and path_unlink change nlink and save the inode (inode_rw).
Save(f) ==
  /\ Idle(f)
  /\ dindex' = [dindex EXCEPT ![f] = index[f]] /\ dsize' = [dsize EXCEPT ![f] = size[f]]
  /\ fresh' = [fresh EXCEPT ![f] = {}]
  /\ UNCHANGED <<live, want, lost, blkvars, memvars, iovars>>

\* The block at a place of an index, if every block on the way exists.
BlockAt(idx, p) ==
  LET one == idx[p[1]]
      two == IF p[2] = Stop \/ one = NoEntry THEN one ELSE tab[one][p[2]]
  IN IF p[3] = Stop \/ two = NoEntry THEN two ELSE tab[two][p[3]]

\* What a reader of block l finds through an index; a hole reads as zero.
Content(idx, l) ==
  LET b == BlockAt(idx, Path(l)) IN IF b = NoEntry THEN 0 ELSE data[b]

\* The slot of an inode without users goes to another one; the next
\* inode_lock reads the disk.  With the entries set since the inode was last
\* written goes what was written below them: the code loses it.
Evict(f) ==
  /\ Idle(f)
  /\ index' = [index EXCEPT ![f] = dindex[f]] /\ size' = [size EXCEPT ![f] = dsize[f]]
  /\ lost' = [lost EXCEPT ![f] =
                @ \union {l \in Logical : want[f][l] = 1 /\ Path(l)[1] \in fresh[f]}]
  /\ fresh' = [fresh EXCEPT ![f] = {}]
  /\ UNCHANGED <<live, want, blkvars, dskvars, iovars>>

\* Blocks below an entry of the inode, the index blocks included.
Named(set) == (UNION {Range(tab[c]) : c \in set}) \ {NoEntry}
Below(b, level) ==
  IF b = NoEntry THEN {}
  ELSE CASE level = 0 -> {b}
         [] level = 1 -> {b} \union Named({b})
         [] level = 2 -> {b} \union Named({b}) \union Named(Named({b}))
Level(k) == IF k < D THEN 0 ELSE IF k < D + S THEN 1 ELSE 2
Reach(idx) == UNION {Below(idx[k], Level(k)) : k \in IndexSlots}

\* free_data_blocks stops at the first empty entry of the inode.
Freed(idx) == {k \in IndexSlots : \A j \in 0 .. k : idx[j] # NoEntry}

\* inode_delete.
Delete(f) ==
  LET gone == Freed(index[f]) IN
    /\ Idle(f) /\ live' = live \ {f}
    /\ blockmap' = blockmap \ UNION {Below(index[f][k], Level(k)) : k \in gone}
    /\ index' = [index EXCEPT ![f] =
                   [k \in IndexSlots |-> IF k \in gone THEN NoEntry ELSE @[k]]]
    /\ size' = [size EXCEPT ![f] = 0]
    /\ dindex' = [dindex EXCEPT ![f] = index'[f]] /\ dsize' = [dsize EXCEPT ![f] = 0]
    /\ want' = [want EXCEPT ![f] = [l \in Logical |-> 0]]
    /\ fresh' = [fresh EXCEPT ![f] = {}] /\ lost' = [lost EXCEPT ![f] = {}]
    /\ UNCHANGED <<tab, data, iovars>>

\* inode_create: an empty index, written to the disk.
Create(f) ==
  /\ f \notin live /\ live' = live \union {f}
  /\ index' = [index EXCEPT ![f] = Empty] /\ dindex' = [dindex EXCEPT ![f] = Empty]
  /\ size' = [size EXCEPT ![f] = 0] /\ dsize' = [dsize EXCEPT ![f] = 0]
  /\ UNCHANGED <<hisvars, blkvars, iovars>>

FileStep(f) ==
  \/ \E off \in Logical, n \in 1 .. MaxLen : StartWrite(f, off, n) \/ StartRead(f, off, n)
  \/ Follow(f) \/ Extend(f) \/ Fail(f) \/ Transfer(f) \/ Finish(f)
  \/ Save(f) \/ Evict(f) \/ Delete(f) \/ Create(f)

IndexNext == \E f \in Files : FileStep(f)

IndexSpec == IndexInit /\ [][IndexNext]_ixvars

----------------------------------------------------------------------------
(* Properties *)

\* Entries that name a block: of an inode in memory, of its index blocks.
IndexBlocks(f) == UNION {Below(index[f][k], Level(k) - 1) : k \in D .. D + S}
Namers(b) ==
  LET entry == {x \in live \X IndexSlots : index[x[1]][x[2]] = b}
      inner == {x \in (UNION {IndexBlocks(f) : f \in live}) \X (0 .. F - 1) :
                  tab[x[1]][x[2]] = b}
  IN {<<"inode", x[1], x[2]>> : x \in entry} \union {<<"block", x[1], x[2]>> : x \in inner}

\* A block that a file can reach, from its inode in memory or on disk, is
\* marked used, and one entry only names it: no two files, and no two places
\* of a file, share a block.
BlocksOwned ==
  /\ IndexTypeOK
  /\ \A f \in live : Reach(index[f]) \union Reach(dindex[f]) \subseteq blockmap
  /\ \A b \in Blocks : Cardinality(Namers(b)) <= 1

\* A file holds what was written to it and zeroes elsewhere, whatever was
\* written to other blocks and files and whichever blocks were used before; only
\* what a write that did not grow the file put below an entry of the inode that
\* was empty, and no inode_rw followed, is gone when the slot is reused.  Between
\* two calls the disk has the size, and every block written is below it.
ContentIsWritten ==
  \A f \in live :
    /\ \A l \in Logical : Content(index[f], l) = IF l \in lost[f] THEN 0 ELSE want[f][l]
    /\ mode[f] = "none" =>
         dsize[f] = size[f] /\ \A l \in Logical : want[f][l] = 1 => l < size[f]

----------------------------------------------------------------------------
(* What the comments and assertions of the code say, and the model refutes *)

\* type.h line 173: disk_info is the persistent information of an inode; what
\* was written survives the reuse of the slot.
WrittenSurvives == \A f \in live : lost[f] = {}

\* inode.c line 349: deleting a file releases all data blocks it occupies.
DeleteFreesAll == [][\A f \in Files : Delete(f) => Reach(index[f]) \intersect blockmap' = {}]_ixvars

=============================================================================
