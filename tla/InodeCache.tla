----------------------------- MODULE InodeCache -----------------------------
(***************************************************************************)
(* The inode cache of src/kernel/fs/inode.c used by threads that open,     *)
(* close, create, link and unlink files of one directory                   *)
(* (src/kernel/fs/dentry.c, fs.c).                                         *)
(*                                                                         *)
(* The steps are the stretches between two points where the code holds a   *)
(* different set of locks: the sleeping lock of the directory (dirLk), the *)
(* sleeping lock of a slot (slk) and lk_inode_cache, which is held within  *)
(* a step only.  Names, link counts and the inode bitmap are kept; the     *)
(* data of files and directories is not, nor is the inode of the           *)
(* directory itself, which every thread holds a reference to.              *)
(***************************************************************************)
EXTENDS Naturals, FiniteSetsExt

CONSTANTS
  Threads, Names,
  NInum,          \* inode numbers 1 .. NInum; the directory's is 0
  NSlot,          \* N_INODE, slots of inode_cache
  MaxLink,        \* bound on the links of a file
  None

ASSUME SizeAssumption == {NInum, NSlot, MaxLink} \subseteq Nat \ {0}
ASSUME NoneAssumption == None \notin Threads /\ None \notin Nat
ASSUME ThreadsAssumption == IsFiniteSet(Threads)

Inums == 1 .. NInum
Slots == 1 .. NSlot

VARIABLES
  dir, dirLk,                      \* directory entries and their lock
  bitmap, dlink,                   \* allocated inodes, nlink on disk
  num, ref, valid, nlink, slk,     \* inode_t of each slot
  pc, op, name, inum, ip           \* each thread: its point and its locals

dvars == <<dir, dirLk>>
kvars == <<bitmap, dlink>>
svars == <<num, ref, valid, nlink, slk>>
tvars == <<op, name, inum, ip>>
vars == <<dvars, kvars, svars, tvars, pc>>

Ops == {"open", "create", "link", "unlink"}
Points == {"idle", "get", "opened", "hold", "lock", "body", "link",
           "put", "del", "free", "inval", "drop"}

\* The type invariant.
TypeOK ==
  /\ dir \in [Names -> Inums \union {None}] /\ dirLk \in Threads \union {None}
  /\ bitmap \subseteq Inums /\ dlink \in [Inums -> Nat]
  /\ num \in [Slots -> Inums \union {None}] /\ ref \in [Slots -> Nat]
  /\ valid \in [Slots -> BOOLEAN] /\ nlink \in [Slots -> Nat]
  /\ slk \in [Slots -> Threads \union {None}]
  /\ pc \in [Threads -> Points] /\ op \in [Threads -> Ops]
  /\ name \in [Threads -> Names] /\ inum \in [Threads -> Inums]
  /\ ip \in [Threads -> Slots]

\* One file with one link exists; the cache is empty (inode_init).
Init ==
  /\ \E n \in Names : /\ dir = [m \in Names |-> IF m = n THEN 1 ELSE None]
                      /\ name = [t \in Threads |-> n]
  /\ dirLk = None
  /\ bitmap = {1} /\ dlink = [i \in Inums |-> IF i = 1 THEN 1 ELSE 0]
  /\ num = [s \in Slots |-> None] /\ ref = [s \in Slots |-> 0]
  /\ valid = [s \in Slots |-> FALSE] /\ nlink = [s \in Slots |-> 0]
  /\ slk = [s \in Slots |-> None]
  /\ pc = [t \in Threads |-> "idle"] /\ op = [t \in Threads |-> "open"]
  /\ inum = [t \in Threads |-> 1] /\ ip = [t \in Threads |-> 1]

Goto(t, point) == pc' = [pc EXCEPT ![t] = point]
Begin(t, o, n, i) ==
  /\ op' = [op EXCEPT ![t] = o] /\ name' = [name EXCEPT ![t] = n]
  /\ inum' = [inum EXCEPT ![t] = i] /\ UNCHANGED ip

----------------------------------------------------------------------------
(* The start of each operation, up to inode_get *)

\* path_to_inode: dentry_search under the directory's lock, then unlock.
Search(t, o, n) ==
  /\ pc[t] = "idle" /\ o \in {"open", "link"} /\ dirLk = None /\ dir[n] # None
  /\ Begin(t, o, n, dir[n]) /\ Goto(t, "get")
  /\ UNCHANGED <<dvars, kvars, svars>>

\* path_unlink: dentry_delete; the directory stays locked.
UnlinkEntry(t, n) ==
  /\ pc[t] = "idle" /\ dirLk = None /\ dir[n] # None
  /\ dirLk' = t /\ dir' = [dir EXCEPT ![n] = None]
  /\ Begin(t, "unlink", n, dir[n]) /\ Goto(t, "get")
  /\ UNCHANGED <<kvars, svars>>

\* path_create_inode: the name is free, bitmap_alloc_inode takes the lowest
\* free inode; the directory stays locked.
CreateEntry(t, n) ==
  /\ pc[t] = "idle" /\ dirLk = None /\ dir[n] = None /\ bitmap # Inums
  /\ dirLk' = t /\ UNCHANGED dir
  /\ LET i == Min(Inums \ bitmap) IN
       /\ bitmap' = bitmap \union {i} /\ UNCHANGED dlink
       /\ Begin(t, "create", n, i)
  /\ Goto(t, "get") /\ UNCHANGED svars

\* The name is missing, taken, or there is no inode left: -1 is returned.
ReturnError(t, n) ==
  /\ pc[t] = "idle" /\ dirLk = None /\ (dir[n] = None \/ bitmap = Inums)
  /\ UNCHANGED vars

----------------------------------------------------------------------------
(* inode_get, inode_lock *)

AfterGet(o) == CASE o = "open" -> "opened" [] o = "link" -> "link" [] OTHER -> "lock"

\* Mutant: a slot in use may be taken for a new inode.
GetBlind(t) ==
  /\ pc[t] = "get"
  /\ LET s == Min(Slots) IN
       /\ ref' = [ref EXCEPT ![s] = @ + 1] /\ num' = [num EXCEPT ![s] = inum[t]]
       /\ valid' = [valid EXCEPT ![s] = @ /\ num[s] = inum[t]]
       /\ ip' = [ip EXCEPT ![t] = s]
  /\ Goto(t, AfterGet(op[t]))
  /\ UNCHANGED <<dvars, kvars, nlink, slk, op, name, inum>>

\* The first slot with this inode and valid content, else the first unused.
Get(t) ==
  /\ pc[t] = "get"
  /\ LET hit == {s \in Slots : num[s] = inum[t] /\ valid[s]}
         unused == {s \in Slots : ref[s] = 0}
     IN \/ /\ hit # {}
           /\ LET s == Min(hit) IN
                /\ ref' = [ref EXCEPT ![s] = @ + 1] /\ UNCHANGED <<num, valid>>
                /\ ip' = [ip EXCEPT ![t] = s]
        \/ /\ hit = {} /\ unused # {}
           /\ LET s == Min(unused) IN
                /\ ref' = [ref EXCEPT ![s] = 1] /\ num' = [num EXCEPT ![s] = inum[t]]
                /\ valid' = [valid EXCEPT ![s] = FALSE]
                /\ ip' = [ip EXCEPT ![t] = s]
  /\ Goto(t, AfterGet(op[t]))
  /\ UNCHANGED <<dvars, kvars, nlink, slk, op, name, inum>>

\* Take slk; read the inode from the disk if it is not valid.
LockSlot(t, next) ==
  LET s == ip[t] IN
    /\ slk[s] = None /\ slk' = [slk EXCEPT ![s] = t]
    /\ nlink' = [nlink EXCEPT ![s] = IF valid[s] THEN @ ELSE dlink[num[s]]]
    /\ valid' = [valid EXCEPT ![s] = TRUE]
    /\ Goto(t, next)
    /\ UNCHANGED <<dvars, kvars, num, ref, tvars>>

Lock(t) == pc[t] = "lock" /\ LockSlot(t, "body")

----------------------------------------------------------------------------
(* What the operations do with the inode *)

\* file_open: look at disk_info under slk (sleeplock_acquire, not
\* inode_lock), then file_alloc, which may fail.
OpenCheck(t) ==
  /\ pc[t] = "opened" /\ slk[ip[t]] = None
  /\ \E point \in {"hold", "put"} : Goto(t, point)
  /\ UNCHANGED <<dvars, kvars, svars, tvars>>

\* file_close of the last descriptor.
Close(t) ==
  /\ pc[t] = "hold" /\ Goto(t, "put")
  /\ UNCHANGED <<dvars, kvars, svars, tvars>>

\* path_link: the new name, under the directory's lock; a taken name fails
\* (as does, in the model, a link beyond MaxLink).
LinkEntry(t, n) ==
  LET s == ip[t]
      links == IF valid[s] THEN nlink[s] ELSE dlink[num[s]]
  IN /\ pc[t] = "link" /\ dirLk = None
     /\ \/ /\ dir[n] = None /\ links < MaxLink
           /\ dirLk' = t /\ dir' = [dir EXCEPT ![n] = inum[t]]
           /\ Goto(t, "lock")
        \/ /\ dir[n] # None \/ links = MaxLink
           /\ Goto(t, "put") /\ UNCHANGED dvars
     /\ UNCHANGED <<kvars, svars, tvars>>

\* path_unlink under inode_lock: one link less, written to the disk.
BodyUnlink(t) ==
  LET s == ip[t] IN
    /\ pc[t] = "body" /\ op[t] = "unlink"
    /\ nlink' = [nlink EXCEPT ![s] = IF @ > 0 THEN @ - 1 ELSE @]
    /\ dlink' = [dlink EXCEPT ![num[s]] = nlink'[s]]
    /\ slk' = [slk EXCEPT ![s] = None] /\ Goto(t, "put")
    /\ UNCHANGED <<dvars, bitmap, num, ref, valid, tvars>>

\* inode_create and path_create_inode: nlink = 1, dentry_create.
BodyCreate(t) ==
  LET s == ip[t] IN
    /\ pc[t] = "body" /\ op[t] = "create"
    /\ nlink' = [nlink EXCEPT ![s] = 1]
    /\ dlink' = [dlink EXCEPT ![num[s]] = 1]
    /\ dir' = [dir EXCEPT ![name[t]] = inum[t]]
    /\ slk' = [slk EXCEPT ![s] = None] /\ dirLk' = None /\ Goto(t, "hold")
    /\ UNCHANGED <<bitmap, num, ref, valid, tvars>>

BodyLink(t) ==
  LET s == ip[t] IN
    /\ pc[t] = "body" /\ op[t] = "link"
    /\ nlink' = [nlink EXCEPT ![s] = @ + 1]
    /\ dlink' = [dlink EXCEPT ![num[s]] = nlink'[s]]
    /\ slk' = [slk EXCEPT ![s] = None] /\ dirLk' = None /\ Goto(t, "put")
    /\ UNCHANGED <<dir, bitmap, num, ref, valid, tvars>>

----------------------------------------------------------------------------
(* inode_put *)

\* The reference goes; path_unlink then unlocks the directory.
DropRef(t) ==
  /\ ref' = [ref EXCEPT ![ip[t]] = @ - 1]
  /\ dirLk' = IF dirLk = t THEN None ELSE dirLk
  /\ Goto(t, "idle")
  /\ UNCHANGED <<dir, kvars, num, valid, nlink, slk, tvars>>

Unlinked(s) == ref[s] = 1 /\ valid[s] /\ nlink[s] = 0

Put(t) == pc[t] = "put" /\ ~Unlinked(ip[t]) /\ DropRef(t)

PutLast(t) ==
  /\ pc[t] = "put" /\ Unlinked(ip[t]) /\ Goto(t, "del")
  /\ UNCHANGED <<dvars, kvars, svars, tvars>>

DelLock(t) == pc[t] = "del" /\ LockSlot(t, "free")

\* inode_delete: the data blocks, the inode on disk, the bitmap.
DelFree(t) ==
  /\ pc[t] = "free"
  /\ bitmap' = bitmap \ {num[ip[t]]}
  /\ dlink' = [dlink EXCEPT ![num[ip[t]]] = nlink[ip[t]]]
  /\ Goto(t, "inval")
  /\ UNCHANGED <<dvars, svars, tvars>>

\* Mutant: inode_put forgets the slot together with its content.
DelInvalClears(t) ==
  /\ pc[t] = "inval"
  /\ valid' = [valid EXCEPT ![ip[t]] = FALSE]
  /\ ref' = [ref EXCEPT ![ip[t]] = 0]
  /\ slk' = [slk EXCEPT ![ip[t]] = None] /\ Goto(t, "drop")
  /\ UNCHANGED <<dvars, kvars, num, nlink, tvars>>

DelInval(t) ==
  /\ pc[t] = "inval"
  /\ valid' = [valid EXCEPT ![ip[t]] = FALSE]
  /\ slk' = [slk EXCEPT ![ip[t]] = None] /\ Goto(t, "drop")
  /\ UNCHANGED <<dvars, kvars, num, ref, nlink, tvars>>

Drop(t) == pc[t] = "drop" /\ DropRef(t)

Step(t) ==
  \/ Get(t) \/ Lock(t) \/ OpenCheck(t) \/ Close(t)
  \/ BodyUnlink(t) \/ BodyCreate(t) \/ BodyLink(t)
  \/ Put(t) \/ PutLast(t) \/ DelLock(t) \/ DelFree(t) \/ DelInval(t) \/ Drop(t)
  \/ \E n \in Names : \/ UnlinkEntry(t, n) \/ CreateEntry(t, n) \/ LinkEntry(t, n)
                      \/ ReturnError(t, n)
                      \/ \E o \in Ops : Search(t, o, n)

Next == \E t \in Threads : Step(t)

Spec == Init /\ [][Next]_vars

----------------------------------------------------------------------------
(* Properties *)

\* Threads with a reference to a slot.
HasRef(t, s) == pc[t] \notin {"idle", "get"} /\ ip[t] = s

\* ref counts the holders exactly: it never wraps below zero, and a slot that
\* somebody uses is not taken for another inode.
RefsExact ==
  /\ TypeOK
  /\ \A s \in Slots : ref[s] = Cardinality({t \in Threads : HasRef(t, s)})

\* The slot a thread got stays the slot of the inode it asked for, through
\* every reuse of slots and inode numbers by the others.
SlotKeepsInode == \A t \in Threads, s \in Slots : HasRef(t, s) => num[s] = inum[t]

----------------------------------------------------------------------------
(* What the comments and assertions of the code say, and the model refutes *)

\* inode.c line 260: an inode does not occupy several slots.
OneSlotPerInode ==
  \A s, r \in Slots : s # r /\ ref[s] > 0 /\ ref[r] > 0 => num[s] # num[r]

\* type.h line 174: disk_info is used only once valid_info says it has been
\* read.
OpenSeesValidInfo ==
  [][\A t \in Threads : pc[t] = "opened" /\ pc'[t] # "opened" => valid[ip[t]]]_vars

\* inode.c line 367: an inode is deleted only by its last user, so the inode
\* of an open file stays allocated.
OpenInodeAllocated == \A t \in Threads : pc[t] = "hold" => inum[t] \in bitmap

=============================================================================
