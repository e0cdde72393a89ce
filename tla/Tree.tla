-------------------------------- MODULE Tree --------------------------------
(***************************************************************************)
(* The directory tree: path walking, creation, hard links and removal of   *)
(* src/kernel/fs/dentry.c, as the system calls of sysfunc.c use them.      *)
(*                                                                         *)
(* A system call is one step; how the calls of several processes interact  *)
(* in one directory is the subject of InodeCache.  A directory is the      *)
(* sequence of its entries, with the holes that removals leave; a new      *)
(* block is taken when it grows beyond a multiple of PerBlock, and the     *)
(* disk may be full.  The inodes have been read since the system started,  *)
(* so that their cached copies are valid, and there are no more of them    *)
(* than slots.  A name is what is left of it after truncation to           *)
(* MAXLEN_FILENAME.                                                        *)
(***************************************************************************)
EXTENDS Integers, FiniteSetsExt, SequencesExt

CONSTANTS
  Procs, Names,
  Paths,          \* [abs : BOOLEAN, elems : sequences of names, "." and ".."]
  NInum,          \* inode numbers 0 .. NInum - 1
  NBlocks,        \* data blocks of the disk
  PerBlock,       \* DENTRY_PER_BLOCK, entries in a block
  MaxLink,        \* bound on the links of a file
  MinLink,        \* bound below on those of a directory, which go negative
  Nil

Root == 0
Inums == 0 .. NInum - 1
AnyName == Names \union {".", ".."}

\* nlink is a short.
ShortMin == -32768
ShortMax == 32767

ASSUME SizeAssumption == {NInum, NBlocks, PerBlock, MaxLink} \subseteq Nat \ {0}
ASSUME LinkAssumption == MaxLink <= ShortMax /\ MinLink \in ShortMin + 1 .. -1
ASSUME NameAssumption == {".", "..", Nil} \intersect Names = {} /\ Nil \notin Int \union {".", ".."}
ASSUME PathAssumption == Paths \subseteq [abs : BOOLEAN, elems : Seq(AnyName)]

VARIABLES
  disk,           \* the bitmap, and of each inode: type, nlink, entries
  cwd, opn        \* each process: working directory, open file or Nil

treevars == <<disk, cwd, opn>>

Free == <<Nil, 0>>
Dirents == (AnyName \X Inums) \union {Free}

Disks == [alloc : SUBSET Inums, type : [Inums -> {"data", "dir"}],
          nlink : [Inums -> ShortMin .. ShortMax], ents : [Inums -> Seq(Dirents)]]

\* The type invariant.
TreeTypeOK ==
  /\ disk \in Disks
  /\ cwd \in [Procs -> Inums] /\ opn \in [Procs -> Inums \union {Nil}]

\* mkfs: the root directory with one link; every process starts in it.  What
\* else mkfs installs is left alone and left out.
TreeInit ==
  /\ disk = [alloc |-> {Root},
             type |-> [i \in Inums |-> IF i = Root THEN "dir" ELSE "data"],
             nlink |-> [i \in Inums |-> IF i = Root THEN 1 ELSE 0],
             ents |-> [i \in Inums |-> IF i = Root THEN << <<".", Root>>, <<"..", Root>> >>
                                                   ELSE <<>>]]
  /\ cwd = [p \in Procs |-> Root] /\ opn = [p \in Procs |-> Nil]

----------------------------------------------------------------------------
(* Directories: every operator takes the state s of the disk it works on *)

DirBlocks(s, d) == (Len(s.ents[d]) + PerBlock - 1) \div PerBlock
BlocksLeft(s) == NBlocks - MapThenSumSet(LAMBDA i : DirBlocks(s, i), Inums)

\* dentry_search: the first entry with this name; the empty name, Nil here,
\* is that of a hole and never found.
DentrySearch(s, d, n) ==
  LET hits == {j \in DOMAIN s.ents[d] : s.ents[d][j][1] = n}
  IN IF s.type[d] = "dir" /\ n # Nil /\ hits # {} THEN s.ents[d][Min(hits)][2] ELSE Nil

\* dentry_create: in the first hole, else at the end.  It fails on what is not
\* a directory, for a name that exists, and on a full disk.
DentryCreate(s, d, n, i) ==
  LET holes == {j \in DOMAIN s.ents[d] : s.ents[d][j] = Free}
      entry == IF n = Nil THEN Free ELSE <<n, i>>
  IN
    IF s.type[d] # "dir" \/ DentrySearch(s, d, n) # Nil THEN s
    ELSE IF holes # {} THEN [s EXCEPT !.ents[d][Min(holes)] = entry]
    ELSE IF Len(s.ents[d]) % PerBlock # 0 \/ BlocksLeft(s) > 0
      THEN [s EXCEPT !.ents[d] = Append(@, entry)]
    ELSE s

\* dentry_delete: the entry becomes a hole.
DentryDelete(s, d, n) ==
  LET j == Min({k \in DOMAIN s.ents[d] : s.ents[d][k][1] = n})
  IN [s EXCEPT !.ents[d][j] = Free]

----------------------------------------------------------------------------
(* Paths *)

\* The rounds of path_to_inode: where it is after k elements.
Walk(p, abs, elems) ==
  LET at[k \in 0 .. Len(elems)] ==
        IF k = 0 THEN IF abs THEN Root ELSE cwd[p]
        ELSE IF at[k - 1] = Nil THEN Nil ELSE DentrySearch(disk, at[k - 1], elems[k])
  IN at[Len(elems)]

PathToInode(p, path) == Walk(p, path.abs, path.elems)

\* path_to_parent_inode: the last element is not entered.  Of a path without
\* elements the name is an uninitialised buffer.
PathToParent(p, path) ==
  IF path.elems = <<>> THEN PathToInode(p, path) ELSE Walk(p, path.abs, Front(path.elems))
PathNames(path) == IF path.elems = <<>> THEN AnyName \union {Nil} ELSE {Last(path.elems)}

\* inode_to_path climbs by looking up ".." in the working directory, whatever
\* directory it has reached: it ends when that leads to the root at once.
InodeToPathEnds(p) == cwd[p] = Root \/ DentrySearch(disk, cwd[p], "..") \in {Root, Nil}

----------------------------------------------------------------------------
(* inode_put of everything a call referred to *)

Used(i, c, o) == \E p \in Procs : i \in {c[p], o[p]}

\* Mutant: inode_put deletes an inode without links that is still in use.
SettleBlind(s, c, o) ==
  LET gone == {i \in Inums : s.nlink[i] = 0}
  IN [s EXCEPT !.alloc = @ \ gone,
               !.ents = [i \in Inums |-> IF i \in gone THEN <<>> ELSE @[i]]]

\* The last reference to an inode without links deletes it.
Settle(s, c, o) ==
  LET gone == {i \in Inums : s.nlink[i] = 0 /\ ~Used(i, c, o)}
  IN [s EXCEPT !.alloc = @ \ gone,
               !.ents = [i \in Inums |-> IF i \in gone THEN <<>> ELSE @[i]]]

Leave(s) == disk' = Settle(s, cwd', opn')

----------------------------------------------------------------------------
(* System calls *)

\* bitmap_alloc_inode: the lowest free inode.
NewInum == IF disk.alloc = Inums THEN Nil ELSE Min(Inums \ disk.alloc)

\* inode_create
InodeCreate(s, i, type) ==
  [s EXCEPT !.alloc = @ \union {i}, !.type[i] = type, !.nlink[i] = 1, !.ents[i] = <<>>]

\* A new directory: "." and "..", and a second link for ".".
MakeDots(s, i, d) ==
  [DentryCreate(DentryCreate(s, i, ".", i), i, "..", d) EXCEPT !.nlink[i] = @ + 1]

\* path_create_inode; whether the last dentry_create succeeds is not looked at.
\* (Creating the inode number of its own parent would wait for itself.)
PathCreateInode(p, path, type) ==
  LET d == PathToParent(p, path)
      i == NewInum
  IN
    /\ d # Nil /\ i \notin {Nil, d}
    /\ \E n \in PathNames(path) :
         /\ DentrySearch(disk, d, n) = Nil
         /\ LET new == InodeCreate(disk, i, type)
                full == IF type = "dir" THEN MakeDots(new, i, d) ELSE new
            IN Leave(DentryCreate(full, d, n, i))

\* sys_open with O_CREATE: the new file is open.
Create(p, path) ==
  /\ opn[p] = Nil /\ UNCHANGED cwd
  /\ opn' = [opn EXCEPT ![p] = NewInum] /\ PathCreateInode(p, path, "data")

\* sys_mkdir
Mkdir(p, path) ==
  /\ UNCHANGED <<cwd, opn>>
  /\ PathCreateInode(p, path, "dir")

\* sys_open without O_CREATE.
Open(p, path) ==
  /\ opn[p] = Nil /\ PathToInode(p, path) # Nil
  /\ opn' = [opn EXCEPT ![p] = PathToInode(p, path)]
  /\ UNCHANGED cwd /\ Leave(disk)

\* sys_close
Close(p) ==
  /\ opn[p] # Nil /\ opn' = [opn EXCEPT ![p] = Nil]
  /\ UNCHANGED cwd /\ Leave(disk)

\* sys_chdir: the old working directory is put.
Chdir(p, path) ==
  LET i == PathToInode(p, path) IN
    /\ i # Nil /\ disk.type[i] = "dir"
    /\ cwd' = [cwd EXCEPT ![p] = i] /\ UNCHANGED opn /\ Leave(disk)

\* Mutant: path_link without the count.
PathLinkUncounted(p, i, new) ==
  LET d == PathToParent(p, new)
  IN /\ i # Nil /\ disk.type[i] # "dir" /\ d \notin {Nil, i}
     /\ \E n \in PathNames(new) :
          /\ DentrySearch(disk, d, n) = Nil
          /\ UNCHANGED <<cwd, opn>> /\ Leave(DentryCreate(disk, d, n, i))

\* Mutant: path_link of a directory.
PathLinkDirs(p, i, new) ==
  LET d == PathToParent(p, new)
  IN /\ i # Nil /\ d \notin {Nil, i}
     /\ \E n \in PathNames(new) :
          /\ DentrySearch(disk, d, n) = Nil /\ disk.nlink[i] < MaxLink
          /\ UNCHANGED <<cwd, opn>>
          /\ Leave([DentryCreate(disk, d, n, i) EXCEPT !.nlink[i] = @ + 1])

\* path_link of the inode i the old path leads to; dentry_create may have
\* failed.  (A new name below the old file itself would wait for itself.)
PathLink(p, i, new) ==
  LET d == PathToParent(p, new)
  IN /\ i # Nil /\ disk.type[i] # "dir" /\ d \notin {Nil, i}
     /\ \E n \in PathNames(new) :
          /\ DentrySearch(disk, d, n) = Nil /\ disk.nlink[i] < MaxLink
          /\ UNCHANGED <<cwd, opn>>
          /\ Leave([DentryCreate(disk, d, n, i) EXCEPT !.nlink[i] = @ + 1])

\* One link less; for a directory the parent loses one too.
LoseLink(s, i, d) ==
  IF s.nlink[i] <= 0 THEN s
  ELSE [s EXCEPT !.nlink = [c \in Inums |->
          IF c = i \/ (c = d /\ s.type[i] = "dir") THEN @[c] - 1 ELSE @[c]]]

\* path_unlink: of a directory too, and whatever it contains.  (Removing a
\* directory from itself would wait for itself.)
PathUnlink(p, path) ==
  LET d == PathToParent(p, path) IN
    /\ d # Nil
    /\ \E n \in PathNames(path) \ {".", ".."} :
         LET i == DentrySearch(disk, d, n) IN
           /\ i \notin {Nil, d} /\ UNCHANGED <<cwd, opn>>
           /\ disk.type[i] = "dir" => disk.nlink[d] > MinLink
           /\ Leave(LoseLink(DentryDelete(disk, d, n), i, d))

Call(p) ==
  \/ Close(p)
  \/ \E path \in Paths : \/ Create(p, path) \/ Mkdir(p, path) \/ Open(p, path)
                         \/ Chdir(p, path) \/ PathUnlink(p, path)
  \/ \E i \in {PathToInode(p, old) : old \in Paths}, new \in Paths : PathLink(p, i, new)

TreeNext == \E p \in Procs : Call(p)

TreeSpec == TreeInit /\ [][TreeNext]_treevars

\* The ordinary entries <<d, j>> of allocated directories that name i.
NamesIn(s, d, i) ==
  {j \in DOMAIN s.ents[d] : s.ents[d][j][1] \in Names /\ s.ents[d][j][2] = i}
NamingIn(s, i) == UNION {{d} \X NamesIn(s, d, i) : d \in {e \in s.alloc : s.type[e] = "dir"}}
Naming(i) == NamingIn(disk, i)

\* The directories that can be reached from the root: those in every set that
\* has the root in it and, with a directory, its subdirectories.
HasSubdirs(s, C) ==
  \A i \in Inums \ C : s.type[i] = "dir" => \A x \in NamingIn(s, i) : x[1] \notin C
ReachableIn(s) ==
  {i \in Inums : \A C \in SUBSET Inums : Root \in C /\ HasSubdirs(s, C) => i \in C}
Reachable == ReachableIn(disk)

\* An assumption about the users that no code enforces.  mkdir gives the parent no
\* link and path_unlink takes one: users stop before a directory that has a name
\* loses its last link by that, and before the root is deleted.  What happens to
\* those who do not is NamedNotDeleted below.
KeepsLink ==
  /\ Root \in disk.alloc'
  /\ \A d \in Inums \ {Root} :
       disk'.nlink[d] < disk.nlink[d] /\ disk.type[d] = "dir"
         => disk'.nlink[d] > 0 \/ NamingIn(disk', d) = {}

\* Another one: nobody removes a directory that is, or is above, a working directory.
StaysInTree == \E s \in {disk'} : \A p \in Procs : cwd'[p] \in ReachableIn(s)

\* The third: nobody links or creates a "." or ".." himself where a full disk has made a
\* directory without them: a directory named ".." has no ordinary name, so that
\* KeepsLink does not cover it, and two removals in it delete it.
KeepsDots ==
  \A d \in disk.alloc, n \in {".", ".."} :
    DentrySearch(disk, d, n) = Nil => DentrySearch(disk', d, n) = Nil

CarefulNext == TreeNext /\ KeepsLink /\ StaysInTree /\ KeepsDots

\* The system with users who respect all three.
CarefulSpec == TreeInit /\ [][CarefulNext]_treevars

----------------------------------------------------------------------------
(* Properties *)

\* The directories are a tree: through every sequence of creation, removal,
\* linking and reuse of inode numbers, a directory has one name and one only,
\* the root none, names in a directory differ, and what a reachable name leads
\* to exists.  That a directory exists while it has a name is in part assumed
\* (KeepsLink); that a file does, and that no freed number is named, is not.
TreeShape ==
  /\ TreeTypeOK
  /\ \A d \in disk.alloc : \A j, k \in DOMAIN disk.ents[d] :
       j # k /\ disk.ents[d][j] # Free => disk.ents[d][j][1] # disk.ents[d][k][1]
  /\ \A i \in Inums : disk.type[i] = "dir" => Cardinality(Naming(i)) <= IF i = Root THEN 0 ELSE 1
  /\ LET reach == Reachable
     IN \A i \in Inums \ disk.alloc : \A x \in Naming(i) : x[1] \notin reach

\* nlink of a file never falls below the number of its names, although the
\* results of dentry_create are not looked at and a full disk makes it fail: a
\* file is not deleted while it has a name.  (Of directories KeepsLink assumes it.)
LinksCover ==
  \A i \in Inums : disk.type[i] = "data" => Cardinality(Naming(i)) <= disk.nlink[i]

\* What has links, is open or is a working directory keeps its inode, also
\* after its name is gone, and gives it back with the last of them.
UsedStaysAllocated ==
  \A i \in Inums : i \in disk.alloc <=> disk.nlink[i] # 0 \/ Used(i, cwd, opn)

----------------------------------------------------------------------------
(* What the comments and assertions of the code say, and the model refutes *)

\* inode.c line 367, under TreeSpec: only an inode without links is deleted.
NamedNotDeleted ==
  \A i \in Inums \ disk.alloc : \A x \in Naming(i) : x[1] \notin Reachable

\* type.h line 163: nlink is the number of links.
LinksExact ==
  \A i \in disk.alloc : disk.type[i] = "data" => Cardinality(Naming(i)) = disk.nlink[i]

\* inode.c line 345, "delete an inode on disk": what can no longer be reached
\* is deleted.
NothingOrphaned ==
  \A i \in disk.alloc : \/ i \in Reachable \/ Used(i, cwd, opn)
                        \/ \E x \in Naming(i) : x[1] \in Reachable

\* inode.c line 365, under TreeSpec: an inode in use is not deleted.  The ".." of a
\* removed directory leads to a parent that has been deleted since.
CwdAllocated == \A p \in Procs : cwd[p] \in disk.alloc

\* dentry.c lines 292 and 293: a directory has "." and "..".
DotsPresent ==
  \A d \in disk.alloc : disk.type[d] = "dir" =>
    DentrySearch(disk, d, ".") = d /\ DentrySearch(disk, d, "..") # Nil

\* sysfunc.c line 336: the path of the working directory can be computed.
CwdHasPath == \A p \in Procs : InodeToPathEnds(p)

=============================================================================
