------------------------------ MODULE FileTable ------------------------------
(***************************************************************************)
(* The table of open files of src/kernel/fs/fs.c, the descriptors and      *)
(* working directories of processes that share it (sysfunc.c, proc_fork    *)
(* and proc_free of proc.c), and the device switch of device.c.            *)
(*                                                                         *)
(* A step is a stretch under one lock: lk_file_table, lk_inode_cache, or   *)
(* the sleeping lock slk of an inode, which a transfer keeps while it      *)
(* waits for the disk.  What a path names is not followed here (module     *)
(* Tree): a lookup returns a reference to any inode.  Nor is data (module  *)
(* InodeIndex): a transfer moves any number of bytes up to MaxLen.  Calls  *)
(* that fail their first tests, sys_fstat and sys_get_dentries change      *)
(* nothing and are left out.                                               *)
(***************************************************************************)
EXTENDS Naturals, FiniteSetsExt

CONSTANTS
  Procs, InitProc,
  NFile,          \* N_FILE, entries of file_table
  NFd,            \* N_OPEN_FILE, descriptors of a process
  Inodes,         \* inodes in memory
  Type,           \* Type[i]: "data", "dir" or the name of a device
  Root,           \* the working directory of InitProc
  Modes,          \* open modes, sets of the bits "read", "write", "create", "append"
  MaxOff, MaxLen, \* bounds of offsets (which wrap beyond MaxOff) and transfers
  Nil

Devices == {"stdin", "stdout", "stderr", "zero", "null", "gpt0"}

ASSUME ProcAssumption == InitProc \in Procs /\ Nil \notin Procs /\ IsFiniteSet(Procs)
ASSUME SizeAssumption == {NFile, NFd} \subseteq Nat \ {0} /\ {MaxOff, MaxLen} \subseteq Nat
ASSUME InodeAssumption ==
  /\ Type \in [Inodes -> {"data", "dir"} \union Devices]
  /\ Root \in Inodes /\ Type[Root] = "dir" /\ Nil \notin Inodes
ASSUME ModeAssumption == Modes \subseteq SUBSET {"read", "write", "create", "append"}
ASSUME NilAssumption == Nil \notin Nat

Files == 1 .. NFile
Fds == 0 .. NFd - 1
Offsets == 0 .. MaxOff

VARIABLES
  file,           \* file_table: ref, ip, offset, readable, writable
  st, fd, cwd,    \* each process: state, open_file, cwd
  iref, slk,      \* each inode: references, holder of its sleeping lock
  pc, loc         \* each process: its point in the kernel and its locals

vars == <<file, st, fd, cwd, iref, slk, pc, loc>>

File == [ref : Nat, ip : Inodes \union {Nil}, offset : Offsets,
         readable : BOOLEAN, writable : BOOLEAN]
\* q: the process whose descriptor k is worked on; f, ip: file and inode in
\* hand; mode: of an open; at: where a transfer began.
Local == [q : Procs, k : Fds \union {Nil, NFd}, f : Files \union {Nil},
          ip : Inodes \union {Nil}, mode : Modes \union {{}}, at : Offsets]
Points == {"idle", "open", "install", "put", "delete", "xfer", "device", "fork", "free"}

\* The type invariant.
TypeOK ==
  /\ file \in [Files -> File]
  /\ st \in [Procs -> {"unused", "new", "run", "zombie"}]
  /\ fd \in [Procs -> [Fds -> Files \union {Nil}]]
  /\ cwd \in [Procs -> Inodes \union {Nil}]
  /\ iref \in [Inodes -> Nat] /\ slk \in [Inodes -> Procs \union {Nil}]
  /\ pc \in [Procs -> Points] /\ loc \in [Procs -> Local]

NoFile == [ref |-> 0, ip |-> Nil, offset |-> 0, readable |-> FALSE, writable |-> FALSE]
Blank(p) == [q |-> p, k |-> Nil, f |-> Nil, ip |-> Nil, mode |-> {}, at |-> 0]

\* file_init and proc_entry_point of the first process, which has closed the
\* three files it opens there.
Init ==
  /\ file = [f \in Files |-> NoFile]
  /\ st = [p \in Procs |-> IF p = InitProc THEN "run" ELSE "unused"]
  /\ fd = [p \in Procs |-> [k \in Fds |-> Nil]]
  /\ cwd = [p \in Procs |-> IF p = InitProc THEN Root ELSE Nil]
  /\ iref = [i \in Inodes |-> IF i = Root THEN 1 ELSE 0]
  /\ slk = [i \in Inodes |-> Nil]
  /\ pc = [p \in Procs |-> "idle"] /\ loc = [p \in Procs |-> Blank(p)]

Ready(p) == st[p] = "run" /\ pc[p] = "idle"
Goto(p, point, locals) == pc' = [pc EXCEPT ![p] = point] /\ loc' = [loc EXCEPT ![p] = locals]
Return(p) == Goto(p, "idle", Blank(p))

FreeFds(p) == {k \in Fds : fd[p][k] = Nil}
FreeFiles == {f \in Files : file[f].ref = 0}

----------------------------------------------------------------------------
(* device.c *)

\* device_open_check
DeviceOpenCheck(major, mode) ==
  CASE major \in {"stdin", "zero"} -> mode = {"read"}
    [] major \in {"stdout", "stderr", "gpt0"} -> mode = {"write"}
    [] major = "null" -> TRUE

----------------------------------------------------------------------------
(* file_close and inode_put *)

\* What follows file_close and inode_put: the descriptor is cleared;
\* proc_free goes on to the next one, a system call returns.
Finish(p, l) ==
  /\ fd' = IF l.k = Nil THEN fd ELSE [fd EXCEPT ![l.q][l.k] = Nil]
  /\ IF l.q = p THEN Return(p) ELSE Goto(p, "free", [Blank(p) EXCEPT !.q = l.q])

\* Mutant: the last reference returns without inode_put.
FileCloseLeaks(p, l) ==
  LET f == l.f IN
    /\ file' = [file EXCEPT ![f] = IF @.ref > 1 THEN [@ EXCEPT !.ref = @ - 1] ELSE NoFile]
    /\ Finish(p, l)

\* file_close under lk_file_table; the last reference takes the inode out
\* (the other fields of a free entry are dead: file_alloc sets them all).
FileClose(p, l) ==
  LET f == l.f IN
    \/ /\ file[f].ref > 1 /\ file' = [file EXCEPT ![f].ref = @ - 1]
       /\ Finish(p, l)
    \/ /\ file[f].ref = 1 /\ file' = [file EXCEPT ![f] = NoFile]
       /\ Goto(p, "put", [l EXCEPT !.f = Nil, !.ip = file[f].ip]) /\ UNCHANGED fd

\* sys_close
Close(p, k) ==
  /\ Ready(p) /\ fd[p][k] # Nil
  /\ FileClose(p, [Blank(p) EXCEPT !.k = k, !.f = fd[p][k]])
  /\ UNCHANGED <<st, cwd, iref, slk>>

DropRef(p) ==
  /\ iref' = [iref EXCEPT ![loc[p].ip] = @ - 1]
  /\ Finish(p, loc[p]) /\ UNCHANGED <<file, st, cwd, slk>>

\* inode_put of an inode with other references or with links.
Put(p) == pc[p] = "put" /\ DropRef(p)

\* inode_put of the last reference to an inode without links deletes it first.
PutLast(p) ==
  /\ pc[p] = "put" /\ iref[loc[p].ip] = 1 /\ Goto(p, "delete", loc[p])
  /\ UNCHANGED <<file, st, fd, cwd, iref, slk>>

\* inode_delete under slk, and the reference.
Delete(p) == pc[p] = "delete" /\ slk[loc[p].ip] = Nil /\ DropRef(p)

----------------------------------------------------------------------------
(* sys_open *)

\* path_create_inode makes a new data inode, path_to_inode finds any inode.
OpenLookup(p, mode) ==
  /\ Ready(p)
  /\ \E i \in Inodes :
       /\ "create" \in mode => Type[i] = "data" /\ iref[i] = 0
       /\ iref' = [iref EXCEPT ![i] = @ + 1]
       /\ Goto(p, "open", [Blank(p) EXCEPT !.ip = i, !.mode = mode])
  /\ UNCHANGED <<file, st, fd, cwd, slk>>

OpenRefused(i, mode) ==
  \/ Type[i] = "dir" /\ mode # {"read"}
  \/ Type[i] \in Devices /\ ~DeviceOpenCheck(Type[i], mode)
  \/ FreeFiles = {}

\* file_open under ip->slk: the checks, then file_alloc.
OpenCheck(p) ==
  LET i == loc[p].ip
      mode == loc[p].mode
  IN /\ pc[p] = "open" /\ slk[i] = Nil
     /\ \/ /\ OpenRefused(i, mode)
           /\ Goto(p, "put", [loc[p] EXCEPT !.mode = {}]) /\ UNCHANGED file
        \/ /\ ~OpenRefused(i, mode)
           /\ LET f == Min(FreeFiles) IN
                /\ \E o \in Offsets :
                     /\ o = 0 \/ ("append" \in mode /\ Type[i] = "data")
                     /\ file' = [file EXCEPT ![f] =
                          [ref |-> 1, ip |-> i, offset |-> o,
                           readable |-> "write" \notin mode,
                           writable |-> {"read", "write"} \intersect mode # {}]]
                /\ Goto(p, "install", [Blank(p) EXCEPT !.f = f])
     /\ UNCHANGED <<st, fd, cwd, iref, slk>>

\* The first free descriptor; without one, file_close.
Install(p) ==
  /\ pc[p] = "install"
  /\ \/ /\ FreeFds(p) # {} /\ Return(p) /\ UNCHANGED file
        /\ fd' = [fd EXCEPT ![p][Min(FreeFds(p))] = loc[p].f]
     \/ FreeFds(p) = {} /\ FileClose(p, loc[p])
  /\ UNCHANGED <<st, cwd, iref, slk>>

----------------------------------------------------------------------------
(* sys_read, sys_write, sys_lseek, sys_dup *)

Allowed(f, write) == IF write THEN file[f].writable ELSE file[f].readable

\* file_read and file_write of data: slk is held during the transfer.
XferStart(p, k, write) ==
  LET f == fd[p][k] IN
    /\ Ready(p) /\ f # Nil /\ Allowed(f, write)
    /\ Type[file[f].ip] \notin Devices /\ slk[file[f].ip] = Nil
    /\ slk' = [slk EXCEPT ![file[f].ip] = p]
    /\ Goto(p, "xfer", [Blank(p) EXCEPT !.f = f, !.at = file[f].offset])
    /\ UNCHANGED <<file, st, fd, cwd, iref>>

\* The offset moves by what was transferred; uint32 arithmetic.
XferEnd(p) ==
  LET f == loc[p].f IN
    /\ pc[p] = "xfer"
    /\ \E n \in 0 .. MaxLen :
         file' = [file EXCEPT ![f].offset = (@ + n) % (MaxOff + 1)]
    /\ slk' = [slk EXCEPT ![file[f].ip] = Nil] /\ Return(p)
    /\ UNCHANGED <<st, fd, cwd, iref>>

\* device_read_data, device_write_data: no lock, no offset; the device (the
\* console, for instance) may keep its caller waiting.
DeviceStart(p, k, write) ==
  LET f == fd[p][k] IN
    /\ Ready(p) /\ f # Nil /\ Allowed(f, write) /\ Type[file[f].ip] \in Devices
    /\ Goto(p, "device", [Blank(p) EXCEPT !.f = f])
    /\ UNCHANGED <<file, st, fd, cwd, iref, slk>>

DeviceEnd(p) ==
  /\ pc[p] = "device" /\ Return(p)
  /\ UNCHANGED <<file, st, fd, cwd, iref, slk>>

\* Mutant: file_lseek without the lock of the inode.
LseekUnlocked(p, k) ==
  /\ Ready(p) /\ fd[p][k] # Nil
  /\ \E o \in Offsets : file' = [file EXCEPT ![fd[p][k]].offset = o]
  /\ UNCHANGED <<st, fd, cwd, iref, slk, pc, loc>>

\* file_lseek: LSEEK_SET and LSEEK_END lead to any offset, LSEEK_CUR too.
Lseek(p, k) ==
  /\ Ready(p) /\ fd[p][k] # Nil /\ slk[file[fd[p][k]].ip] = Nil
  /\ \E o \in Offsets : file' = [file EXCEPT ![fd[p][k]].offset = o]
  /\ UNCHANGED <<st, fd, cwd, iref, slk, pc, loc>>

Dup(p, k) ==
  /\ Ready(p) /\ fd[p][k] # Nil /\ FreeFds(p) # {}
  /\ file' = [file EXCEPT ![fd[p][k]].ref = @ + 1]
  /\ fd' = [fd EXCEPT ![p][Min(FreeFds(p))] = fd[p][k]]
  /\ UNCHANGED <<st, cwd, iref, slk, pc, loc>>

----------------------------------------------------------------------------
(* sys_chdir *)

\* path_to_inode, then the working directory is replaced and the old one put;
\* what is no directory is put instead.  (p->cwd is read by p alone, so that it
\* may be replaced first.)
Chdir(p) ==
  /\ Ready(p)
  /\ \E i \in Inodes :
       /\ iref' = [iref EXCEPT ![i] = @ + 1]
       /\ \/ /\ Type[i] = "dir" /\ cwd' = [cwd EXCEPT ![p] = i]
             /\ Goto(p, "put", [Blank(p) EXCEPT !.ip = cwd[p]])
          \/ /\ Type[i] # "dir" /\ UNCHANGED cwd
             /\ Goto(p, "put", [Blank(p) EXCEPT !.ip = i])
  /\ UNCHANGED <<file, st, fd, slk>>

----------------------------------------------------------------------------
(* proc_fork, proc_exit, proc_wait with proc_free *)

\* proc_alloc, inode_dup of the working directory.
Fork(p, c) ==
  /\ Ready(p) /\ st[c] = "unused"
  /\ st' = [st EXCEPT ![c] = "new"]
  /\ cwd' = [cwd EXCEPT ![c] = cwd[p]] /\ iref' = [iref EXCEPT ![cwd[p]] = @ + 1]
  /\ Goto(p, "fork", [Blank(p) EXCEPT !.q = c, !.k = 0])
  /\ UNCHANGED <<file, fd, slk>>

\* Mutant: the child shares the file without file_dup.
ForkFileShares(p) ==
  LET c == loc[p].q
      k == loc[p].k
  IN /\ pc[p] = "fork" /\ k < NFd
     /\ fd' = [fd EXCEPT ![c][k] = fd[p][k]] /\ UNCHANGED file
     /\ Goto(p, "fork", [loc[p] EXCEPT !.k = @ + 1])
     /\ UNCHANGED <<st, cwd, iref, slk>>

\* One round of the loop over open_file.
ForkFile(p) ==
  LET c == loc[p].q
      k == loc[p].k
  IN /\ pc[p] = "fork" /\ k < NFd
     /\ \/ fd[p][k] = Nil /\ UNCHANGED <<file, fd>>
        \/ /\ fd[p][k] # Nil /\ file' = [file EXCEPT ![fd[p][k]].ref = @ + 1]
           /\ fd' = [fd EXCEPT ![c][k] = fd[p][k]]
     /\ Goto(p, "fork", [loc[p] EXCEPT !.k = @ + 1])
     /\ UNCHANGED <<st, cwd, iref, slk>>

ForkDone(p) ==
  /\ pc[p] = "fork" /\ loc[p].k = NFd
  /\ st' = [st EXCEPT ![loc[p].q] = "run"] /\ Return(p)
  /\ UNCHANGED <<file, fd, cwd, iref, slk>>

\* An exiting process keeps its files until it is reaped.
Exit(p) ==
  /\ Ready(p) /\ p # InitProc /\ st' = [st EXCEPT ![p] = "zombie"]
  /\ UNCHANGED <<file, fd, cwd, iref, slk, pc, loc>>

\* proc_wait found the zombie c (whose parent is not kept here); proc_free
\* puts the working directory.
Reap(p, c) ==
  /\ Ready(p) /\ st[c] = "zombie" /\ \A r \in Procs : loc[r].q = c => r = c
  /\ cwd' = [cwd EXCEPT ![c] = Nil]
  /\ Goto(p, "put", [Blank(p) EXCEPT !.q = c, !.ip = cwd[c]])
  /\ UNCHANGED <<file, st, fd, iref, slk>>

\* The loop of proc_free over open_file.
FreeFile(p) ==
  LET q == loc[p].q
      open == {k \in Fds : fd[q][k] # Nil}
      k == Min(open)
  IN /\ pc[p] = "free"
     /\ \/ /\ open # {} /\ UNCHANGED st
           /\ FileClose(p, [loc[p] EXCEPT !.k = k, !.f = fd[q][k]])
        \/ /\ open = {} /\ st' = [st EXCEPT ![q] = "unused"]
           /\ Return(p) /\ UNCHANGED <<file, fd>>
     /\ UNCHANGED <<cwd, iref, slk>>

Step(p) ==
  \/ OpenCheck(p) \/ Install(p) \/ Put(p) \/ PutLast(p) \/ Delete(p)
  \/ XferEnd(p) \/ DeviceEnd(p) \/ Chdir(p)
  \/ ForkFile(p) \/ ForkDone(p) \/ Exit(p) \/ FreeFile(p)
  \/ \E mode \in Modes : OpenLookup(p, mode)
  \/ \E k \in Fds : Close(p, k) \/ Lseek(p, k) \/ Dup(p, k)
  \/ \E k \in Fds, write \in BOOLEAN : XferStart(p, k, write) \/ DeviceStart(p, k, write)
  \/ \E c \in Procs : Fork(p, c) \/ Reap(p, c)

Next == \E p \in Procs : Step(p)

Spec == Init /\ [][Next]_vars

----------------------------------------------------------------------------
(* Properties *)

\* Descriptor k of q has given up its reference but is not cleared yet.
Released(q, k) == \E p \in Procs : pc[p] \in {"put", "delete"} /\ loc[p].q = q /\ loc[p].k = k

\* A file counts its descriptors exactly, over every order of open, dup, fork,
\* close, exit and failed opens by processes that share it: it is neither
\* closed under a descriptor nor left open for ever (file_close, file_dup).
FileRefsExact ==
  \A f \in Files :
    file[f].ref =
      Cardinality({x \in Procs \X Fds : fd[x[1]][x[2]] = f /\ ~Released(x[1], x[2])})
      + Cardinality({p \in Procs : pc[p] = "install" /\ loc[p].f = f})

\* An inode counts exactly the open files, the working directories and the
\* calls that refer to it, through the failures of file_open and the gap of
\* file_close between taking the inode out of the file and inode_put.
InodeRefsExact ==
  /\ TypeOK
  /\ \A f \in Files : file[f].ref > 0 <=> file[f].ip # Nil
  /\ \A i \in Inodes :
       iref[i] = Cardinality({f \in Files : file[f].ip = i})
                 + Cardinality({q \in Procs : cwd[q] = i})
                 + Cardinality({p \in Procs : pc[p] \in {"open", "put", "delete"}
                                              /\ loc[p].ip = i})

\* Processes that share a file after fork or dup never transfer the same
\* bytes twice or skip some: while one of them transfers, the file stays open
\* on the same locked inode and its offset stays where the transfer began.
TransferKeepsPlace ==
  \A p \in Procs : pc[p] = "xfer" =>
    LET f == loc[p].f IN
      file[f].ref > 0 /\ slk[file[f].ip] = p /\ file[f].offset = loc[p].at

----------------------------------------------------------------------------
(* What the comments and assertions of the code say, and the model refutes *)

\* fs.c line 140: a directory is opened for reading only.  The test of
\* writable masks with O_RDWR, which contains the read bit.
DirectoriesReadOnly ==
  \A f \in Files : file[f].ref > 0 /\ Type[file[f].ip] = "dir" => ~file[f].writable

\* fs.c line 6, O_RDWR: a file opened for reading and writing can be read.
ReadWriteReadable ==
  [][\A p \in Procs : pc[p] = "open" /\ pc'[p] = "install" /\ "read" \in loc[p].mode
       => file'[loc'[p].f].readable]_vars

\* proc.c line 158: proc_free is called with p->lk held.  Deleting an inode
\* waits for the disk, which a holder of spinlocks must not.
FreeNeverWaits == \A p \in Procs : pc[p] = "delete" => loc[p].q = p

=============================================================================
