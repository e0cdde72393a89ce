# Specifications of the biglab5 kernel

The repository is a small multi-core RISC-V teaching kernel: spinlocks and
sleeping locks, a process scheduler with fork/exit/wait, traps, virtual memory
with brk/mmap/munmap, a virtio disk driver, a buffer cache, an inode file
system, a console. This directory models the parts where several actors
(harts, processes, interrupt handlers, the disk) or long sequences of calls can
bring the kernel into a state nobody wrote a test for. TLC checks each model on
a small instance; TLAPS proves the safety of all of them, from the
spinlock to the directory tree and the region lists of user memory, for any number of
harts, processes, locks, buffers, inodes, files and blocks.

Source paths below are relative to `src/src/kernel/`; `PROJECT.json` maps every
definition to the lines it models.

## 1. The system

### Components

| component | state | operations | interacts with |
|---|---|---|---|
| spinlock (`lock/spinlock.c`) | `locked`, `cpuid` of each lock; `noff`, `origin` of each hart; SIE | `push_off`, `pop_off`, `spinlock_acquire`, `spinlock_release` | everything; interrupts on the same hart |
| sleeping lock (`lock/sleeplock.c`) | `locked`, `pid`, an inner spinlock | `sleeplock_acquire`, `sleeplock_release` | scheduler (`proc_sleep`, `proc_wakeup`) |
| scheduler (`proc/proc.c`, `swtch.S`) | `state`, `lk`, `sleep_space`, `ctx` of each slot; `cpu->proc` | `proc_sched`, `proc_yield`, `proc_sleep`, `proc_wakeup`, `proc_scheduler` | `p->lk` is handed through `swtch` |
| process lifecycle (`proc/proc.c`) | `parent`, `lifecycle_lock`, slots | `proc_fork`, `proc_exit`, `proc_wait`, `proc_free` | scheduler, address spaces, open files |
| traps (`trap/`) | `sepc`, `sstatus`, nesting | `trap_kernel_handler`, `trap_user_handler`, clock ticks, device interrupts | scheduler (yield), console, disk |
| virtio disk (`fs/virtio.c`) | descriptors, avail and used rings, `info`, `b->disk` | `virtio_disk_rw`, `virtio_disk_intr` | the device, buffer cache, sleeping |
| buffer cache (`fs/buf.c`) | two lists, `block_num`, `ref`, pages | `buffer_get`, `buffer_read`, `buffer_write`, `buffer_put`, `buffer_freemem` | disk, sleeping lock, page pool |
| inodes (`fs/inode.c`, `bitmap.c`) | slots with `ref`, `valid_info`, `nlink`; block index; bitmaps | get, lock, put, delete, read, write | buffer cache, directories |
| directories (`fs/dentry.c`) | entries with holes, `nlink` | path walking, create, mkdir, link, unlink, chdir | inodes, processes (`cwd`) |
| open files, devices (`fs/fs.c`, `device.c`) | `file_table` (`ref`, `ip`, `offset`), `open_file` of each process | open, close, read, write, lseek, dup; fork, exit | inodes, processes, console |
| console (`lib/console.c`) | ring with three indices | `cons_edit` (interrupt), `cons_read` | scheduler |
| user memory (`mem/uvm.c`, `mmap.c`, `kvm.c`, `pmem.c`, `proc/exec.c`) | page tables, region lists, heap top, pools | brk, mmap, munmap, stack faults, fork, exec, free | process lifecycle |
| clock (`trap/timer.c`) | `ticks` | `timer_update`, `sys_sleep` | scheduler |

### What is hard

* **Interleaving of harts.** Every spinlock-protected structure is used from all
  harts; the hand-over of `p->lk` through `swtch` is the subtle one.
* **Interrupts on the same hart**, between any two instructions while SIE is
  set, with handlers that use the interrupted hart's `noff`/`origin`/`sepc`.
* **Sleep and wakeup**: the decision to sleep and the sleep itself are not one
  step; a wakeup in between must not be lost.
* **Device concurrency**: completions in any order, at any time, also while the
  handler runs.
* **Slot and number reuse**: process slots, buffers, inode slots, inode numbers
  and disk blocks all come back with another meaning while somebody may still
  refer to the old one.
* **Sharing after fork**: files with their offsets and working directories belong to
  several processes, and are given back by whichever of them, or of their parents,
  comes last.
* **Limits**: eight descriptors, a full console ring, a full disk, exhausted page
  pools, the last process slot.

The 40 places where this bites are listed under `hazards` in `PROJECT.json`, with
the properties aimed at each.

## 2. Modules

```
AbsLock  <--refines--  SleepLock --extends--> Sched <--extends-- Proc
AbsLine  <--refines--  Console
Spinlock --extends--> Cpu <--extends-- IntrSwtch
VirtioDisk   BufCache   InodeCache   InodeIndex   Uvm   FileTable   Tree
SpinlockProofs (Spinlock, IntrSwtch)    SchedProofs (SleepLock, AbsLock, Proc)
BufCacheProofs (BufCache)               InodeProofs (InodeCache, InodeIndex)
SyscallProofs (Console, AbsLine, Tree)  FileTableProofs (FileTable)
VirtioDiskProofs (VirtioDisk)           UvmProofs (Uvm)
MC<module>: symmetry sets for TLC
```

Lower layers are used by upper ones through what they were shown to promise:
`BufCache`, `InodeCache` and `FileTable` take a sleeping lock as one `owner`
variable (`AbsLock`), `VirtioDisk` and `Console` take `proc_sleep` as one step that gives
up the lock and sleeps (theorem `WakeupNotLost`), `Sched` takes a spinlock as
one variable naming its holder (theorems of `SpinlockProofs`).

Operators introduced by a comment `Mutant:` are deliberately wrong variants
of the definition that follows them. No specification uses them; they show that
a property can fail (section 3).

### Cpu, Spinlock
`Cpu` declares what a hart's `cpu_t` keeps of its interrupt state, for `Spinlock` and
`IntrSwtch`. `locked`, `cpuid`, SIE, `noff`, `origin` and `push_off`'s local `old` are separate
variables. Steps are single memory or CSR accesses wherever an interrupt or
another hart could tell: reading SIE and disabling it (`push_off` lines 15-24),
the atomic swap, the store of `cpuid`, its clearing, the release of `locked`, and
`pop_off`. An interrupt may come at any step with SIE set; its handler takes and
releases locks as well. Kernel code follows one lock order (`lifecycle_lock`
before `p->lk`, and so on), modelled as increasing lock numbers.

### Sched, SleepLock, AbsLock
`Sched` is the switching core: slot states, `lk[p]` (the hart that holds
`p->lk`), `cproc[c]`, and `mode[c]` (process or scheduler loop). `SleepLock`
adds one sleeping lock (`LockSpec`): `SpinForAcquire`, `Take` or `SleepEnter` ...
`SleepBack` for `sleeplock_acquire`; `SpinForRelease`, `Clear`, `Wake` (one step
per slot of `proc_wakeup`), `ReleaseDone` for `sleeplock_release`; `Preempt` for
a clock tick wherever no spinlock is held. `AbsLock` is the promise: requests
are granted one at a time, and a free lock that is wanted gets granted.

### Proc
`proc_fork`, `proc_exit` and `proc_wait` as loops over slots, one step per slot
visited, over `Sched`. What a hart executes (`run[c]`) and what `swtch` saved
(`ctx[p]`) are apart, because `proc_exit` releases all its locks (376-377) before
it takes `p->lk` again and switches: the slot can be freed and reallocated in
between. A clock tick is two steps: `Tick` looks at the state without a lock (in kernel
code; a tick in user code does not look), `Yield` takes `p->lk` and stores RUNNABLE
whatever the state is by then. `panic` is the endless loop of the hart that called it
(`PanicLoop`); the other harts go on, with the locks it holds taken. `early` is history:
the slots that `proc_free` has freed while a hart was still in them. `KillSpec` adds the
path of `trap_user_handler` that kills a faulting process.

### IntrSwtch
The same interrupt state as in `Spinlock`, followed through `swtch` (`SwSpec`): `noff` and
`origin` belong to the hart, but the thread that pops is not the one that pushed.
A kernel stack is a sequence of frames (the trap from user mode, nested handlers); `sepc`
and `w_sepc`/`w_sstatus`/`sret` are steps. User code makes system calls (`Ecall`) or is
interrupted (`UserTrap`); `trap_user_handler` returns, yields, or kills the process, which
switches without `p->lk`: the hart then panics in the scheduler's `spinlock_release` and
takes no further part.

### VirtioDisk
Descriptors, chains (`nxt`), `info`, the rings as queues of entries the other side
has not seen, the interrupt status bit, and the handler cut at each look at the
used ring and at the acknowledgement. The device is external and completes
requests in any order and at any time.

### BufCache
The two lists, `block_num`, `ref`, pages and the sleeping lock of each buffer.
Sections under `lk_buf_cache` are steps; the gap between publishing a miss and
reading the block is kept. Contents are (block, version) pairs. A node is on a list
once, so `RemoveFirst` of its number unlinks it; `Victims`, the nodes whose pages
`buffer_freemem` takes, are the first so many of the inactive list that have one.

### Console, AbsLine
The ring with its three indices, interrupt-driven editing against readers, one
step per character read. `AbsLine` is a pair of queues: the finished input and the
line being edited.

### InodeCache
Threads open, close, create, link and unlink in one directory; a step is a stretch
under one set of locks (directory lock, slot lock, cache lock), so the gap in
`inode_put` between the test of `ref`/`nlink` and `inode_delete` is kept, as is
the reading of `disk_info` on the first `inode_lock`.

### InodeIndex
Direct, single and double indirect blocks, the bitmap (lowest free bit first), zeroing
of new blocks, partial writes on a full disk, the inode in memory (`index`, `size`)
against the inode on disk (`dindex`, `dsize`; `inode_rw` saves only when the size
grows), eviction, deletion and reuse of blocks. Sizes and offsets are in blocks.

A read or write is a sequence of steps under the sleeping lock of its inode (`mode`):
`StartWrite`/`StartRead`, then for each block the walk of `locate_or_add_block`, entry
by entry (`Follow`, `Extend`, or `Fail` on a full disk), `Transfer` of the block, and
`Finish`, which saves the inode if it grew. `depth` and `at` say where the walk stands.
Other files read, grow and are deleted in between. `Path(l)` gives the three entries
that lead to block `l`, with `Stop` where the way is shorter. A block is taken from the
bitmap in one step with its entry and its zeroing: until its number is stored nobody
else knows it. `Delete` is one step as well, because the file has no user left.

Three variables are history, read by no step: `want`, what was written to each file,
changed by `Transfer` and by the end of the file only; `fresh`, the entries of the inode
set since the last `inode_rw`; and `lost`, the written blocks below a fresh entry when
`Evict` replaced the slot. That the code loses exactly these, and nothing else, is part of
`ContentIsWritten`; that it should lose none is `WrittenSurvives` (section 5).

### FileTable
`file` is `file_table`; `fd`, `cwd` and `st` are the descriptors, working directory and
state of each process; `iref` and `slk` the references and sleeping lock of each inode
in memory. `pc` and `loc` hold a call between two of its lock sections: an open between
the lookup, the checks under `slk` with `file_alloc`, and the search for a descriptor;
a close between `file_close` (which takes the inode out under `lk_file_table`) and
`inode_put`; a transfer that waits for the disk under `slk`; fork and `proc_free` in
their loops over descriptors. Devices go through `device_open_check` and, without a
lock, through the device switch. A lookup returns any inode (paths are in `Tree`), a
transfer moves any number of bytes (data is in `InodeIndex`).

### Tree
`disk` holds the inode bitmap and, per inode, `type`, `nlink` and the sequence of
directory entries with the holes that removals leave. The operators `DentrySearch`,
`DentryCreate`, `DentryDelete`, `Walk`, `PathToParent`, `InodeCreate`, `LoseLink` and
`Settle` (every `inode_put` at the end of a call) take and return such records; a
system call is one step. Nothing the code does not look at is looked at: a
`dentry_create` that fails on a full disk or under a plain file leaves the rest of the
call as it is, `path_unlink` removes directories with all they contain, and the name
of a path without elements is whatever the stack held. `TreeSpec` is the code with any
user. `CarefulSpec` adds three assumptions about users, which no code enforces:
* `StaysInTree`: nobody removes a working directory or what is above it;
* `KeepsLink`: directories are removed only while the count of the parent lasts. So
  nothing is claimed of the link counts of directories: `LinksCover` is about files;
* `KeepsDots`: nobody makes a `.` or `..` himself where a full disk left it out.

What happens without the first two is in section 5. The third came out of the proof, the
instance of the run is too small to need it: in a directory made without dots on a full
disk, `mkdir ..` makes a directory that no ordinary name leads to; two removals in it
take its two links, its last user deletes it, and `open("..")` finds a free inode.

### Uvm
Page tables as sets of mapped pages (`map`), those among them without PTE_U (`nouser`)
and the table pages they cost, the sorted region list with first-fit search, split and
merge, unaligned heap tops (`PG` units per page), lengths cut to 32 bits (`LenLimit`),
stack growth, fork, exec and `proc_free`, with both page pools and the region pool
exhausting. `vm_mappages` overwrites a valid entry, and `uvm_destroy_pgtbl` gives back
leaves with PTE_U only; what `sys_mmap` gets for `prot` decides about PTE_U. `Exec` maps a
sequence of segments anywhere below the stack, page 0 and the mmap area included, and may
fail after any of them (`ExecFails`). `tidy` is history: no exec has lost a page so far,
because segments shared a page or lay outside the program area (`WellLaid`) or because the
old page table had pages without PTE_U. Every panic on the way is a step.

## 3. Runs

Every passing run also checks for deadlock unless stated. For each property of a
passing run `PROJECT.json` names a mutant, a plausible bug in one definition,
under which TLC finds that property violated.

| run | instance | shows |
|---|---|---|
| `sleeplock` | 3 processes, 2 harts | `MutualExclusion`, `NoLostWakeup`, `OneHartPerProcess`, `NoSpinlockAcrossSwtch`, and under fairness `ImplementsAbsLock` with its progress |
| `proc` | 3 slots, 2 harts | `NoLostChildWakeup`: no exit is missed by a parent on its way to sleep; `ParentAlive`: every process keeps a live parent; `ZombieOnlyReaped`: the dead are only freed, although ticks test and store in two steps; both in slots that were not freed before `proc_exit` had left them |
| `bufcache` | 3 threads, 2 buffers, 3 blocks, 1 modification | exact references, lists that agree with them, one buffer per block, no buffer or page taken from a user, cache equal to disk |
| `spinlock` | 2 harts, 2 locks | exclusion, no panic of `spinlock.c`, no interrupt while a lock is held, SIE restored; by the deadlock check no hart spins for ever |
| `intr_swtch` | 3 threads, 2 harts, 2 nested handlers (`SwSpec`) | `noff` always equals the locks of the code on the hart, although threads migrate, yield in both trap handlers and are killed; interrupts off while it is not 0 |
| `virtio` | 8 descriptors, 4 threads, 2 contents | descriptors neither leak nor are shared, a request that returned was carried out, no waiter sleeps over free descriptors, rings are not overrun |
| `console` | ring of 4, 8 characters, 2 readers | index order, a full ring is readable, no reader sleeps over input, refinement of `AbsLine` |
| `inodecache` | 2 threads, 2 names, 2 inodes, 2 slots | exact references, a slot keeps its inode for its user, no deadlock between directory and inode locks |
| `inode_index` | 2 files, 1 direct, 1 single and 1 double entry, 2 entries per index block, 3 data blocks (`IndexSpec`) | `ContentIsWritten`: a file holds what was written and zeroes elsewhere, except exactly what goes with unsaved entries of a reused slot, and the saved size covers it; `BlocksOwned`: blocks are named by one entry and marked used; on a disk that fills up, with the two files in the middle of their walks |
| `uvm` | 2 processes, 3 pages of mmap area, 3 region nodes, 7 user and 14 kernel pages, 5 programs | regions sorted, disjoint and merged; no user page in two places, and while `tidy` none lost and every mapped page where `proc_free` looks; `munmap` exact |
| `files` | 2 processes, 2 files, 2 descriptors each; a data file, a directory, a device; 3 open modes | `FileRefsExact`: a file counts its descriptors; `InodeRefsExact`: an inode counts files, working directories and calls, through failed opens and reaping; `TransferKeepsPlace`: a transfer has file, inode and shared offset to itself |
| `tree` | 1 process, 2 names, 4 inodes, 3 blocks of 3 entries, 2 links (`CarefulSpec`) | `TreeShape`: directories stay a tree without dangling names; `LinksCover`: the counts of files cover their names although failures are ignored; `UsedStaysAllocated`: an inode lives exactly as long as it is linked, open or a working directory |

### Why the bounds are enough

* `sleeplock`: two competitors for the lock plus one that can run between a
  wakeup and the sleeper's return; two harts are needed for any step between two
  instructions of a lock section, and with three processes there is always one
  that is not on a hart. The proofs remove the bound for safety.
* `proc`: init, a parent and a child give every order of parent and child exit,
  reparenting, and reuse of a freed slot by fork.
* `bufcache`: three threads make two meet in one buffer while the third misses;
  three blocks over two buffers force eviction, and all buffers in use.
* `spinlock`, `intr_swtch`: two locks for nesting (noff = 2), two harts for
  migration, two nested handlers (a handler interrupted at its end).
* `virtio`: eight descriptors are the real number; two requests fill them, so
  two of four threads wait, which is where the wakeups chase each other.
* `console`: eight characters go twice around the ring of four.
* `inodecache`: two threads on one inode, and a second name and number so that
  slots, names and numbers are reused. `MaxLink` = 2 bounds the links in the guard of
  `LinkEntry`; nothing proved depends on it.
* `inode_index`: three blocks are the smallest number that reaches a doubly
  indirect block, and little enough that most writes meet a full disk; two files
  pass blocks to each other. `MaxLen` = 2 lets a write fail half way.
* `uvm`: three pages of mmap area allow two regions with a hole, splits and both
  merges; the pools are small enough to run out in fork, brk and mmap. `MaxBrk`
  and `MaxLen` bound heap and requests; `PG` = 2 gives unaligned heap tops. The five
  programs have two segments side by side or with a shared page, a segment on page 0, one
  in the mmap area, and none. `LenLimit` = 4 stands for 2^32, so that some requests
  are cut: a heap in the mmap area is large enough.
* `files`: parent and child sharing a file while the table, or a descriptor table, is
  full; a file that two descriptors and two processes refer to; a working directory
  that is put while another process uses it. `MaxOff` = `MaxLen` = 1 is the smallest
  offset that tells a moved one from one that stayed; offsets wrap beyond it.
* `tree`: the root and three more inodes give two levels of directories, a file linked
  from both, and reuse of every number; three blocks hold two levels of directories
  and nothing more, so that entries, dots and links fail for want of a block.
  `MaxLink` and `MinLink` (counts of removed directories go negative) bound the links.
  `MCPaths` has every shape of path that reaches one directory down or up.

The properties named in section 3 as invariants of `IntrSwtch`, `VirtioDisk`, `Console`,
`InodeCache`, `InodeIndex`, `Uvm`, `FileTable` and `Tree` contain the module's type
invariant (`SwTypeOK`, `IndexTypeOK`, `TreeTypeOK`, elsewhere `TypeOK`).

### Deadlock

`proc`, `intr_swtch`, `virtio` and `uvm` say `CHECK_DEADLOCK FALSE`: a hart that panics in
`Proc` keeps its locks, and others may spin on them for ever; an `sret` to a wrong address
ends what `IntrSwtch` follows, and harts in panic stay there; a lost completion can leave
every thread of `VirtioDisk` asleep (all in section 5); and a panic stops `Uvm`.

### Fairness

Only `sleeplock` needs it (`FairSpec`):

* weak fairness of kernel steps: a hart executes its next instruction; of
  `Preempt`: the clock keeps ticking;
* strong fairness of `Dispatch`: `proc_scheduler` visits all slots in turn, so a
  process that is RUNNABLE whenever a hart passes is run;
* strong fairness of the woken process's way to `slk->lock` and of `Wake`: the
  locks in question are held for a few instructions and a time slice is far
  longer, so the spinning hart meets one free. The code has no queue that would
  guarantee it for one particular acquisition; this is a scheduling assumption.

No process is obliged to acquire or release a lock.

## 4. Proofs

### SpinlockProofs
Assumptions: `NoCPU` is no hart (`CPUsAssumption`), at least one lock
(`NLocksAssumption`). The number of harts is arbitrary, even infinite; nesting
depth and number of locks are arbitrary. Lock ordering is built into the
specification (`Spinlock`'s guard of acquire), as the callers' obligation.

`IndInv` is `TypeOK` with
* `InvOwner`: `cpuid` names exactly the hart in the critical section, and while a
  lock is being handed out or given back one hart only is doing so;
* `InvNoff`: `noff` = locks held + 1 inside acquire or release, and interrupts
  are off unless it is 0;
* `InvOrder`: a hart never asks for a lock it holds;
* `InvTrap`: a handler only runs over code that held nothing and had not yet
  disabled interrupts;
* `InvX`: SIE, or its saved copy once it is disabled, is what the code outside the
  locks set.

The safety properties are not inductive alone: exclusion needs the owner field,
which needs the two half-open windows; the restored SIE needs the exact count, which
survives interrupts only because they come at `noff` = 0. Theorems:
`TypeCorrect`, `SpinlockExcludes`, `AssertionsHold` (the panics and assertions of
`spinlock.c` are unreachable), `NoInterruptWhileHolding`, `XRestored`.

About `IntrSwtch` (`SwSpec`; at least one level of nested handlers, `NoThread` is no
thread) the module proves `NoffAcrossSwtch`. There the threads on a hart change, and
`NoffFollowsLocks` is inductive only with an account of the threads that are on no
hart. `SwInv` is
* `SwInvFrames`: a stack is the frame of a trap from user mode with handler frames on it,
  and only a frame at an interruptible point has another above it;
* `SwInvCur`: a thread is on one hart at most; one that is on none, or from which a hart
  has switched away, is at a point of `swtch`, where its own `lk` is the one lock taken,
  unless it was killed: then it has none and stays on that hart;
* `SwInvNoff`: `noff` is the number of locks of the code on the hart (`Depth`), and
  interrupts are off unless that is 0;
* `SwInvRest`: types of the rest.

`SwInvCur` is what lets the pops of one thread cancel the pushes of another: whatever
thread the scheduler takes, it contributes the same one lock.

### SchedProofs: SleepLock
Assumptions: the constants `NoCPU`, `NoProc`, `NoChan` are distinct from what they
stand in for, at least one process. Numbers of processes and harts are arbitrary.

`LockIndInv` is `LockTypeOK`, `MutualExclusion`, `NoLostWakeup` with
* `InvSpin`: `slk->lock` is held exactly by the hart of a process at a point
  between acquiring and releasing it;
* `InvHart`: `p->lk` is held by the hart whose current process is `p`, and a hart
  that is back in the scheduler before dropping it left `p` at a switching point;
* `InvSleep`: on its way down a process holds its own `lk`, and a SLEEPING process
  is inside `sleeplock_acquire`.

`NoLostWakeup` needs `InvSleep`: the waker cannot pass the sleeper's slot between
its decision and its sleep, because the sleeper holds `p->lk` from before it drops
`slk->lock`. Theorems: `TypeCorrect`, `LockExcludes`, `WakeupNotLost`, `OneHart`,
`SpinlockNotCarried`, and `RefinesAbsLock`: every step is a request, grant or
release of `AbsLock`, or a stutter.

### SchedProofs: Proc
Assumptions: those of `Sched`, and that a process may sleep on its own slot
(`ChansAssumption`). Numbers of slots and harts are arbitrary.

The difficulty is that several harts can execute one slot: a process between the last
two lock sections of `proc_exit` may be reaped, its slot given to a new process, and
the two run side by side, each making the state what it wants by a tick. The invariant
therefore tells the living from the dead (`Alive`: not past the point where `proc_exit`
dropped its locks, nor in a yield that began there). `IndInv` is `TypeOK`, `ParentAlive`
and `NoLostChildWakeup` with
* `InvOneLive`: of the contexts of a slot, executed or saved, at most one is live;
* `InvState`: the slot of a live context is RUNNING or RUNNABLE, and ZOMBIE from
  `ExitLockSelf` on until `curr->lk` is dropped, in slots that are not `early` until
  `lifecycle_lock` is dropped too;
* `InvEarly`: in a slot that is not `early` a dead context stands in the gap of `proc_exit`
  or behind it, its slot is ZOMBIE, and what may be scheduled is live;
* `InvContext`: `swtch` saves and resumes contexts at few points only;
* `InvLocks`: who holds `lifecycle_lock` and `p->lk`, in both directions, harts in panic
  included;
* `InvParents`: init lives, a free slot has no parent, and an exiting process has no
  child among the slots it has visited;
* `InvWaiting`: a parent in the loop of `proc_wait` has no dead child behind it; once it
  has its own `lk` it has none at all; once it has dropped `lifecycle_lock`, a child that
  died since is still to visit it.

`ParentAlive` could break by a fork of the exiting process behind its loop; the forking
context would be a second live one. The unlocked test of a tick is harmless outside
`early`: the slot of a live context changes state by its own steps only, and a
dead one finds ZOMBIE and does not yield (`InvEarly`). `NoLostChildWakeup` holds because a child becomes
ZOMBIE only under `lifecycle_lock`, and its wakeup loop cannot pass the parent's slot
while the parent holds its `lk`. `ParentAlive` is needed for the wakeup too: a process
is not its own parent, so the loop does not skip the one it must wake. Theorems:
`ProcTypeOK`, `ProcParentAlive`, `ProcWakeupNotLost` and, as an action property,
`ProcZombieOnlyReaped`. They are about `Spec`; with the kill path (`KillSpec`) the
locks are no longer as `InvLocks` says (section 5, `NeverNotHolding`). `ProcParentAlive` and
`ProcZombieOnlyReaped` except the slots of `early`, for which both are false
(`DeadStayDead`); `ProcTypeOK` and `ProcWakeupNotLost` hold of every slot.

### BufCacheProofs
Assumptions: at least one buffer; finitely many threads (they are counted);
`Unused` and `None` are neither block, thread nor content.

`IndInv` is `TypeOK`, the four properties of the run and `UseInv`: a thread that refers
to a buffer has asked for a block, one that uses the data has read it, and a buffer with
a block has a page. The properties need each other: the lists agree with `ref`, so the
victim of a miss and the pages `buffer_freemem` takes belong to nobody
(`UsersKeepTheirBlock`); a block on neither list is in no buffer, so the miss keeps
`OneBufferPerBlock`; and only the one holder of the sleeping lock changes or fills a
buffer, which is `CacheCoherent`. Lemmas say what `RemoveFirst` and the insertion at the
head do to a list without repetition, and how a count changes with one thread.
Theorems: `BufTypeOK`, `BufRefCountsUsers`, `BufOneBufferPerBlock`,
`BufUsersKeepTheirBlock`, `BufCacheCoherent`.

### SyscallProofs: Console
Assumptions: a ring of at least one character; `NL` is none of the other characters and
`NoReader` no reader; the bounds on what is typed and read are numbers. Ring size,
readers and bounds are arbitrary.

`IndInv` is `IndicesOrdered` (with `TypeOK`), `ReaderWoken` and `LineUnfinished`: the line
being edited holds no newline. Without it Ctrl-U, which stops at a newline, could
run back into finished input. That it survives a write into the ring is modular
arithmetic: two indices less than the size apart do not share a slot. Theorems:
`ConsoleIndicesOrdered`, `ConsoleReaderWoken`, and `ConsoleRefinesLine`: under the
mapping of the two stretches of the ring to the queues of `AbsLine`, every step of
`cons_edit` and `cons_read` is a step of `AbsLine` or a stutter.

### SyscallProofs: Tree
Assumptions: positive sizes; links bounded within a short (`MaxLink`, `MinLink`); the dots
and `Nil` are no ordinary names; paths are sequences of names. Processes, names, inodes,
blocks, entries in a block, the length of paths and the depth of the tree are arbitrary.
The theorems are about `CarefulSpec`.

`TreeInv` is `TreeTypeOK`, `UsedStaysAllocated` and
* `Shape`: the root is a directory; names in a directory differ; a directory has at most
  one name, the root none; `.` leads to the directory itself, `..` of one that has a name
  to the directory with that name, `..` of the root to the root;
* `Covered`: an inode has finitely many names and at least as many links;
* no file has a negative count (removed directories do);
* every working directory can be reached from the root.

The properties alone are not inductive: `sys_open` must find an inode that exists, or
the next `inode_put` would give back what is not allocated. So a walk must stay on
directories that can be reached. By an ordinary name it goes down to an inode that has a
link, by `.` nowhere, and by `..` up to the only parent, which can be reached because the
directory can. The `..` of a removed directory leads anywhere; no walk gets there.
`Reachable` is the least set that holds the root and the subdirectories of its members,
so that what is reached by no name could be left out (`ReachedByName`); that the
recursive function of `Walk` exists and stays in it follows from the least round that
would not (`WalkExists`, `WalkStays`). The calls compose three kinds of change, each with
a lemma for `Shape`: an entry in a hole or at the end (`PutAt`), a new inode with at most
two dots (`Fresh`), and removal of entries and inodes (`Thinner`). `LeaveKeeps` closes
every call; what a directory loses in `path_unlink` it leaves to `KeepsLink`. Theorems:
`TreeStaysTree`, `LinksCoverNames`, `UsedInodesStay`.

### InodeProofs: InodeCache
Assumptions: at least one inode and slot, finitely many threads, `None` is neither a
thread nor a number. `IndInv` is `RefsExact` (with `TypeOK`) and `SlotKeepsInode`,
inductive together: that `inode_get` changes the number of a slot under nobody needs
the exact count, the count needs that `inode_put` is of the slot that was got.
Theorems: `InodeRefsExact`, `HeldSlotKeepsInode`.

### InodeProofs: InodeIndex
Assumptions: the five numbers are positive (`IndexAssumption`). Files, entries of an
inode and of a block, and blocks of the disk are arbitrary; `MaxLen` bounds one request.

The argument is about *places*: an entry `k` of the inode and entries `i`, `j` of the
index blocks on the way, `Stop` for none. `At(f, k, i, j)` is the block found there, an
index block or a data block. `IndexIndInv` is `IndexTypeOK` with
* `InvOwned`: a block at a place is marked used;
* `InvUnique`: no block is at two places, of one file or of two;
* `InvDisk`: an entry of the inode on disk is empty if it is `fresh`, and otherwise that in
  memory: entries are added, and saved later;
* `InvWalk`: a file that is read or written is in use, and its walk stands at the block
  of a place on the way to block `cur`;
* `InvContent`: what a reader finds is `want`, and zero in `lost`;
* `InvSize`: the size on disk is that in memory, and a block that was written is below it
  or was written by the write in progress;

and beside it `InvDead`: nothing is written to a file that is not in use. `InvDisk` is why
`Evict` loses what it does and no more: a block survives if and only if the entry of the
inode on its way was saved. A new block is
at no place because it was free (`InvOwned`), so that zeroing it and entering it changes
what is at one place only (`EnterRoot`, `EnterSecond`, `EnterThird`, one for each level).
`InvUnique` then gives the rest: a write changes the content of one place, and `Path` is
injective (`PathNumber` computes the number back by division), hence of one logical block
of one file; what a deletion gives back is at places of the deleted file, hence at none
of another. Theorems: `BlocksAreOwned`, `ContentAsWritten`.

### FileTableProofs
Assumptions: finitely many processes, init among them; at least one file and
descriptor; every inode has a type, the root is a directory; open modes are sets of the
four flags; `Nil` is nothing else. No other bound.

`IndInv` is `FileRefsExact`, `InodeRefsExact` (with `TypeOK`), `TransferKeepsPlace` with
* `InvLocals`: what the locals of a call mean at each of its points;
* `InvOther`: a call that works on the descriptors of another process is `proc_fork`
  making it or `proc_free` freeing it, and the descriptors fork has not reached are empty;
* `InvAlone`: no two calls make or free the same process;
* `InvSlots`: an unused slot holds nothing, a process has a working directory until
  somebody frees it;
* `InvXfer`: a transfer goes through a descriptor of its own process, so that its file
  cannot be closed under it.

Each action is shown to keep every part. The counts are cardinalities of sets of
descriptors, processes and files; they are treated as counts of the values of four
functions (`HeldV`, `InstV`, `OpenV`, `CallV`), and `CountChange` says what one update
does to one of them. Theorems: `FileTableFileRefs`, `FileTableInodeRefs`,
`FileTableTransfer`.

### VirtioDiskProofs
Assumptions: at least three descriptors, finitely many threads, `NoBuf` is no thread and
`Stale` no content of a block.

`IndInv` is `TypeOK`, `ChainsExact` and `PlacesExact` (the parts of `RequestsAccounted`) and
`TransferDone` with
* `InvWait`: `b->disk` is set exactly while its thread waits, and `info` leads from the head
  of a chain to its thread;
* `InvRings`: no entry is twice in a ring or in two places;
* `InvData`: a request whose entry is in the used ring, or whose thread was told, has been
  carried out;
* `InvNoDesc`: while a thread sleeps on `free[0]` fewer than three descriptors are free.

The handler identifies the request by `info` alone, so that the right thread is told
needs all of the first three. That the used ring never holds `VIRTIO_NUM` entries is a
counting argument: the second descriptor of a chain is never an entry. A wakeup for
descriptors is not lost because `free_desc` wakes every sleeper before anybody can sleep
again. Theorems: `DiskRequestsAccounted`, `DiskTransferDone`, `DiskDescWakeup`.

### UvmProofs
Assumptions: the layout is ordered, with room for a heap of two pages below the mmap area
(`LayoutAssumption`); finitely many processes, the first among them, and two user and six
kernel pages for it (`InitAssumption`). Page size, layout, pools and numbers of processes
and region nodes are arbitrary.

`IndInv` is
* `InvTypes`, stronger than `TypeOK` in that the stack stays above the mmap area;
* `InvLists`: region lists are sorted, disjoint, and no region touches the next;
* `InvLive`: a process has its trapframe and root table; while `tidy`, its heap ends below
  the mmap area and it maps pages of its heap, regions and stack only; a free slot has
  nothing;
* `InvCounts`: user pages in the pool and in use are never more than there are, and exactly
  as many while `tidy`; region nodes add up; page table pages do not exceed their pool.

The regions and the counts need each other through `InvLive`: where the first-fit search
puts a region no other is, so its pages are in no area and not in the page table, and
mapping them takes exactly as many pages from the pool. The list operations (`Near` is
the order in which only regions in a given set of positions may touch the next) are
followed through insertion, the two merges, and the cut of `munmap` into what is left of
each region. Theorems: `RegionsStayApart`, `PagesAreConserved` and, as an action property,
`MunmapIsExact`.

### Only model-checked
* Progress of the sleeping lock, and freedom from deadlock: liveness and ENABLED are
  outside what the prover handles.
* What the code does not do (section 5) is shown by counterexamples, not proved.

## 5. Known deviations

Places where the models contradict a comment or an assertion of the code, stated in
the last section of their module.
To reproduce one, put its name as the only INVARIANT (PROPERTY, for an action or
temporal formula) into the module's cfg, with the specification named here if it
is not that of the cfg, and without SYMMETRY for an action or temporal formula (two threads
are enough for `RequestFinishes`; two threads and `MaxVer` = 0 for `GetReturnsBlock`). TLC
finds each of them violated. The models contain the behaviour, and most of the passing
properties hold in spite of it. These hold only where it is set aside, and say so:

* `ParentAlive` and `ZombieOnlyReaped` except the slots of `early` (`NeverRevived`,
  `DeadStayDead`), and the `proc` run is without the kill path (`NeverNotHolding`);
* the second half of `PagesConserved` while `tidy` (`UserPagesReturned`);
* `ContentIsWritten` except what is `lost` (`WrittenSurvives`);
* `TreeShape`, `LinksCover` and `UsedStaysAllocated` under `CarefulSpec`
  (`NamedNotDeleted`, `CwdAllocated`);
* the properties of `Uvm` end with the first panic (`ForkFindsPages`, `UnmapsNonEmpty`).

| property (module) | source | what happens |
|---|---|---|
| `NeverRevived` (`Proc`) | `proc/proc.c:377` | `proc_exit` has released every lock before it switches away; the slot is freed and reused, its fresh context overwritten by the dead one, and `panic("zombie process revived")` (381) is reached. A new process RUNNING in the slot loses its context with it. |
| `DeadStayDead` (`Proc`) | `proc/proc.c:295` | `trap_kernel_handler` tests RUNNING without `p->lk` (`trap/trap_kernel.c:104`) and `proc_yield` stores RUNNABLE unconditionally: a dead context in a reused slot tests the new process, and makes RUNNABLE what has meanwhile become a ZOMBIE, or UNUSED without a parent. |
| `GetReturnsBlock` (`BufCache`) | `fs/buf.c:126` | A miss publishes the buffer before it reads the block; a second `buffer_get` may lock it first and return the page's previous content. |
| `NeverRecursive` (`Proc`) | `proc/proc.c:366` | An exiting process with a ZOMBIE child calls `proc_wakeup` while holding that child's `lk`, which `proc_wakeup` acquires again: `panic("recursive lock")`. |
| `NeverNotHolding` (`Proc`, `KillSpec`) | `trap/trap_user.c:82` | Killing a faulting process switches without `p->lk`; the scheduler's release of it panics, and the hart is lost instead of one process. |
| `RestoresXAcrossSwtch` (`IntrSwtch`) | `proc/proc.c:288` | `proc_sched` does not save `cpu->origin`; a thread that yielded inside a trap handler resumes with interrupts on, against `lock/spinlock.c:9`. |
| `ReturnsToInterrupted` (`IntrSwtch`) | `trap/trap_kernel.c:110` | With interrupts on there, one that comes between `w_sepc` and `w_sstatus` replaces the return address. |
| `FreesFromBack` (`BufCache`) | `fs/buf.c:162` | The comment at 154 walks the inactive list from the back; the loop starts at its head and frees the most recently used pages first. |
| `VictimIsLRU` (`BufCache`) | `fs/buf.c:110` | The "LRU Victim" (108) is the head of the inactive list, where `buffer_put` inserts: the most recently released buffer. |
| `RequestFinishes` (`VirtioDisk`, `FairSpec`) | `fs/virtio.c:232` | The interrupt is acknowledged after the used ring was drained; a completion in between is acknowledged unseen and its thread sleeps for ever if no other request follows (against 205). |
| `OneSlotPerInode` (`InodeCache`) | `fs/inode.c:261` | Only slots with `valid_info` match; two gets before the first `inode_lock` make two slots of one inode, which 260 says the test prevents. |
| `OpenSeesValidInfo` (`InodeCache`) | `fs/fs.c:138` | `file_open` decides on `disk_info.type` of a slot that may not have been read. |
| `OpenInodeAllocated` (`InodeCache`) | `fs/inode.c:366` | `ref == 1` is taken for "only I am using it" (367); the inode may be open in another slot and is freed under it. |
| `ForkFindsPages` (`Uvm`) | `proc/exec.c:193` | exec keeps the region list and counts a stack page that is elsewhere; the next fork hits `panic("uvm_copy: source pte missing")` (`mem/uvm.c:450`). |
| `StackMapped` (`Uvm`) | `proc/exec.c:193` | The same page faults, is found within the counted stack (`mem/uvm.c:391`) and faults again, for ever. |
| `UnmapsNonEmpty` (`Uvm`) | `mem/uvm.c:208` | An mmap of zero pages makes a region whose removal hits `panic("vm_unmappages: zero length")` (`mem/kvm.c:104`). |
| `UserPagesReturned` (`Uvm`) | `mem/uvm.c:428` | `uvm_destroy_pgtbl` frees a leaf only if it has PTE_U, which `sys_mmap` (`syscall/sysfunc.c:51`) does not require of `prot`; and where two segments of a program share a page, `vm_mappages` (`mem/kvm.c:77`) overwrites the entry of the first. Either way user pages are lost (against 415). |
| `TablesReturned` (`Uvm`) | `proc/proc.c:196` | `proc_free` returns the root of the page table only; each fork and exit loses table pages (against the comment at 158). |
| `WrittenSurvives` (`InodeIndex`) | `fs/inode.c:462` | A block added in a hole changes the index in memory only; the write is lost when the slot is reused. |
| `DeleteFreesAll` (`InodeIndex`) | `fs/inode.c:62` | `free_data_blocks` stops at the first empty entry; blocks behind a hole stay marked used (against 349). |
| `DirectoriesReadOnly` (`FileTable`) | `fs/fs.c:164` | `file_open` refuses a directory unless it is opened for reading (140), but `writable` masks with `O_RDWR`, which contains the read bit: every file opened for reading, a directory too, is writable. |
| `ReadWriteReadable` (`FileTable`) | `fs/fs.c:163` | `readable` is false whenever the write bit is set: a file opened with `O_RDWR` cannot be read. |
| `FreeNeverWaits` (`FileTable`) | `proc/proc.c:163` | `proc_free` runs with `p->lk` and `lifecycle_lock` held (158) and may hold the last reference to an unlinked inode, whose deletion sleeps on the disk. |
| `NamedNotDeleted` (`Tree`, `TreeSpec`) | `fs/dentry.c:355` | Removing a directory takes a link from the parent, making one gives it none: after two removals a subdirectory, after one the root, has no link and is deleted by its last user although it has a name. |
| `CwdAllocated` (`Tree`, `TreeSpec`) | `fs/dentry.c:333` | The `..` of a removed directory keeps naming a parent that can be removed, deleted and reused. |
| `LinksExact` (`Tree`) | `fs/dentry.c:320` | `path_link` counts a link, and `path_create_inode` makes an inode with one, also when `dentry_create` failed: the count (`fs/type.h:163`) is above the number of names for ever. |
| `NothingOrphaned` (`Tree`) | `fs/dentry.c:349` | A removed directory keeps the link of its `.`, and what it contained keeps its links: neither inodes nor blocks come back. |
| `DotsPresent` (`Tree`) | `fs/dentry.c:292` | On a full disk a directory is made without `.` and `..`. |
| `CwdHasPath` (`Tree`) | `fs/dentry.c:249` | `inode_to_path` looks up `..` in the working directory on every round, not in the directory it has reached: two levels below the root it never ends. |

## 6. Assumptions and what is not modelled

* Memory is sequentially consistent; `__sync_synchronize` and the acquire/release
  swaps give the code that much around its locks.
* `myproc()` is one step. It reads `tp` and then `cpus[tp].proc` with interrupts
  possibly on (`lib/cpu.c:19`); a migration in between is not in the models.
* The test calls on raw blocks and inode numbers (`syscall/syscall.c:15-25`) let any
  program at the file system from below: `sys_alloc_block`, `sys_free_block`,
  `sys_alloc_inode` and `sys_free_inode` change the bitmaps under the files (`BlocksOwned`,
  `UsedStaysAllocated` break), `sys_write_block` writes over any block of any file
  (`ContentIsWritten` breaks), `sys_put_block` gives back whatever address it is told
  (`RefCountsUsers`, `CacheCoherent` break). The models leave these uses out: blocks and
  numbers are taken and given back by the file system only. `BufCache` has what a thread does
  with a buffer it holds: `sys_get_block`, then writing through `buffer_write` as in
  `sys_write_block`, and the put of that buffer; and `sys_flush_buffer`.
* `Proc` and `IntrSwtch` keep the stacks of contexts apart. A dead context and the new one of
  a reused slot share a kernel stack; what they do to each other there is not followed.
* `Proc` abstracts open files, `FileTable` the locks of `proc_wait`: that `proc_free`
  closes files under `lifecycle_lock` and the child's `lk` is in section 5, the panic
  it leads to is not followed.
* `FileTable`: an inode in memory keeps its type, and a lookup succeeds with any inode.
  Whose child a zombie is does not matter to its files, so any process may reap it.
* `Tree`: one call at a time (concurrency in one directory is in `InodeCache`); the
  inodes have been read before, and there are slots for all of them. Files take no
  blocks; a disk filled by directories fails in the same way as one filled by files.
  Creating a file whose number is that of a deleted directory in which it is created
  (section 5, `CwdAllocated`) would wait for its own lock and is left out, and so are
  removing a directory from itself and `link("f", "f/x")` (`fs/dentry.c:314` and 322 acquire
  one sleeping lock twice): these calls never return.
* `Uvm` addresses are page aligned except the heap top. `munmap` of an unaligned
  range (`mem/uvm.c:304`) is outside, and so is a segment of a program over the area of the
  stack or the trapframe. `prot` holds permission bits only. brk cannot reach the mmap area:
  the user pool is smaller than the gap; exec can put the heap there. A panic ends the
  model, with all harts.
* `Console` indices do not overflow (2^31 characters).
* `InodeIndex`: an inode has one copy in memory (`InodeCache` shows where it has two,
  section 5, `OneSlotPerInode`); an entry of an index block is read, and a missing block
  added, in one step. Contents are "written" or zero.
* Not modelled: boot and CSR set-up, PLIC, the kernel page table, formatted output
  and string helpers, user programs and `mkfs` beyond the root directory: sequential
  set-up or pure I/O. The clock: `sys_sleep` polls `ticks` and yields, and `timer_wait`,
  the only sleeper on it, has no caller. The free lists of `pmem.c` inside pages are
  counts of pages in `Uvm` and `BufCache`.

## 7. Plan

Done: `Spinlock`, `Sched`, `SleepLock` with `AbsLock`, `Proc`, `IntrSwtch`,
`VirtioDisk`, `BufCache`, `Console` with `AbsLine`, `InodeCache`, `InodeIndex`,
`FileTable`, `Tree`, `Uvm`.

Next, in this order:

1. `Tree` with the calls of two processes cut at their locks, over `InodeCache`: the
   inode number found in a directory is used after its lock is released.
2. The two reads of `myproc()` in `IntrSwtch`.
