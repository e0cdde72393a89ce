-------------------------------- MODULE Proc --------------------------------
(***************************************************************************)
(* The life cycle of a process (src/kernel/proc/proc.c): fork, exit, wait  *)
(* and preemption over the scheduler of Sched, plus the path of            *)
(* trap_user_handler that kills a faulting process.                        *)
(*                                                                         *)
(* A hart executes a kernel context run[c]; swtch saves it in ctx[p] and   *)
(* loads another.  The two are kept apart because proc_exit lets its slot  *)
(* be freed, and allocated again, before it has left the slot's stack.     *)
(* A context is a point in the code, a loop index, and the point to return *)
(* to after a preemption.  panic() is an endless loop of its caller, who   *)
(* keeps the locks he holds; the other harts go on.                        *)
(***************************************************************************)
EXTENDS Sched

\* proc_wait sleeps on the caller's own proc_t.
ASSUME ChansAssumption == Procs \subseteq Chans

VARIABLES
  parent,      \* parent[p]: p->parent
  lifecycle,   \* the hart holding lifecycle_lock
  run,         \* run[c]: the context hart c executes when mode[c] = "proc"
  ctx,         \* ctx[p]: p->ctx, the context saved by swtch
  early        \* history: slots that were freed under a hart still executing them

pvars == <<parent, lifecycle, run, ctx, early>>
vars == <<svars, pvars>>

init_process == 0

\* The loop of panic() after proc_exit has come back, by init, and in
\* spinlock_acquire.
PanicPoints == {"exited", "initExit", "recursive"}
Points == {"entry", "user", "tick", "yielded", "fork",
           "exit", "wakeInit", "exitWake", "exitDrop", "exitGap", "exitLast",
           "wait", "waitSlp1", "waitSlp2", "slept", "waitAgain", "waitDone"}
          \union PanicPoints

Context == [pt : Points, idx : 0 .. NPROC, ret : Points]
At(pt, i) == [pt |-> pt, idx |-> i, ret |-> "user"]
NoContext == At("user", 0)    \* a context that swtch has loaded, or saved, elsewhere

\* The type invariant.
TypeOK ==
  /\ SchedTypeOK
  /\ parent \in [Procs -> Procs \union {NoProc}]
  /\ lifecycle \in CPUs \union {NoCPU}
  /\ run \in [CPUs -> Context]
  /\ ctx \in [Procs -> Context]
  /\ early \subseteq Procs

\* proc_init and proc_make_first: one process, about to run for the first time.
Init ==
  /\ SchedInit({init_process})
  /\ parent = [p \in Procs |-> NoProc]
  /\ lifecycle = NoCPU
  /\ run = [c \in CPUs |-> NoContext]
  /\ ctx = [p \in Procs |-> At("entry", 0)]
  /\ early = {}

\* Hart c is at point pt of process p's code (myproc() = p).
AtPoint(c, p, pt) == Running(c, p) /\ run[c].pt = pt

Goto(c, pt, i) == run' = [run EXCEPT ![c] = At(pt, i)]

\* while (1) of panic().
PanicLoop(c, p) == (\E pt \in PanicPoints : AtPoint(c, p, pt)) /\ UNCHANGED vars

----------------------------------------------------------------------------
(* Entering and leaving the scheduler *)

Dispatch(c, p) ==
  /\ Schedule(c, p)
  /\ run' = [run EXCEPT ![c] = ctx[p]]
  /\ ctx' = [ctx EXCEPT ![p] = NoContext]
  /\ UNCHANGED <<parent, lifecycle, early>>

\* The loop drops p->lk after swtch returns; a hart that does not hold it panics
\* and stays where it is.
DispatchBack(c) ==
  /\ SchedReturn(c)
  /\ UNCHANGED pvars

\* proc_entry_point, and proc_yield once rescheduled, drop p->lk.
Enter(c, p) ==
  /\ AtPoint(c, p, "entry")
  /\ YieldResume(c, p)
  /\ Goto(c, "user", 0)
  /\ UNCHANGED <<parent, lifecycle, ctx, early>>

YieldBack(c, p) ==
  /\ AtPoint(c, p, "yielded")
  /\ YieldResume(c, p)
  /\ run' = [run EXCEPT ![c].pt = run[c].ret, ![c].ret = "user"]
  /\ UNCHANGED <<parent, lifecycle, ctx, early>>

\* Where an interrupt can come: no spinlock is held.
Interruptible == {"user", "fork", "exitGap", "waitAgain", "initExit"}

\* Mutant: trap_kernel_handler yields whatever the state.
TickAnyState(c, p) ==
  /\ \E pt \in Interruptible : AtPoint(c, p, pt)
  /\ run' = [run EXCEPT ![c].pt = "tick", ![c].ret = run[c].pt]
  /\ UNCHANGED <<svars, parent, lifecycle, ctx, early>>

(* A timer interrupt.  trap_user_handler decides to yield, and             *)
(* trap_kernel_handler does when it finds myproc()->state RUNNING; no lock *)
(* protects what it has found.                                             *)
Tick(c, p) ==
  /\ \E pt \in Interruptible : AtPoint(c, p, pt)
  /\ run[c].pt = "user" \/ state[p] = "RUNNING"
  /\ run' = [run EXCEPT ![c].pt = "tick", ![c].ret = run[c].pt]
  /\ UNCHANGED <<svars, parent, lifecycle, ctx, early>>

\* proc_yield.
Yield(c, p) ==
  /\ AtPoint(c, p, "tick")
  /\ YieldSwtch(c, p)
  /\ ctx' = [ctx EXCEPT ![p] = [run[c] EXCEPT !.pt = "yielded"]]
  /\ run' = [run EXCEPT ![c] = NoContext]
  /\ UNCHANGED <<parent, lifecycle, early>>

\* trap_user_handler on a fatal exception: no lock, no wakeup of the parent.
Kill(c, p) ==
  /\ AtPoint(c, p, "user")
  /\ state' = [state EXCEPT ![p] = "ZOMBIE"]
  /\ mode' = [mode EXCEPT ![c] = "sched"]
  /\ ctx' = [ctx EXCEPT ![p] = At("exited", 0)]
  /\ run' = [run EXCEPT ![c] = NoContext]
  /\ UNCHANGED <<lk, sleep_space, cproc, parent, lifecycle, early>>

----------------------------------------------------------------------------
(* proc_fork *)

ForkCall(c, p) ==
  /\ AtPoint(c, p, "user")
  /\ Goto(c, "fork", 0)
  /\ UNCHANGED <<svars, parent, lifecycle, ctx, early>>

(* The loop of proc_alloc visits slot i under its lk.  A slot found UNUSED *)
(* stays locked until proc_fork has filled it in and made it RUNNABLE.     *)
ForkTake(c, p, i) ==
  /\ AtPoint(c, p, "fork") /\ run[c].idx = i
  /\ lk[i] = NoCPU /\ state[i] = "UNUSED"
  /\ state' = [state EXCEPT ![i] = "RUNNABLE"]
  /\ sleep_space' = [sleep_space EXCEPT ![i] = NoChan]
  /\ ctx' = [ctx EXCEPT ![i] = At("entry", 0)]
  /\ parent' = [parent EXCEPT ![i] = p]
  /\ Goto(c, "user", 0)
  /\ UNCHANGED <<lk, cproc, mode, lifecycle, early>>

ForkSkip(c, p, i) ==
  /\ AtPoint(c, p, "fork") /\ run[c].idx = i
  /\ lk[i] = NoCPU /\ state[i] # "UNUSED"
  /\ Goto(c, "fork", i + 1)
  /\ UNCHANGED <<svars, parent, lifecycle, ctx, early>>

\* Mutant: the search runs past the last slot.
ForkFailsPast(c, p) ==
  /\ AtPoint(c, p, "fork") /\ run[c].idx = NPROC
  /\ Goto(c, "fork", NPROC + 1)
  /\ UNCHANGED <<svars, parent, lifecycle, ctx, early>>

ForkFails(c, p) ==
  /\ AtPoint(c, p, "fork") /\ run[c].idx = NPROC
  /\ Goto(c, "user", 0)
  /\ UNCHANGED <<svars, parent, lifecycle, ctx, early>>

----------------------------------------------------------------------------
(* proc_exit *)

ExitCall(c, p) ==
  /\ AtPoint(c, p, "user")
  /\ p # init_process
  /\ lifecycle = NoCPU /\ lifecycle' = c
  /\ Goto(c, "exit", 0)
  /\ UNCHANGED <<svars, parent, ctx, early>>

ExitByInit(c, p) ==
  /\ AtPoint(c, p, "user")
  /\ p = init_process
  /\ Goto(c, "initExit", 0)
  /\ UNCHANGED <<svars, parent, lifecycle, ctx, early>>

\* Mutant: the child keeps its parent.
ExitVisitKeepsChild(c, p, i) ==
  /\ AtPoint(c, p, "exit") /\ run[c].idx = i
  /\ parent[i] # p \/ (lk[i] = NoCPU /\ state[i] # "ZOMBIE")
  /\ Goto(c, "exit", i + 1)
  /\ UNCHANGED <<svars, parent, lifecycle, ctx, early>>

\* The loop hands the children of p over to init; a child is visited under its lk.
ExitVisit(c, p, i) ==
  /\ AtPoint(c, p, "exit") /\ run[c].idx = i
  /\ \/ parent[i] # p /\ UNCHANGED parent
     \/ /\ parent[i] = p
        /\ lk[i] = NoCPU /\ state[i] # "ZOMBIE"
        /\ parent' = [parent EXCEPT ![i] = init_process]
  /\ Goto(c, "exit", i + 1)
  /\ UNCHANGED <<svars, lifecycle, ctx, early>>

\* A ZOMBIE child: proc_wakeup(init_process) runs with the child's lk held, ...
ExitVisitZombie(c, p, i) ==
  /\ AtPoint(c, p, "exit") /\ run[c].idx = i
  /\ parent[i] = p /\ state[i] = "ZOMBIE"
  /\ LkAcquire(c, i)
  /\ parent' = [parent EXCEPT ![i] = init_process]
  /\ Goto(c, "wakeInit", i)
  /\ UNCHANGED <<state, sleep_space, cproc, mode, lifecycle, ctx, early>>

\* ... comes to init, which is the first slot, and then to the child's own slot,
\* whose lk spinlock_acquire refuses.
ExitWakeInit(c, p) ==
  /\ AtPoint(c, p, "wakeInit")
  /\ WakeOne(init_process, init_process)
  /\ Goto(c, "recursive", run[c].idx)
  /\ UNCHANGED <<parent, lifecycle, ctx, early>>

ExitLockSelf(c, p) ==
  /\ AtPoint(c, p, "exit") /\ run[c].idx = NPROC
  /\ LkAcquire(c, p)
  /\ state' = [state EXCEPT ![p] = "ZOMBIE"]
  /\ Goto(c, "exitWake", 0)
  /\ UNCHANGED <<sleep_space, cproc, mode, parent, lifecycle, ctx, early>>

\* One round of proc_wakeup(curr->parent), with curr->lk and lifecycle_lock held.
ExitWake(c, p, i) ==
  /\ AtPoint(c, p, "exitWake") /\ run[c].idx = i
  /\ IF i = p THEN UNCHANGED svars ELSE WakeOne(i, parent[p])
  /\ Goto(c, "exitWake", i + 1)
  /\ UNCHANGED <<parent, lifecycle, ctx, early>>

ExitUnlockSelf(c, p) ==
  /\ AtPoint(c, p, "exitWake") /\ run[c].idx = NPROC
  /\ LkRelease(c, p)
  /\ Goto(c, "exitDrop", 0)
  /\ UNCHANGED <<state, sleep_space, cproc, mode, parent, lifecycle, ctx, early>>

ExitDropLifecycle(c, p) ==
  /\ AtPoint(c, p, "exitDrop")
  /\ lifecycle = c /\ lifecycle' = NoCPU
  /\ Goto(c, "exitGap", 0)
  /\ UNCHANGED <<svars, parent, ctx, early>>

\* curr->lk is taken a second time, and the dead context is switched away.
ExitRelock(c, p) ==
  /\ AtPoint(c, p, "exitGap")
  /\ LkAcquire(c, p)
  /\ Goto(c, "exitLast", 0)
  /\ UNCHANGED <<state, sleep_space, cproc, mode, parent, lifecycle, ctx, early>>

ExitSwtch(c, p) ==
  /\ AtPoint(c, p, "exitLast")
  /\ mode' = [mode EXCEPT ![c] = "sched"]
  /\ ctx' = [ctx EXCEPT ![p] = At("exited", 0)]
  /\ run' = [run EXCEPT ![c] = NoContext]
  /\ UNCHANGED <<lk, state, sleep_space, cproc, parent, lifecycle, early>>

----------------------------------------------------------------------------
(* proc_wait *)

WaitCall(c, p) ==
  /\ \/ AtPoint(c, p, "user")
     \/ AtPoint(c, p, "waitAgain")
  /\ lifecycle = NoCPU /\ lifecycle' = c
  /\ Goto(c, "wait", 0)
  /\ UNCHANGED <<svars, parent, ctx, early>>

\* Slots that are not children are passed over; so is a child that still lives.
WaitVisit(c, p, i) ==
  /\ AtPoint(c, p, "wait") /\ run[c].idx = i
  /\ parent[i] # p \/ (lk[i] = NoCPU /\ state[i] # "ZOMBIE")
  /\ Goto(c, "wait", i + 1)
  /\ UNCHANGED <<svars, parent, lifecycle, ctx, early>>

\* A ZOMBIE child is freed (proc_free) under lifecycle_lock and its lk, wherever
\* its proc_exit has come to.
WaitReap(c, p, i) ==
  /\ AtPoint(c, p, "wait") /\ run[c].idx = i
  /\ parent[i] = p /\ lk[i] = NoCPU /\ state[i] = "ZOMBIE"
  /\ state' = [state EXCEPT ![i] = "UNUSED"]
  /\ parent' = [parent EXCEPT ![i] = NoProc]
  /\ early' = IF \E d \in CPUs : Running(d, i) THEN early \union {i} ELSE early
  /\ Goto(c, "waitDone", 0)
  /\ UNCHANGED <<lk, sleep_space, cproc, mode, lifecycle, ctx>>

HaveKids(p) == \E i \in Procs : parent[i] = p

WaitReturn(c, p) ==
  /\ \/ AtPoint(c, p, "waitDone")
     \/ AtPoint(c, p, "wait") /\ run[c].idx = NPROC /\ ~HaveKids(p)
  /\ lifecycle = c /\ lifecycle' = NoCPU
  /\ Goto(c, "user", 0)
  /\ UNCHANGED <<svars, parent, ctx, early>>

\* Mutant: lifecycle_lock is dropped before curr->lk is taken.
WaitUnlocked(c, p) ==
  /\ AtPoint(c, p, "wait") /\ run[c].idx = NPROC /\ HaveKids(p)
  /\ Goto(c, "waitSlp1", 0)
  /\ UNCHANGED <<svars, parent, lifecycle, ctx, early>>

\* proc_sleep(curr, &lifecycle_lock): take curr->lk, drop lifecycle_lock, switch.
WaitLockSelf(c, p) ==
  /\ AtPoint(c, p, "wait") /\ run[c].idx = NPROC /\ HaveKids(p)
  /\ SleepLockSelf(c, p)
  /\ Goto(c, "waitSlp1", 0)
  /\ UNCHANGED <<parent, lifecycle, ctx, early>>

WaitDropLifecycle(c, p) ==
  /\ AtPoint(c, p, "waitSlp1")
  /\ lifecycle = c /\ lifecycle' = NoCPU
  /\ Goto(c, "waitSlp2", 0)
  /\ UNCHANGED <<svars, parent, ctx, early>>

WaitSleep(c, p) ==
  /\ AtPoint(c, p, "waitSlp2")
  /\ SleepSwtch(c, p, p)
  /\ ctx' = [ctx EXCEPT ![p] = At("slept", 0)]
  /\ run' = [run EXCEPT ![c] = NoContext]
  /\ UNCHANGED <<parent, lifecycle, early>>

WaitWoken(c, p) ==
  /\ AtPoint(c, p, "slept")
  /\ SleepResume(c, p)
  /\ Goto(c, "waitAgain", 0)
  /\ UNCHANGED <<parent, lifecycle, ctx, early>>

----------------------------------------------------------------------------
SwitchStep(c, p) ==
  Dispatch(c, p) \/ Enter(c, p) \/ YieldBack(c, p) \/ Tick(c, p) \/ Yield(c, p)

ForkStep(c, p) ==
  \/ ForkCall(c, p) \/ ForkFails(c, p)
  \/ \E i \in Procs : ForkTake(c, p, i) \/ ForkSkip(c, p, i)

ExitStep(c, p) ==
  \/ ExitCall(c, p) \/ ExitByInit(c, p) \/ ExitLockSelf(c, p) \/ ExitUnlockSelf(c, p)
  \/ ExitDropLifecycle(c, p) \/ ExitRelock(c, p) \/ ExitSwtch(c, p)
  \/ ExitWakeInit(c, p) \/ PanicLoop(c, p)
  \/ \E i \in Procs : ExitVisit(c, p, i) \/ ExitVisitZombie(c, p, i) \/ ExitWake(c, p, i)

WaitStep(c, p) ==
  \/ WaitCall(c, p) \/ WaitReturn(c, p) \/ WaitLockSelf(c, p)
  \/ WaitDropLifecycle(c, p) \/ WaitSleep(c, p) \/ WaitWoken(c, p)
  \/ \E i \in Procs : WaitVisit(c, p, i) \/ WaitReap(c, p, i)

Next ==
  \/ \E c \in CPUs, p \in Procs :
       SwitchStep(c, p) \/ ForkStep(c, p) \/ ExitStep(c, p) \/ WaitStep(c, p)
  \/ \E c \in CPUs : DispatchBack(c)

Spec == Init /\ [][Next]_vars

\* The same machine when user code may raise a fatal exception.
KillSpec ==
  Init /\ [][Next \/ \E c \in CPUs, p \in Procs : Kill(c, p)]_vars

----------------------------------------------------------------------------
(* Properties *)

\* p is asleep in proc_wait.
InWaitSleep(p) == state[p] = "SLEEPING" /\ sleep_space[p] = p

\* A wakeup loop of an exiting child of p has not passed p yet, or of an exiting
\* process that has handed a dead child over to p.
ExitWillWake(p) ==
  \E c \in CPUs, q \in Procs :
    /\ Running(c, q)
    /\ \/ run[c].pt = "exitWake" /\ parent[q] = p /\ run[c].idx <= p
       \/ run[c].pt = "wakeInit" /\ p = init_process

\* No lost wakeup between proc_exit and proc_wait: a parent asleep in proc_wait
\* that has a ZOMBIE child is about to be woken by that child's exit.
NoLostChildWakeup ==
  \A p \in Procs :
    InWaitSleep(p) /\ (\E q \in Procs : parent[q] = p /\ state[q] = "ZOMBIE")
      => ExitWillWake(p)

\* The tree stays connected to init: every slot in use but init's has a parent
\* that can still call proc_wait for it (not freed, not dead), unless the slot
\* was once freed before its dead context had left it (proc.c line 376): that
\* context may yield in the slot when it has been freed again.
ParentAlive ==
  \A p \in Procs \ early :
    state[p] # "UNUSED" /\ p # init_process =>
      parent[p] \in Procs /\ state[parent[p]] \notin {"UNUSED", "ZOMBIE"}

\* Freeing a slot too early is the one cause of a revived process: elsewhere the
\* one way out of ZOMBIE is proc_wait, although the tick tests the state without
\* p->lk and stores RUNNABLE later, and ticks come also behind the last wakeup of
\* proc_exit.
ZombieOnlyReaped ==
  [][\A p \in Procs \ early : state[p] = "ZOMBIE" =>
       state'[p] \in {"ZOMBIE", "UNUSED"}]_vars

----------------------------------------------------------------------------
(* What the comments and assertions of the code say, and the model refutes *)

AtPanic(pt) == \E c \in CPUs, p \in Procs : AtPoint(c, p, pt)

\* panic("zombie process revived") at the end of proc_exit is unreachable.
NeverRevived == ~ AtPanic("exited")

\* spinlock_acquire's panic("recursive lock") is unreachable from proc_exit.
NeverRecursive == ~ AtPanic("recursive")

\* trap_kernel.c line 102: a process that is running gives up the hart; a dead one
\* is not made RUNNABLE.
DeadStayDead == [][\A p \in Procs : state[p] = "ZOMBIE" => state'[p] # "RUNNABLE"]_vars

\* spinlock_release's panic("not holding") is unreachable when a process is killed.
NeverNotHolding ==
  \A c \in CPUs : mode[c] = "sched" /\ cproc[c] # NoProc => lk[cproc[c]] = c

=============================================================================
