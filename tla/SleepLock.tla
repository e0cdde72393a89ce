----------------------------- MODULE SleepLock -----------------------------
(***************************************************************************)
(* One sleeping lock (src/kernel/lock/sleeplock.c) used by every process,  *)
(* over the switching core of Sched.  The lock's inner spinlock slk->lock  *)
(* is owned by a hart; waiters sleep on the lock itself.                   *)
(*                                                                         *)
(* A process is outside ("out"), inside sleeplock_acquire ("test" holds    *)
(* slk->lock; "slp1", "slp2", "asleep", "reacq" are the points of          *)
(* proc_sleep), owns the lock ("crit"), or is inside sleeplock_release     *)
(* ("clear", "wake" hold slk->lock).  Timer preemption (proc_yield) hits   *)
(* the points where no spinlock is held, interrupts being off elsewhere.   *)
(***************************************************************************)
EXTENDS Sched

CONSTANT slk    \* the channel waiters sleep on: the address of the lock

ASSUME SlkAssumption == slk \in Chans

VARIABLES
  slkLock,   \* the hart holding slk->lock
  locked,    \* slk->locked
  pid,       \* slk->pid, named by its process; NoProc for 0
  pc,        \* pc[p]: where p is in sleeplock_acquire / sleeplock_release
  widx       \* widx[p]: loop index of p's proc_wakeup

slkvars == <<slkLock, locked, pid>>
lockvars == <<svars, slkvars, pc, widx>>

LockPoints == {"out", "test", "slp1", "slp2", "asleep", "reacq", "crit", "clear", "wake"}
Preemptible == {"out", "reacq", "crit"}

\* The type invariant.
LockTypeOK ==
  /\ SchedTypeOK
  /\ slkLock \in CPUs \union {NoCPU}
  /\ locked \in BOOLEAN
  /\ pid \in Procs \union {NoProc}
  /\ pc \in [Procs -> LockPoints]
  /\ widx \in [Procs -> 0 .. NPROC]

\* sleeplock_init, with every process of the table ready to run.
LockInit ==
  /\ SchedInit(Procs)
  /\ slkLock = NoCPU /\ locked = FALSE /\ pid = NoProc
  /\ pc = [p \in Procs |-> "out"]
  /\ widx = [p \in Procs |-> 0]

LockGoto(p, to) == pc' = [pc EXCEPT ![p] = to]

\* p executes on c and is not still returning from a preemption.
Live(c, p) == Running(c, p) /\ lk[p] # c

----------------------------------------------------------------------------
(* sleeplock_acquire *)

\* spinlock_acquire(&slk->lock), on entry and again at the end of proc_sleep.
SpinForAcquire(c, p) ==
  /\ Live(c, p) /\ pc[p] \in {"out", "reacq"}
  /\ slkLock = NoCPU /\ slkLock' = c
  /\ LockGoto(p, "test")
  /\ UNCHANGED <<svars, locked, pid, widx>>

\* Mutant: slk->locked is not tested.
TakeWithoutTest(c, p) ==
  /\ Running(c, p) /\ pc[p] = "test"
  /\ locked' = TRUE /\ pid' = p
  /\ slkLock' = NoCPU
  /\ LockGoto(p, "crit")
  /\ UNCHANGED <<svars, widx>>

\* while (slk->locked) exits: own the lock, drop the spinlock.
Take(c, p) ==
  /\ Running(c, p) /\ pc[p] = "test" /\ ~locked
  /\ locked' = TRUE /\ pid' = p
  /\ slkLock' = NoCPU
  /\ LockGoto(p, "crit")
  /\ UNCHANGED <<svars, widx>>

\* Mutant: slk->lock is dropped before p->lk is taken.
SleepEnterUnlocked(c, p) ==
  /\ Running(c, p) /\ pc[p] = "test" /\ locked
  /\ LockGoto(p, "slp1")
  /\ UNCHANGED <<svars, slkvars, widx>>

\* slk->locked: proc_sleep takes p->lk while slk->lock is still held.
SleepEnter(c, p) ==
  /\ pc[p] = "test" /\ locked
  /\ SleepLockSelf(c, p)
  /\ LockGoto(p, "slp1")
  /\ UNCHANGED <<slkvars, widx>>

\* Mutant: the spinlock is kept.
SleepKeepSpin(c, p) ==
  /\ Running(c, p) /\ pc[p] = "slp1"
  /\ LockGoto(p, "slp2")
  /\ UNCHANGED <<svars, slkvars, widx>>

\* spinlock_release(lk) inside proc_sleep.
SleepDropSpin(c, p) ==
  /\ Running(c, p) /\ pc[p] = "slp1"
  /\ slkLock = c /\ slkLock' = NoCPU
  /\ LockGoto(p, "slp2")
  /\ UNCHANGED <<svars, locked, pid, widx>>

SleepNow(c, p) ==
  /\ pc[p] = "slp2"
  /\ SleepSwtch(c, p, slk)
  /\ LockGoto(p, "asleep")
  /\ UNCHANGED <<slkvars, widx>>

SleepBack(c, p) ==
  /\ pc[p] = "asleep"
  /\ SleepResume(c, p)
  /\ LockGoto(p, "reacq")
  /\ UNCHANGED <<slkvars, widx>>

----------------------------------------------------------------------------
(* sleeplock_release *)

SpinForRelease(c, p) ==
  /\ Live(c, p) /\ pc[p] = "crit"
  /\ slkLock = NoCPU /\ slkLock' = c
  /\ LockGoto(p, "clear")
  /\ UNCHANGED <<svars, locked, pid, widx>>

Clear(c, p) ==
  /\ Running(c, p) /\ pc[p] = "clear"
  /\ locked' = FALSE /\ pid' = NoProc
  /\ widx' = [widx EXCEPT ![p] = 0]
  /\ LockGoto(p, "wake")
  /\ UNCHANGED <<svars, slkLock>>

\* Mutant: the caller's own slot is skipped without going on to the next.
WakeStuckAtSelf(c, p) ==
  /\ Running(c, p) /\ pc[p] = "wake" /\ widx[p] < NPROC
  /\ IF widx[p] = p THEN UNCHANGED svars ELSE WakeOne(widx[p], slk)
  /\ widx' = [widx EXCEPT ![p] = IF @ = p THEN @ ELSE @ + 1]
  /\ UNCHANGED <<slkvars, pc>>

\* Mutant: the loop runs past the last slot.
WakeOneTooMany(c, p) ==
  /\ Running(c, p) /\ pc[p] = "wake" /\ widx[p] <= NPROC
  /\ IF widx[p] \in {p, NPROC} THEN UNCHANGED svars ELSE WakeOne(widx[p], slk)
  /\ widx' = [widx EXCEPT ![p] = @ + 1]
  /\ UNCHANGED <<slkvars, pc>>

\* One round of the loop of proc_wakeup(slk); the caller's own slot is skipped.
Wake(c, p) ==
  /\ Running(c, p) /\ pc[p] = "wake" /\ widx[p] < NPROC
  /\ IF widx[p] = p THEN UNCHANGED svars ELSE WakeOne(widx[p], slk)
  /\ widx' = [widx EXCEPT ![p] = @ + 1]
  /\ UNCHANGED <<slkvars, pc>>

ReleaseDone(c, p) ==
  /\ Running(c, p) /\ pc[p] = "wake" /\ widx[p] = NPROC
  /\ slkLock = c /\ slkLock' = NoCPU
  /\ LockGoto(p, "out")
  /\ UNCHANGED <<svars, locked, pid, widx>>

----------------------------------------------------------------------------
(* Timer preemption and the scheduler *)

LockPreempt(c, p) ==
  /\ pc[p] \in Preemptible
  /\ YieldSwtch(c, p)
  /\ UNCHANGED <<slkvars, pc, widx>>

PreemptBack(c, p) ==
  /\ pc[p] \in Preemptible
  /\ YieldResume(c, p)
  /\ UNCHANGED <<slkvars, pc, widx>>

LockDispatch(c, p) == Schedule(c, p) /\ UNCHANGED <<slkvars, pc, widx>>
LockDispatchBack(c) == SchedReturn(c) /\ UNCHANGED <<slkvars, pc, widx>>

AcquireStep(c, p) ==
  \/ SpinForAcquire(c, p) \/ Take(c, p) \/ SleepEnter(c, p)
  \/ SleepDropSpin(c, p) \/ SleepNow(c, p) \/ SleepBack(c, p)

ReleaseStep(c, p) ==
  SpinForRelease(c, p) \/ Clear(c, p) \/ Wake(c, p) \/ ReleaseDone(c, p)

LockSwitchStep(c, p) == LockPreempt(c, p) \/ PreemptBack(c, p) \/ LockDispatch(c, p)

LockNext ==
  \/ \E c \in CPUs, p \in Procs :
       AcquireStep(c, p) \/ ReleaseStep(c, p) \/ LockSwitchStep(c, p)
  \/ \E c \in CPUs : LockDispatchBack(c)

LockSpec == LockInit /\ [][LockNext]_lockvars

(***************************************************************************)
(* Fairness.  A hart that can execute its next instruction does (WF).  The *)
(* timer keeps ticking (WF of LockPreempt).  The scheduler loop visits     *)
(* every slot in turn, so a process that is RUNNABLE whenever a hart is    *)
(* back in the loop is run (SF of LockDispatch).  A time slice is long     *)
(* enough for the woken process to reach slk->lock (SF of SpinForAcquire   *)
(* from "reacq"), and a slot's lk is free for a whole slice between two    *)
(* uses, so the hart spinning on it in proc_wakeup gets it (SF of Wake).   *)
(* Nothing obliges a process to call sleeplock_acquire or _release.        *)
(***************************************************************************)
Inside(c, p) ==
  \/ Take(c, p) \/ SleepEnter(c, p) \/ SleepDropSpin(c, p) \/ SleepNow(c, p)
  \/ SleepBack(c, p) \/ Clear(c, p) \/ ReleaseDone(c, p) \/ PreemptBack(c, p)

Fairness ==
  /\ \A c \in CPUs : WF_lockvars(LockDispatchBack(c))
  /\ \A p \in Procs :
       /\ WF_lockvars(\E c \in CPUs : Inside(c, p))
       /\ WF_lockvars(\E c \in CPUs : LockPreempt(c, p))
       /\ SF_lockvars(\E c \in CPUs : LockDispatch(c, p))
       /\ SF_lockvars(\E c \in CPUs : Wake(c, p))
       /\ SF_lockvars(\E c \in CPUs : pc[p] = "reacq" /\ SpinForAcquire(c, p))

FairSpec == LockSpec /\ Fairness

----------------------------------------------------------------------------
(* Properties *)

\* The owner recorded in the lock is the one process between a returned
\* sleeplock_acquire and the clearing store of sleeplock_release: two processes
\* never own the lock, whatever the order of sleeps, wakeups and preemptions,
\* and a locked lock has an owner that will release it.
MutualExclusion ==
  /\ \A p \in Procs : pc[p] \in {"crit", "clear"} <=> locked /\ pid = p
  /\ locked => pid # NoProc

\* The process will be visited by a wakeup loop that is still under way.
WakePending(p) == \E q \in Procs : q # p /\ pc[q] = "wake" /\ widx[q] <= p

\* No lost wakeup: a process that decided to sleep (it holds p->lk on its way
\* down) or sleeps on the lock while the lock is free has a wakeup coming.
\* sleeplock.c relies on proc_sleep taking p->lk before dropping slk->lock.
NoLostWakeup ==
  \A p \in Procs :
    pc[p] \in {"slp1", "slp2"} \/ state[p] = "SLEEPING" => locked \/ WakePending(p)

\* A process is RUNNING exactly when one hart executes it, or is about to hand
\* it back, and never on two harts: its kernel stack has one user.
OneHartPerProcess ==
  /\ \A c, d \in CPUs : cproc[c] = cproc[d] /\ cproc[c] # NoProc => c = d
  /\ \A c \in CPUs, p \in Procs : Running(c, p) => state[p] = "RUNNING"

\* A hart that leaves the process context holds only the lock it hands over to
\* the scheduler loop: slk->lock is never carried across swtch.
NoSpinlockAcrossSwtch == \A c \in CPUs : slkLock = c => mode[c] = "proc"

\* The abstract lock; its Spec (safety and progress) is what FairSpec implements.
Abs == INSTANCE AbsLock WITH
         holder <- IF locked THEN pid ELSE NoProc,
         waiting <- {p \in Procs : pc[p] \in {"test", "slp1", "slp2", "asleep", "reacq"}}

\* sleeplock_acquire / sleeplock_release implement the abstract lock: one owner
\* at a time, granted to a waiter, released by the owner, and a free lock with
\* waiters is eventually granted.
ImplementsAbsLock == Abs!Spec

=============================================================================
