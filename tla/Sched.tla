------------------------------- MODULE Sched -------------------------------
(***************************************************************************)
(* The process switching core of src/kernel/proc/proc.c: proc_sleep,       *)
(* proc_wakeup, proc_yield and proc_scheduler over the process table and   *)
(* the per-process spinlock p->lk.  The operators are action fragments:    *)
(* each one constrains the five variables below and a client module        *)
(* (SleepLock, VirtioDisk, ...) conjoins its own state to them.            *)
(*                                                                         *)
(* Spinlocks are owned by CPUs, as in spinlock_t.cpuid: a lock taken by a  *)
(* process is released by whatever runs next on that CPU, which is what    *)
(* lets p->lk be handed over through swtch.  Spinning is a disabled guard. *)
(* A visit of proc_wakeup to one slot, and a visit of the scheduler loop   *)
(* to one slot, is one step: it happens under that slot's lk.  A scheduler *)
(* visit that finds nothing RUNNABLE changes nothing and is not modelled.  *)
(***************************************************************************)
EXTENDS Naturals

CONSTANTS
  NPROC,    \* N_PROC, slots of proc_pool
  CPUs,     \* harts; NCPU is 2
  Chans,    \* values sleep_space can take
  NoCPU,    \* spinlock_t.cpuid = -1
  NoProc,   \* NULL proc_t pointer
  NoChan    \* sleep_space = NULL

ASSUME NPROCAssumption == NPROC \in Nat \ {0}
ASSUME NoneAssumption == NoCPU \notin CPUs /\ NoProc \notin Nat /\ NoChan \notin Chans

Procs == 0 .. (NPROC - 1)

VARIABLES
  lk,           \* lk[p]: the CPU holding p->lk, or NoCPU
  state,        \* state[p]: p->state
  sleep_space,  \* sleep_space[p]: the channel p sleeps on
  cproc,        \* cproc[c]: cpu->proc
  mode          \* mode[c]: whose context hart c executes, "sched" or "proc"

svars == <<lk, state, sleep_space, cproc, mode>>

States == {"UNUSED", "RUNNABLE", "RUNNING", "SLEEPING", "ZOMBIE"}

SchedTypeOK ==
  /\ lk \in [Procs -> CPUs \union {NoCPU}]
  /\ state \in [Procs -> States]
  /\ sleep_space \in [Procs -> Chans \union {NoChan}]
  /\ cproc \in [CPUs -> Procs \union {NoProc}]
  /\ mode \in [CPUs -> {"sched", "proc"}]

\* The table once the boot processes in R are RUNNABLE; no hart has picked one.
SchedInit(R) ==
  /\ lk = [p \in Procs |-> NoCPU]
  /\ state = [p \in Procs |-> IF p \in R THEN "RUNNABLE" ELSE "UNUSED"]
  /\ sleep_space = [p \in Procs |-> NoChan]
  /\ cproc = [c \in CPUs |-> NoProc]
  /\ mode = [c \in CPUs |-> "sched"]

\* Hart c executes the kernel thread of process p (myproc() = p).
Running(c, p) == cproc[c] = p /\ mode[c] = "proc"

----------------------------------------------------------------------------
\* spinlock_acquire / spinlock_release of p->lk by hart c.
LkAcquire(c, p) == lk[p] = NoCPU /\ lk' = [lk EXCEPT ![p] = c]
LkRelease(c, p) == lk[p] = c /\ lk' = [lk EXCEPT ![p] = NoCPU]

(* proc_sleep(chan, l), first half: take p->lk (the caller then drops l),  *)
(* mark the process SLEEPING and switch to the scheduler with p->lk held.  *)
SleepLockSelf(c, p) ==
  /\ Running(c, p)
  /\ LkAcquire(c, p)
  /\ UNCHANGED <<state, sleep_space, cproc, mode>>

SleepSwtch(c, p, chan) ==
  /\ Running(c, p)
  /\ sleep_space' = [sleep_space EXCEPT ![p] = chan]
  /\ state' = [state EXCEPT ![p] = "SLEEPING"]
  /\ mode' = [mode EXCEPT ![c] = "sched"]
  /\ UNCHANGED <<lk, cproc>>

\* proc_sleep, after proc_sched() returns: clear the channel, drop p->lk.
SleepResume(c, p) ==
  /\ Running(c, p)
  /\ sleep_space' = [sleep_space EXCEPT ![p] = NoChan]
  /\ LkRelease(c, p)
  /\ UNCHANGED <<state, cproc, mode>>

\* One iteration of proc_wakeup(chan): visit slot q under q->lk.
WakeOne(q, chan) ==
  /\ lk[q] = NoCPU
  /\ state' = [state EXCEPT ![q] =
                 IF @ = "SLEEPING" /\ sleep_space[q] = chan THEN "RUNNABLE" ELSE @]
  /\ UNCHANGED <<lk, sleep_space, cproc, mode>>

\* Mutant: p->lk is not taken.
YieldSwtchUnlocked(c, p) ==
  /\ Running(c, p)
  /\ state' = [state EXCEPT ![p] = "RUNNABLE"]
  /\ mode' = [mode EXCEPT ![c] = "sched"]
  /\ UNCHANGED <<lk, sleep_space, cproc>>

\* proc_yield: up to proc_sched(), and after it.
YieldSwtch(c, p) ==
  /\ Running(c, p)
  /\ LkAcquire(c, p)
  /\ state' = [state EXCEPT ![p] = "RUNNABLE"]
  /\ mode' = [mode EXCEPT ![c] = "sched"]
  /\ UNCHANGED <<sleep_space, cproc>>

YieldResume(c, p) ==
  /\ Running(c, p)
  /\ LkRelease(c, p)
  /\ UNCHANGED <<state, sleep_space, cproc, mode>>

(* proc_scheduler on hart c finds slot p RUNNABLE and switches to it with  *)
(* p->lk held; later the process switches back and the loop drops p->lk.   *)
Schedule(c, p) ==
  /\ mode[c] = "sched" /\ cproc[c] = NoProc
  /\ state[p] = "RUNNABLE"
  /\ LkAcquire(c, p)
  /\ state' = [state EXCEPT ![p] = "RUNNING"]
  /\ cproc' = [cproc EXCEPT ![c] = p]
  /\ mode' = [mode EXCEPT ![c] = "proc"]
  /\ UNCHANGED sleep_space

SchedReturn(c) ==
  /\ mode[c] = "sched" /\ cproc[c] # NoProc
  /\ LkRelease(c, cproc[c])
  /\ cproc' = [cproc EXCEPT ![c] = NoProc]
  /\ UNCHANGED <<state, sleep_space, mode>>

=============================================================================
