----------------------------- MODULE IntrSwtch -----------------------------
(***************************************************************************)
(* Interrupt state across swtch.  push_off and pop_off keep their depth    *)
(* (noff) and the state to go back to (origin) in the hart's cpu_t, while  *)
(* proc_sleep and proc_yield push on behalf of a process, switch, and pop  *)
(* on behalf of whatever the scheduler runs next: possibly another thread, *)
(* possibly on another hart.  The module follows SIE, noff, origin and the *)
(* sepc register through the system call path, both trap handlers, the     *)
(* sleep, yield and kill paths and the scheduler loop.                     *)
(*                                                                         *)
(* A kernel stack is a sequence of frames: that of the trap from user mode *)
(* at the bottom and one per interrupt handler nested on it.  A pc is      *)
(*   "new" "user"        not yet at proc_entry_point, in user mode         *)
(*   "sys"               in a system call, no lock held                    *)
(*   "hold" "both" "own" in proc_sleep: caller's lock, and p->lk, p->lk    *)
(*   "slept"             switched away in proc_sleep                       *)
(*   "utrap" "uyielded"  in trap_user_handler, switched away by its yield  *)
(*   "utail" "dead"      at trap_user_return, switched away by the kill    *)
(*   "trap" "yielded"    in trap_kernel_handler, switched away by it       *)
(*   "tail" "sepc" "ret" before w_sepc, before w_sstatus, before sret      *)
(* and ret is where the handler must return to.  Sleeping threads may be   *)
(* woken at any time; one that never is may stand for a process that has   *)
(* exited.  A tick over the scheduler loop changes none of these variables *)
(* and is left out.                                                        *)
(***************************************************************************)
EXTENDS Cpu, Naturals, SequencesExt

CONSTANTS
  Threads,    \* kernel threads of the processes
  NoThread,   \* cpu->proc = NULL
  MaxNest     \* bound on nested handlers

ASSUME NestAssumption == MaxNest \in Nat \ {0} /\ NoThread \notin Threads

VARIABLES
  sepc,                       \* the CSR of each hart
  cur,                        \* cur[c]: cpu->proc
  spc,                        \* spc[c]: "scan", "in" a process, "back" from one
  stack,                      \* stack[t]: the frames of t
  astray                      \* an sret went elsewhere than to its frame

hvars == <<intr, noff, origin>>
swvars == <<hvars, sepc, cur, spc, stack, astray>>

FramePoints == {"sys", "hold", "both", "own", "slept", "new", "user",
           "utrap", "uyielded", "utail", "dead",
           "trap", "yielded", "tail", "sepc", "ret"}

\* Code of the kernel that may run with interrupts on, outside any lock.
SwInterruptible == {"sys", "utail", "tail", "sepc"}

\* The type invariant.
SwTypeOK ==
  /\ intr \in [CPUs -> BOOLEAN] /\ noff \in [CPUs -> Nat]
  /\ origin \in [CPUs -> BOOLEAN] /\ sepc \in [CPUs -> FramePoints]
  /\ cur \in [CPUs -> Threads \union {NoThread}]
  /\ spc \in [CPUs -> {"scan", "in", "back"}]
  /\ \A t \in Threads : /\ Len(stack[t]) \in 1 .. (MaxNest + 1)
                        /\ \A i \in DOMAIN stack[t] :
                             stack[t][i] \in [pc : FramePoints, ret : FramePoints]
  /\ astray \in BOOLEAN

\* main: trap_kernel_inithart has turned interrupts on, proc_scheduler starts.
SwInit ==
  /\ intr = [c \in CPUs |-> TRUE] /\ noff = [c \in CPUs |-> 0]
  /\ origin = [c \in CPUs |-> FALSE] /\ sepc = [c \in CPUs |-> "sys"]
  /\ cur = [c \in CPUs |-> NoThread] /\ spc = [c \in CPUs |-> "scan"]
  /\ stack = [t \in Threads |-> <<[pc |-> "new", ret |-> "new"]>>]
  /\ astray = FALSE

----------------------------------------------------------------------------
\* push_off and pop_off on hart c.
push_off(c) ==
  /\ origin' = [origin EXCEPT ![c] = IF noff[c] = 0 THEN intr[c] ELSE @]
  /\ noff' = [noff EXCEPT ![c] = @ + 1]
  /\ intr' = [intr EXCEPT ![c] = FALSE]

pop_off(c) ==
  /\ noff' = [noff EXCEPT ![c] = @ - 1]
  /\ intr' = [intr EXCEPT ![c] = @ \/ (noff[c] = 1 /\ origin[c])]
  /\ UNCHANGED origin

Pc(t) == Last(stack[t]).pc
Runs(c, t, point) == ~astray /\ spc[c] = "in" /\ cur[c] = t /\ Pc(t) = point
MoveTo(t, point) == stack' = [stack EXCEPT ![t][Len(stack[t])].pc = point]
Stay == UNCHANGED <<sepc, cur, spc, astray>>
Swtch(c) == spc' = [spc EXCEPT ![c] = "back"] /\ UNCHANGED <<sepc, cur, astray>>

\* proc_sleep from a system call: the caller's lock, p->lk, drop the first.
TakeCondLock(c, t) == Runs(c, t, "sys") /\ push_off(c) /\ MoveTo(t, "hold") /\ Stay
DropCondLock(c, t) == Runs(c, t, "hold") /\ pop_off(c) /\ MoveTo(t, "sys") /\ Stay
SleepLockSelf(c, t) == Runs(c, t, "hold") /\ push_off(c) /\ MoveTo(t, "both") /\ Stay
SleepDropCondLock(c, t) ==
  Runs(c, t, "both") /\ pop_off(c) /\ MoveTo(t, "own") /\ Stay
SleepSwtch(c, t) ==
  Runs(c, t, "own") /\ MoveTo(t, "slept") /\ Swtch(c) /\ UNCHANGED hvars
\* Drop p->lk; the caller takes its lock again (TakeCondLock).
SleepBack(c, t) == Runs(c, t, "slept") /\ pop_off(c) /\ MoveTo(t, "sys") /\ Stay

\* proc_entry_point drops p->lk; the first process makes the file system, the
\* others go on to trap_user_return.
Enter(c, t) ==
  /\ Runs(c, t, "new") /\ pop_off(c) /\ Stay
  /\ \E p \in {"sys", "utail"} : MoveTo(t, p)

\* trap_user_return, with interrupts off from its first line to the sret that
\* turns them on in user mode.
UserReturn(c, t) ==
  /\ \E p \in {"sys", "utrap", "utail"} : Runs(c, t, p)
  /\ MoveTo(t, "user")
  /\ sepc' = [sepc EXCEPT ![c] = "user"]
  /\ intr' = [intr EXCEPT ![c] = TRUE]
  /\ UNCHANGED <<noff, origin, cur, spc, astray>>

\* An ecall: syscall() runs with interrupts on.
Ecall(c, t) ==
  /\ Runs(c, t, "user") /\ MoveTo(t, "sys")
  /\ sepc' = [sepc EXCEPT ![c] = "user"]
  /\ UNCHANGED <<hvars, cur, spc, astray>>

\* An interrupt or a fault of user code: trap_user_handler with interrupts off.
UserTrap(c, t) ==
  /\ Runs(c, t, "user") /\ MoveTo(t, "utrap")
  /\ sepc' = [sepc EXCEPT ![c] = "user"]
  /\ intr' = [intr EXCEPT ![c] = FALSE]
  /\ UNCHANGED <<noff, origin, cur, spc, astray>>

\* It goes on to UserReturn, or yields, or kills the process: proc_sched
\* without p->lk.
UserYieldSwtch(c, t) ==
  Runs(c, t, "utrap") /\ push_off(c) /\ MoveTo(t, "uyielded") /\ Swtch(c)
UserYieldBack(c, t) == Runs(c, t, "uyielded") /\ pop_off(c) /\ MoveTo(t, "utail") /\ Stay
UserKill(c, t) ==
  Runs(c, t, "utrap") /\ MoveTo(t, "dead") /\ Swtch(c) /\ UNCHANGED hvars

\* An interrupt: the hart saves the pc in sepc and clears SIE, kernel_vector
\* and trap_kernel_handler push a frame that remembers sepc.
TakeInterrupt(c, t) ==
  /\ \E p \in SwInterruptible :
       /\ Runs(c, t, p) /\ intr[c] /\ Len(stack[t]) <= MaxNest
       /\ sepc' = [sepc EXCEPT ![c] = p]
       /\ stack' = [stack EXCEPT ![t] = Append(@, [pc |-> "trap", ret |-> p])]
  /\ intr' = [intr EXCEPT ![c] = FALSE]
  /\ UNCHANGED <<noff, origin, cur, spc, astray>>

\* A device interrupt goes straight on; a clock tick yields: p->lk, swtch.
HandlerDone(c, t) == Runs(c, t, "trap") /\ MoveTo(t, "tail") /\ Stay /\ UNCHANGED hvars
YieldSwtch(c, t) == Runs(c, t, "trap") /\ push_off(c) /\ MoveTo(t, "yielded") /\ Swtch(c)
YieldBack(c, t) == Runs(c, t, "yielded") /\ pop_off(c) /\ MoveTo(t, "tail") /\ Stay

\* w_sepc(sepc_val), w_sstatus(sstatus_val) and sret.  sstatus_val was read
\* with SIE clear, so w_sstatus turns interrupts off.
WriteSepc(c, t) ==
  /\ Runs(c, t, "tail") /\ MoveTo(t, "sepc")
  /\ sepc' = [sepc EXCEPT ![c] = Last(stack[t]).ret]
  /\ UNCHANGED <<hvars, cur, spc, astray>>

WriteSstatus(c, t) ==
  /\ Runs(c, t, "sepc") /\ MoveTo(t, "ret") /\ Stay
  /\ intr' = [intr EXCEPT ![c] = FALSE]
  /\ UNCHANGED <<noff, origin>>

Sret(c, t) ==
  /\ Runs(c, t, "ret")
  /\ astray' = (sepc[c] # Last(stack[t]).ret)
  /\ stack' = [stack EXCEPT ![t] = Front(@)]
  /\ intr' = [intr EXCEPT ![c] = TRUE]
  /\ UNCHANGED <<noff, origin, sepc, cur, spc>>

\* proc_scheduler: the top of the loop, a RUNNABLE slot, and back from it.
SchedTop(c) ==
  /\ ~astray /\ spc[c] = "scan" /\ ~intr[c]
  /\ intr' = [intr EXCEPT ![c] = TRUE]
  /\ UNCHANGED <<noff, origin, sepc, cur, spc, stack, astray>>

SchedPick(c, t) ==
  /\ ~astray /\ spc[c] = "scan" /\ \A d \in CPUs : cur[d] # t
  /\ push_off(c)
  /\ cur' = [cur EXCEPT ![c] = t] /\ spc' = [spc EXCEPT ![c] = "in"]
  /\ UNCHANGED <<sepc, stack, astray>>

\* Mutant: the loop does not release the lk of the slot it ran.
SchedKeepLk(c) ==
  /\ ~astray /\ spc[c] = "back" /\ Pc(cur[c]) # "dead"
  /\ cur' = [cur EXCEPT ![c] = NoThread] /\ spc' = [spc EXCEPT ![c] = "scan"]
  /\ UNCHANGED <<hvars, sepc, stack, astray>>
\* Back from a process that was killed, spinlock_release panics: the lk is not
\* held, and the hart loops in panic for ever.
SchedBack(c) ==
  /\ ~astray /\ spc[c] = "back" /\ Pc(cur[c]) # "dead"
  /\ pop_off(c)
  /\ cur' = [cur EXCEPT ![c] = NoThread] /\ spc' = [spc EXCEPT ![c] = "scan"]
  /\ UNCHANGED <<sepc, stack, astray>>

SwNext ==
  \E c \in CPUs :
    \/ SchedTop(c) \/ SchedBack(c)
    \/ \E t \in Threads :
         \/ SchedPick(c, t) \/ Enter(c, t) \/ TakeInterrupt(c, t)
         \/ UserReturn(c, t) \/ Ecall(c, t) \/ UserTrap(c, t)
         \/ UserYieldSwtch(c, t) \/ UserYieldBack(c, t) \/ UserKill(c, t)
         \/ TakeCondLock(c, t) \/ DropCondLock(c, t) \/ SleepLockSelf(c, t)
         \/ SleepDropCondLock(c, t) \/ SleepSwtch(c, t) \/ SleepBack(c, t)
         \/ HandlerDone(c, t) \/ YieldSwtch(c, t) \/ YieldBack(c, t)
         \/ WriteSepc(c, t) \/ WriteSstatus(c, t) \/ Sret(c, t)

SwSpec == SwInit /\ [][SwNext]_swvars

----------------------------------------------------------------------------
(* Properties *)

\* The spinlocks that the code now on hart c has taken or inherited.
Depth(c) ==
  IF spc[c] = "in"
  THEN CASE Pc(cur[c]) \in {"hold", "own", "slept", "uyielded", "yielded", "new"} -> 1
         [] Pc(cur[c]) = "both" -> 2
         [] OTHER -> 0
  ELSE IF spc[c] = "back" /\ Pc(cur[c]) # "dead" THEN 1 ELSE 0

\* Although noff is per hart and threads migrate, it always equals the number
\* of locks of the code on that hart: every switch but that of the kill path
\* carries exactly one lock, p->lk, in and one out, so pop_off never underflows
\* and never comes late, and no interrupt comes while the code on the hart holds
\* a lock.  What the killed process leaves is a hart in panic with no lock, and
\* the count of every other hart is right in spite of it.
NoffFollowsLocks ==
  SwTypeOK /\ \A c \in CPUs : noff[c] = Depth(c) /\ (Depth(c) > 0 => ~intr[c])

----------------------------------------------------------------------------
(* What the comments and assertions of the code say, and the model refutes *)

\* The comment at the top of spinlock.c: when the last push_off is undone the
\* interrupt state is again the X it was at the first one, off in the handlers.
RestoresXAcrossSwtch ==
  \A c \in CPUs : spc[c] = "in" /\ ~astray /\ noff[c] = 0 =>
    (Pc(cur[c]) \in {"trap", "tail", "utrap"} => ~intr[c])

\* trap_kernel_handler restores the context it interrupted: sret goes to the
\* address that sepc held when the handler was entered.
ReturnsToInterrupted == ~astray

=============================================================================
