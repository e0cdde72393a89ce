------------------------------ MODULE Spinlock ------------------------------
(***************************************************************************)
(* Spinlocks and the nested disabling of interrupts,                       *)
(* src/kernel/lock/spinlock.c, on every hart at once.  The kernel code of  *)
(* a hart takes and releases locks in any nesting that follows one order   *)
(* (lifecycle_lock before p->lk, ...); an interrupt may hit it whenever    *)
(* SIE is set, and its handler takes and releases locks too.               *)
(*                                                                         *)
(* pc[c] follows the code: "run" outside these functions; "read" after     *)
(* push_off has read SIE; "spin" before and "got" after the test-and-set   *)
(* succeeds; "rel" after release has cleared cpuid; "pop" after it has     *)
(* cleared locked.  Spinning is a disabled guard, and so is an assertion   *)
(* that would fail: NoAssertionFails says that none does.                  *)
(***************************************************************************)
EXTENDS Cpu, Naturals, FiniteSets

CONSTANTS
  NLocks,   \* number of spinlocks
  NoCPU     \* spinlock_t.cpuid = -1

ASSUME CPUsAssumption == NoCPU \notin CPUs
ASSUME NLocksAssumption == NLocks \in Nat \ {0}

Locks == 1 .. NLocks

VARIABLES
  locked, cpuid,        \* locked[l], cpuid[l]: the spinlock_t
  old, tgt,             \* push_off's local; the lock being taken or released
  pc,                   \* where the hart's code is
  held,                 \* held[c]: the locks whose critical section c is in
  inIntr,               \* inIntr[c]: the hart runs an interrupt handler
  sav,                  \* sav[c]: what kernel_vector saved of the interrupted code
  x                     \* x[c]: SIE as the code outside any lock set it

lvars == <<locked, cpuid, held>>
ivars == <<intr, noff, origin, old>>
tvars == <<inIntr, sav, x>>
vars == <<lvars, ivars, tvars, tgt, pc>>

Points == {"run", "read", "spin", "got", "rel", "pop"}
Saved == [pc : Points, tgt : Locks, old : BOOLEAN, held : SUBSET Locks]

\* The type invariant.
TypeOK ==
  /\ locked \in [Locks -> BOOLEAN] /\ cpuid \in [Locks -> CPUs \union {NoCPU}]
  /\ intr \in [CPUs -> BOOLEAN] /\ noff \in [CPUs -> Nat]
  /\ origin \in [CPUs -> BOOLEAN] /\ old \in [CPUs -> BOOLEAN]
  /\ tgt \in [CPUs -> Locks] /\ held \in [CPUs -> SUBSET Locks]
  /\ pc \in [CPUs -> Points] /\ sav \in [CPUs -> Saved]
  /\ inIntr \in [CPUs -> BOOLEAN] /\ x \in [CPUs -> BOOLEAN]

\* spinlock_init; harts boot with interrupts off.
Init ==
  /\ locked = [l \in Locks |-> FALSE] /\ cpuid = [l \in Locks |-> NoCPU]
  /\ held = [c \in CPUs |-> {}]
  /\ intr = [c \in CPUs |-> FALSE] /\ noff = [c \in CPUs |-> 0]
  /\ origin = [c \in CPUs |-> FALSE] /\ old = [c \in CPUs |-> FALSE]
  /\ tgt = [c \in CPUs |-> 1]
  /\ pc = [c \in CPUs |-> "run"]
  /\ inIntr = [c \in CPUs |-> FALSE] /\ x = [c \in CPUs |-> FALSE]
  /\ sav = [c \in CPUs |-> [pc |-> "run", tgt |-> 1, old |-> FALSE, held |-> {}]]

At(c, point) == pc[c] = point
Goto(c, point) == pc' = [pc EXCEPT ![c] = point]

spinlock_holding(c, l) == locked[l] /\ cpuid[l] = c

\* The locks that the code now running on c has taken: an interrupt handler
\* knows nothing of those of the code it interrupted.
Mine(c) == IF inIntr[c] THEN held[c] \ sav[c].held ELSE held[c]

----------------------------------------------------------------------------
(* spinlock_acquire *)

\* Entry: push_off reads SIE.
PushRead(c, l) ==
  /\ At(c, "run") /\ \A k \in Mine(c) : k < l
  /\ tgt' = [tgt EXCEPT ![c] = l]
  /\ old' = [old EXCEPT ![c] = intr[c]]
  /\ Goto(c, "read")
  /\ UNCHANGED <<lvars, intr, noff, origin, tvars>>

\* Mutant: push_off records the interrupt state at every level.
PushOffAlwaysRecords(c) ==
  /\ At(c, "read")
  /\ intr' = [intr EXCEPT ![c] = FALSE]
  /\ origin' = [origin EXCEPT ![c] = old[c]]
  /\ noff' = [noff EXCEPT ![c] = @ + 1]
  /\ Goto(c, "spin")
  /\ UNCHANGED <<lvars, old, tgt, tvars>>

PushOff(c) ==
  /\ At(c, "read")
  /\ intr' = [intr EXCEPT ![c] = FALSE]
  /\ origin' = [origin EXCEPT ![c] = IF noff[c] = 0 THEN old[c] ELSE @]
  /\ noff' = [noff EXCEPT ![c] = @ + 1]
  /\ Goto(c, "spin")
  /\ UNCHANGED <<lvars, old, tgt, tvars>>

\* Mutant: the loop around the test-and-set is missing.
TestAndSetOnce(c) ==
  /\ At(c, "spin") /\ ~spinlock_holding(c, tgt[c])
  /\ locked' = [locked EXCEPT ![tgt[c]] = TRUE]
  /\ Goto(c, "got")
  /\ UNCHANGED <<cpuid, held, ivars, tgt, tvars>>

\* The test-and-set finds the lock free.
TestAndSet(c) ==
  /\ At(c, "spin") /\ ~spinlock_holding(c, tgt[c]) /\ ~locked[tgt[c]]
  /\ locked' = [locked EXCEPT ![tgt[c]] = TRUE]
  /\ Goto(c, "got")
  /\ UNCHANGED <<cpuid, held, ivars, tgt, tvars>>

RecordOwner(c) ==
  /\ At(c, "got")
  /\ cpuid' = [cpuid EXCEPT ![tgt[c]] = c]
  /\ held' = [held EXCEPT ![c] = @ \union {tgt[c]}]
  /\ Goto(c, "run")
  /\ UNCHANGED <<locked, ivars, tgt, tvars>>

----------------------------------------------------------------------------
(* spinlock_release *)

\* Mutant: spinlock_release leaves cpuid alone.
ClearOwnerStale(c, l) ==
  /\ At(c, "run") /\ l \in Mine(c) /\ spinlock_holding(c, l)
  /\ held' = [held EXCEPT ![c] = @ \ {l}]
  /\ tgt' = [tgt EXCEPT ![c] = l]
  /\ Goto(c, "rel")
  /\ UNCHANGED <<locked, cpuid, ivars, tvars>>

ClearOwner(c, l) ==
  /\ At(c, "run") /\ l \in Mine(c) /\ spinlock_holding(c, l)
  /\ cpuid' = [cpuid EXCEPT ![l] = NoCPU]
  /\ held' = [held EXCEPT ![c] = @ \ {l}]
  /\ tgt' = [tgt EXCEPT ![c] = l]
  /\ Goto(c, "rel")
  /\ UNCHANGED <<locked, ivars, tvars>>

Unlock(c) ==
  /\ At(c, "rel")
  /\ locked' = [locked EXCEPT ![tgt[c]] = FALSE]
  /\ Goto(c, "pop")
  /\ UNCHANGED <<cpuid, held, ivars, tgt, tvars>>

\* Mutant: pop_off counts the critical section twice.
PopOffTwice(c) ==
  /\ At(c, "pop") /\ ~intr[c] /\ noff[c] >= 1
  /\ noff' = [noff EXCEPT ![c] = @ - 2]
  /\ intr' = [intr EXCEPT ![c] = noff[c] = 1 /\ origin[c]]
  /\ Goto(c, "run")
  /\ UNCHANGED <<lvars, origin, old, tgt, tvars>>

\* Mutant: pop_off restores SIE whatever the depth.
PopOffEager(c) ==
  /\ At(c, "pop") /\ ~intr[c] /\ noff[c] >= 1
  /\ noff' = [noff EXCEPT ![c] = @ - 1]
  /\ intr' = [intr EXCEPT ![c] = origin[c]]
  /\ Goto(c, "run")
  /\ UNCHANGED <<lvars, origin, old, tgt, tvars>>

PopOff(c) ==
  /\ At(c, "pop") /\ ~intr[c] /\ noff[c] >= 1
  /\ noff' = [noff EXCEPT ![c] = @ - 1]
  /\ intr' = [intr EXCEPT ![c] = noff[c] = 1 /\ origin[c]]
  /\ Goto(c, "run")
  /\ UNCHANGED <<lvars, origin, old, tgt, tvars>>

----------------------------------------------------------------------------
(* Interrupts *)

\* intr_on / intr_off in code that holds no lock: the scheduler loop, the
\* system call path of trap_user_handler.
SetIntr(c, b) ==
  /\ At(c, "run") /\ noff[c] = 0 /\ ~inIntr[c] /\ intr[c] # b
  /\ intr' = [intr EXCEPT ![c] = b] /\ x' = [x EXCEPT ![c] = b]
  /\ UNCHANGED <<lvars, noff, origin, old, tgt, pc, inIntr, sav>>

\* The hart takes a trap: SIE is cleared, kernel_vector saves the registers.
Interrupt(c) ==
  /\ intr[c] /\ ~inIntr[c]
  /\ inIntr' = [inIntr EXCEPT ![c] = TRUE]
  /\ sav' = [sav EXCEPT ![c] = [pc |-> pc[c], tgt |-> tgt[c],
                                old |-> old[c], held |-> held[c]]]
  /\ intr' = [intr EXCEPT ![c] = FALSE]
  /\ Goto(c, "run")
  /\ UNCHANGED <<lvars, noff, origin, old, tgt, x>>

\* sret: the interrupted code goes on with its registers and with SIE set.
Iret(c) ==
  /\ At(c, "run") /\ inIntr[c] /\ Mine(c) = {}
  /\ inIntr' = [inIntr EXCEPT ![c] = FALSE]
  /\ Goto(c, sav[c].pc)
  /\ tgt' = [tgt EXCEPT ![c] = sav[c].tgt]
  /\ old' = [old EXCEPT ![c] = sav[c].old]
  /\ intr' = [intr EXCEPT ![c] = TRUE]
  /\ UNCHANGED <<lvars, noff, origin, sav, x>>

Step(c) ==
  \/ PushOff(c) \/ TestAndSet(c) \/ RecordOwner(c)
  \/ Unlock(c) \/ PopOff(c) \/ Interrupt(c) \/ Iret(c)
  \/ \E l \in Locks : PushRead(c, l) \/ ClearOwner(c, l)
  \/ \E b \in BOOLEAN : SetIntr(c, b)

Next == \E c \in CPUs : Step(c)

Spec == Init /\ [][Next]_vars

----------------------------------------------------------------------------
(* Properties *)

\* Two harts are never in the critical section of the same lock.
MutualExclusion ==
  \A c, d \in CPUs : c # d => held[c] \intersect held[d] = {}

\* None of the panics and assertions of spinlock.c is reached: no recursive
\* acquire (not even by an interrupt handler that wants a lock of the code
\* it interrupted), no release by a hart that spinlock_holding denies, no
\* pop_off with interrupts on or with nothing pushed.
NoAssertionFails ==
  \A c \in CPUs :
    /\ At(c, "spin") => ~spinlock_holding(c, tgt[c])
    /\ \A l \in held[c] : spinlock_holding(c, l)
    /\ At(c, "pop") => ~intr[c] /\ noff[c] >= 1

\* A hart that holds a spinlock takes no interrupt, at any depth of nesting.
InterruptsOffWhileHolding ==
  \A c \in CPUs : held[c] # {} => ~intr[c]

\* The comment at the top of spinlock.c: once every push_off is undone, SIE
\* is what the code outside the locks had set, even if interrupt handlers
\* that used the same noff and origin ran in the middle of push_off.
RestoresX ==
  \A c \in CPUs : At(c, "run") /\ noff[c] = 0 /\ ~inIntr[c] => intr[c] = x[c]

=============================================================================
