--------------------------- MODULE SpinlockProofs ---------------------------
(***************************************************************************)
(* Proofs about Spinlock, for any number of harts and of locks, and about  *)
(* IntrSwtch, for any number of harts, threads and nested handlers.        *)
(*                                                                         *)
(* The properties rest on an exact account of cpu_t.noff: it is the number *)
(* of locks the hart holds, plus one while it is inside spinlock_acquire   *)
(* or spinlock_release (InvNoff).  What makes the account survive          *)
(* interrupts is that they only come at noff = 0 (InvTrap), so a handler   *)
(* finds noff and origin unused and leaves them unused.  Across swtch the  *)
(* account is kept per hart although its threads change: a thread that is  *)
(* on no hart stands where its own lk is the one lock taken (SwInvCur).    *)
(***************************************************************************)
EXTENDS Spinlock, IntrSwtch, FiniteSetTheorems, TLAPS

Busy(c) == IF pc[c] \in {"spin", "got", "rel", "pop"} THEN 1 ELSE 0

\* cpuid names the hart in the critical section; nobody is while the lock is
\* being handed out or given back, and then only one hart is doing so.
InvOwner ==
  /\ \A l \in Locks, c \in CPUs : l \in held[c] <=> cpuid[l] = c
  /\ \A l \in Locks : cpuid[l] # NoCPU => locked[l]
  /\ \A c \in CPUs : pc[c] \in {"got", "rel"} =>
       locked[tgt[c]] /\ cpuid[tgt[c]] = NoCPU
  /\ \A c, d \in CPUs :
       c # d /\ pc[c] \in {"got", "rel"} /\ pc[d] \in {"got", "rel"} => tgt[c] # tgt[d]

\* noff counts exactly, and interrupts are off unless it is 0.
InvNoff ==
  \A c \in CPUs : /\ noff[c] = Cardinality(held[c]) + Busy(c)
                  /\ noff[c] # 0 => ~intr[c]

\* A hart does not ask for a lock it holds.
InvOrder == \A c \in CPUs : pc[c] \in {"read", "spin"} => tgt[c] \notin held[c]

\* A handler runs over code that held nothing and had not yet disabled
\* interrupts, so push_off's copy of SIE is still right when it resumes.
InvTrap ==
  \A c \in CPUs :
    /\ inIntr[c] => /\ ~intr[c] /\ x[c] /\ sav[c].held = {}
                    /\ sav[c].pc \in {"run", "read"}
                    /\ sav[c].pc = "read" => sav[c].old
    /\ pc[c] = "read" => old[c] = intr[c]

\* SIE, or once it is disabled its saved value, is x (off, in a handler).
InvX ==
  \A c \in CPUs :
    /\ ~inIntr[c] => IF noff[c] = 0 THEN intr[c] = x[c] ELSE origin[c] = x[c]
    /\ inIntr[c] /\ noff[c] # 0 => ~origin[c]

IndInv == TypeOK /\ InvOwner /\ InvNoff /\ InvOrder /\ InvTrap /\ InvX

----------------------------------------------------------------------------
\* How the number of locks held changes when one is taken or released.
LEMMA HeldCount ==
  ASSUME NEW H \in SUBSET Locks
  PROVE  /\ Cardinality(H) \in Nat
         /\ Cardinality(H) = 0 <=> H = {}
         /\ \A l \in Locks \ H : Cardinality(H \union {l}) = Cardinality(H) + 1
         /\ \A l \in H : Cardinality(H \ {l}) = Cardinality(H) - 1
<1>1. IsFiniteSet(Locks)
  BY NLocksAssumption, FS_Interval DEF Locks
<1>2. IsFiniteSet(H)
  BY <1>1, FS_Subset
<1>3. Cardinality(H) \in Nat
  BY <1>2, FS_CardinalityType
<1>4. Cardinality(H) = 0 <=> H = {}
  BY <1>2, FS_EmptySet
<1>5. ASSUME NEW l \in Locks \ H PROVE Cardinality(H \union {l}) = Cardinality(H) + 1
  BY <1>2, FS_AddElement
<1>6. ASSUME NEW l \in H PROVE Cardinality(H \ {l}) = Cardinality(H) - 1
  BY <1>2, FS_RemoveElement
<1> QED
  BY <1>3, <1>4, <1>5, <1>6

\* Interrupted code held nothing, so all the locks of a hart belong to the
\* code now running on it.
LEMMA MineIsHeld ==
  ASSUME IndInv, NEW c \in CPUs
  PROVE  Mine(c) = held[c]
BY DEF IndInv, TypeOK, InvTrap, Mine

\* The initial states satisfy the inductive invariant.
LEMMA InitInd == Init => IndInv
<1> SUFFICES ASSUME Init PROVE IndInv
  OBVIOUS
<1>1. 1 \in Locks
  BY NLocksAssumption DEF Locks
<1>2. Cardinality({}) = 0
  BY FS_EmptySet
<1>3. TypeOK
  BY <1>1 DEF Init, TypeOK, Points, Saved
<1>4. InvOwner /\ InvOrder /\ InvTrap /\ InvX
  BY CPUsAssumption DEF Init, InvOwner, InvOrder, InvTrap, InvX
<1>5. InvNoff
  <2>1. ASSUME NEW c \in CPUs PROVE Cardinality(held[c]) + Busy(c) = 0
    <3>1. held[c] = {} /\ Busy(c) = 0
      BY DEF Init, Busy
    <3> QED
      BY <1>2, <3>1
  <2> QED
    BY <2>1 DEF Init, InvNoff
<1> QED
  BY <1>3, <1>4, <1>5 DEF IndInv

\* Every step preserves the type invariant.
LEMMA TypeStep == IndInv /\ Next => TypeOK'
<1> SUFFICES ASSUME IndInv, NEW c \in CPUs, Step(c) PROVE TypeOK'
  BY DEF Next
<1> USE DEF IndInv, TypeOK, Points, Saved, lvars, ivars, tvars, Goto, At
<1>1. CASE PushOff(c)
  BY <1>1 DEF PushOff
<1>2. CASE TestAndSet(c)
  BY <1>2 DEF TestAndSet
<1>3. CASE RecordOwner(c)
  BY <1>3 DEF RecordOwner
<1>4. CASE Unlock(c)
  BY <1>4 DEF Unlock
<1>5. CASE PopOff(c)
  BY <1>5 DEF PopOff
<1>6. CASE Interrupt(c)
  BY <1>6 DEF Interrupt
<1>7. CASE Iret(c)
  BY <1>7 DEF Iret
<1>8. ASSUME NEW l \in Locks, PushRead(c, l) PROVE TypeOK'
  BY <1>8 DEF PushRead
<1>9. ASSUME NEW l \in Locks, ClearOwner(c, l) PROVE TypeOK'
  BY <1>9 DEF ClearOwner
<1>10. ASSUME NEW b \in BOOLEAN, SetIntr(c, b) PROVE TypeOK'
  BY <1>10 DEF SetIntr
<1> QED
  BY <1>1, <1>2, <1>3, <1>4, <1>5, <1>6, <1>7, <1>8, <1>9, <1>10 DEF Step

\* cpuid and locked stay in step with the critical sections.
LEMMA OwnerStep == IndInv /\ Next => InvOwner'
<1> SUFFICES ASSUME IndInv, NEW c \in CPUs, Step(c) PROVE InvOwner'
  BY DEF Next
<1> USE DEF IndInv, TypeOK, InvOwner, lvars, ivars, tvars, Goto, At
<1>1. CASE PushOff(c)
  BY <1>1 DEF PushOff
<1>2. CASE TestAndSet(c)
  BY <1>2 DEF TestAndSet, spinlock_holding
<1>3. CASE RecordOwner(c)
  BY <1>3, CPUsAssumption DEF RecordOwner
<1>4. CASE Unlock(c)
  BY <1>4, CPUsAssumption DEF Unlock
<1>5. CASE PopOff(c)
  BY <1>5 DEF PopOff
<1>6. CASE Interrupt(c)
  BY <1>6 DEF Interrupt
<1>7. CASE Iret(c)
  BY <1>7 DEF Iret, InvTrap
<1>8. ASSUME NEW l \in Locks, PushRead(c, l) PROVE InvOwner'
  BY <1>8 DEF PushRead
<1>9. ASSUME NEW l \in Locks, ClearOwner(c, l) PROVE InvOwner'
  BY <1>9, MineIsHeld, CPUsAssumption DEF ClearOwner, spinlock_holding
<1>10. ASSUME NEW b \in BOOLEAN, SetIntr(c, b) PROVE InvOwner'
  BY <1>10 DEF SetIntr
<1> QED
  BY <1>1, <1>2, <1>3, <1>4, <1>5, <1>6, <1>7, <1>8, <1>9, <1>10 DEF Step

\* noff goes on counting the locks held.
LEMMA NoffStep == IndInv /\ Next => InvNoff'
<1> SUFFICES ASSUME IndInv, NEW c \in CPUs, Step(c) PROVE InvNoff'
  BY DEF Next
<1> USE DEF IndInv, TypeOK, InvNoff, Busy, lvars, ivars, tvars, Goto, At
<1>1. CASE PushOff(c)
  BY <1>1, HeldCount DEF PushOff
<1>2. CASE TestAndSet(c)
  BY <1>2, HeldCount DEF TestAndSet
<1>3. CASE RecordOwner(c)
  <2>1. held[c] \in SUBSET Locks /\ tgt[c] \in Locks \ held[c]
    BY <1>3, CPUsAssumption DEF RecordOwner, InvOwner
  <2>2. Cardinality(held[c] \union {tgt[c]}) = Cardinality(held[c]) + 1
    BY <2>1, HeldCount
  <2> QED
    BY <1>3, <2>1, <2>2, HeldCount DEF RecordOwner
<1>4. CASE Unlock(c)
  BY <1>4, HeldCount DEF Unlock
<1>5. CASE PopOff(c)
  BY <1>5, HeldCount DEF PopOff
<1>6. CASE Interrupt(c)
  BY <1>6, HeldCount DEF Interrupt, InvTrap
<1>7. CASE Iret(c)
  BY <1>7, HeldCount, MineIsHeld DEF Iret, InvTrap
<1>8. ASSUME NEW l \in Locks, PushRead(c, l) PROVE InvNoff'
  BY <1>8, HeldCount DEF PushRead
<1>9. ASSUME NEW l \in Locks, ClearOwner(c, l) PROVE InvNoff'
  BY <1>9, HeldCount, MineIsHeld, SMTT(30) DEF ClearOwner
<1>10. ASSUME NEW b \in BOOLEAN, SetIntr(c, b) PROVE InvNoff'
  BY <1>10, HeldCount DEF SetIntr
<1> QED
  BY <1>1, <1>2, <1>3, <1>4, <1>5, <1>6, <1>7, <1>8, <1>9, <1>10 DEF Step

\* A hart goes on asking only for locks it does not hold.
LEMMA OrderStep == IndInv /\ Next => InvOrder'
<1> SUFFICES ASSUME IndInv, NEW c \in CPUs, Step(c) PROVE InvOrder'
  BY DEF Next
<1> USE DEF IndInv, TypeOK, InvOrder, lvars, ivars, tvars, Goto, At
<1>1. CASE PushOff(c)
  BY <1>1 DEF PushOff
<1>2. CASE TestAndSet(c)
  BY <1>2 DEF TestAndSet
<1>3. CASE RecordOwner(c)
  BY <1>3 DEF RecordOwner
<1>4. CASE Unlock(c)
  BY <1>4 DEF Unlock
<1>5. CASE PopOff(c)
  BY <1>5 DEF PopOff
<1>6. CASE Interrupt(c)
  BY <1>6 DEF Interrupt
<1>7. CASE Iret(c)
  BY <1>7, MineIsHeld DEF Iret, InvTrap
<1>8. ASSUME NEW l \in Locks, PushRead(c, l) PROVE InvOrder'
  BY <1>8, MineIsHeld DEF PushRead, Locks
<1>9. ASSUME NEW l \in Locks, ClearOwner(c, l) PROVE InvOrder'
  BY <1>9, MineIsHeld DEF ClearOwner
<1>10. ASSUME NEW b \in BOOLEAN, SetIntr(c, b) PROVE InvOrder'
  BY <1>10 DEF SetIntr
<1> QED
  BY <1>1, <1>2, <1>3, <1>4, <1>5, <1>6, <1>7, <1>8, <1>9, <1>10 DEF Step

\* Interrupts keep coming only while noff is 0.
LEMMA TrapStep == IndInv /\ Next => InvTrap'
<1> SUFFICES ASSUME IndInv, NEW c \in CPUs, Step(c) PROVE InvTrap'
  BY DEF Next
<1> USE DEF IndInv, TypeOK, InvTrap, lvars, ivars, tvars, Goto, At
<1>1. CASE PushOff(c)
  BY <1>1 DEF PushOff
<1>2. CASE TestAndSet(c)
  BY <1>2 DEF TestAndSet
<1>3. CASE RecordOwner(c)
  BY <1>3 DEF RecordOwner
<1>4. CASE Unlock(c)
  BY <1>4 DEF Unlock
<1>5. CASE PopOff(c)
  BY <1>5 DEF PopOff, InvX
<1>6. CASE Interrupt(c)
  <2>1. held[c] \in SUBSET Locks /\ noff[c] = 0
    BY <1>6 DEF Interrupt, InvNoff
  <2>2. held[c] = {} /\ Busy(c) = 0
    BY <2>1, HeldCount DEF InvNoff, Busy
  <2>3. pc[c] \in {"run", "read"}
    BY <2>2 DEF Busy, Points
  <2>4. x[c] /\ (pc[c] = "read" => old[c])
    BY <1>6, <2>1 DEF Interrupt, InvX
  <2> QED
    BY <1>6, <2>2, <2>3, <2>4 DEF Interrupt, Saved
<1>7. CASE Iret(c)
  BY <1>7 DEF Iret, Saved
<1>8. ASSUME NEW l \in Locks, PushRead(c, l) PROVE InvTrap'
  BY <1>8 DEF PushRead
<1>9. ASSUME NEW l \in Locks, ClearOwner(c, l) PROVE InvTrap'
  BY <1>9 DEF ClearOwner
<1>10. ASSUME NEW b \in BOOLEAN, SetIntr(c, b) PROVE InvTrap'
  BY <1>10 DEF SetIntr
<1> QED
  BY <1>1, <1>2, <1>3, <1>4, <1>5, <1>6, <1>7, <1>8, <1>9, <1>10 DEF Step

\* SIE or its saved value stays equal to x.
LEMMA XStep == IndInv /\ Next => InvX'
<1> SUFFICES ASSUME IndInv, NEW c \in CPUs, Step(c) PROVE InvX'
  BY DEF Next
<1> USE DEF IndInv, TypeOK, InvX, lvars, ivars, tvars, Goto, At
<1>1. CASE PushOff(c)
  <2>1. noff[c] + 1 # 0 /\ noff'[c] = noff[c] + 1
    BY <1>1 DEF PushOff
  <2>2. noff[c] = 0 => old[c] = intr[c] /\ origin'[c] = old[c]
    BY <1>1 DEF PushOff, InvTrap
  <2>3. inIntr[c] => ~intr[c]
    BY DEF InvTrap
  <2>4. ~inIntr[c] => origin'[c] = x[c]
    BY <1>1, <2>2 DEF PushOff
  <2>5. inIntr[c] => ~origin'[c]
    BY <1>1, <2>2, <2>3 DEF PushOff
  <2> QED
    BY <1>1, <2>1, <2>4, <2>5 DEF PushOff
<1>2. CASE TestAndSet(c)
  BY <1>2 DEF TestAndSet
<1>3. CASE RecordOwner(c)
  BY <1>3 DEF RecordOwner
<1>4. CASE Unlock(c)
  BY <1>4 DEF Unlock
<1>5. CASE PopOff(c)
  BY <1>5 DEF PopOff, InvTrap
<1>6. CASE Interrupt(c)
  BY <1>6 DEF Interrupt, InvNoff
<1>7. CASE Iret(c)
  <2>1. held[c] = {} /\ x[c] /\ pc[c] = "run"
    BY <1>7, MineIsHeld DEF Iret, InvTrap
  <2>2. noff[c] = 0
    BY <2>1, HeldCount DEF InvNoff, Busy
  <2> QED
    BY <1>7, <2>1, <2>2 DEF Iret
<1>8. ASSUME NEW l \in Locks, PushRead(c, l) PROVE InvX'
  BY <1>8 DEF PushRead
<1>9. ASSUME NEW l \in Locks, ClearOwner(c, l) PROVE InvX'
  BY <1>9 DEF ClearOwner
<1>10. ASSUME NEW b \in BOOLEAN, SetIntr(c, b) PROVE InvX'
  BY <1>10 DEF SetIntr
<1> QED
  BY <1>1, <1>2, <1>3, <1>4, <1>5, <1>6, <1>7, <1>8, <1>9, <1>10 DEF Step

\* The invariant is inductive.
LEMMA Inductive == IndInv /\ [Next]_vars => IndInv'
<1>1. IndInv /\ Next => IndInv'
  BY TypeStep, OwnerStep, NoffStep, OrderStep, TrapStep, XStep DEF IndInv
<1>2. IndInv /\ UNCHANGED vars => IndInv'
  BY DEF IndInv, TypeOK, InvOwner, InvNoff, InvOrder, InvTrap, InvX, Busy,
         vars, lvars, ivars, tvars
<1> QED
  BY <1>1, <1>2

\* IndInv holds in every reachable state.
LEMMA IndInvHolds == Spec => []IndInv
  BY InitInd, Inductive, PTL DEF Spec

----------------------------------------------------------------------------
\* Type correctness of the locks, of cpu_t and of the saved registers.
THEOREM TypeCorrect == Spec => []TypeOK
<1>1. IndInv => TypeOK
  BY DEF IndInv
<1> QED
  BY <1>1, IndInvHolds, PTL

\* A spinlock excludes: two harts are never both between spinlock_acquire
\* and spinlock_release of one lock.
THEOREM SpinlockExcludes == Spec => []MutualExclusion
<1>1. IndInv => MutualExclusion
  BY DEF IndInv, TypeOK, InvOwner, MutualExclusion
<1> QED
  BY <1>1, IndInvHolds, PTL

\* The panics and assertions of spinlock.c are unreachable for code that
\* takes its locks in one order, whatever interrupts do.
THEOREM AssertionsHold == Spec => []NoAssertionFails
<1>1. ASSUME IndInv PROVE NoAssertionFails
  <2> SUFFICES ASSUME NEW c \in CPUs
               PROVE  /\ At(c, "spin") => ~spinlock_holding(c, tgt[c])
                      /\ \A l \in held[c] : spinlock_holding(c, l)
                      /\ At(c, "pop") => ~intr[c] /\ noff[c] >= 1
    BY DEF NoAssertionFails
  <2>1. At(c, "spin") => ~spinlock_holding(c, tgt[c])
    BY <1>1 DEF IndInv, TypeOK, InvOwner, InvOrder, At, spinlock_holding
  <2>2. \A l \in held[c] : spinlock_holding(c, l)
    BY <1>1, CPUsAssumption DEF IndInv, TypeOK, InvOwner, spinlock_holding
  <2>3. At(c, "pop") => ~intr[c] /\ noff[c] >= 1
    <3>1. held[c] \in SUBSET Locks
      BY <1>1 DEF IndInv, TypeOK
    <3> QED
      BY <1>1, <3>1, HeldCount DEF IndInv, InvNoff, Busy, At
  <2> QED
    BY <2>1, <2>2, <2>3
<1> QED
  BY <1>1, IndInvHolds, PTL

\* Interrupts stay off on a hart for as long as it holds any spinlock.
THEOREM NoInterruptWhileHolding == Spec => []InterruptsOffWhileHolding
<1>1. ASSUME IndInv, NEW c \in CPUs, held[c] # {} PROVE ~intr[c]
  <2>1. held[c] \in SUBSET Locks
    BY <1>1 DEF IndInv, TypeOK
  <2> QED
    BY <1>1, <2>1, HeldCount DEF IndInv, InvNoff, Busy
<1>2. IndInv => InterruptsOffWhileHolding
  BY <1>1 DEF InterruptsOffWhileHolding
<1> QED
  BY <1>2, IndInvHolds, PTL

\* Undoing every push_off brings back the interrupt state X of the code
\* outside the locks.
THEOREM XRestored == Spec => []RestoresX
<1>1. IndInv => RestoresX
  BY DEF IndInv, InvX, RestoresX
<1> QED
  BY <1>1, IndInvHolds, PTL

----------------------------------------------------------------------------
(* IntrSwtch: noff across swtch *)

\* What a frame's pc may be: the first is that of the trap from user mode, the others
\* those of handlers; only interruptible code has a handler above it.
SwBottom == {"sys", "hold", "both", "own", "slept", "new", "user",
             "utrap", "uyielded", "utail", "dead"}
SwHandler == {"trap", "yielded", "tail", "sepc", "ret"}
SwFrame == [pc : FramePoints, ret : FramePoints]

SwInvFrames ==
  /\ stack \in [Threads -> Seq(SwFrame)]
  /\ \A t \in Threads : Len(stack[t]) \in 1 .. MaxNest + 1
  /\ \A t \in Threads : \A i \in 1 .. Len(stack[t]) :
       /\ stack[t][i].pc \in IF i = 1 THEN SwBottom ELSE SwHandler
       /\ i < Len(stack[t]) => stack[t][i].pc \in SwInterruptible

\* A thread is on one hart at most, and one that is on none, or that a hart
\* has switched away from, stands at a point of swtch with its lk taken; only a
\* killed one has left without it, to a hart that stays in panic.
SwInvCur ==
  /\ cur \in [CPUs -> Threads \union {NoThread}]
  /\ spc \in [CPUs -> {"scan", "in", "back"}]
  /\ \A c \in CPUs : cur[c] = NoThread <=> spc[c] = "scan"
  /\ \A c, d \in CPUs : c # d /\ cur[c] = cur[d] => cur[c] = NoThread
  /\ \A c \in CPUs : spc[c] = "back" => Pc(cur[c]) \in {"slept", "yielded", "uyielded", "dead"}
  /\ \A t \in Threads :
       (\A c \in CPUs : cur[c] # t) => Pc(t) \in {"slept", "yielded", "uyielded", "new"}
  /\ \A c \in CPUs : spc[c] = "in" => Pc(cur[c]) # "dead"

SwInvNoff ==
  /\ intr \in [CPUs -> BOOLEAN] /\ noff \in [CPUs -> Nat]
  /\ \A c \in CPUs : noff[c] = Depth(c) /\ (Depth(c) > 0 => ~intr[c])

SwInvRest ==
  origin \in [CPUs -> BOOLEAN] /\ sepc \in [CPUs -> FramePoints] /\ astray \in BOOLEAN

SwInv == SwInvFrames /\ SwInvCur /\ SwInvNoff /\ SwInvRest

\* The points of the threads after a step of t.
SwMoves(t, point) ==
  /\ Pc(t)' = point
  /\ \A u \in Threads : u # t => Pc(u)' = Pc(u)


\* A step within the top frame of t.
LEMMA SwGoto ==
  ASSUME SwInvFrames, NEW t \in Threads, NEW point \in SwBottom \union SwHandler,
         Pc(t) \in SwBottom <=> point \in SwBottom,
         MoveTo(t, point)
  PROVE  SwInvFrames' /\ SwMoves(t, point)
<1> DEFINE n == Len(stack[t])
           new == [stack[t][n] EXCEPT !.pc = point]
           s == [stack[t] EXCEPT ![n] = new]
<1>1. /\ n \in 1 .. MaxNest + 1 /\ n \in Nat
      /\ stack[t] \in Seq(SwFrame) /\ DOMAIN stack[t] = 1 .. n
      /\ stack[t][n] \in SwFrame
  BY DEF SwInvFrames
<1>2. stack' = [stack EXCEPT ![t] = s]
  BY <1>1 DEF MoveTo, SwInvFrames
<1>3. new \in SwFrame /\ new.pc = point
  BY <1>1 DEF SwFrame, FramePoints, SwBottom, SwHandler
<1>4. /\ s \in Seq(SwFrame) /\ Len(s) = n /\ s[n] = new
      /\ \A i \in 1 .. n : i # n => s[i] = stack[t][i]
  BY <1>1, <1>3
<1>5. stack'[t] = s /\ \A u \in Threads : u # t => stack'[u] = stack[u]
  BY <1>2 DEF SwInvFrames
<1> HIDE DEF s, new
<1>6. stack' \in [Threads -> Seq(SwFrame)]
  BY <1>2, <1>4 DEF SwInvFrames
<1>7. Pc(t) = stack[t][n].pc
  BY DEF Pc, Last
<1>8. n = 1 <=> Pc(t) \in SwBottom
  <2>1. SwBottom \intersect SwHandler = {}
    BY DEF SwBottom, SwHandler
  <2>2. Pc(t) \in IF n = 1 THEN SwBottom ELSE SwHandler
    BY <1>1, <1>7 DEF SwInvFrames
  <2> QED
    BY <2>1, <2>2
<1>9. SwInvFrames'
  <2>1. \A i \in 1 .. Len(stack'[t]) :
          /\ stack'[t][i].pc \in IF i = 1 THEN SwBottom ELSE SwHandler
          /\ i < Len(stack'[t]) => stack'[t][i].pc \in SwInterruptible
    <3> SUFFICES ASSUME NEW i \in 1 .. n
                 PROVE  /\ s[i].pc \in IF i = 1 THEN SwBottom ELSE SwHandler
                        /\ i < n => s[i].pc \in SwInterruptible
      BY <1>4, <1>5
    <3>1. CASE i = n
      BY <3>1, <1>1, <1>3, <1>4, <1>8
    <3>2. CASE i # n
      BY <3>2, <1>1, <1>4 DEF SwInvFrames
    <3> QED
      BY <3>1, <3>2
  <2> QED
    BY <2>1, <1>1, <1>4, <1>5, <1>6 DEF SwInvFrames
<1>10. SwMoves(t, point)
  BY <1>3, <1>4, <1>5 DEF SwMoves, Pc, Last
<1> QED
  BY <1>9, <1>10

\* kernel_vector pushes the frame of a handler on interruptible code.
LEMMA SwPush ==
  ASSUME SwInvFrames, NEW t \in Threads, NEW p \in SwInterruptible,
         Pc(t) = p, Len(stack[t]) <= MaxNest,
         stack' = [stack EXCEPT ![t] = Append(@, [pc |-> "trap", ret |-> p])]
  PROVE  SwInvFrames' /\ SwMoves(t, "trap")
<1> DEFINE n == Len(stack[t])
           new == [pc |-> "trap", ret |-> p]
           s == Append(stack[t], new)
<1>1. /\ n \in 1 .. MaxNest + 1 /\ n \in Nat
      /\ stack[t] \in Seq(SwFrame) /\ new \in SwFrame /\ new.pc = "trap"
  BY DEF SwInvFrames, SwFrame, SwInterruptible, FramePoints
<1>2. /\ s \in Seq(SwFrame) /\ Len(s) = n + 1 /\ s[n + 1] = new
      /\ \A i \in 1 .. n : s[i] = stack[t][i]
  BY <1>1
<1>3. stack'[t] = s /\ \A u \in Threads : u # t => stack'[u] = stack[u]
  BY DEF SwInvFrames
<1> HIDE DEF s, new
<1>4. stack' \in [Threads -> Seq(SwFrame)]
  BY <1>2, <1>3 DEF SwInvFrames, s, new
<1>5. stack[t][n].pc \in SwInterruptible
  BY DEF Pc, Last
<1>6. SwInvFrames'
  <2>1. \A i \in 1 .. Len(stack'[t]) :
          /\ stack'[t][i].pc \in IF i = 1 THEN SwBottom ELSE SwHandler
          /\ i < Len(stack'[t]) => stack'[t][i].pc \in SwInterruptible
    <3> SUFFICES ASSUME NEW i \in 1 .. n + 1
                 PROVE  /\ s[i].pc \in IF i = 1 THEN SwBottom ELSE SwHandler
                        /\ i < n + 1 => s[i].pc \in SwInterruptible
      BY <1>2, <1>3
    <3>1. CASE i = n + 1
      BY <3>1, <1>1, <1>2 DEF SwHandler
    <3>2. CASE i = n
      <4>1. s[i] = stack[t][n] /\ i \in 1 .. Len(stack[t])
        BY <3>2, <1>1, <1>2
      <4> QED
        BY <4>1, <3>2, <1>5 DEF SwInvFrames
    <3>3. CASE i < n
      <4>1. s[i] = stack[t][i] /\ i \in 1 .. Len(stack[t]) /\ i < Len(stack[t])
        BY <3>3, <1>1, <1>2
      <4> QED
        BY <4>1 DEF SwInvFrames
    <3> QED
      BY <1>1, <3>1, <3>2, <3>3
  <2>2. n + 1 \in 1 .. MaxNest + 1
    BY <1>1, NestAssumption
  <2> QED
    BY <2>1, <2>2, <1>1, <1>2, <1>3, <1>4 DEF SwInvFrames
<1>7. SwMoves(t, "trap")
  BY <1>1, <1>2, <1>3 DEF SwMoves, Pc, Last
<1> QED
  BY <1>6, <1>7

\* sret pops it: the interrupted code is interruptible code.
LEMMA SwPop ==
  ASSUME SwInvFrames, NEW t \in Threads, Pc(t) = "ret",
         stack' = [stack EXCEPT ![t] = Front(@)]
  PROVE  SwInvFrames' /\ \E p \in SwInterruptible : SwMoves(t, p)
<1> DEFINE n == Len(stack[t])
           s == Front(stack[t])
<1>1. /\ n \in 1 .. MaxNest + 1 /\ n \in Nat /\ stack[t] \in Seq(SwFrame)
      /\ stack[t][n].pc = "ret"
  BY DEF SwInvFrames, Pc, Last
<1> HIDE DEF n
<1>2. n # 1
  BY <1>1 DEF SwInvFrames, SwBottom
<1>3. /\ s \in Seq(SwFrame) /\ Len(s) = n - 1
      /\ \A i \in 1 .. n - 1 : s[i] = stack[t][i]
  BY <1>1, <1>2 DEF Front, n
<1>4. stack'[t] = s /\ \A u \in Threads : u # t => stack'[u] = stack[u]
  BY DEF SwInvFrames
<1> HIDE DEF s
<1>5. stack' \in [Threads -> Seq(SwFrame)]
  BY <1>3, <1>4 DEF SwInvFrames, s
<1>6. SwInvFrames'
  <2>1. \A i \in 1 .. Len(stack'[t]) :
          /\ stack'[t][i].pc \in IF i = 1 THEN SwBottom ELSE SwHandler
          /\ i < Len(stack'[t]) => stack'[t][i].pc \in SwInterruptible
    BY <1>1, <1>2, <1>3, <1>4, SMTT(60) DEF SwInvFrames, n
  <2>2. n - 1 \in 1 .. MaxNest + 1
    BY <1>1, <1>2, NestAssumption
  <2>3. \A u \in Threads : Len(stack'[u]) \in 1 .. MaxNest + 1
    BY <2>2, <1>3, <1>4 DEF SwInvFrames
  <2> QED
    BY <2>1, <2>3, <1>4, <1>5 DEF SwInvFrames
<1>7. s[n - 1].pc \in SwInterruptible /\ Pc(t)' = s[n - 1].pc
  <2>1. n - 1 \in 1 .. n /\ n - 1 < n /\ n - 1 \in 1 .. n - 1
    BY <1>1, <1>2
  <2>2. stack[t][n - 1].pc \in SwInterruptible
    BY <2>1 DEF SwInvFrames, n
  <2> QED
    BY <2>1, <2>2, <1>3, <1>4 DEF Pc, Last
<1>8. SwMoves(t, s[n - 1].pc)
  BY <1>4, <1>7 DEF SwMoves, Pc, Last
<1> QED
  BY <1>6, <1>7, <1>8

\* Every step preserves the invariant; the hart part of it sees the stacks only
\* through the points of the threads.
LEMMA SwInductive ==
  ASSUME SwInv, SwNext
  PROVE  SwInv'
<1> USE NestAssumption DEF SwInvCur, SwInvNoff, SwInvRest, SwMoves, Depth,
            Runs, SwBottom, SwHandler, SwInterruptible, Stay, Swtch,
            push_off, pop_off, hvars
<1>1. ASSUME NEW c \in CPUs, SchedTop(c) PROVE SwInv'
  <2>1. SwInvFrames' /\ \A t \in Threads : Pc(t)' = Pc(t)
    BY <1>1 DEF SchedTop, SwInv, SwInvFrames, Pc, Last
  <2> QED
    BY <1>1, <2>1 DEF SchedTop, SwInv
<1>2. ASSUME NEW c \in CPUs, SchedBack(c) PROVE SwInv'
  <2>1. SwInvFrames' /\ \A t \in Threads : Pc(t)' = Pc(t)
    BY <1>2 DEF SchedBack, SwInv, SwInvFrames, Pc, Last
  <2> QED
    BY <1>2, <2>1 DEF SchedBack, SwInv
<1>3. ASSUME NEW c \in CPUs, NEW t \in Threads, SchedPick(c, t) PROVE SwInv'
  <2>1. SwInvFrames' /\ \A u \in Threads : Pc(u)' = Pc(u)
    BY <1>3 DEF SchedPick, SwInv, SwInvFrames, Pc, Last
  <2> QED
    BY <1>3, <2>1 DEF SchedPick, SwInv
<1>4. ASSUME NEW c \in CPUs, NEW t \in Threads, TakeCondLock(c, t) PROVE SwInv'
  <2>1. SwInvFrames' /\ SwMoves(t, "hold")
    BY <1>4, SwGoto DEF TakeCondLock, SwInv
  <2> QED
    BY <1>4, <2>1 DEF TakeCondLock, SwInv
<1>5. ASSUME NEW c \in CPUs, NEW t \in Threads, DropCondLock(c, t) PROVE SwInv'
  <2>1. SwInvFrames' /\ SwMoves(t, "sys")
    BY <1>5, SwGoto DEF DropCondLock, SwInv
  <2> QED
    BY <1>5, <2>1 DEF DropCondLock, SwInv
<1>6. ASSUME NEW c \in CPUs, NEW t \in Threads, SleepLockSelf(c, t) PROVE SwInv'
  <2>1. SwInvFrames' /\ SwMoves(t, "both")
    BY <1>6, SwGoto DEF SleepLockSelf, SwInv
  <2> QED
    BY <1>6, <2>1 DEF SleepLockSelf, SwInv
<1>7. ASSUME NEW c \in CPUs, NEW t \in Threads, SleepDropCondLock(c, t) PROVE SwInv'
  <2>1. SwInvFrames' /\ SwMoves(t, "own")
    BY <1>7, SwGoto DEF SleepDropCondLock, SwInv
  <2> QED
    BY <1>7, <2>1 DEF SleepDropCondLock, SwInv
<1>8. ASSUME NEW c \in CPUs, NEW t \in Threads, SleepSwtch(c, t) PROVE SwInv'
  <2>1. SwInvFrames' /\ SwMoves(t, "slept")
    BY <1>8, SwGoto DEF SleepSwtch, SwInv
  <2> QED
    BY <1>8, <2>1 DEF SleepSwtch, SwInv
<1>9. ASSUME NEW c \in CPUs, NEW t \in Threads, SleepBack(c, t) PROVE SwInv'
  <2>1. SwInvFrames' /\ SwMoves(t, "sys")
    BY <1>9, SwGoto DEF SleepBack, SwInv
  <2> QED
    BY <1>9, <2>1 DEF SleepBack, SwInv
<1>10. ASSUME NEW c \in CPUs, NEW t \in Threads, Enter(c, t) PROVE SwInv'
  <2>1. PICK p \in {"sys", "utail"} : MoveTo(t, p)
    BY <1>10 DEF Enter
  <2>2. SwInvFrames' /\ SwMoves(t, p)
    BY <1>10, <2>1, SwGoto DEF Enter, SwInv
  <2> QED
    BY <1>10, <2>2 DEF Enter, SwInv
<1>11. ASSUME NEW c \in CPUs, NEW t \in Threads, HandlerDone(c, t) PROVE SwInv'
  <2>1. SwInvFrames' /\ SwMoves(t, "tail")
    BY <1>11, SwGoto DEF HandlerDone, SwInv
  <2> QED
    BY <1>11, <2>1 DEF HandlerDone, SwInv
<1>12. ASSUME NEW c \in CPUs, NEW t \in Threads, YieldSwtch(c, t) PROVE SwInv'
  <2>1. SwInvFrames' /\ SwMoves(t, "yielded")
    BY <1>12, SwGoto DEF YieldSwtch, SwInv
  <2> QED
    BY <1>12, <2>1 DEF YieldSwtch, SwInv
<1>13. ASSUME NEW c \in CPUs, NEW t \in Threads, YieldBack(c, t) PROVE SwInv'
  <2>1. SwInvFrames' /\ SwMoves(t, "tail")
    BY <1>13, SwGoto DEF YieldBack, SwInv
  <2> QED
    BY <1>13, <2>1 DEF YieldBack, SwInv
<1>14. ASSUME NEW c \in CPUs, NEW t \in Threads, WriteSepc(c, t) PROVE SwInv'
  <2>1. SwInvFrames' /\ SwMoves(t, "sepc")
    BY <1>14, SwGoto DEF WriteSepc, SwInv
  <2>2. stack[t] \in Seq(SwFrame) /\ Len(stack[t]) \in 1 .. MaxNest + 1
    BY DEF SwInv, SwInvFrames
  <2>3. Last(stack[t]).ret \in FramePoints
    <3>1. stack[t][Len(stack[t])] \in SwFrame
      BY <2>2
    <3> QED
      BY <3>1 DEF SwFrame, Last
  <2> QED
    BY <1>14, <2>1, <2>3 DEF WriteSepc, SwInv
<1>15. ASSUME NEW c \in CPUs, NEW t \in Threads, WriteSstatus(c, t) PROVE SwInv'
  <2>1. SwInvFrames' /\ SwMoves(t, "ret")
    BY <1>15, SwGoto DEF WriteSstatus, SwInv
  <2> QED
    BY <1>15, <2>1 DEF WriteSstatus, SwInv
<1>16. ASSUME NEW c \in CPUs, NEW t \in Threads, TakeInterrupt(c, t) PROVE SwInv'
  <2>2. PICK p \in SwInterruptible :
          /\ Runs(c, t, p) /\ intr[c] /\ sepc' = [sepc EXCEPT ![c] = p]
          /\ Len(stack[t]) <= MaxNest
          /\ stack' = [stack EXCEPT ![t] = Append(@, [pc |-> "trap", ret |-> p])]
    BY <1>16, Zenon DEF TakeInterrupt
  <2>0. SwInvFrames /\ Pc(t) = p
    BY <2>2 DEF SwInv
  <2>1. SwInvFrames' /\ SwMoves(t, "trap")
    <3> HIDE DEF SwInterruptible, SwMoves
    <3> QED
      BY <2>0, <2>2, SwPush
  <2>3. intr' = [intr EXCEPT ![c] = FALSE] /\ UNCHANGED <<noff, origin, cur, spc, astray>>
    BY <1>16 DEF TakeInterrupt
  <2>4. SwInvRest'
    BY <2>2, <2>3 DEF SwInv, FramePoints
  <2>5. SwInvCur'
    <3>1. SwInvCur /\ UNCHANGED <<cur, spc>> /\ cur[c] = t /\ spc[c] = "in" /\ Pc(t)' = "trap"
      BY <2>1, <2>2, <2>3 DEF SwInv
    <3>2. \A u \in Threads : u # t => Pc(u)' = Pc(u)
      BY <2>1
    <3> QED
      BY <3>1, <3>2
  <2>6. SwInvNoff'
    BY <2>1, <2>2, <2>3 DEF SwInv
  <2> QED
    BY <2>1, <2>4, <2>5, <2>6 DEF SwInv
<1>17. ASSUME NEW c \in CPUs, NEW t \in Threads, Sret(c, t) PROVE SwInv'
  <2>1. SwInvFrames'
    BY <1>17, SwPop DEF Sret, SwInv
  <2>2. PICK p \in SwInterruptible : SwMoves(t, p)
    BY <1>17, SwPop DEF Sret, SwInv
  <2> QED
    BY <1>17, <2>1, <2>2 DEF Sret, SwInv
<1>18. ASSUME NEW c \in CPUs, NEW t \in Threads, UserReturn(c, t) PROVE SwInv'
  <2>1. SwInvFrames' /\ SwMoves(t, "user")
    BY <1>18, SwGoto DEF UserReturn, SwInv
  <2> QED
    BY <1>18, <2>1 DEF UserReturn, SwInv, FramePoints
<1>19. ASSUME NEW c \in CPUs, NEW t \in Threads, Ecall(c, t) PROVE SwInv'
  <2>1. SwInvFrames' /\ SwMoves(t, "sys")
    BY <1>19, SwGoto DEF Ecall, SwInv
  <2> QED
    BY <1>19, <2>1 DEF Ecall, SwInv, FramePoints
<1>20. ASSUME NEW c \in CPUs, NEW t \in Threads, UserTrap(c, t) PROVE SwInv'
  <2>1. SwInvFrames' /\ SwMoves(t, "utrap")
    BY <1>20, SwGoto DEF UserTrap, SwInv
  <2> QED
    BY <1>20, <2>1 DEF UserTrap, SwInv, FramePoints
<1>21. ASSUME NEW c \in CPUs, NEW t \in Threads, UserYieldSwtch(c, t) PROVE SwInv'
  <2>1. SwInvFrames' /\ SwMoves(t, "uyielded")
    BY <1>21, SwGoto DEF UserYieldSwtch, SwInv
  <2> QED
    BY <1>21, <2>1 DEF UserYieldSwtch, SwInv
<1>22. ASSUME NEW c \in CPUs, NEW t \in Threads, UserYieldBack(c, t) PROVE SwInv'
  <2>1. SwInvFrames' /\ SwMoves(t, "utail")
    BY <1>22, SwGoto DEF UserYieldBack, SwInv
  <2> QED
    BY <1>22, <2>1 DEF UserYieldBack, SwInv
<1>23. ASSUME NEW c \in CPUs, NEW t \in Threads, UserKill(c, t) PROVE SwInv'
  <2>1. SwInvFrames' /\ SwMoves(t, "dead")
    BY <1>23, SwGoto DEF UserKill, SwInv
  <2> QED
    BY <1>23, <2>1 DEF UserKill, SwInv
<1> QED
  BY <1>1, <1>2, <1>3, <1>4, <1>5, <1>6, <1>7, <1>8, <1>9, <1>10, <1>11, <1>12,
     <1>13, <1>14, <1>15, <1>16, <1>17, <1>18, <1>19, <1>20, <1>21, <1>22, <1>23 DEF SwNext

LEMMA SwInitially ==
  ASSUME SwInit
  PROVE  SwInv
<1> DEFINE s == <<[pc |-> "new", ret |-> "new"]>>
<1>1. s \in Seq(SwFrame) /\ Len(s) = 1 /\ s[1].pc = "new"
  BY DEF SwFrame, FramePoints
<1>2. \A t \in Threads : stack[t] = s
  BY DEF SwInit
<1>3. stack \in [Threads -> Seq(SwFrame)]
  BY <1>1 DEF SwInit
<1> HIDE DEF s
<1>4. SwInvFrames
  <2>1. 1 \in 1 .. MaxNest + 1
    BY NestAssumption
  <2>2. ASSUME NEW t \in Threads, NEW i \in 1 .. Len(stack[t])
        PROVE  /\ stack[t][i].pc \in IF i = 1 THEN SwBottom ELSE SwHandler
               /\ i < Len(stack[t]) => stack[t][i].pc \in SwInterruptible
    <3>0. stack[t] = s
      BY <1>2
    <3>1. i = 1 /\ stack[t][i].pc = "new" /\ Len(stack[t]) = 1
      <4>1. Len(stack[t]) = 1
        BY <1>1, <3>0
      <4>2. i = 1
        BY <4>1
      <4> QED
        BY <1>1, <3>0, <4>1, <4>2
    <3> QED
      BY <3>1 DEF SwBottom
  <2> QED
    BY <2>1, <2>2, <1>1, <1>2, <1>3 DEF SwInvFrames
<1>5. \A t \in Threads : Pc(t) = "new"
  BY <1>1, <1>2 DEF Pc, Last
<1>6. SwInvCur
  BY <1>5, NestAssumption DEF SwInit, SwInvCur
<1>7. SwInvNoff
  BY DEF SwInit, SwInvNoff, Depth
<1>8. SwInvRest
  BY DEF SwInit, SwInvRest, FramePoints
<1> QED
  BY <1>4, <1>6, <1>7, <1>8 DEF SwInv

\* Although noff and origin belong to the hart and threads migrate between
\* harts in the middle of push_off and pop_off, noff is at every moment the
\* number of spinlocks of the code on the hart, and interrupts are off while
\* there are any: for any number of harts, threads and nested handlers.
THEOREM NoffAcrossSwtch == SwSpec => []NoffFollowsLocks
<1>1. SwInit => SwInv
  BY SwInitially
<1>2. SwInv /\ [SwNext]_swvars => SwInv'
  <2>1. ASSUME SwInv, UNCHANGED swvars PROVE SwInv'
    <3>1. SwInvFrames' /\ SwInvRest'
      BY <2>1 DEF swvars, hvars, SwInv, SwInvFrames, SwInvRest
    <3>2. SwInvCur'
      BY <2>1 DEF swvars, SwInv, SwInvCur, Pc
    <3>3. SwInvNoff'
      BY <2>1 DEF swvars, hvars, SwInv, SwInvNoff, Depth, Pc
    <3> QED
      BY <3>1, <3>2, <3>3 DEF SwInv
  <2> QED
    BY <2>1, SwInductive
<1>3. SwInv => NoffFollowsLocks
  <2> SUFFICES ASSUME SwInv PROVE SwTypeOK
    BY DEF SwInv, SwInvNoff, NoffFollowsLocks
  <2>1. \A t \in Threads : /\ Len(stack[t]) \in 1 .. MaxNest + 1
                           /\ \A i \in DOMAIN stack[t] : stack[t][i] \in SwFrame
    BY DEF SwInv, SwInvFrames
  <2> QED
    BY <2>1 DEF SwInv, SwInvCur, SwInvNoff, SwInvRest, SwTypeOK, SwFrame
<1> QED
  BY <1>1, <1>2, <1>3, PTL DEF SwSpec

=============================================================================
