----------------------------- MODULE SchedProofs -----------------------------
(***************************************************************************)
(* Theorems about the two users of the switching core of Sched, for every  *)
(* number of processes and harts.                                          *)
(*                                                                         *)
(* SleepLock: the safety properties are not inductive; they follow from an *)
(* invariant that also says who may hold slk->lock and p->lk at each point.*)
(*                                                                         *)
(* Proc: the slot of a process can be freed and given to another one while *)
(* the dead one is still between the last two lock sections of proc_exit,  *)
(* so that several harts may execute the same slot.  What makes the life   *)
(* cycle correct all the same is that at most one of them is alive.        *)
(***************************************************************************)
EXTENDS SleepLock, Proc, TLAPS

----------------------------------------------------------------------------
(* The sleeping lock: invariant *)

\* Points at which a process holds slk->lock.
SpinPoints == {"test", "slp1", "clear", "wake"}

\* slk->lock is held by the hart of a process at one of those points, only.
InvSpin ==
  /\ \A c \in CPUs : slkLock = c =>
       \E p \in Procs : Running(c, p) /\ pc[p] \in SpinPoints
  /\ \A p \in Procs : pc[p] \in SpinPoints =>
       \E c \in CPUs : Running(c, p) /\ slkLock = c

\* Whoever holds p->lk is the hart whose current process is p; a hart back in
\* the scheduler before dropping p->lk left p at a switching point.
InvHart ==
  /\ OneHartPerProcess
  /\ \A c \in CPUs, p \in Procs : lk[p] = c => cproc[c] = p
  /\ \A c \in CPUs, p \in Procs : cproc[c] = p /\ mode[c] = "sched" =>
       /\ lk[p] = c
       /\ pc[p] \in Preemptible \union {"asleep"}
       /\ state[p] # "RUNNING"
  /\ \A c \in CPUs : cproc[c] = NoProc => mode[c] = "sched"

\* On its way down a process holds its own lk; a SLEEPING process waits for slk.
InvSleep ==
  /\ \A p \in Procs : pc[p] \in {"slp1", "slp2"} =>
       \E c \in CPUs : Running(c, p) /\ lk[p] = c
  /\ \A p \in Procs : state[p] = "SLEEPING" =>
       pc[p] = "asleep" /\ sleep_space[p] = slk

LockIndInv ==
  /\ LockTypeOK /\ InvSpin /\ InvHart /\ InvSleep
  /\ MutualExclusion /\ NoLostWakeup

----------------------------------------------------------------------------
\* A process slot is never the NULL pointer.
LEMMA ProcIsNotNull == \A p \in Procs : p # NoProc
  BY NPROCAssumption, NoneAssumption DEF Procs

\* The type invariant is preserved by every step.
LEMMA TypeStep ==
  ASSUME LockTypeOK, [LockNext]_lockvars
  PROVE  LockTypeOK'
<1> USE DEF LockTypeOK, SchedTypeOK, LockPoints, States, Running, svars, slkvars
<1>1. ASSUME NEW c \in CPUs, NEW p \in Procs, SpinForAcquire(c, p) PROVE LockTypeOK'
  BY <1>1 DEF SpinForAcquire, Live, LockGoto
<1>2. ASSUME NEW c \in CPUs, NEW p \in Procs, Take(c, p) PROVE LockTypeOK'
  BY <1>2 DEF Take, LockGoto
<1>3. ASSUME NEW c \in CPUs, NEW p \in Procs, SleepEnter(c, p) PROVE LockTypeOK'
  BY <1>3 DEF SleepEnter, SleepLockSelf, LkAcquire, LockGoto
<1>4. ASSUME NEW c \in CPUs, NEW p \in Procs, SleepDropSpin(c, p) PROVE LockTypeOK'
  BY <1>4 DEF SleepDropSpin, LockGoto
<1>5. ASSUME NEW c \in CPUs, NEW p \in Procs, SleepNow(c, p) PROVE LockTypeOK'
  BY <1>5, SlkAssumption DEF SleepNow, SleepSwtch, LockGoto
<1>6. ASSUME NEW c \in CPUs, NEW p \in Procs, SleepBack(c, p) PROVE LockTypeOK'
  BY <1>6 DEF SleepBack, SleepResume, LkRelease, LockGoto
<1>7. ASSUME NEW c \in CPUs, NEW p \in Procs, SpinForRelease(c, p) PROVE LockTypeOK'
  BY <1>7 DEF SpinForRelease, Live, LockGoto
<1>8. ASSUME NEW c \in CPUs, NEW p \in Procs, Clear(c, p) PROVE LockTypeOK'
  <2>1. 0 \in 0 .. NPROC
    BY NPROCAssumption
  <2> QED
    BY <1>8, <2>1 DEF Clear, LockGoto
<1>9. ASSUME NEW c \in CPUs, NEW p \in Procs, Wake(c, p) PROVE LockTypeOK'
  <2>1. widx[p] + 1 \in 0 .. NPROC
    BY <1>9, NPROCAssumption DEF Wake
  <2>2. widx' \in [Procs -> 0 .. NPROC]
    BY <1>9, <2>1 DEF Wake
  <2>3. SchedTypeOK'
    BY <1>9 DEF Wake, WakeOne
  <2> QED
    BY <1>9, <2>2, <2>3 DEF Wake
<1>10. ASSUME NEW c \in CPUs, NEW p \in Procs, ReleaseDone(c, p) PROVE LockTypeOK'
  BY <1>10 DEF ReleaseDone, LockGoto
<1>11. ASSUME NEW c \in CPUs, NEW p \in Procs, LockPreempt(c, p) PROVE LockTypeOK'
  BY <1>11 DEF LockPreempt, YieldSwtch, LkAcquire
<1>12. ASSUME NEW c \in CPUs, NEW p \in Procs, PreemptBack(c, p) PROVE LockTypeOK'
  BY <1>12 DEF PreemptBack, YieldResume, LkRelease
<1>13. ASSUME NEW c \in CPUs, NEW p \in Procs, LockDispatch(c, p) PROVE LockTypeOK'
  BY <1>13 DEF LockDispatch, Schedule, LkAcquire
<1>14. ASSUME NEW c \in CPUs, LockDispatchBack(c) PROVE LockTypeOK'
  BY <1>14 DEF LockDispatchBack, SchedReturn, LkRelease
<1>15. CASE UNCHANGED lockvars
  BY <1>15 DEF lockvars
<1> QED
  BY <1>1, <1>2, <1>3, <1>4, <1>5, <1>6, <1>7, <1>8, <1>9, <1>10, <1>11,
     <1>12, <1>13, <1>14, <1>15 DEF LockNext, AcquireStep, ReleaseStep,
     LockSwitchStep

\* Hand-over of p->lk through swtch: InvHart is preserved by every step.
LEMMA HartStep ==
  ASSUME LockTypeOK, InvHart, InvSpin, InvSleep, [LockNext]_lockvars
  PROVE  InvHart'
<1> USE NoneAssumption DEF LockTypeOK, SchedTypeOK, LockPoints, States, Running,
         svars, slkvars, InvHart, OneHartPerProcess, InvSpin, InvSleep,
         SpinPoints, Preemptible
<1>1. ASSUME NEW c \in CPUs, NEW p \in Procs, SpinForAcquire(c, p) PROVE InvHart'
  BY <1>1 DEF SpinForAcquire, Live, LockGoto
<1>2. ASSUME NEW c \in CPUs, NEW p \in Procs, Take(c, p) PROVE InvHart'
  BY <1>2 DEF Take, LockGoto
<1>3. ASSUME NEW c \in CPUs, NEW p \in Procs, SleepEnter(c, p) PROVE InvHart'
  BY <1>3 DEF SleepEnter, SleepLockSelf, LkAcquire, LockGoto
<1>4. ASSUME NEW c \in CPUs, NEW p \in Procs, SleepDropSpin(c, p) PROVE InvHart'
  BY <1>4 DEF SleepDropSpin, LockGoto
<1>5. ASSUME NEW c \in CPUs, NEW p \in Procs, SleepNow(c, p) PROVE InvHart'
  BY <1>5 DEF SleepNow, SleepSwtch, LockGoto
<1>6. ASSUME NEW c \in CPUs, NEW p \in Procs, SleepBack(c, p) PROVE InvHart'
  BY <1>6 DEF SleepBack, SleepResume, LkRelease, LockGoto
<1>7. ASSUME NEW c \in CPUs, NEW p \in Procs, SpinForRelease(c, p) PROVE InvHart'
  BY <1>7 DEF SpinForRelease, Live, LockGoto
<1>8. ASSUME NEW c \in CPUs, NEW p \in Procs, Clear(c, p) PROVE InvHart'
  BY <1>8 DEF Clear, LockGoto
<1>9. ASSUME NEW c \in CPUs, NEW p \in Procs, Wake(c, p) PROVE InvHart'
  BY <1>9 DEF Wake, WakeOne
<1>10. ASSUME NEW c \in CPUs, NEW p \in Procs, ReleaseDone(c, p) PROVE InvHart'
  BY <1>10 DEF ReleaseDone, LockGoto
<1>11. ASSUME NEW c \in CPUs, NEW p \in Procs, LockPreempt(c, p) PROVE InvHart'
  BY <1>11 DEF LockPreempt, YieldSwtch, LkAcquire
<1>12. ASSUME NEW c \in CPUs, NEW p \in Procs, PreemptBack(c, p) PROVE InvHart'
  BY <1>12 DEF PreemptBack, YieldResume, LkRelease
<1>13. ASSUME NEW c \in CPUs, NEW p \in Procs, LockDispatch(c, p) PROVE InvHart'
  <2>1. \A d \in CPUs : cproc[d] # p
    BY <1>13 DEF LockDispatch, Schedule, LkAcquire
  <2> QED
    BY <1>13, <2>1, ProcIsNotNull DEF LockDispatch, Schedule, LkAcquire
<1>14. ASSUME NEW c \in CPUs, LockDispatchBack(c) PROVE InvHart'
  <2> DEFINE r == cproc[c]
  <2>1. /\ r \in Procs /\ r # NoProc /\ mode[c] = "sched"
        /\ lk' = [lk EXCEPT ![r] = NoCPU]
        /\ cproc' = [cproc EXCEPT ![c] = NoProc]
        /\ UNCHANGED <<state, mode, pc>>
    BY <1>14 DEF LockDispatchBack, SchedReturn, LkRelease
  <2>2. \A d \in CPUs \ {c} : cproc'[d] = cproc[d] /\ cproc[d] # r
    BY <2>1
  <2>3. cproc'[c] = NoProc /\ lk'[r] = NoCPU
    BY <2>1
  <2>4. \A q \in Procs \ {r} : lk'[q] = lk[q]
    BY <2>1
  <2> HIDE DEF r
  <2>5. OneHartPerProcess'
    BY <2>1, <2>2, <2>3, ProcIsNotNull
  <2>6. \A d \in CPUs, q \in Procs : lk'[q] = d => cproc'[d] = q
    <3> SUFFICES ASSUME NEW d \in CPUs, NEW q \in Procs, lk'[q] = d PROVE cproc'[d] = q
      OBVIOUS
    <3>1. q # r /\ cproc[d] = q
      BY <2>3, <2>4
    <3>2. d # c
      BY <3>1 DEF r
    <3> QED
      BY <2>2, <3>1, <3>2
  <2>7. \A d \in CPUs, q \in Procs : cproc'[d] = q /\ mode'[d] = "sched" =>
          lk'[q] = d /\ pc'[q] \in Preemptible \union {"asleep"} /\ state'[q] # "RUNNING"
    <3> SUFFICES ASSUME NEW d \in CPUs, NEW q \in Procs,
                        cproc'[d] = q, mode'[d] = "sched"
                 PROVE  lk'[q] = d /\ pc'[q] \in Preemptible \union {"asleep"}
                        /\ state'[q] # "RUNNING"
      OBVIOUS
    <3>1. d # c /\ cproc[d] = q /\ q # r
      BY <2>2, <2>3, ProcIsNotNull
    <3> QED
      BY <2>1, <2>4, <3>1
  <2>8. \A d \in CPUs : cproc'[d] = NoProc => mode'[d] = "sched"
    BY <2>1, <2>2
  <2> QED
    BY <2>5, <2>6, <2>7, <2>8
<1>15. CASE UNCHANGED lockvars
  BY <1>15 DEF lockvars
<1> QED
  BY <1>1, <1>2, <1>3, <1>4, <1>5, <1>6, <1>7, <1>8, <1>9, <1>10, <1>11,
     <1>12, <1>13, <1>14, <1>15 DEF LockNext, AcquireStep, ReleaseStep,
     LockSwitchStep

\* Ownership of slk->lock: InvSpin is preserved by every step.
LEMMA SpinStep ==
  ASSUME LockTypeOK, InvHart, InvSpin, [LockNext]_lockvars
  PROVE  InvSpin'
<1> USE NoneAssumption DEF LockTypeOK, SchedTypeOK, LockPoints, States, Running,
         svars, slkvars, InvHart, OneHartPerProcess, InvSpin, SpinPoints,
         Preemptible
<1>1. ASSUME NEW c \in CPUs, NEW p \in Procs, SpinForAcquire(c, p) PROVE InvSpin'
  BY <1>1 DEF SpinForAcquire, Live, LockGoto
<1>2. ASSUME NEW c \in CPUs, NEW p \in Procs, Take(c, p) PROVE InvSpin'
  BY <1>2 DEF Take, LockGoto
<1>3. ASSUME NEW c \in CPUs, NEW p \in Procs, SleepEnter(c, p) PROVE InvSpin'
  BY <1>3 DEF SleepEnter, SleepLockSelf, LkAcquire, LockGoto
<1>4. ASSUME NEW c \in CPUs, NEW p \in Procs, SleepDropSpin(c, p) PROVE InvSpin'
  BY <1>4 DEF SleepDropSpin, LockGoto
<1>5. ASSUME NEW c \in CPUs, NEW p \in Procs, SleepNow(c, p) PROVE InvSpin'
  BY <1>5 DEF SleepNow, SleepSwtch, LockGoto
<1>6. ASSUME NEW c \in CPUs, NEW p \in Procs, SleepBack(c, p) PROVE InvSpin'
  BY <1>6 DEF SleepBack, SleepResume, LkRelease, LockGoto
<1>7. ASSUME NEW c \in CPUs, NEW p \in Procs, SpinForRelease(c, p) PROVE InvSpin'
  BY <1>7 DEF SpinForRelease, Live, LockGoto
<1>8. ASSUME NEW c \in CPUs, NEW p \in Procs, Clear(c, p) PROVE InvSpin'
  BY <1>8 DEF Clear, LockGoto
<1>9. ASSUME NEW c \in CPUs, NEW p \in Procs, Wake(c, p) PROVE InvSpin'
  BY <1>9 DEF Wake, WakeOne
<1>10. ASSUME NEW c \in CPUs, NEW p \in Procs, ReleaseDone(c, p) PROVE InvSpin'
  BY <1>10 DEF ReleaseDone, LockGoto
<1>11. ASSUME NEW c \in CPUs, NEW p \in Procs, LockPreempt(c, p) PROVE InvSpin'
  BY <1>11 DEF LockPreempt, YieldSwtch, LkAcquire
<1>12. ASSUME NEW c \in CPUs, NEW p \in Procs, PreemptBack(c, p) PROVE InvSpin'
  BY <1>12 DEF PreemptBack, YieldResume, LkRelease
<1>13. ASSUME NEW c \in CPUs, NEW p \in Procs, LockDispatch(c, p) PROVE InvSpin'
  BY <1>13 DEF LockDispatch, Schedule, LkAcquire
<1>14. ASSUME NEW c \in CPUs, LockDispatchBack(c) PROVE InvSpin'
  BY <1>14 DEF LockDispatchBack, SchedReturn, LkRelease
<1>15. CASE UNCHANGED lockvars
  BY <1>15 DEF lockvars
<1> QED
  BY <1>1, <1>2, <1>3, <1>4, <1>5, <1>6, <1>7, <1>8, <1>9, <1>10, <1>11,
     <1>12, <1>13, <1>14, <1>15 DEF LockNext, AcquireStep, ReleaseStep,
     LockSwitchStep

\* Going to sleep under p->lk: InvSleep is preserved by every step.
LEMMA SleepStep ==
  ASSUME LockTypeOK, InvHart, InvSpin, InvSleep, [LockNext]_lockvars
  PROVE  InvSleep'
<1> USE NoneAssumption DEF LockTypeOK, SchedTypeOK, LockPoints, States, Running,
         svars, slkvars, InvHart, OneHartPerProcess, InvSpin, InvSleep,
         SpinPoints, Preemptible
<1>1. ASSUME NEW c \in CPUs, NEW p \in Procs, SpinForAcquire(c, p) PROVE InvSleep'
  BY <1>1 DEF SpinForAcquire, Live, LockGoto
<1>2. ASSUME NEW c \in CPUs, NEW p \in Procs, Take(c, p) PROVE InvSleep'
  BY <1>2 DEF Take, LockGoto
<1>3. ASSUME NEW c \in CPUs, NEW p \in Procs, SleepEnter(c, p) PROVE InvSleep'
  BY <1>3 DEF SleepEnter, SleepLockSelf, LkAcquire, LockGoto
<1>4. ASSUME NEW c \in CPUs, NEW p \in Procs, SleepDropSpin(c, p) PROVE InvSleep'
  BY <1>4 DEF SleepDropSpin, LockGoto
<1>5. ASSUME NEW c \in CPUs, NEW p \in Procs, SleepNow(c, p) PROVE InvSleep'
  BY <1>5 DEF SleepNow, SleepSwtch, LockGoto
<1>6. ASSUME NEW c \in CPUs, NEW p \in Procs, SleepBack(c, p) PROVE InvSleep'
  BY <1>6 DEF SleepBack, SleepResume, LkRelease, LockGoto
<1>7. ASSUME NEW c \in CPUs, NEW p \in Procs, SpinForRelease(c, p) PROVE InvSleep'
  BY <1>7 DEF SpinForRelease, Live, LockGoto
<1>8. ASSUME NEW c \in CPUs, NEW p \in Procs, Clear(c, p) PROVE InvSleep'
  BY <1>8 DEF Clear, LockGoto
<1>9. ASSUME NEW c \in CPUs, NEW p \in Procs, Wake(c, p) PROVE InvSleep'
  BY <1>9 DEF Wake, WakeOne
<1>10. ASSUME NEW c \in CPUs, NEW p \in Procs, ReleaseDone(c, p) PROVE InvSleep'
  BY <1>10 DEF ReleaseDone, LockGoto
<1>11. ASSUME NEW c \in CPUs, NEW p \in Procs, LockPreempt(c, p) PROVE InvSleep'
  BY <1>11 DEF LockPreempt, YieldSwtch, LkAcquire
<1>12. ASSUME NEW c \in CPUs, NEW p \in Procs, PreemptBack(c, p) PROVE InvSleep'
  BY <1>12 DEF PreemptBack, YieldResume, LkRelease
<1>13. ASSUME NEW c \in CPUs, NEW p \in Procs, LockDispatch(c, p) PROVE InvSleep'
  BY <1>13 DEF LockDispatch, Schedule, LkAcquire
<1>14. ASSUME NEW c \in CPUs, LockDispatchBack(c) PROVE InvSleep'
  BY <1>14 DEF LockDispatchBack, SchedReturn, LkRelease
<1>15. CASE UNCHANGED lockvars
  BY <1>15 DEF lockvars
<1> QED
  BY <1>1, <1>2, <1>3, <1>4, <1>5, <1>6, <1>7, <1>8, <1>9, <1>10, <1>11,
     <1>12, <1>13, <1>14, <1>15 DEF LockNext, AcquireStep, ReleaseStep,
     LockSwitchStep

\* sleeplock_acquire takes only a free lock and sleeplock_release is called by
\* the owner, so no step gives the lock a second owner.
LEMMA MutexStep ==
  ASSUME LockTypeOK, MutualExclusion, [LockNext]_lockvars
  PROVE  MutualExclusion'
<1> USE ProcIsNotNull DEF LockTypeOK, SchedTypeOK, LockPoints, States, Running, svars,
         slkvars, MutualExclusion
<1>1. ASSUME NEW c \in CPUs, NEW p \in Procs, SpinForAcquire(c, p) PROVE MutualExclusion'
  BY <1>1 DEF SpinForAcquire, Live, LockGoto
<1>2. ASSUME NEW c \in CPUs, NEW p \in Procs, Take(c, p) PROVE MutualExclusion'
  BY <1>2 DEF Take, LockGoto
<1>3. ASSUME NEW c \in CPUs, NEW p \in Procs, SleepEnter(c, p) PROVE MutualExclusion'
  BY <1>3 DEF SleepEnter, SleepLockSelf, LkAcquire, LockGoto
<1>4. ASSUME NEW c \in CPUs, NEW p \in Procs, SleepDropSpin(c, p) PROVE MutualExclusion'
  BY <1>4 DEF SleepDropSpin, LockGoto
<1>5. ASSUME NEW c \in CPUs, NEW p \in Procs, SleepNow(c, p) PROVE MutualExclusion'
  BY <1>5 DEF SleepNow, SleepSwtch, LockGoto
<1>6. ASSUME NEW c \in CPUs, NEW p \in Procs, SleepBack(c, p) PROVE MutualExclusion'
  BY <1>6 DEF SleepBack, SleepResume, LkRelease, LockGoto
<1>7. ASSUME NEW c \in CPUs, NEW p \in Procs, SpinForRelease(c, p) PROVE MutualExclusion'
  BY <1>7 DEF SpinForRelease, Live, LockGoto
<1>8. ASSUME NEW c \in CPUs, NEW p \in Procs, Clear(c, p) PROVE MutualExclusion'
  BY <1>8 DEF Clear, LockGoto
<1>9. ASSUME NEW c \in CPUs, NEW p \in Procs, Wake(c, p) PROVE MutualExclusion'
  BY <1>9 DEF Wake, WakeOne
<1>10. ASSUME NEW c \in CPUs, NEW p \in Procs, ReleaseDone(c, p) PROVE MutualExclusion'
  BY <1>10 DEF ReleaseDone, LockGoto
<1>11. ASSUME NEW c \in CPUs, NEW p \in Procs, LockPreempt(c, p) PROVE MutualExclusion'
  BY <1>11 DEF LockPreempt, YieldSwtch, LkAcquire
<1>12. ASSUME NEW c \in CPUs, NEW p \in Procs, PreemptBack(c, p) PROVE MutualExclusion'
  BY <1>12 DEF PreemptBack, YieldResume, LkRelease
<1>13. ASSUME NEW c \in CPUs, NEW p \in Procs, LockDispatch(c, p) PROVE MutualExclusion'
  BY <1>13 DEF LockDispatch, Schedule, LkAcquire
<1>14. ASSUME NEW c \in CPUs, LockDispatchBack(c) PROVE MutualExclusion'
  BY <1>14 DEF LockDispatchBack, SchedReturn, LkRelease
<1>15. CASE UNCHANGED lockvars
  BY <1>15 DEF lockvars
<1> QED
  BY <1>1, <1>2, <1>3, <1>4, <1>5, <1>6, <1>7, <1>8, <1>9, <1>10, <1>11,
     <1>12, <1>13, <1>14, <1>15 DEF LockNext, AcquireStep, ReleaseStep,
     LockSwitchStep

\* A step that frees the lock starts a wakeup loop, and the loop passes a slot
\* only after waking the process sleeping there.
LEMMA WakeupStep ==
  ASSUME LockTypeOK, InvHart, InvSleep, NoLostWakeup, [LockNext]_lockvars
  PROVE  NoLostWakeup'
<1> USE NPROCAssumption, NoneAssumption DEF LockTypeOK, SchedTypeOK, LockPoints,
         States, Running, svars, slkvars, InvHart, OneHartPerProcess,
         InvSleep, NoLostWakeup, WakePending, Procs
<1>1. ASSUME NEW c \in CPUs, NEW p \in Procs, SpinForAcquire(c, p) PROVE NoLostWakeup'
  BY <1>1 DEF SpinForAcquire, Live, LockGoto
<1>2. ASSUME NEW c \in CPUs, NEW p \in Procs, Take(c, p) PROVE NoLostWakeup'
  BY <1>2 DEF Take, LockGoto
<1>3. ASSUME NEW c \in CPUs, NEW p \in Procs, SleepEnter(c, p) PROVE NoLostWakeup'
  BY <1>3 DEF SleepEnter, SleepLockSelf, LkAcquire, LockGoto
<1>4. ASSUME NEW c \in CPUs, NEW p \in Procs, SleepDropSpin(c, p) PROVE NoLostWakeup'
  BY <1>4 DEF SleepDropSpin, LockGoto
<1>5. ASSUME NEW c \in CPUs, NEW p \in Procs, SleepNow(c, p) PROVE NoLostWakeup'
  BY <1>5 DEF SleepNow, SleepSwtch, LockGoto
<1>6. ASSUME NEW c \in CPUs, NEW p \in Procs, SleepBack(c, p) PROVE NoLostWakeup'
  BY <1>6 DEF SleepBack, SleepResume, LkRelease, LockGoto
<1>7. ASSUME NEW c \in CPUs, NEW p \in Procs, SpinForRelease(c, p) PROVE NoLostWakeup'
  BY <1>7 DEF SpinForRelease, Live, LockGoto
<1>8. ASSUME NEW c \in CPUs, NEW p \in Procs, Clear(c, p) PROVE NoLostWakeup'
  BY <1>8 DEF Clear, LockGoto
<1>9. ASSUME NEW c \in CPUs, NEW p \in Procs, Wake(c, p) PROVE NoLostWakeup'
  BY <1>9 DEF Wake, WakeOne
<1>10. ASSUME NEW c \in CPUs, NEW p \in Procs, ReleaseDone(c, p) PROVE NoLostWakeup'
  BY <1>10 DEF ReleaseDone, LockGoto
<1>11. ASSUME NEW c \in CPUs, NEW p \in Procs, LockPreempt(c, p) PROVE NoLostWakeup'
  BY <1>11 DEF LockPreempt, YieldSwtch, LkAcquire
<1>12. ASSUME NEW c \in CPUs, NEW p \in Procs, PreemptBack(c, p) PROVE NoLostWakeup'
  BY <1>12 DEF PreemptBack, YieldResume, LkRelease
<1>13. ASSUME NEW c \in CPUs, NEW p \in Procs, LockDispatch(c, p) PROVE NoLostWakeup'
  BY <1>13 DEF LockDispatch, Schedule, LkAcquire
<1>14. ASSUME NEW c \in CPUs, LockDispatchBack(c) PROVE NoLostWakeup'
  BY <1>14 DEF LockDispatchBack, SchedReturn, LkRelease
<1>15. CASE UNCHANGED lockvars
  BY <1>15 DEF lockvars
<1> QED
  BY <1>1, <1>2, <1>3, <1>4, <1>5, <1>6, <1>7, <1>8, <1>9, <1>10, <1>11,
     <1>12, <1>13, <1>14, <1>15 DEF LockNext, AcquireStep, ReleaseStep,
     LockSwitchStep

----------------------------------------------------------------------------
\* The strengthened invariant holds in every reachable state.
LEMMA LockInductive == LockSpec => []LockIndInv
<1>1. LockInit => LockIndInv
  <2> SUFFICES ASSUME LockInit PROVE LockIndInv
    OBVIOUS
  <2>1. 0 \in 0 .. NPROC
    BY NPROCAssumption
  <2>2. LockTypeOK
    BY <2>1 DEF LockInit, SchedInit, LockTypeOK, SchedTypeOK, LockPoints, States
  <2>3. InvSpin /\ InvHart /\ InvSleep
    BY NoneAssumption, ProcIsNotNull
    DEF LockInit, SchedInit, InvSpin, InvHart, InvSleep, OneHartPerProcess, Running, SpinPoints
  <2>4. MutualExclusion /\ NoLostWakeup
    BY DEF LockInit, SchedInit, MutualExclusion, NoLostWakeup
  <2> QED
    BY <2>2, <2>3, <2>4 DEF LockIndInv
<1>2. LockIndInv /\ [LockNext]_lockvars => LockIndInv'
  BY TypeStep, HartStep, SpinStep, SleepStep, MutexStep, WakeupStep DEF LockIndInv
<1> QED
  BY <1>1, <1>2, PTL DEF LockSpec

\* Type correctness of the sleeping lock and of the scheduler state under it.
THEOREM TypeCorrect == LockSpec => []LockTypeOK
  BY LockInductive, PTL DEF LockIndInv

\* Mutual exclusion: sleeplock_acquire returns to one process at a time.
THEOREM LockExcludes == LockSpec => []MutualExclusion
  BY LockInductive, PTL DEF LockIndInv

\* No wakeup is lost between the test of slk->locked and the switch of proc_sleep.
THEOREM WakeupNotLost == LockSpec => []NoLostWakeup
  BY LockInductive, PTL DEF LockIndInv

\* proc_scheduler never runs a process on two harts.
THEOREM OneHart == LockSpec => []OneHartPerProcess
  BY LockInductive, PTL DEF LockIndInv, InvHart

\* A hart that switched to its scheduler no longer holds slk->lock.
THEOREM SpinlockNotCarried == LockSpec => []NoSpinlockAcrossSwtch
<1>1. LockIndInv => NoSpinlockAcrossSwtch
  BY DEF LockIndInv, InvSpin, NoSpinlockAcrossSwtch, Running
<1> QED
  BY <1>1, LockInductive, PTL

----------------------------------------------------------------------------
\* The safety half of ImplementsAbsLock, for every number of processes: each
\* step of the code is a request, a grant or a release, or leaves both the
\* owner and the set of waiting processes alone.
THEOREM RefinesAbsLock == LockSpec => Abs!Safety
<1> DEFINE H == IF locked THEN pid ELSE NoProc
           W == {p \in Procs : pc[p] \in {"test", "slp1", "slp2", "asleep", "reacq"}}
<1>1. LockInit => Abs!Init
  BY DEF LockInit, Abs!Init
<1>2. LockIndInv /\ [LockNext]_lockvars => [Abs!Next]_(Abs!vars)
  <2> SUFFICES ASSUME LockIndInv, [LockNext]_lockvars PROVE [Abs!Next]_(Abs!vars)
    OBVIOUS
  <2>1. ASSUME UNCHANGED <<H, W>> PROVE UNCHANGED Abs!vars
    BY <2>1 DEF Abs!vars
  <2> USE ProcIsNotNull DEF LockIndInv, LockTypeOK, LockPoints, LockGoto, slkvars
  <2>2. ASSUME NEW c \in CPUs, NEW p \in Procs, SpinForAcquire(c, p)
         PROVE  [Abs!Next]_(Abs!vars)
    <3>1. CASE pc[p] = "out"
      <4>1. Abs!Request(p)
        BY <2>2, <3>1 DEF SpinForAcquire, MutualExclusion, Abs!Request
      <4> QED
        BY <4>1 DEF Abs!Next
    <3>2. CASE pc[p] = "reacq"
      BY <2>2, <3>2, <2>1 DEF SpinForAcquire
    <3> QED
      BY <2>2, <3>1, <3>2 DEF SpinForAcquire
  <2>3. ASSUME NEW c \in CPUs, NEW p \in Procs, Take(c, p)
         PROVE  [Abs!Next]_(Abs!vars)
    <3>1. Abs!Grant(p)
      BY <2>3 DEF Take, MutualExclusion, Abs!Grant
    <3> QED
      BY <3>1 DEF Abs!Next
  <2>4. ASSUME NEW c \in CPUs, NEW p \in Procs, SleepEnter(c, p)
         PROVE  UNCHANGED Abs!vars
    BY <2>4, <2>1 DEF SleepEnter
  <2>5. ASSUME NEW c \in CPUs, NEW p \in Procs, SleepDropSpin(c, p)
         PROVE  UNCHANGED Abs!vars
    BY <2>5, <2>1 DEF SleepDropSpin
  <2>6. ASSUME NEW c \in CPUs, NEW p \in Procs, SleepNow(c, p)
         PROVE  UNCHANGED Abs!vars
    BY <2>6, <2>1 DEF SleepNow
  <2>7. ASSUME NEW c \in CPUs, NEW p \in Procs, SleepBack(c, p)
         PROVE  UNCHANGED Abs!vars
    BY <2>7, <2>1 DEF SleepBack
  <2>8. ASSUME NEW c \in CPUs, NEW p \in Procs, SpinForRelease(c, p)
         PROVE  UNCHANGED Abs!vars
    BY <2>8, <2>1 DEF SpinForRelease
  <2>9. ASSUME NEW c \in CPUs, NEW p \in Procs, Clear(c, p)
         PROVE  [Abs!Next]_(Abs!vars)
    <3>1. Abs!Release(p)
      BY <2>9 DEF Clear, MutualExclusion, Abs!Release
    <3> QED
      BY <3>1 DEF Abs!Next
  <2>10. ASSUME NEW c \in CPUs, NEW p \in Procs, Wake(c, p)
         PROVE  UNCHANGED Abs!vars
    BY <2>10, <2>1 DEF Wake
  <2>11. ASSUME NEW c \in CPUs, NEW p \in Procs, ReleaseDone(c, p)
         PROVE  UNCHANGED Abs!vars
    BY <2>11, <2>1 DEF ReleaseDone
  <2>12. ASSUME NEW c \in CPUs, NEW p \in Procs, LockPreempt(c, p)
         PROVE  UNCHANGED Abs!vars
    BY <2>12, <2>1 DEF LockPreempt
  <2>13. ASSUME NEW c \in CPUs, NEW p \in Procs, PreemptBack(c, p)
         PROVE  UNCHANGED Abs!vars
    BY <2>13, <2>1 DEF PreemptBack
  <2>14. ASSUME NEW c \in CPUs, NEW p \in Procs, LockDispatch(c, p)
         PROVE  UNCHANGED Abs!vars
    BY <2>14, <2>1 DEF LockDispatch
  <2>15. ASSUME NEW c \in CPUs, LockDispatchBack(c)
         PROVE  UNCHANGED Abs!vars
    BY <2>15, <2>1 DEF LockDispatchBack
  <2>16. CASE UNCHANGED lockvars
    BY <2>16, <2>1 DEF lockvars
  <2> QED
    BY <2>2, <2>3, <2>4, <2>5, <2>6, <2>7, <2>8, <2>9, <2>10, <2>11, <2>12, <2>13, <2>14, <2>15, <2>16 DEF LockNext, AcquireStep, ReleaseStep, LockSwitchStep
<1> QED
  BY <1>1, <1>2, LockInductive, PTL DEF LockSpec, Abs!Safety

----------------------------------------------------------------------------
(* The life cycle: invariant *)

\* The points of proc_exit after all locks were dropped are those of the dead.
LivePoints == {"entry", "user", "fork",
               "exit", "wakeInit", "recursive", "initExit", "exitWake", "exitDrop",
               "wait", "waitSlp1", "waitSlp2", "slept", "waitAgain", "waitDone"}
TickPoints == {"tick", "yielded"}

Alive(r) == r.pt \in LivePoints \/ (r.pt \in TickPoints /\ r.ret # "exitGap")

\* p executes on c alive; a live context of p waits to be run.
LiveOn(c, p) == Running(c, p) /\ Alive(run[c])
LiveSaved(p) == state[p] \in {"RUNNABLE", "SLEEPING"} /\ Alive(ctx[p])

\* One live context at most, executed or saved.
InvOneLive ==
  \A p \in Procs :
    /\ \A c, d \in CPUs : LiveOn(c, p) /\ LiveOn(d, p) => c = d
    /\ LiveSaved(p) => \A c \in CPUs : ~ LiveOn(c, p)

\* The state of a slot with a live context.  A dead context that is still in the
\* slot may revive it when the exiting one has dropped p->lk.
InvState ==
  \A c \in CPUs, p \in Procs :
    LiveOn(c, p) =>
      /\ run[c].pt = "exitWake" => state[p] = "ZOMBIE"
      /\ run[c].pt = "exitDrop" => /\ state[p] \in {"ZOMBIE", "RUNNING", "RUNNABLE"}
                                   /\ p \notin early => state[p] = "ZOMBIE"
      /\ run[c].pt \notin {"exitWake", "exitDrop"} => state[p] \in {"RUNNING", "RUNNABLE"}

\* A slot that was never freed too early: its dead context is still in proc_exit,
\* without having been preempted, and every saved one is live.
InvEarly ==
  \A p \in Procs \ early :
    /\ \A c \in CPUs : Running(c, p) /\ ~ Alive(run[c]) =>
                      run[c].pt \in {"exitGap", "exitLast"} /\ state[p] = "ZOMBIE"
    /\ state[p] \in {"RUNNABLE", "SLEEPING"} => Alive(ctx[p])

\* swtch saves a context at few points only, and takes it up there.
Switchable(r) == /\ r.pt \in {"entry", "yielded", "slept", "exited"}
                 /\ r.pt = "yielded" => r.ret \in Interruptible
InvContext ==
  /\ \A p \in Procs : state[p] \in {"RUNNABLE", "SLEEPING"} => Switchable(ctx[p])
  /\ \A c \in CPUs : mode[c] = "proc" =>
       /\ cproc[c] \in Procs
       /\ run[c].pt \in TickPoints => run[c].ret \in Interruptible

\* Who holds lifecycle_lock, and who holds p->lk: its own context, the scheduler,
\* or an exiting parent of a ZOMBIE child.
LifecyclePoints == {"exit", "wakeInit", "recursive", "exitWake", "exitDrop",
                    "wait", "waitSlp1", "waitDone"}
LkPoints == {"entry", "yielded", "slept", "exited", "exitWake", "exitLast", "waitSlp1", "waitSlp2"}
OwnLk(c, p) == cproc[c] = p /\ (mode[c] = "sched" \/ run[c].pt \in LkPoints)
ChildLk(c, p) == mode[c] = "proc" /\ run[c].pt \in {"wakeInit", "recursive"} /\ run[c].idx = p
InvLocks ==
  /\ \A c \in CPUs : lifecycle = c <=> mode[c] = "proc" /\ run[c].pt \in LifecyclePoints
  /\ \A c \in CPUs, p \in Procs :
       lk[p] = c <=> OwnLk(c, p) \/ ChildLk(c, p)

\* init lives and has no parent; a free slot has none, and no slot is its own; an
\* exiting process has handed over the children it has visited.
InvParents ==
  /\ state[init_process] \notin {"UNUSED", "ZOMBIE"} /\ parent[init_process] = NoProc
  /\ \A p \in Procs : /\ state[p] = "UNUSED" => parent[p] = NoProc
                      /\ parent[p] # p
  /\ \A c \in CPUs, p \in Procs :
       Running(c, p) /\ run[c].pt = "exit" =>
         p # init_process /\ \A i \in Procs : i < run[c].idx => parent[i] # p

\* A parent on its way to sleep in proc_wait has no dead child, or is to be woken.
DeadChild(p) == \E q \in Procs : parent[q] = p /\ state[q] = "ZOMBIE"
InvWaiting ==
  \A c \in CPUs, p \in Procs :
    Running(c, p) =>
      /\ run[c].pt = "wait" =>
           \A i \in Procs : i < run[c].idx /\ parent[i] = p => state[i] # "ZOMBIE"
      /\ run[c].pt = "waitSlp1" => ~ DeadChild(p)
      /\ run[c].pt = "waitSlp2" /\ DeadChild(p) => ExitWillWake(p)

IndInv ==
  /\ TypeOK /\ ParentAlive /\ NoLostChildWakeup
  /\ InvOneLive /\ InvState /\ InvEarly /\ InvContext /\ InvLocks /\ InvParents
  /\ InvWaiting

----------------------------------------------------------------------------
(* The invariant is inductive *)

\* Slots are numbers below NPROC, which NoProc and NoCPU are not.
LEMMA SlotTypes ==
  /\ NPROC \in Nat \ {0} /\ init_process \in Procs /\ NoProc \notin Procs
  /\ \A i \in Procs : i \in 0 .. NPROC /\ i + 1 \in 0 .. NPROC /\ i < NPROC /\ i \in Nat
  /\ NoCPU \notin CPUs /\ Procs \subseteq Chans /\ 0 \in 0 .. NPROC
BY NPROCAssumption, NoneAssumption, ChansAssumption DEF Procs, init_process

\* A context returns from a preemption to the point it was preempted at.
LEMMA ResumedContext ==
  ASSUME NEW r \in Context
  PROVE  [r EXCEPT !.pt = r.ret, !.ret = "user"] \in Context
BY DEF Context, Points

\* The scheduler takes up a saved context, at a point where swtch saves one.
LEMMA DispatchKeeps ==
  ASSUME IndInv, NEW c \in CPUs, NEW p \in Procs, Dispatch(c, p)
  PROVE  IndInv'
<1> USE DEF Dispatch, Schedule, LkAcquire, IndInv
<1>1. TypeOK'
  BY SlotTypes DEF TypeOK, SchedTypeOK, Context, Points, States, NoContext, At
<1> USE DEF Alive, LiveOn, LivePoints, Running, TickPoints, Interruptible
<1>2. InvOneLive'
  BY DEF InvOneLive, LiveSaved, TypeOK, SchedTypeOK
<1>3. InvState'
  BY SlotTypes DEF InvState, InvContext, Switchable, TypeOK
<1>4. InvContext'
  BY DEF InvContext, Switchable, TypeOK, SchedTypeOK
<1>5. InvLocks'
  BY SlotTypes DEF InvLocks, OwnLk, ChildLk, InvContext, Switchable, LkPoints, LifecyclePoints, TypeOK, SchedTypeOK
<1>6. InvParents'
  <2>1. /\ run'[c].pt \in {"entry", "yielded", "slept", "exited"}
        /\ \A d \in CPUs : d # c => run'[d] = run[d] /\ cproc'[d] = cproc[d] /\ mode'[d] = mode[d]
    BY SlotTypes DEF InvContext, Switchable, TypeOK
  <2>2. state[init_process]' \notin {"UNUSED", "ZOMBIE"}
    BY SlotTypes DEF InvParents, TypeOK, SchedTypeOK
  <2>3. \A q \in Procs : state'[q] = "UNUSED" => parent'[q] = NoProc
    BY SlotTypes DEF InvParents, TypeOK, SchedTypeOK
  <2>4. ASSUME NEW d \in CPUs, NEW q \in Procs, Running(d, q)', run'[d].pt = "exit"
        PROVE  q # init_process /\ \A j \in Procs : j < run'[d].idx => parent'[j] # q
    BY <2>1, <2>4 DEF InvParents
  <2> QED
    BY <2>2, <2>3, <2>4 DEF InvParents
<1>7. ParentAlive'
  BY DEF ParentAlive
<1>8. InvWaiting'
  <2>1. /\ run'[c].pt \in {"entry", "yielded", "slept", "exited"}
        /\ \A d \in CPUs : d # c => run'[d] = run[d] /\ cproc'[d] = cproc[d] /\ mode'[d] = mode[d]
    BY SlotTypes DEF InvContext, Switchable, TypeOK
  <2>2. \A q \in Procs : DeadChild(q)' <=> DeadChild(q)
    BY SlotTypes DEF DeadChild, TypeOK, SchedTypeOK
  <2>3. \A q \in Procs : ExitWillWake(q) => ExitWillWake(q)'
    BY <2>1 DEF ExitWillWake
  <2>4. \A q \in Procs : state'[q] = "ZOMBIE" => state[q] = "ZOMBIE"
    BY DEF TypeOK, SchedTypeOK
  <2>5. ASSUME NEW d \in CPUs, NEW q \in Procs, Running(d, q)', run'[d].pt \in {"wait", "waitSlp1", "waitSlp2"}
        PROVE  d # c /\ Running(d, q) /\ run'[d] = run[d]
    BY <2>1, <2>5
  <2> HIDE DEF Dispatch, Running
  <2>6. parent' = parent
    BY DEF Dispatch
  <2> QED
    BY <2>2, <2>3, <2>4, <2>5, <2>6 DEF InvWaiting
<1>9. InvEarly'
  BY SlotTypes DEF InvEarly, TypeOK, SchedTypeOK
<1>10. NoLostChildWakeup'
  <2>1. /\ run'[c].pt \in {"entry", "yielded", "slept", "exited"}
        /\ \A d \in CPUs : d # c => run'[d] = run[d] /\ cproc'[d] = cproc[d] /\ mode'[d] = mode[d]
    BY SlotTypes DEF InvContext, Switchable, TypeOK
  <2>2. \A q \in Procs : InWaitSleep(q)' => InWaitSleep(q)
    BY SlotTypes DEF InWaitSleep, TypeOK, SchedTypeOK
  <2>3. \A q \in Procs : ExitWillWake(q) => ExitWillWake(q)'
    BY <2>1 DEF ExitWillWake
  <2>4. \A q \in Procs : state'[q] = "ZOMBIE" => state[q] = "ZOMBIE"
    BY DEF TypeOK, SchedTypeOK
  <2>5. parent' = parent
    OBVIOUS
  <2> HIDE DEF Dispatch
  <2> QED
    BY <2>2, <2>3, <2>4, <2>5 DEF NoLostChildWakeup
<1> QED
  BY <1>1, <1>2, <1>3, <1>4, <1>5, <1>6, <1>7, <1>8, <1>9, <1>10

\* A new process drops its lk and goes to user mode.
LEMMA EnterKeeps ==
  ASSUME IndInv, NEW c \in CPUs, NEW p \in Procs, Enter(c, p)
  PROVE  IndInv'
<1> USE DEF Enter, AtPoint, Running, YieldResume, LkRelease, Goto, At, IndInv
<1>1. TypeOK'
  BY SlotTypes DEF TypeOK, SchedTypeOK, Context, Points
<1> USE DEF Alive, LiveOn, LivePoints, Running, TickPoints, Interruptible
<1>2. InvOneLive'
  BY DEF InvOneLive, LiveSaved
<1>3. InvState'
  BY DEF InvState
<1>4. InvContext'
  BY DEF InvContext
<1>5. InvLocks'
  BY SlotTypes DEF InvLocks, OwnLk, ChildLk, LkPoints, LifecyclePoints, TypeOK, SchedTypeOK
<1>6. InvParents'
  BY DEF InvParents
<1>7. ParentAlive'
  BY DEF ParentAlive
<1>8. InvWaiting'
  BY DEF InvWaiting, DeadChild, ExitWillWake
<1>9. InvEarly'
  BY DEF InvEarly
<1>10. NoLostChildWakeup'
  BY DEF NoLostChildWakeup, InWaitSleep, ExitWillWake
<1> QED
  BY <1>1, <1>2, <1>3, <1>4, <1>5, <1>6, <1>7, <1>8, <1>9, <1>10

\* A preempted process goes on where it was.
LEMMA YieldBackKeeps ==
  ASSUME IndInv, NEW c \in CPUs, NEW p \in Procs, YieldBack(c, p)
  PROVE  IndInv'
<1> USE DEF YieldBack, AtPoint, Running, YieldResume, LkRelease, IndInv
<1>1. TypeOK'
  <2>1. run[c] \in Context
    BY DEF TypeOK
  <2>2. run'[c] = [run[c] EXCEPT !.pt = run[c].ret, !.ret = "user"]
    BY DEF TypeOK
  <2>3. run'[c] \in Context
    BY <2>1, <2>2, ResumedContext
  <2>4. run' \in [CPUs -> Context]
    BY <2>3 DEF TypeOK
  <2> QED
    BY <2>4, SlotTypes DEF TypeOK, SchedTypeOK
<1> USE DEF Alive, LiveOn, LivePoints, Running, TickPoints, Interruptible
<1>2. InvOneLive'
  BY DEF InvOneLive, LiveSaved, TypeOK
<1>3. InvState'
  BY DEF InvState, TypeOK, Context
<1>4. InvContext'
  BY DEF InvContext, Interruptible, TypeOK
<1>5. InvLocks'
  <2>1. /\ run'[c].pt = run[c].ret
        /\ \A d \in CPUs : d # c => run'[d] = run[d] /\ cproc'[d] = cproc[d] /\ mode'[d] = mode[d]
        /\ run[c].ret \in Interruptible
        /\ run'[c].pt \notin LifecyclePoints /\ run'[c].pt \notin LkPoints
        /\ run'[c].pt \notin {"wakeInit", "recursive"}
    BY SlotTypes DEF LifecyclePoints, LkPoints, InvContext, Interruptible, TypeOK
  <2>2. \A q \in Procs : lk'[q] = IF q = p THEN NoCPU ELSE lk[q]
    BY DEF TypeOK, SchedTypeOK
  <2>3. cproc' = cproc /\ mode' = mode /\ lifecycle' = lifecycle /\ cproc[c] = p /\ mode[c] = "proc"
        /\ run[c].pt = "yielded" /\ lk[p] = c
    OBVIOUS
  <2> HIDE DEF YieldBack
  <2>4. ASSUME NEW d \in CPUs
        PROVE  lifecycle' = d <=> mode'[d] = "proc" /\ run'[d].pt \in LifecyclePoints
    BY <2>1, <2>3 DEF InvLocks, OwnLk, ChildLk, LifecyclePoints
  <2>5. ASSUME NEW d \in CPUs, NEW q \in Procs
        PROVE  lk'[q] = d <=> OwnLk(d, q)' \/ ChildLk(d, q)'
    <3>1. CASE d = c
      BY <3>1, <2>1, <2>2, <2>3, SlotTypes DEF InvLocks, OwnLk, ChildLk
    <3>2. CASE d # c
      BY <3>2, <2>1, <2>2, <2>3, SlotTypes DEF InvLocks, OwnLk, ChildLk
    <3> QED
      BY <3>1, <3>2
  <2> QED
    BY <2>4, <2>5 DEF InvLocks, OwnLk, ChildLk
<1>6. InvParents'
  BY DEF InvParents, TypeOK, Context
<1>7. ParentAlive'
  BY DEF ParentAlive
<1>8. InvWaiting'
  BY <1>1 DEF InvWaiting, DeadChild, ExitWillWake, ParentAlive, Switchable, InvState, TypeOK,
     Context
<1>9. InvEarly'
  BY DEF InvEarly, InvContext, TypeOK, Context
<1>10. NoLostChildWakeup'
  <2>1. /\ run'[c].pt # "exitWake"
        /\ \A d \in CPUs : d # c => run'[d] = run[d] /\ cproc'[d] = cproc[d] /\ mode'[d] = mode[d]
    BY SlotTypes DEF InvContext, Interruptible, TypeOK
  <2>2. \A q \in Procs : ExitWillWake(q) => ExitWillWake(q)'
    <3>1. run[c].pt = "yielded" /\ parent' = parent
      OBVIOUS
    <3> HIDE DEF YieldBack, Running
    <3>2. \A d \in CPUs, q \in Procs : d # c /\ Running(d, q) => Running(d, q)'
      BY <2>1 DEF Running
    <3> QED
      BY <2>1, <3>1, <3>2 DEF ExitWillWake
  <2>3. UNCHANGED <<parent, state, sleep_space>>
    OBVIOUS
  <2> HIDE DEF YieldBack
  <2> QED
    BY <2>2, <2>3 DEF NoLostChildWakeup, InWaitSleep
<1> QED
  BY <1>1, <1>2, <1>3, <1>4, <1>5, <1>6, <1>7, <1>8, <1>9, <1>10

\* A timer interrupt remembers where it came; it changes nothing else.
LEMMA TickKeeps ==
  ASSUME IndInv, NEW c \in CPUs, NEW p \in Procs, Tick(c, p)
  PROVE  IndInv'
<1> USE DEF Tick, AtPoint, Running, svars, IndInv
<1>1. TypeOK'
  <2>1. run[c] \in Context /\ run[c].pt \in Points
    BY DEF TypeOK, Context
  <2>2. [run[c] EXCEPT !.pt = "tick", !.ret = run[c].pt] \in Context
    BY <2>1 DEF Context, Points
  <2>3. run' \in [CPUs -> Context]
    BY <2>2 DEF TypeOK
  <2> QED
    BY <2>3 DEF TypeOK, SchedTypeOK
<1> USE DEF Alive, LiveOn, LivePoints, Running, TickPoints, Interruptible
<1>2. InvOneLive'
  BY DEF InvOneLive, LiveSaved, TypeOK
<1>3. InvState'
  BY DEF InvState, TypeOK
<1>4. InvContext'
  BY DEF InvContext, TypeOK
<1>5. InvLocks'
  BY SlotTypes DEF InvLocks, OwnLk, ChildLk, LkPoints, LifecyclePoints, TypeOK, SchedTypeOK
<1>6. InvParents'
  BY DEF InvParents, TypeOK
<1>7. ParentAlive'
  BY DEF ParentAlive
<1>8. InvWaiting'
  BY DEF InvWaiting, DeadChild, ExitWillWake, TypeOK
<1>9. InvEarly'
  BY DEF InvEarly, TypeOK
<1>10. NoLostChildWakeup'
  BY DEF NoLostChildWakeup, InWaitSleep, ExitWillWake, TypeOK
<1> QED
  BY <1>1, <1>2, <1>3, <1>4, <1>5, <1>6, <1>7, <1>8, <1>9, <1>10

\* A preempted context is saved; the slot is RUNNABLE with at most this one live.
LEMMA YieldKeeps ==
  ASSUME IndInv, NEW c \in CPUs, NEW p \in Procs, Yield(c, p)
  PROVE  IndInv'
<1> USE DEF Yield, AtPoint, Running, YieldSwtch, LkAcquire, IndInv
<1>1. TypeOK'
  <2>1. run[c] \in Context
    BY DEF TypeOK
  <2>2. [run[c] EXCEPT !.pt = "yielded"] \in Context
    BY <2>1 DEF Context, Points
  <2>3. ctx' \in [Procs -> Context]
    BY <2>2 DEF TypeOK
  <2>4. run' \in [CPUs -> Context]
    BY SlotTypes DEF TypeOK, Context, Points, NoContext, At
  <2> QED
    BY <2>3, <2>4, SlotTypes DEF TypeOK, SchedTypeOK, States
<1> USE DEF Alive, LiveOn, LivePoints, Running, TickPoints, Interruptible
<1>2. InvOneLive'
  BY DEF InvOneLive, LiveSaved, TypeOK, SchedTypeOK
<1>3. InvState'
  <2>1. ASSUME NEW d \in CPUs, LiveOn(d, p)' PROVE run[d].pt # "exitWake"
    BY <2>1, SlotTypes DEF InvLocks, OwnLk, LkPoints, TypeOK
  <2>2. Alive(run[c]) => run[c].pt # "exitDrop" /\ \A d \in CPUs : LiveOn(d, p) => d = c
    BY DEF InvOneLive
  <2>3. ~ Alive(run[c]) => p \in early
    BY DEF InvEarly
  <2> QED
    BY <2>1, <2>2, <2>3 DEF InvState, TypeOK, SchedTypeOK
<1>4. InvContext'
  BY DEF InvContext, Switchable, TypeOK, SchedTypeOK
<1>5. InvLocks'
  BY SlotTypes DEF InvLocks, OwnLk, ChildLk, LkPoints, LifecyclePoints, TypeOK, SchedTypeOK
<1>6. InvParents'
  BY DEF InvParents, TypeOK, SchedTypeOK
<1>7. ParentAlive'
  BY DEF ParentAlive, InvEarly, InvState, TypeOK, SchedTypeOK
<1>8. InvWaiting'
  BY DEF InvWaiting, DeadChild, ExitWillWake, TypeOK, SchedTypeOK
<1>9. InvEarly'
  BY DEF InvEarly, InvState, TypeOK, SchedTypeOK
<1>10. NoLostChildWakeup'
  BY DEF NoLostChildWakeup, InWaitSleep, ExitWillWake, TypeOK, SchedTypeOK
<1> QED
  BY <1>1, <1>2, <1>3, <1>4, <1>5, <1>6, <1>7, <1>8, <1>9, <1>10

\* proc_fork starts its search.
LEMMA ForkCallKeeps ==
  ASSUME IndInv, NEW c \in CPUs, NEW p \in Procs, ForkCall(c, p)
  PROVE  IndInv'
<1> USE DEF ForkCall, AtPoint, Running, Goto, At, svars, IndInv
<1>1. TypeOK'
  BY SlotTypes DEF TypeOK, SchedTypeOK, Context, Points
<1> USE DEF Alive, LiveOn, LivePoints, Running, TickPoints, Interruptible
<1>2. InvOneLive'
  BY DEF InvOneLive, LiveSaved
<1>3. InvState'
  BY DEF InvState
<1>4. InvContext'
  BY DEF InvContext
<1>5. InvLocks'
  BY DEF InvLocks, OwnLk, ChildLk, LkPoints, LifecyclePoints
<1>6. InvParents'
  BY DEF InvParents
<1>7. ParentAlive'
  BY DEF ParentAlive
<1>8. InvWaiting'
  BY DEF InvWaiting, DeadChild, ExitWillWake
<1>9. InvEarly'
  BY DEF InvEarly
<1>10. NoLostChildWakeup'
  <2>1. /\ run'[c].pt = "fork"
        /\ \A d \in CPUs : d # c => run'[d] = run[d] /\ cproc'[d] = cproc[d] /\ mode'[d] = mode[d]
    BY SlotTypes DEF TypeOK
  <2>2. \A q \in Procs : ExitWillWake(q) => ExitWillWake(q)'
    BY <2>1 DEF ExitWillWake
  <2>3. UNCHANGED <<parent, state, sleep_space>>
    OBVIOUS
  <2> HIDE DEF ForkCall
  <2> QED
    BY <2>2, <2>3 DEF NoLostChildWakeup, InWaitSleep
<1> QED
  BY <1>1, <1>2, <1>3, <1>4, <1>5, <1>6, <1>7, <1>8, <1>9, <1>10

\* A free slot gets a live context and a parent that is alive: no other context of p
\* is, so p is not in the loop of proc_exit.
LEMMA ForkTakeKeeps ==
  ASSUME IndInv, NEW c \in CPUs, NEW p \in Procs, NEW i \in Procs, ForkTake(c, p, i)
  PROVE  IndInv'
<1> USE DEF ForkTake, AtPoint, Running, Goto, At, IndInv
<1>1. TypeOK'
  BY SlotTypes DEF TypeOK, SchedTypeOK, Context, Points, States
<1> USE DEF Alive, LiveOn, LivePoints, Running, TickPoints, Interruptible
<1>2. InvOneLive'
  BY DEF InvOneLive, LiveSaved, InvState
<1>3. InvState'
  BY DEF InvState
<1>4. InvContext'
  BY DEF InvContext, Switchable, TypeOK
<1>5. InvLocks'
  BY DEF InvLocks, OwnLk, ChildLk, LkPoints, LifecyclePoints
<1>6. InvParents'
  <2>1. LiveOn(c, p) /\ p # i /\ i # init_process
    BY DEF InvState, InvParents
  <2>2. /\ state' = [state EXCEPT ![i] = "RUNNABLE"]
        /\ parent' = [parent EXCEPT ![i] = p]
        /\ state \in [Procs -> States] /\ parent \in [Procs -> Procs \cup {NoProc}]
    BY DEF TypeOK, SchedTypeOK
  <2>3. /\ state'[init_process] \notin {"UNUSED", "ZOMBIE"}
        /\ parent'[init_process] = NoProc
    BY <2>1, <2>2, SlotTypes DEF InvParents
  <2>4. ASSUME NEW q \in Procs
        PROVE  (state'[q] = "UNUSED" => parent'[q] = NoProc) /\ parent'[q] # q
    BY <2>1, <2>2 DEF InvParents
  <2>5. ASSUME NEW d \in CPUs, NEW q \in Procs, Running(d, q)', run'[d].pt = "exit"
        PROVE  q # init_process /\ \A j \in Procs : j < run'[d].idx => parent'[j] # q
    <3>1. d # c /\ run'[d] = run[d] /\ Running(d, q)
      BY <2>5 DEF TypeOK, SchedTypeOK
    <3>2. q # p
      BY <2>1, <2>5, <3>1 DEF InvOneLive
    <3> QED
      BY <2>2, <2>5, <3>1, <3>2 DEF InvParents
  <2> QED
    BY <2>3, <2>4, <2>5 DEF InvParents
<1>7. ParentAlive'
  BY DEF ParentAlive, InvState, TypeOK
<1>8. InvWaiting'
  BY SlotTypes DEF InvWaiting, DeadChild, ExitWillWake, InvParents
<1>9. InvEarly'
  BY DEF InvEarly, TypeOK, SchedTypeOK
<1>10. NoLostChildWakeup'
  BY SlotTypes DEF NoLostChildWakeup, InWaitSleep, ExitWillWake, InvParents
<1> QED
  BY <1>1, <1>2, <1>3, <1>4, <1>5, <1>6, <1>7, <1>8, <1>9, <1>10

\* proc_alloc passes over a slot.
LEMMA ForkSkipKeeps ==
  ASSUME IndInv, NEW c \in CPUs, NEW p \in Procs, NEW i \in Procs, ForkSkip(c, p, i)
  PROVE  IndInv'
<1> USE DEF ForkSkip, AtPoint, Running, Goto, At, svars, IndInv
<1>1. TypeOK'
  BY SlotTypes DEF TypeOK, SchedTypeOK, Context, Points
<1> USE DEF Alive, LiveOn, LivePoints, Running, TickPoints, Interruptible
<1>2. InvOneLive'
  BY DEF InvOneLive, LiveSaved
<1>3. InvState'
  BY DEF InvState
<1>4. InvContext'
  BY DEF InvContext
<1>5. InvLocks'
  BY DEF InvLocks, OwnLk, ChildLk
<1>6. InvParents'
  BY DEF InvParents
<1>7. ParentAlive'
  BY DEF ParentAlive
<1>8. InvWaiting'
  BY DEF InvWaiting, DeadChild, ExitWillWake
<1>9. InvEarly'
  BY DEF InvEarly
<1>10. NoLostChildWakeup'
  BY DEF NoLostChildWakeup, InWaitSleep, ExitWillWake
<1> QED
  BY <1>1, <1>2, <1>3, <1>4, <1>5, <1>6, <1>7, <1>8, <1>9, <1>10

\* proc_fork finds no slot.
LEMMA ForkFailsKeeps ==
  ASSUME IndInv, NEW c \in CPUs, NEW p \in Procs, ForkFails(c, p)
  PROVE  IndInv'
<1> USE DEF ForkFails, AtPoint, Running, Goto, At, svars, IndInv
<1>1. TypeOK'
  BY DEF TypeOK, SchedTypeOK, Context, Points
<1> USE DEF Alive, LiveOn, LivePoints, Running, TickPoints, Interruptible
<1>2. InvOneLive'
  BY DEF InvOneLive, LiveSaved
<1>3. InvState'
  BY DEF InvState
<1>4. InvContext'
  BY DEF InvContext
<1>5. InvLocks'
  BY DEF InvLocks, OwnLk, ChildLk, LkPoints, LifecyclePoints
<1>6. InvParents'
  BY DEF InvParents
<1>7. ParentAlive'
  BY DEF ParentAlive
<1>8. InvWaiting'
  BY DEF InvWaiting, DeadChild, ExitWillWake
<1>9. InvEarly'
  BY DEF InvEarly
<1>10. NoLostChildWakeup'
  BY DEF NoLostChildWakeup, InWaitSleep, ExitWillWake
<1> QED
  BY <1>1, <1>2, <1>3, <1>4, <1>5, <1>6, <1>7, <1>8, <1>9, <1>10

\* proc_exit takes lifecycle_lock.
LEMMA ExitCallKeeps ==
  ASSUME IndInv, NEW c \in CPUs, NEW p \in Procs, ExitCall(c, p)
  PROVE  IndInv'
<1> USE DEF ExitCall, AtPoint, Running, Goto, At, svars, IndInv
<1>1. TypeOK'
  BY SlotTypes DEF TypeOK, SchedTypeOK, Context, Points
<1> USE DEF Alive, LiveOn, LivePoints, Running, TickPoints, Interruptible
<1>2. InvOneLive'
  BY DEF InvOneLive, LiveSaved
<1>3. InvState'
  BY DEF InvState
<1>4. InvContext'
  BY DEF InvContext
<1>5. InvLocks'
  BY SlotTypes DEF InvLocks, OwnLk, ChildLk, LkPoints, LifecyclePoints, TypeOK
<1>6. InvParents'
  BY SlotTypes DEF InvParents
<1>7. ParentAlive'
  BY DEF ParentAlive
<1>8. InvWaiting'
  BY DEF InvWaiting, DeadChild, ExitWillWake
<1>9. InvEarly'
  BY DEF InvEarly
<1>10. NoLostChildWakeup'
  BY DEF NoLostChildWakeup, InWaitSleep, ExitWillWake
<1> QED
  BY <1>1, <1>2, <1>3, <1>4, <1>5, <1>6, <1>7, <1>8, <1>9, <1>10

\* init panics, and holds no lock.
LEMMA ExitByInitKeeps ==
  ASSUME IndInv, NEW c \in CPUs, NEW p \in Procs, ExitByInit(c, p)
  PROVE  IndInv'
<1> USE DEF ExitByInit, AtPoint, Running, Goto, At, svars, IndInv
<1>1. TypeOK'
  BY SlotTypes DEF TypeOK, SchedTypeOK, Context, Points, PanicPoints
<1> USE DEF Alive, LiveOn, LivePoints, Running, TickPoints, Interruptible
<1>2. InvOneLive'
  BY DEF InvOneLive, LiveSaved
<1>3. InvState'
  BY DEF InvState
<1>4. InvContext'
  BY DEF InvContext
<1>5. InvLocks'
  BY SlotTypes DEF InvLocks, OwnLk, ChildLk, LkPoints, LifecyclePoints, TypeOK, SchedTypeOK
<1>6. InvParents'
  BY DEF InvParents
<1>7. ParentAlive'
  BY DEF ParentAlive
<1>8. InvWaiting'
  BY DEF InvWaiting, DeadChild, ExitWillWake
<1>9. InvEarly'
  BY DEF InvEarly
<1>10. NoLostChildWakeup'
  BY DEF NoLostChildWakeup, InWaitSleep, ExitWillWake
<1> QED
  BY <1>1, <1>2, <1>3, <1>4, <1>5, <1>6, <1>7, <1>8, <1>9, <1>10

\* The loop of proc_exit hands one child over to init.
LEMMA ExitVisitKeeps ==
  ASSUME IndInv, NEW c \in CPUs, NEW p \in Procs, NEW i \in Procs, ExitVisit(c, p, i)
  PROVE  IndInv'
<1> USE DEF ExitVisit, AtPoint, Running, Goto, At, svars, IndInv
<1>1. TypeOK'
  <2>1. run'[c] \in Context
    BY SlotTypes DEF TypeOK, Context, Points
  <2>2. run' \in [CPUs -> Context]
    BY <2>1 DEF TypeOK
  <2>3. parent' \in [Procs -> Procs \union {NoProc}]
    BY SlotTypes DEF TypeOK
  <2> QED
    BY <2>2, <2>3 DEF TypeOK, SchedTypeOK
<1> USE DEF Alive, LiveOn, LivePoints, Running, TickPoints, Interruptible
<1>2. InvOneLive'
  BY DEF InvOneLive, LiveSaved
<1>3. InvState'
  BY DEF InvState
<1>4. InvContext'
  BY DEF InvContext
<1>5. InvLocks'
  BY DEF InvLocks, OwnLk, ChildLk
<1>6. InvParents'
  <2>1. /\ run'[c].pt = "exit" /\ run'[c].idx = i + 1
        /\ \A d \in CPUs : d # c => run'[d] = run[d] /\ cproc'[d] = cproc[d] /\ mode'[d] = mode[d]
    BY SlotTypes DEF TypeOK
  <2>2. /\ UNCHANGED <<state, cproc, mode>> /\ cproc[c] = p /\ mode[c] = "proc"
        /\ run[c].pt = "exit" /\ run[c].idx = i
        /\ \A j \in Procs : parent'[j] = parent[j] \/ parent'[j] = init_process
        /\ parent'[i] # p
        /\ p # init_process /\ \A j \in Procs : j < i => parent[j] # p
    <3>1. p # init_process /\ \A j \in Procs : j < i => parent[j] # p
      BY DEF InvParents
    <3> QED
      BY <3>1, SlotTypes DEF TypeOK
  <2>3. /\ state[init_process]' \notin {"UNUSED", "ZOMBIE"} /\ parent'[init_process] = NoProc
        /\ \A q \in Procs : parent'[q] # q
    BY <2>2, SlotTypes DEF InvParents, TypeOK
  <2>4. \A q \in Procs : state'[q] = "UNUSED" => parent'[q] = NoProc
    BY SlotTypes DEF InvParents, TypeOK, ParentAlive, InvState, InvLocks, OwnLk, ChildLk
  <2> HIDE DEF ExitVisit
  <2>5. ASSUME NEW d \in CPUs, NEW q \in Procs, Running(d, q)', run'[d].pt = "exit"
        PROVE  q # init_process /\ \A j \in Procs : j < run'[d].idx => parent'[j] # q
    <3>1. CASE d = c
      <4>1. q = p
        BY <3>1, <2>2, <2>5
      <4>2. \A j \in Procs : j < i + 1 => j < i \/ j = i
        BY SlotTypes
      <4> QED
        BY <4>1, <4>2, <3>1, <2>1, <2>2
    <3>2. CASE d # c
      <4>1. Running(d, q) /\ run[d].pt = "exit" /\ run[d] = run'[d]
        BY <2>1, <2>2, <2>5, <3>2
      <4>2. q # init_process /\ \A j \in Procs : j < run[d].idx => parent[j] # q
        BY <4>1 DEF InvParents
      <4> QED
        BY <4>1, <4>2, <2>2
    <3> QED
      BY <3>1, <3>2
  <2> QED
    BY <2>3, <2>4, <2>5 DEF InvParents
<1>7. ParentAlive'
  BY SlotTypes DEF ParentAlive, InvParents, TypeOK
<1>8. InvWaiting'
  BY DEF InvWaiting, DeadChild, ExitWillWake, InvState, TypeOK
<1>9. InvEarly'
  BY DEF InvEarly
<1>10. NoLostChildWakeup'
  BY DEF NoLostChildWakeup, InWaitSleep, ExitWillWake, InvState, TypeOK
<1> QED
  BY <1>1, <1>2, <1>3, <1>4, <1>5, <1>6, <1>7, <1>8, <1>9, <1>10

\* A ZOMBIE child is handed over, and init is to be woken with its lk held.
LEMMA ExitVisitZombieKeeps ==
  ASSUME IndInv, NEW c \in CPUs, NEW p \in Procs, NEW i \in Procs, ExitVisitZombie(c, p, i)
  PROVE  IndInv'
<1> USE DEF ExitVisitZombie, AtPoint, Running, Goto, At, LkAcquire, IndInv
<1>1. TypeOK'
  BY SlotTypes DEF TypeOK, SchedTypeOK, Context, Points
<1> USE DEF Alive, LiveOn, LivePoints, Running, TickPoints, Interruptible
<1>2. InvOneLive'
  BY DEF InvOneLive, LiveSaved
<1>3. InvState'
  BY DEF InvState
<1>4. InvContext'
  BY DEF InvContext
<1>5. InvLocks'
  BY SlotTypes DEF InvLocks, OwnLk, ChildLk, LkPoints, LifecyclePoints, TypeOK, SchedTypeOK
<1>6. InvParents'
  BY SlotTypes DEF InvParents, TypeOK, SchedTypeOK
<1>7. ParentAlive'
  BY SlotTypes DEF ParentAlive, InvParents, TypeOK
<1>8. InvWaiting'
  BY DEF InvWaiting, DeadChild, ExitWillWake, InvLocks, LifecyclePoints, TypeOK
<1>9. InvEarly'
  BY DEF InvEarly
<1>10. NoLostChildWakeup'
  <2>1. /\ Running(c, p) /\ run[c].pt = "exit" /\ run'[c].pt = "wakeInit"
        /\ \A d \in CPUs : d # c => run'[d] = run[d] /\ cproc'[d] = cproc[d] /\ mode'[d] = mode[d]
        /\ cproc' = cproc /\ mode' = mode
        /\ \A q \in Procs : q # i => parent'[q] = parent[q]
        /\ parent'[i] = init_process
    BY SlotTypes DEF TypeOK
  <2>2. \A d \in CPUs : Running(d, i) => run[d].pt # "exitWake"
    BY SlotTypes DEF InvLocks, OwnLk, LkPoints
  <2>3. UNCHANGED <<state, sleep_space>>
    OBVIOUS
  <2> HIDE DEF ExitVisitZombie
  <2>4. \A q \in Procs : ExitWillWake(q) => ExitWillWake(q)'
    BY <2>1, <2>2 DEF ExitWillWake
  <2>5. ExitWillWake(init_process)'
    BY <2>1 DEF ExitWillWake
  <2>6. \A q \in Procs : DeadChild(q)' => DeadChild(q) \/ q = init_process
    BY <2>1, <2>3 DEF DeadChild
  <2> QED
    BY <2>3, <2>4, <2>5, <2>6 DEF NoLostChildWakeup, InWaitSleep, DeadChild
<1> QED
  BY <1>1, <1>2, <1>3, <1>4, <1>5, <1>6, <1>7, <1>8, <1>9, <1>10

\* init is woken unless it holds its lk, and then it is not asleep yet.
LEMMA ExitWakeInitKeeps ==
  ASSUME IndInv, NEW c \in CPUs, NEW p \in Procs, ExitWakeInit(c, p)
  PROVE  IndInv'
<1> USE DEF ExitWakeInit, AtPoint, Running, Goto, At, WakeOne, IndInv
<1>1. TypeOK'
  <2>1. run'[c] \in Context
    BY SlotTypes DEF TypeOK, Context, Points, PanicPoints
  <2> QED
    BY <2>1, SlotTypes DEF TypeOK, SchedTypeOK, States
<1> USE DEF Alive, LiveOn, LivePoints, Running, TickPoints, Interruptible
<1>2. InvOneLive'
  BY DEF InvOneLive, LiveSaved, TypeOK, SchedTypeOK
<1>3. InvState'
  BY DEF InvState, TypeOK, SchedTypeOK
<1>4. InvContext'
  BY DEF InvContext, TypeOK, SchedTypeOK
<1>5. InvLocks'
  BY SlotTypes DEF InvLocks, OwnLk, ChildLk, LkPoints, LifecyclePoints, TypeOK, SchedTypeOK
<1>6. InvParents'
  BY SlotTypes DEF InvParents, TypeOK, SchedTypeOK
<1>7. ParentAlive'
  BY DEF ParentAlive, TypeOK, SchedTypeOK
<1>8. InvWaiting'
  <2>1. /\ Running(c, p) /\ run[c].pt = "wakeInit" /\ run'[c].pt = "recursive"
        /\ \A d \in CPUs : d # c => run'[d] = run[d] /\ cproc'[d] = cproc[d] /\ mode'[d] = mode[d]
        /\ UNCHANGED <<cproc, mode, parent, sleep_space>>
    BY SlotTypes DEF TypeOK
  <2>2. \A q \in Procs : (state'[q] = "ZOMBIE" <=> state[q] = "ZOMBIE")
                         /\ (state'[q] = "SLEEPING" => state[q] = "SLEEPING")
    BY DEF TypeOK, SchedTypeOK
  <2>3. /\ \A d \in CPUs : Running(d, init_process) => run[d].pt # "waitSlp2"
        /\ ~ InWaitSleep(init_process)'
    BY SlotTypes DEF InvLocks, OwnLk, LkPoints, InWaitSleep, TypeOK, SchedTypeOK
  <2> HIDE DEF ExitWakeInit
  <2>4. \A q \in Procs \ {init_process} : ExitWillWake(q) => ExitWillWake(q)'
    BY <2>1 DEF ExitWillWake
  <2>5. \A q \in Procs : DeadChild(q)' => DeadChild(q)
    BY <2>1, <2>2 DEF DeadChild
  <2>6. ASSUME NEW d \in CPUs, NEW q \in Procs, Running(d, q)'
        PROVE  /\ run'[d].pt = "wait" =>
                    \A j \in Procs : j < run'[d].idx /\ parent'[j] = q => state'[j] # "ZOMBIE"
               /\ run'[d].pt = "waitSlp1" => ~ DeadChild(q)'
               /\ run'[d].pt = "waitSlp2" /\ DeadChild(q)' => ExitWillWake(q)'
    <3>1. CASE d = c
      BY <3>1, <2>1
    <3>2. CASE d # c
      <4>1. Running(d, q) /\ run'[d] = run[d]
        BY <2>6, <3>2, <2>1
      <4> HIDE DEF Running
      <4> QED
        BY <4>1, <2>1, <2>2, <2>3, <2>4, <2>5 DEF InvWaiting
    <3> QED
      BY <3>1, <3>2
  <2> QED
    BY <2>6 DEF InvWaiting
<1>9. InvEarly'
  BY DEF InvEarly, TypeOK, SchedTypeOK
<1>10. NoLostChildWakeup'
  <2>1. /\ Running(c, p) /\ run[c].pt = "wakeInit" /\ run'[c].pt = "recursive"
        /\ \A d \in CPUs : d # c => run'[d] = run[d] /\ cproc'[d] = cproc[d] /\ mode'[d] = mode[d]
        /\ UNCHANGED <<cproc, mode, parent, sleep_space>>
    BY SlotTypes DEF TypeOK
  <2>2. \A q \in Procs : (state'[q] = "ZOMBIE" <=> state[q] = "ZOMBIE")
                         /\ (state'[q] = "SLEEPING" => state[q] = "SLEEPING")
    BY DEF TypeOK, SchedTypeOK
  <2>3. /\ \A d \in CPUs : Running(d, init_process) => run[d].pt # "waitSlp2"
        /\ ~ InWaitSleep(init_process)'
    BY SlotTypes DEF InvLocks, OwnLk, LkPoints, InWaitSleep, TypeOK, SchedTypeOK
  <2> HIDE DEF ExitWakeInit
  <2>4. \A q \in Procs \ {init_process} : ExitWillWake(q) => ExitWillWake(q)'
    BY <2>1 DEF ExitWillWake
  <2>5. \A q \in Procs : DeadChild(q)' => DeadChild(q)
    BY <2>1, <2>2 DEF DeadChild
  <2> QED
    BY <2>1, <2>2, <2>3, <2>4, <2>5, SlotTypes DEF NoLostChildWakeup, InWaitSleep, DeadChild
<1> QED
  BY <1>1, <1>2, <1>3, <1>4, <1>5, <1>6, <1>7, <1>8, <1>9, <1>10

\* The process dies: it has no child left, and nobody else holds lifecycle_lock.
LEMMA ExitLockSelfKeeps ==
  ASSUME IndInv, NEW c \in CPUs, NEW p \in Procs, ExitLockSelf(c, p)
  PROVE  IndInv'
<1> USE DEF ExitLockSelf, AtPoint, Running, Goto, At, LkAcquire, IndInv
<1>1. TypeOK'
  BY DEF TypeOK, SchedTypeOK, Context, Points, States
<1> USE DEF Alive, LiveOn, LivePoints, Running, TickPoints, Interruptible
<1>2. InvOneLive'
  BY DEF InvOneLive, LiveSaved
<1>3. InvState'
  BY DEF InvOneLive, InvState, TypeOK, SchedTypeOK
<1>4. InvContext'
  BY DEF InvContext
<1>5. InvLocks'
  BY SlotTypes DEF InvLocks, OwnLk, ChildLk, LkPoints, LifecyclePoints, TypeOK, SchedTypeOK
<1>6. InvParents'
  BY DEF InvParents
<1>7. ParentAlive'
  BY SlotTypes DEF ParentAlive, InvParents, InvState
<1>8. InvWaiting'
  BY SlotTypes DEF InvWaiting, DeadChild, ExitWillWake, InvLocks, OwnLk, ChildLk, LifecyclePoints, TypeOK
<1>9. InvEarly'
  BY DEF InvEarly
<1>10. NoLostChildWakeup'
  BY SlotTypes DEF NoLostChildWakeup, InWaitSleep, ExitWillWake, TypeOK
<1> QED
  BY <1>1, <1>2, <1>3, <1>4, <1>5, <1>6, <1>7, <1>8, <1>9, <1>10

\* One round of the wakeup of the parent, which cannot pass a parent that holds its lk.
LEMMA ExitWakeKeeps ==
  ASSUME IndInv, NEW c \in CPUs, NEW p \in Procs, NEW i \in Procs, ExitWake(c, p, i)
  PROVE  IndInv'
<1> USE DEF ExitWake, AtPoint, Running, Goto, At, WakeOne, svars, IndInv
<1>1. TypeOK'
  BY SlotTypes, SMTT(30) DEF TypeOK, SchedTypeOK, Context, Points, States
<1> USE DEF Alive, LiveOn, LivePoints, Running, TickPoints, Interruptible
<1>2. InvOneLive'
  BY DEF InvOneLive, LiveSaved, TypeOK, SchedTypeOK
<1>3. InvState'
  BY DEF InvState, TypeOK, SchedTypeOK
<1>4. InvContext'
  BY DEF InvContext, TypeOK, SchedTypeOK
<1>5. InvLocks'
  BY DEF InvLocks, OwnLk, ChildLk
<1>6. InvParents'
  BY SlotTypes DEF InvParents, TypeOK, SchedTypeOK
<1>7. ParentAlive'
  BY DEF ParentAlive, TypeOK, SchedTypeOK
<1>8. InvWaiting'
  <2>1. /\ run'[c].pt = "exitWake" /\ run'[c].idx = i + 1
        /\ \A d \in CPUs : d # c => run'[d] = run[d] /\ cproc'[d] = cproc[d] /\ mode'[d] = mode[d]
    BY SlotTypes DEF TypeOK
  <2>2. /\ UNCHANGED <<parent, cproc, mode, sleep_space>>
        /\ Running(c, p) /\ run[c].pt = "exitWake" /\ run[c].idx = i
    OBVIOUS
  <2>3. parent[p] # p
    BY DEF InvParents
  <2>4. \A q \in Procs : (state'[q] = "ZOMBIE" <=> state[q] = "ZOMBIE")
                         /\ (state'[q] = "SLEEPING" => state[q] = "SLEEPING")
    BY DEF TypeOK, SchedTypeOK
  <2>5. \A q \in Procs : ExitWillWake(q) => ExitWillWake(q)' \/ (q = i /\ parent[p] = i)
    <3> SUFFICES ASSUME NEW q \in Procs, ExitWillWake(q), ~ (q = i /\ parent[p] = i)
                 PROVE  ExitWillWake(q)'
      OBVIOUS
    <3> HIDE DEF ExitWake
    <3>1. PICK d \in CPUs, r \in Procs :
            /\ Running(d, r)
            /\ \/ run[d].pt = "exitWake" /\ parent[r] = q /\ run[d].idx <= q
               \/ run[d].pt = "wakeInit" /\ q = init_process
      BY DEF ExitWillWake
    <3>2. Running(d, r)' /\ parent'[r] = parent[r]
      BY <3>1, <2>2
    <3>3. \/ run'[d].pt = "exitWake" /\ parent[r] = q /\ run'[d].idx <= q
          \/ run'[d].pt = "wakeInit" /\ q = init_process
      <4>1. CASE d # c
        BY <4>1, <3>1, <2>1
      <4>2. CASE d = c
        <5>1. r = p /\ i <= q /\ q # i /\ parent[r] = q
          BY <4>2, <3>1, <2>2
        <5> QED
          BY <5>1, <4>2, <2>1, SlotTypes
      <4> QED
        BY <4>1, <4>2
    <3> QED
      BY <3>2, <3>3 DEF ExitWillWake
  <2>6. parent[p] = i => lk[i] = NoCPU
    BY <2>3
  <2>7. parent[p] = i /\ sleep_space[i] = i => state'[i] # "SLEEPING"
    BY <2>3 DEF TypeOK, SchedTypeOK
  <2> HIDE DEF ExitWake
  <2>8. ASSUME NEW d \in CPUs, NEW q \in Procs, Running(d, q)'
        PROVE  /\ run'[d].pt = "wait" =>
                    \A j \in Procs : j < run'[d].idx /\ parent'[j] = q => state'[j] # "ZOMBIE"
               /\ run'[d].pt = "waitSlp1" => ~ DeadChild(q)'
               /\ run'[d].pt = "waitSlp2" /\ DeadChild(q)' => ExitWillWake(q)'
    <3>1. CASE d = c
      BY <3>1, <2>1
    <3>2. CASE d # c
      <4>1. Running(d, q) /\ run'[d] = run[d]
        BY <2>8, <3>2, <2>1
      <4>2. DeadChild(q)' => DeadChild(q)
        BY <2>2, <2>4 DEF DeadChild
      <4>3. run[d].pt = "waitSlp2" => lk[q] = d
        BY <4>1 DEF InvLocks, OwnLk, ChildLk, LkPoints
      <4>4. run[d].pt = "waitSlp2" /\ DeadChild(q) => ExitWillWake(q)'
        BY <4>1, <4>3, <2>5, <2>6, SlotTypes DEF InvWaiting
      <4> HIDE DEF Running
      <4> QED
        BY <4>1, <4>2, <4>4, <2>2, <2>4 DEF InvWaiting
    <3> QED
      BY <3>1, <3>2
  <2> QED
    BY <2>8 DEF InvWaiting
<1>9. InvEarly'
  BY DEF InvEarly, InvState, TypeOK, SchedTypeOK
<1>10. NoLostChildWakeup'
  <2>1. /\ run'[c].pt = "exitWake" /\ run'[c].idx = i + 1
        /\ \A d \in CPUs : d # c => run'[d] = run[d] /\ cproc'[d] = cproc[d] /\ mode'[d] = mode[d]
    BY SlotTypes DEF TypeOK
  <2>2. /\ UNCHANGED <<parent, cproc, mode, sleep_space>>
        /\ Running(c, p) /\ run[c].pt = "exitWake" /\ run[c].idx = i
    OBVIOUS
  <2>3. parent[p] # p
    BY DEF InvParents
  <2>4. \A q \in Procs : (state'[q] = "ZOMBIE" <=> state[q] = "ZOMBIE")
                         /\ (state'[q] = "SLEEPING" => state[q] = "SLEEPING")
    BY DEF TypeOK, SchedTypeOK
  <2>5. \A q \in Procs : ExitWillWake(q) => ExitWillWake(q)' \/ (q = i /\ parent[p] = i)
    <3> SUFFICES ASSUME NEW q \in Procs, ExitWillWake(q), ~ (q = i /\ parent[p] = i)
                 PROVE  ExitWillWake(q)'
      OBVIOUS
    <3> HIDE DEF ExitWake
    <3>1. PICK d \in CPUs, r \in Procs :
            /\ Running(d, r)
            /\ \/ run[d].pt = "exitWake" /\ parent[r] = q /\ run[d].idx <= q
               \/ run[d].pt = "wakeInit" /\ q = init_process
      BY DEF ExitWillWake
    <3>2. Running(d, r)' /\ parent'[r] = parent[r]
      BY <3>1, <2>2
    <3>3. \/ run'[d].pt = "exitWake" /\ parent[r] = q /\ run'[d].idx <= q
          \/ run'[d].pt = "wakeInit" /\ q = init_process
      <4>1. CASE d # c
        BY <4>1, <3>1, <2>1
      <4>2. CASE d = c
        <5>1. r = p /\ i <= q /\ q # i /\ parent[r] = q
          BY <4>2, <3>1, <2>2
        <5> QED
          BY <5>1, <4>2, <2>1, SlotTypes
      <4> QED
        BY <4>1, <4>2
    <3> QED
      BY <3>2, <3>3 DEF ExitWillWake
  <2>6. parent[p] = i => lk[i] = NoCPU
    BY <2>3
  <2>7. parent[p] = i /\ sleep_space[i] = i => state'[i] # "SLEEPING"
    BY <2>3 DEF TypeOK, SchedTypeOK
  <2> HIDE DEF ExitWake
  <2>8. \A q \in Procs : InWaitSleep(q)' => InWaitSleep(q) /\ ~ (q = i /\ parent[p] = i)
    BY <2>2, <2>4, <2>7 DEF InWaitSleep
  <2> QED
    BY <2>2, <2>4, <2>5, <2>8 DEF NoLostChildWakeup
<1> QED
  BY <1>1, <1>2, <1>3, <1>4, <1>5, <1>6, <1>7, <1>8, <1>9, <1>10

\* The wakeup loop has passed every slot.
LEMMA ExitUnlockSelfKeeps ==
  ASSUME IndInv, NEW c \in CPUs, NEW p \in Procs, ExitUnlockSelf(c, p)
  PROVE  IndInv'
<1> USE DEF ExitUnlockSelf, AtPoint, Running, Goto, At, LkRelease, IndInv
<1>1. TypeOK'
  BY DEF TypeOK, SchedTypeOK, Context, Points
<1> USE DEF Alive, LiveOn, LivePoints, Running, TickPoints, Interruptible
<1>2. InvOneLive'
  BY DEF InvOneLive, LiveSaved
<1>3. InvState'
  BY DEF InvState
<1>4. InvContext'
  BY DEF InvContext
<1>5. InvLocks'
  BY SlotTypes DEF InvLocks, OwnLk, ChildLk, LkPoints, LifecyclePoints, TypeOK, SchedTypeOK
<1>6. InvParents'
  BY DEF InvParents
<1>7. ParentAlive'
  BY DEF ParentAlive
<1>8. InvWaiting'
  BY SlotTypes DEF InvWaiting, DeadChild, ExitWillWake
<1>9. InvEarly'
  BY DEF InvEarly
<1>10. NoLostChildWakeup'
  BY SlotTypes DEF NoLostChildWakeup, InWaitSleep, ExitWillWake
<1> QED
  BY <1>1, <1>2, <1>3, <1>4, <1>5, <1>6, <1>7, <1>8, <1>9, <1>10

\* From here on the slot may be reaped under the dead context.
LEMMA ExitDropLifecycleKeeps ==
  ASSUME IndInv, NEW c \in CPUs, NEW p \in Procs, ExitDropLifecycle(c, p)
  PROVE  IndInv'
<1> USE DEF ExitDropLifecycle, AtPoint, Running, Goto, At, svars, IndInv
<1>1. TypeOK'
  BY SlotTypes DEF TypeOK, SchedTypeOK, Context, Points
<1> USE DEF Alive, LiveOn, LivePoints, Running, TickPoints, Interruptible
<1>2. InvOneLive'
  BY DEF InvOneLive, LiveSaved
<1>3. InvState'
  BY DEF InvState
<1>4. InvContext'
  BY DEF InvContext
<1>5. InvLocks'
  BY SlotTypes DEF InvLocks, OwnLk, ChildLk, LkPoints, LifecyclePoints, TypeOK
<1>6. InvParents'
  BY DEF InvParents
<1>7. ParentAlive'
  BY DEF ParentAlive
<1>8. InvWaiting'
  BY DEF InvWaiting, DeadChild, ExitWillWake
<1>9. InvEarly'
  BY DEF InvEarly, InvState, TypeOK, SchedTypeOK
<1>10. NoLostChildWakeup'
  BY DEF NoLostChildWakeup, InWaitSleep, ExitWillWake
<1> QED
  BY <1>1, <1>2, <1>3, <1>4, <1>5, <1>6, <1>7, <1>8, <1>9, <1>10

\* The dead context takes the lk of what was its slot.
LEMMA ExitRelockKeeps ==
  ASSUME IndInv, NEW c \in CPUs, NEW p \in Procs, ExitRelock(c, p)
  PROVE  IndInv'
<1> USE DEF ExitRelock, AtPoint, Running, Goto, At, LkAcquire, IndInv
<1>1. TypeOK'
  BY SlotTypes DEF TypeOK, SchedTypeOK, Context, Points
<1> USE DEF Alive, LiveOn, LivePoints, Running, TickPoints, Interruptible
<1>2. InvOneLive'
  BY DEF InvOneLive, LiveSaved
<1>3. InvState'
  BY DEF InvState
<1>4. InvContext'
  BY DEF InvContext
<1>5. InvLocks'
  BY SlotTypes DEF InvLocks, OwnLk, ChildLk, LkPoints, LifecyclePoints, TypeOK, SchedTypeOK
<1>6. InvParents'
  BY DEF InvParents
<1>7. ParentAlive'
  BY DEF ParentAlive
<1>8. InvWaiting'
  BY DEF InvWaiting, DeadChild, ExitWillWake
<1>9. InvEarly'
  BY DEF InvEarly
<1>10. NoLostChildWakeup'
  BY DEF NoLostChildWakeup, InWaitSleep, ExitWillWake
<1> QED
  BY <1>1, <1>2, <1>3, <1>4, <1>5, <1>6, <1>7, <1>8, <1>9, <1>10

\* The dead context is saved over whatever the slot holds by now.
LEMMA ExitSwtchKeeps ==
  ASSUME IndInv, NEW c \in CPUs, NEW p \in Procs, ExitSwtch(c, p)
  PROVE  IndInv'
<1> USE DEF ExitSwtch, AtPoint, Running, At, IndInv
<1>1. TypeOK'
  BY SlotTypes DEF TypeOK, SchedTypeOK, Context, Points, PanicPoints, NoContext
<1> USE DEF Alive, LiveOn, LivePoints, Running, TickPoints, Interruptible
<1>2. InvOneLive'
  BY DEF InvOneLive, LiveSaved, TypeOK, SchedTypeOK
<1>3. InvState'
  BY DEF InvState, TypeOK, SchedTypeOK
<1>4. InvContext'
  BY DEF InvContext, Switchable, TypeOK, SchedTypeOK
<1>5. InvLocks'
  BY DEF InvLocks, OwnLk, ChildLk, LkPoints, LifecyclePoints, TypeOK, SchedTypeOK
<1>6. InvParents'
  BY DEF InvParents, TypeOK, SchedTypeOK
<1>7. ParentAlive'
  BY DEF ParentAlive
<1>8. InvWaiting'
  BY DEF InvWaiting, DeadChild, ExitWillWake, TypeOK, SchedTypeOK
<1>9. InvEarly'
  BY DEF InvEarly, InvState, TypeOK, SchedTypeOK
<1>10. NoLostChildWakeup'
  BY DEF NoLostChildWakeup, InWaitSleep, ExitWillWake
<1> QED
  BY <1>1, <1>2, <1>3, <1>4, <1>5, <1>6, <1>7, <1>8, <1>9, <1>10

\* proc_wait starts, or starts again, under lifecycle_lock.
LEMMA WaitCallKeeps ==
  ASSUME IndInv, NEW c \in CPUs, NEW p \in Procs, WaitCall(c, p)
  PROVE  IndInv'
<1> USE DEF WaitCall, AtPoint, Running, Goto, At, svars, IndInv
<1>1. TypeOK'
  BY SlotTypes DEF TypeOK, SchedTypeOK, Context, Points
<1> USE DEF Alive, LiveOn, LivePoints, Running, TickPoints, Interruptible
<1>2. InvOneLive'
  BY DEF InvOneLive, LiveSaved
<1>3. InvState'
  BY DEF InvState
<1>4. InvContext'
  BY DEF InvContext
<1>5. InvLocks'
  BY SlotTypes DEF InvLocks, OwnLk, ChildLk, LkPoints, LifecyclePoints, TypeOK
<1>6. InvParents'
  BY DEF InvParents
<1>7. ParentAlive'
  BY DEF ParentAlive
<1>8. InvWaiting'
  BY SlotTypes DEF InvWaiting, DeadChild, ExitWillWake
<1>9. InvEarly'
  BY DEF InvEarly
<1>10. NoLostChildWakeup'
  BY DEF NoLostChildWakeup, InWaitSleep, ExitWillWake
<1> QED
  BY <1>1, <1>2, <1>3, <1>4, <1>5, <1>6, <1>7, <1>8, <1>9, <1>10

\* proc_wait passes over a slot.
LEMMA WaitVisitKeeps ==
  ASSUME IndInv, NEW c \in CPUs, NEW p \in Procs, NEW i \in Procs, WaitVisit(c, p, i)
  PROVE  IndInv'
<1> USE DEF WaitVisit, AtPoint, Running, Goto, At, svars, IndInv
<1>1. TypeOK'
  BY SlotTypes DEF TypeOK, SchedTypeOK, Context, Points
<1> USE DEF Alive, LiveOn, LivePoints, Running, TickPoints, Interruptible
<1>2. InvOneLive'
  BY DEF InvOneLive, LiveSaved
<1>3. InvState'
  BY DEF InvState
<1>4. InvContext'
  BY DEF InvContext
<1>5. InvLocks'
  BY DEF InvLocks, OwnLk, ChildLk
<1>6. InvParents'
  BY DEF InvParents
<1>7. ParentAlive'
  BY DEF ParentAlive
<1>8. InvWaiting'
  <2>1. /\ run'[c].pt = "wait" /\ run'[c].idx = i + 1
        /\ \A d \in CPUs : d # c => run'[d] = run[d] /\ cproc'[d] = cproc[d] /\ mode'[d] = mode[d]
    BY SlotTypes DEF TypeOK
  <2>2. UNCHANGED <<parent, cproc, mode, state>> /\ Running(c, p) /\ run[c].pt # "exitWake"
    OBVIOUS
  <2>3. \A q \in Procs : ExitWillWake(q) => ExitWillWake(q)'
    BY <2>1, <2>2 DEF ExitWillWake
  <2>4. ASSUME NEW d \in CPUs, NEW q \in Procs, Running(d, q)'
        PROVE  /\ run'[d].pt = "wait" =>
                    \A j \in Procs : j < run'[d].idx /\ parent'[j] = q => state'[j] # "ZOMBIE"
               /\ run'[d].pt = "waitSlp1" => ~ DeadChild(q)'
               /\ run'[d].pt = "waitSlp2" /\ DeadChild(q)' => ExitWillWake(q)'
    <3>1. CASE d = c
      <4>1. q = p /\ run[c].idx = i /\ run[c].pt = "wait" /\ (parent[i] # p \/ state[i] # "ZOMBIE")
        BY <2>4, <3>1, <2>2
      <4>2. \A j \in Procs : j < i /\ parent[j] = p => state[j] # "ZOMBIE"
        BY <4>1, <2>2 DEF InvWaiting
      <4>3. \A j \in Procs : j < i + 1 => j < i \/ j = i
        BY SlotTypes
      <4> HIDE DEF WaitVisit
      <4> QED
        BY <4>1, <4>2, <4>3, <3>1, <2>1, <2>2
    <3>2. CASE d # c
      <4> HIDE DEF WaitVisit
      <4>1. Running(d, q) /\ run'[d] = run[d]
        BY <2>4, <3>2, <2>1
      <4>2. DeadChild(q)' => DeadChild(q)
        BY <2>2 DEF DeadChild
      <4> HIDE DEF Running
      <4> QED
        BY <4>1, <4>2, <2>2, <2>3 DEF InvWaiting
    <3> QED
      BY <3>1, <3>2
  <2> QED
    BY <2>4 DEF InvWaiting
<1>9. InvEarly'
  BY DEF InvEarly
<1>10. NoLostChildWakeup'
  BY DEF NoLostChildWakeup, InWaitSleep, ExitWillWake
<1> QED
  BY <1>1, <1>2, <1>3, <1>4, <1>5, <1>6, <1>7, <1>8, <1>9, <1>10

\* proc_wait frees a dead child, which has no live context any more.
LEMMA WaitReapKeeps ==
  ASSUME IndInv, NEW c \in CPUs, NEW p \in Procs, NEW i \in Procs, WaitReap(c, p, i)
  PROVE  IndInv'
<1> USE DEF WaitReap, AtPoint, Running, Goto, At, IndInv
<1>1. TypeOK'
  BY SlotTypes DEF TypeOK, SchedTypeOK, Context, Points, States
<1> USE DEF Alive, LiveOn, LivePoints, Running, TickPoints, Interruptible
<1>2. InvOneLive'
  BY DEF InvOneLive, LiveSaved
<1>3. InvState'
  BY DEF InvState, InvLocks, OwnLk, ChildLk, LifecyclePoints
<1>4. InvContext'
  BY DEF InvContext
<1>5. InvLocks'
  BY DEF InvLocks, OwnLk, ChildLk, LkPoints, LifecyclePoints
<1>6. InvParents'
  BY SlotTypes DEF InvParents, TypeOK
<1>7. ParentAlive'
  BY DEF ParentAlive, TypeOK, SchedTypeOK
<1>8. InvWaiting'
  BY SlotTypes DEF InvWaiting, DeadChild, ExitWillWake, InvLocks, OwnLk, ChildLk, LifecyclePoints
<1>9. InvEarly'
  BY DEF InvEarly
<1>10. NoLostChildWakeup'
  BY SlotTypes DEF NoLostChildWakeup, InWaitSleep, ExitWillWake, InvState
<1> QED
  BY <1>1, <1>2, <1>3, <1>4, <1>5, <1>6, <1>7, <1>8, <1>9, <1>10

\* proc_wait returns.
LEMMA WaitReturnKeeps ==
  ASSUME IndInv, NEW c \in CPUs, NEW p \in Procs, WaitReturn(c, p)
  PROVE  IndInv'
<1> USE DEF WaitReturn, AtPoint, Running, Goto, At, svars, IndInv
<1>1. TypeOK'
  BY SlotTypes DEF TypeOK, SchedTypeOK, Context, Points
<1> USE DEF Alive, LiveOn, LivePoints, Running, TickPoints, Interruptible
<1>2. InvOneLive'
  BY DEF InvOneLive, LiveSaved
<1>3. InvState'
  BY DEF InvState
<1>4. InvContext'
  BY DEF InvContext
<1>5. InvLocks'
  BY SlotTypes DEF InvLocks, OwnLk, ChildLk, LkPoints, LifecyclePoints, TypeOK
<1>6. InvParents'
  BY DEF InvParents
<1>7. ParentAlive'
  BY DEF ParentAlive
<1>8. InvWaiting'
  <2>1. /\ run'[c].pt = "user"
        /\ \A d \in CPUs : d # c => run'[d] = run[d] /\ cproc'[d] = cproc[d] /\ mode'[d] = mode[d]
    BY SlotTypes DEF TypeOK
  <2>2. UNCHANGED <<parent, cproc, mode, state>> /\ Running(c, p) /\ run[c].pt # "exitWake"
    OBVIOUS
  <2>3. \A q \in Procs : ExitWillWake(q) => ExitWillWake(q)'
    BY <2>1, <2>2 DEF ExitWillWake
  <2>4. ASSUME NEW d \in CPUs, NEW q \in Procs, Running(d, q)'
        PROVE  /\ run'[d].pt = "wait" =>
                    \A j \in Procs : j < run'[d].idx /\ parent'[j] = q => state'[j] # "ZOMBIE"
               /\ run'[d].pt = "waitSlp1" => ~ DeadChild(q)'
               /\ run'[d].pt = "waitSlp2" /\ DeadChild(q)' => ExitWillWake(q)'
    <3>1. CASE d = c
      BY <3>1, <2>1
    <3>2. CASE d # c
      <4> HIDE DEF WaitReturn
      <4>1. Running(d, q) /\ run'[d] = run[d]
        BY <2>4, <3>2, <2>1
      <4>2. DeadChild(q)' => DeadChild(q)
        BY <2>2 DEF DeadChild
      <4> HIDE DEF Running
      <4> QED
        BY <4>1, <4>2, <2>2, <2>3 DEF InvWaiting
    <3> QED
      BY <3>1, <3>2
  <2> QED
    BY <2>4 DEF InvWaiting
<1>9. InvEarly'
  BY DEF InvEarly
<1>10. NoLostChildWakeup'
  BY DEF NoLostChildWakeup, InWaitSleep, ExitWillWake
<1> QED
  BY <1>1, <1>2, <1>3, <1>4, <1>5, <1>6, <1>7, <1>8, <1>9, <1>10

\* The parent takes its lk before it drops lifecycle_lock.
LEMMA WaitLockSelfKeeps ==
  ASSUME IndInv, NEW c \in CPUs, NEW p \in Procs, WaitLockSelf(c, p)
  PROVE  IndInv'
<1> USE DEF WaitLockSelf, AtPoint, Running, Goto, At, SleepLockSelf, LkAcquire, IndInv
<1>1. TypeOK'
  BY DEF TypeOK, SchedTypeOK, Context, Points
<1> USE DEF Alive, LiveOn, LivePoints, Running, TickPoints, Interruptible
<1>2. InvOneLive'
  BY DEF InvOneLive, LiveSaved
<1>3. InvState'
  BY DEF InvState
<1>4. InvContext'
  BY DEF InvContext
<1>5. InvLocks'
  BY SlotTypes DEF InvLocks, OwnLk, ChildLk, LkPoints, LifecyclePoints, TypeOK, SchedTypeOK
<1>6. InvParents'
  BY DEF InvParents
<1>7. ParentAlive'
  BY DEF ParentAlive
<1>8. InvWaiting'
  BY SlotTypes DEF InvWaiting, DeadChild, ExitWillWake
<1>9. InvEarly'
  BY DEF InvEarly
<1>10. NoLostChildWakeup'
  BY DEF NoLostChildWakeup, InWaitSleep, ExitWillWake
<1> QED
  BY <1>1, <1>2, <1>3, <1>4, <1>5, <1>6, <1>7, <1>8, <1>9, <1>10

\* From here on a child may die, but cannot pass the parent.
LEMMA WaitDropLifecycleKeeps ==
  ASSUME IndInv, NEW c \in CPUs, NEW p \in Procs, WaitDropLifecycle(c, p)
  PROVE  IndInv'
<1> USE DEF WaitDropLifecycle, AtPoint, Running, Goto, At, svars, IndInv
<1>1. TypeOK'
  BY SlotTypes DEF TypeOK, SchedTypeOK, Context, Points
<1> USE DEF Alive, LiveOn, LivePoints, Running, TickPoints, Interruptible
<1>2. InvOneLive'
  BY DEF InvOneLive, LiveSaved
<1>3. InvState'
  BY DEF InvState
<1>4. InvContext'
  BY DEF InvContext
<1>5. InvLocks'
  BY SlotTypes DEF InvLocks, OwnLk, ChildLk, LkPoints, LifecyclePoints, TypeOK
<1>6. InvParents'
  BY DEF InvParents
<1>7. ParentAlive'
  BY DEF ParentAlive
<1>8. InvWaiting'
  BY DEF InvWaiting, DeadChild, ExitWillWake
<1>9. InvEarly'
  BY DEF InvEarly
<1>10. NoLostChildWakeup'
  BY DEF NoLostChildWakeup, InWaitSleep, ExitWillWake
<1> QED
  BY <1>1, <1>2, <1>3, <1>4, <1>5, <1>6, <1>7, <1>8, <1>9, <1>10

\* The parent sleeps; a child that died in between is still to visit it.
LEMMA WaitSleepKeeps ==
  ASSUME IndInv, NEW c \in CPUs, NEW p \in Procs, WaitSleep(c, p)
  PROVE  IndInv'
<1> USE DEF WaitSleep, AtPoint, Running, SleepSwtch, At, IndInv
<1>1. TypeOK'
  BY SlotTypes DEF TypeOK, SchedTypeOK, Context, Points, States, NoContext
<1> USE DEF Alive, LiveOn, LivePoints, Running, TickPoints, Interruptible
<1>2. InvOneLive'
  BY DEF InvOneLive, LiveSaved, TypeOK, SchedTypeOK
<1>3. InvState'
  BY DEF InvOneLive, InvState, TypeOK, SchedTypeOK
<1>4. InvContext'
  BY DEF InvContext, Switchable, TypeOK, SchedTypeOK
<1>5. InvLocks'
  BY DEF InvLocks, OwnLk, ChildLk, LkPoints, LifecyclePoints, TypeOK, SchedTypeOK
<1>6. InvParents'
  BY DEF InvParents, TypeOK, SchedTypeOK
<1>7. ParentAlive'
  BY DEF ParentAlive, InvState
<1>8. InvWaiting'
  BY DEF InvWaiting, DeadChild, ExitWillWake, TypeOK, SchedTypeOK
<1>9. InvEarly'
  BY DEF InvEarly, InvState, TypeOK, SchedTypeOK
<1>10. NoLostChildWakeup'
  <2>1. /\ run'[c].pt = "user"
        /\ \A d \in CPUs : d # c => run'[d] = run[d] /\ cproc'[d] = cproc[d] /\ mode'[d] = mode[d]
    BY SlotTypes DEF TypeOK, NoContext
  <2>2. /\ parent' = parent /\ Running(c, p) /\ run[c].pt = "waitSlp2"
        /\ \A q \in Procs : q # p => state'[q] = state[q] /\ sleep_space'[q] = sleep_space[q]
        /\ state'[p] = "SLEEPING"
    BY DEF TypeOK, SchedTypeOK
  <2> HIDE DEF WaitSleep
  <2>3. \A q \in Procs : ExitWillWake(q) => ExitWillWake(q)'
    <3>1. \A d \in CPUs, q \in Procs : d # c /\ Running(d, q) => Running(d, q)'
      BY <2>1 DEF Running
    <3> HIDE DEF Running
    <3> QED
      BY <2>1, <2>2, <3>1 DEF ExitWillWake
  <2>4. \A q \in Procs : DeadChild(q)' => DeadChild(q)
    BY <2>2 DEF DeadChild
  <2>5. ASSUME NEW q \in Procs, InWaitSleep(q)', DeadChild(q)'
        PROVE  ExitWillWake(q)'
    <3>1. CASE q = p
      BY <3>1, <2>2, <2>3, <2>4, <2>5 DEF InvWaiting
    <3>2. CASE q # p
      BY <3>2, <2>2, <2>3, <2>4, <2>5 DEF NoLostChildWakeup, InWaitSleep, DeadChild
    <3> QED
      BY <3>1, <3>2
  <2> QED
    BY <2>5 DEF NoLostChildWakeup, DeadChild
<1> QED
  BY <1>1, <1>2, <1>3, <1>4, <1>5, <1>6, <1>7, <1>8, <1>9, <1>10

\* The parent goes on with another round.
LEMMA WaitWokenKeeps ==
  ASSUME IndInv, NEW c \in CPUs, NEW p \in Procs, WaitWoken(c, p)
  PROVE  IndInv'
<1> USE DEF WaitWoken, AtPoint, Running, Goto, At, SleepResume, LkRelease, IndInv
<1>1. TypeOK'
  BY SlotTypes DEF TypeOK, SchedTypeOK, Context, Points
<1> USE DEF Alive, LiveOn, LivePoints, Running, TickPoints, Interruptible
<1>2. InvOneLive'
  BY DEF InvOneLive, LiveSaved
<1>3. InvState'
  BY DEF InvState
<1>4. InvContext'
  BY DEF InvContext
<1>5. InvLocks'
  BY SlotTypes DEF InvLocks, OwnLk, ChildLk, LkPoints, LifecyclePoints, TypeOK, SchedTypeOK
<1>6. InvParents'
  BY DEF InvParents
<1>7. ParentAlive'
  BY DEF ParentAlive
<1>8. InvWaiting'
  BY DEF InvWaiting, DeadChild, ExitWillWake
<1>9. InvEarly'
  BY DEF InvEarly
<1>10. NoLostChildWakeup'
  BY DEF NoLostChildWakeup, InWaitSleep, ExitWillWake, InvState
<1> QED
  BY <1>1, <1>2, <1>3, <1>4, <1>5, <1>6, <1>7, <1>8, <1>9, <1>10

\* The scheduler loop takes up hart c again and drops the lock of the process.
LEMMA DispatchBackKeeps ==
  ASSUME IndInv, NEW c \in CPUs, DispatchBack(c)
  PROVE  IndInv'
<1> USE DEF DispatchBack, SchedReturn, LkRelease, pvars, IndInv
<1>1. TypeOK'
  BY DEF TypeOK, SchedTypeOK
<1>2. /\ UNCHANGED <<state, sleep_space, mode, parent, lifecycle, run, ctx, early>>
      /\ \A d \in CPUs, q \in Procs : Running(d, q)' <=> Running(d, q)
      /\ \A d \in CPUs : mode[d] = "proc" => cproc'[d] = cproc[d]
  BY SlotTypes DEF Running, TypeOK, SchedTypeOK
<1>3. InvLocks'
  BY SlotTypes DEF InvLocks, OwnLk, ChildLk, TypeOK, SchedTypeOK
<1> HIDE DEF DispatchBack
<1>4. InvOneLive' /\ InvState'
  BY <1>2 DEF InvOneLive, InvState, LiveOn, LiveSaved
<1>5. InvContext'
  BY <1>2 DEF InvContext
<1>6. InvParents' /\ ParentAlive'
  BY <1>2 DEF InvParents, ParentAlive
<1>7. \A q \in Procs : ExitWillWake(q)' <=> ExitWillWake(q)
  BY <1>2 DEF ExitWillWake
<1>8. InvWaiting' /\ NoLostChildWakeup'
  BY <1>2, <1>7 DEF InvWaiting, NoLostChildWakeup, InWaitSleep, DeadChild
<1>9. InvEarly'
  BY <1>2 DEF InvEarly
<1> QED
  BY <1>1, <1>3, <1>4, <1>5, <1>6, <1>8, <1>9

\* The loop of panic() and a stuttering step leave the processes as they are.
LEMMA StutterKeeps ==
  ASSUME IndInv, UNCHANGED vars
  PROVE  IndInv'
BY DEF IndInv, vars, svars, pvars, TypeOK, SchedTypeOK, InvOneLive, InvState, InvEarly, InvContext,
       InvLocks, OwnLk, ChildLk, InvParents, ParentAlive, InvWaiting, NoLostChildWakeup,
       InWaitSleep, DeadChild, ExitWillWake, LiveOn, LiveSaved, Running

\* Init: one process that was never run, on no hart.
LEMMA IndInvInit == Init => IndInv
<1> SUFFICES ASSUME Init PROVE IndInv
  OBVIOUS
<1> USE DEF Init, SchedInit
<1>1. TypeOK
  BY SlotTypes DEF TypeOK, SchedTypeOK, States, Context, Points, NoContext, At
<1>2. /\ \A c \in CPUs : mode[c] = "sched" /\ cproc[c] = NoProc
      /\ \A p \in Procs : /\ lk[p] = NoCPU /\ parent[p] = NoProc /\ ctx[p] = At("entry", 0)
                          /\ state[p] = IF p = init_process THEN "RUNNABLE" ELSE "UNUSED"
      /\ lifecycle = NoCPU
  OBVIOUS
<1> HIDE DEF Init
<1>3. InvOneLive /\ InvState /\ InvWaiting /\ InvEarly
  BY <1>2 DEF InvOneLive, InvState, InvWaiting, InvEarly, LiveOn, Running, Alive, LivePoints, At
<1>4. InvContext /\ InvLocks
  BY <1>2, SlotTypes DEF InvContext, InvLocks, OwnLk, ChildLk, Switchable, At
<1>5. InvParents /\ ParentAlive /\ NoLostChildWakeup
  BY <1>2, SlotTypes DEF InvParents, ParentAlive, NoLostChildWakeup, Running
<1> QED
  BY <1>1, <1>3, <1>4, <1>5 DEF IndInv

\* Every step of the kernel preserves the invariant.
LEMMA IndInvNext == IndInv /\ [Next]_vars => IndInv'
<1> SUFFICES ASSUME IndInv, [Next]_vars PROVE IndInv'
  OBVIOUS
<1>1. ASSUME NEW c \in CPUs, NEW p \in Procs, SwitchStep(c, p)
      PROVE  IndInv'
  BY <1>1, DispatchKeeps, EnterKeeps, YieldBackKeeps, TickKeeps, YieldKeeps, Zenon DEF SwitchStep
<1>2. ASSUME NEW c \in CPUs, NEW p \in Procs, ForkStep(c, p)
      PROVE  IndInv'
  BY <1>2, ForkCallKeeps, ForkFailsKeeps, ForkTakeKeeps, ForkSkipKeeps, Zenon DEF ForkStep
<1>3. ASSUME NEW c \in CPUs, NEW p \in Procs, ExitStep(c, p)
      PROVE  IndInv'
  <2>1. ASSUME PanicLoop(c, p) PROVE IndInv'
    BY <2>1, StutterKeeps DEF PanicLoop
  <2> QED
    BY <1>3, <2>1, ExitCallKeeps, ExitByInitKeeps, ExitLockSelfKeeps, ExitUnlockSelfKeeps,
       ExitDropLifecycleKeeps, ExitRelockKeeps, ExitSwtchKeeps, ExitVisitKeeps,
       ExitVisitZombieKeeps, ExitWakeInitKeeps, ExitWakeKeeps, Zenon DEF ExitStep
<1>4. ASSUME NEW c \in CPUs, NEW p \in Procs, WaitStep(c, p)
      PROVE  IndInv'
  BY <1>4, WaitCallKeeps, WaitReturnKeeps, WaitLockSelfKeeps, WaitDropLifecycleKeeps,
     WaitSleepKeeps, WaitWokenKeeps, WaitVisitKeeps, WaitReapKeeps, Zenon DEF WaitStep
<1>5. CASE UNCHANGED vars
  BY <1>5, StutterKeeps
<1> QED
  BY <1>1, <1>2, <1>3, <1>4, <1>5, DispatchBackKeeps DEF Next

\* The inductive invariant holds in every reachable state of proc.c as modelled,
\* for any number of slots and harts.
THEOREM InvariantHolds == Spec => []IndInv
BY IndInvInit, IndInvNext, PTL DEF Spec

\* The process table, the harts and lifecycle_lock keep their types.
THEOREM ProcTypeOK == Spec => []TypeOK
<1>1. IndInv => TypeOK
  BY DEF IndInv
<1> QED
  BY <1>1, InvariantHolds, PTL

\* Every slot in use but init's, and those that were once freed under a dead context,
\* has a parent that can still wait for it: proc_exit hands its children over before
\* it dies, and no fork adds one behind its loop.
THEOREM ProcParentAlive == Spec => []ParentAlive
<1>1. IndInv => ParentAlive
  BY DEF IndInv
<1> QED
  BY <1>1, InvariantHolds, PTL

\* No lost wakeup between proc_exit and proc_wait: a parent asleep in proc_wait with
\* a ZOMBIE child is still ahead of that child's proc_wakeup loop.
THEOREM ProcWakeupNotLost == Spec => []NoLostChildWakeup
<1>1. IndInv => NoLostChildWakeup
  BY DEF IndInv
<1> QED
  BY <1>1, InvariantHolds, PTL

\* What one step does to a dead slot that was not freed too early: it stays dead or
\* proc_wait frees it.
LEMMA ZombieStep ==
  ASSUME IndInv, [Next]_vars, NEW z \in Procs \ early, state[z] = "ZOMBIE"
  PROVE  state'[z] \in {"ZOMBIE", "UNUSED"}
<1>0. state \in [Procs -> States]
  BY DEF IndInv, TypeOK, SchedTypeOK
<1>1. ASSUME NEW c \in CPUs, NEW p \in Procs, SwitchStep(c, p)
      PROVE  state'[z] \in {"ZOMBIE", "UNUSED"}
  <2>1. ASSUME Yield(c, p) PROVE p # z
    BY <2>1 DEF Yield, AtPoint, IndInv, InvState, InvEarly, LiveOn
  <2> QED
    BY <1>0, <1>1, <2>1 DEF SwitchStep, Dispatch, Schedule, Enter, YieldBack, YieldResume, Tick,
       Yield, YieldSwtch, svars
<1>2. ASSUME NEW c \in CPUs, NEW p \in Procs, ForkStep(c, p)
      PROVE  state'[z] \in {"ZOMBIE", "UNUSED"}
  BY <1>0, <1>2 DEF ForkStep, ForkCall, ForkFails, ForkTake, ForkSkip, svars
<1>3. ASSUME NEW c \in CPUs, NEW p \in Procs, ExitStep(c, p)
      PROVE  state'[z] \in {"ZOMBIE", "UNUSED"}
  BY <1>0, <1>3 DEF ExitStep, ExitCall, ExitByInit, ExitLockSelf, ExitUnlockSelf, ExitDropLifecycle,
     ExitRelock, ExitSwtch, ExitVisit, ExitVisitZombie, ExitWakeInit, ExitWake, WakeOne, PanicLoop,
     vars, svars
<1>4. ASSUME NEW c \in CPUs, NEW p \in Procs, WaitStep(c, p)
      PROVE  state'[z] \in {"ZOMBIE", "UNUSED"}
  <2>1. ASSUME WaitSleep(c, p) PROVE p # z
    BY <2>1 DEF WaitSleep, AtPoint, IndInv, InvState, LiveOn, Alive, LivePoints
  <2> QED
    BY <1>0, <1>4, <2>1 DEF WaitStep, WaitCall, WaitReturn, WaitLockSelf, SleepLockSelf,
       WaitDropLifecycle,
       WaitSleep, SleepSwtch, WaitWoken, SleepResume, WaitVisit, WaitReap, svars
<1>5. ASSUME NEW c \in CPUs, DispatchBack(c)
      PROVE  state'[z] \in {"ZOMBIE", "UNUSED"}
  BY <1>5 DEF DispatchBack, SchedReturn
<1>6. CASE UNCHANGED vars
  BY <1>6 DEF vars, svars
<1> QED
  BY <1>1, <1>2, <1>3, <1>4, <1>5, <1>6 DEF Next

\* As long as a slot was not freed under a dead context, no timer tick, wakeup or
\* scheduler step makes a dead process runnable again, although proc_yield stores
\* RUNNABLE after an unlocked test; the one way out of ZOMBIE is proc_wait.
THEOREM ProcZombieOnlyReaped == Spec => ZombieOnlyReaped
<1> DEFINE Step == \A p \in Procs \ early : state[p] = "ZOMBIE" => state'[p] \in {"ZOMBIE", "UNUSED"}
<1>1. IndInv /\ [Next]_vars => [Step]_vars
  BY ZombieStep
<1> QED
  BY <1>1, InvariantHolds, PTL DEF Spec, ZombieOnlyReaped

==============================================================================
