------------------------------ MODULE AbsLock ------------------------------
(***************************************************************************)
(* What a sleeping lock promises its callers: requests are granted one at  *)
(* a time, only to a requester, and a free lock somebody is waiting for    *)
(* does not stay free (no request is forgotten by everybody).  It does not *)
(* promise an order: sleeplock_acquire competes in a loop.                 *)
(***************************************************************************)
CONSTANTS Procs, NoProc

VARIABLES
  holder,    \* the process owning the lock, or NoProc
  waiting    \* processes inside sleeplock_acquire

vars == <<holder, waiting>>

Init == holder = NoProc /\ waiting = {}

Request(p) ==
  /\ p # holder /\ p \notin waiting
  /\ waiting' = waiting \union {p}
  /\ UNCHANGED holder

Grant(p) ==
  /\ holder = NoProc /\ p \in waiting
  /\ holder' = p
  /\ waiting' = waiting \ {p}

Release(p) ==
  /\ holder = p
  /\ holder' = NoProc
  /\ UNCHANGED waiting

Next == \E p \in Procs : Request(p) \/ Grant(p) \/ Release(p)

Safety == Init /\ [][Next]_vars

Spec == Safety /\ WF_vars(\E p \in Procs : Grant(p))

=============================================================================
