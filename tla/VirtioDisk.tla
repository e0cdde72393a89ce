----------------------------- MODULE VirtioDisk -----------------------------
(***************************************************************************)
(* The virtio block driver, src/kernel/fs/virtio.c, and the device it      *)
(* drives (external, modelled from how the driver uses it).                *)
(*                                                                         *)
(* A thread holds the sleeping lock of one buffer, so a thread stands for  *)
(* the buffer and the block it transfers.  All of virtio_disk_rw between   *)
(* two points where it sleeps happens under vdisk_lock with interrupts off *)
(* and is one step; proc_sleep gives the lock up and sleeps atomically     *)
(* (SleepLock, WakeupNotLost).  The device works at any time, so the       *)
(* interrupt handler is cut where it looks at the used ring and where it   *)
(* acknowledges.                                                           *)
(*                                                                         *)
(* The rings are the queues of the entries the other side has not seen:    *)
(* that is what the indices modulo VIRTIO_NUM mean while no ring is        *)
(* overrun, which RequestsAccounted establishes; the handler's test keeps  *)
(* its modulus.                                                            *)
(***************************************************************************)
EXTENDS FiniteSetsExt, SequencesExt, Naturals

CONSTANTS
  VIRTIO_NUM,   \* descriptors
  Threads,      \* threads, each with a locked buffer of its own
  NoBuf,        \* info[i].b = 0
  Vals,         \* contents of a block
  Stale         \* what a buffer holds before its read is done

ASSUME NumAssumption == VIRTIO_NUM \in Nat /\ VIRTIO_NUM >= 3
ASSUME NoneAssumption == NoBuf \notin Threads /\ Stale \notin Vals
ASSUME ThreadsAssumption == IsFiniteSet(Threads)

Desc == 0 .. (VIRTIO_NUM - 1)

VARIABLES
  free, nxt,       \* free[i]; nxt[i]: desc[i].next, i itself without F_NEXT
  info,            \* info[i].b
  avail, used,     \* avail ring and used ring: the entries not yet seen
  pending,         \* bit 0 of INTERRUPT_STATUS
  isr,             \* virtio_disk_intr: "off", "loop", "ack"
  busy,            \* heads the device is working on
  pc, idx0, write, \* each thread's point, idx[0] and argument
  bdisk,           \* b->disk
  data, disk       \* b->data and the block on the disk

dvars == <<free, nxt, info>>
tvars == <<pc, idx0, write, bdisk>>
vars == <<dvars, avail, used, pending, isr, busy, tvars, data, disk>>

Points == {"idle", "try", "nodesc", "wait", "woken"}

\* The type invariant.
TypeOK ==
  /\ free \in [Desc -> BOOLEAN] /\ nxt \in [Desc -> Desc]
  /\ info \in [Desc -> Threads \union {NoBuf}]
  /\ avail \in Seq(Desc) /\ used \in Seq(Desc)
  /\ pending \in BOOLEAN /\ isr \in {"off", "loop", "ack"}
  /\ busy \subseteq Desc
  /\ pc \in [Threads -> Points] /\ idx0 \in [Threads -> Desc]
  /\ write \in [Threads -> BOOLEAN] /\ bdisk \in [Threads -> BOOLEAN]
  /\ data \in [Threads -> Vals \union {Stale}] /\ disk \in [Threads -> Vals]

\* virtio_disk_init: all descriptors free, rings zeroed.
Init ==
  /\ free = [i \in Desc |-> TRUE] /\ nxt = [i \in Desc |-> i]
  /\ info = [i \in Desc |-> NoBuf]
  /\ avail = <<>> /\ used = <<>>
  /\ pending = FALSE /\ isr = "off" /\ busy = {}
  /\ pc = [t \in Threads |-> "idle"] /\ idx0 = [t \in Threads |-> 0]
  /\ write = [t \in Threads |-> FALSE] /\ bdisk = [t \in Threads |-> FALSE]
  /\ \E v \in Vals : data = [t \in Threads |-> v] /\ disk = [t \in Threads |-> v]

----------------------------------------------------------------------------
(* Descriptors *)

\* alloc_desc takes the lowest free descriptor, alloc3_desc three in a row.
FreeDescs == {i \in Desc : free[i]}
AllocDesc(taken) == Min(FreeDescs \ taken)
Alloc3 == LET i == AllocDesc({})
              j == AllocDesc({i})
          IN  <<i, j, AllocDesc({i, j})>>

\* free_chain follows F_NEXT.
Chain(i) == {i, nxt[i], nxt[nxt[i]]}

\* proc_wakeup(&disk.free[0]) by t, which it skips itself.
WakeDescWaiters(t, p) ==
  [u \in Threads |-> IF u # t /\ p[u] = "nodesc" THEN "try" ELSE p[u]]

----------------------------------------------------------------------------
(* virtio_disk_rw *)

\* The caller of buffer_read or buffer_write; a writer has changed the data.
Call(t, w) ==
  /\ pc[t] = "idle"
  /\ pc' = [pc EXCEPT ![t] = "try"] /\ write' = [write EXCEPT ![t] = w]
  /\ \E v \in IF w THEN Vals ELSE {Stale} : data' = [data EXCEPT ![t] = v]
  /\ UNCHANGED <<dvars, avail, used, pending, isr, busy, idx0, bdisk, disk>>

\* Three descriptors are free: build the chain, publish it, sleep on b.
Submit(t) ==
  /\ pc[t] = "try" /\ isr = "off" /\ Cardinality(FreeDescs) >= 3
  /\ LET d == Alloc3 IN
       /\ free' = [i \in Desc |-> free[i] /\ i \notin Range(d)]
       /\ nxt' = [nxt EXCEPT ![d[1]] = d[2], ![d[2]] = d[3], ![d[3]] = d[3]]
       /\ info' = [info EXCEPT ![d[1]] = t]
       /\ avail' = Append(avail, d[1])
       /\ idx0' = [idx0 EXCEPT ![t] = d[1]]
  /\ bdisk' = [bdisk EXCEPT ![t] = TRUE]
  /\ pc' = [pc EXCEPT ![t] = "wait"]
  /\ UNCHANGED <<used, pending, isr, busy, write, data, disk>>

\* alloc3_desc fails: what it took goes back through free_desc, which wakes
\* the other waiters; then sleep on free[0].
NoDesc(t) ==
  /\ pc[t] = "try" /\ isr = "off" /\ Cardinality(FreeDescs) < 3
  /\ LET woken == IF FreeDescs = {} THEN pc ELSE WakeDescWaiters(t, pc)
     IN  pc' = [woken EXCEPT ![t] = "nodesc"]
  /\ UNCHANGED <<dvars, avail, used, pending, isr, busy, idx0, write, bdisk, data, disk>>

\* Mutant: free_chain does not wake the threads that wait for descriptors.
FinishNoWakeup(t) ==
  /\ pc[t] = "woken" /\ isr = "off" /\ ~bdisk[t]
  /\ free' = [i \in Desc |-> free[i] \/ i \in Chain(idx0[t])]
  /\ info' = [info EXCEPT ![idx0[t]] = NoBuf]
  /\ pc' = [pc EXCEPT ![t] = "idle"]
  /\ UNCHANGED <<nxt, avail, used, pending, isr, busy, idx0, write, bdisk, data, disk>>

\* Mutant: the loop that waits for b->disk is missing.
FinishNoWait(t) ==
  /\ pc[t] \in {"wait", "woken"} /\ isr = "off"
  /\ free' = [i \in Desc |-> free[i] \/ i \in Chain(idx0[t])]
  /\ info' = [info EXCEPT ![idx0[t]] = NoBuf]
  /\ pc' = [WakeDescWaiters(t, pc) EXCEPT ![t] = "idle"]
  /\ UNCHANGED <<nxt, avail, used, pending, isr, busy, idx0, write, bdisk, data, disk>>

\* Awake and b->disk is false: free the chain, waking those who wait for it.
Finish(t) ==
  /\ pc[t] = "woken" /\ isr = "off" /\ ~bdisk[t]
  /\ free' = [i \in Desc |-> free[i] \/ i \in Chain(idx0[t])]
  /\ info' = [info EXCEPT ![idx0[t]] = NoBuf]
  /\ pc' = [WakeDescWaiters(t, pc) EXCEPT ![t] = "idle"]
  /\ UNCHANGED <<nxt, avail, used, pending, isr, busy, idx0, write, bdisk, data, disk>>

----------------------------------------------------------------------------
(* The device (external): it takes a chain from the avail ring, does the   *)
(* transfer, and tells so in the used ring and INTERRUPT_STATUS; requests  *)
(* in its hands finish in any order.  The addresses in the chain name the  *)
(* header and the buffer of the thread that info records.                  *)

DevTake ==
  /\ avail # <<>>
  /\ busy' = busy \union {Head(avail)} /\ avail' = Tail(avail)
  /\ UNCHANGED <<dvars, used, pending, isr, tvars, data, disk>>

DevDone(h) ==
  /\ h \in busy /\ busy' = busy \ {h}
  /\ LET b == info[h] IN
       IF b = NoBuf THEN UNCHANGED <<data, disk>>
       ELSE IF write[b]
       THEN disk' = [disk EXCEPT ![b] = data[b]] /\ UNCHANGED data
       ELSE data' = [data EXCEPT ![b] = disk[b]] /\ UNCHANGED disk
  /\ used' = Append(used, h) /\ pending' = TRUE
  /\ UNCHANGED <<dvars, avail, isr, tvars>>

----------------------------------------------------------------------------
(* virtio_disk_intr, under vdisk_lock from IntrEnter to IntrAck *)

IntrEnter ==
  /\ pending /\ isr = "off" /\ isr' = "loop"
  /\ UNCHANGED <<dvars, avail, used, pending, busy, tvars, data, disk>>

\* Mutant: every entry of one interrupt is taken for the first one.
IntrOneRepeated ==
  /\ isr = "loop" /\ Len(used) % VIRTIO_NUM # 0
  /\ LET b == info[Head(used)] IN
       /\ bdisk' = [bdisk EXCEPT ![b] = FALSE]
       /\ pc' = [pc EXCEPT ![b] = IF @ = "wait" THEN "woken" ELSE @]
  /\ used' = <<>>
  /\ UNCHANGED <<dvars, avail, pending, isr, busy, idx0, write, data, disk>>

IntrOne ==
  /\ isr = "loop" /\ Len(used) % VIRTIO_NUM # 0
  /\ LET b == info[Head(used)] IN
       /\ bdisk' = [bdisk EXCEPT ![b] = FALSE]
       /\ pc' = [pc EXCEPT ![b] = IF @ = "wait" THEN "woken" ELSE @]
  /\ used' = Tail(used)
  /\ UNCHANGED <<dvars, avail, pending, isr, busy, idx0, write, data, disk>>

IntrLoopEnd ==
  /\ isr = "loop" /\ Len(used) % VIRTIO_NUM = 0 /\ isr' = "ack"
  /\ UNCHANGED <<dvars, avail, used, pending, busy, tvars, data, disk>>

IntrAck ==
  /\ isr = "ack" /\ isr' = "off" /\ pending' = FALSE
  /\ UNCHANGED <<dvars, avail, used, busy, tvars, data, disk>>

Driver(t) == Submit(t) \/ NoDesc(t) \/ Finish(t)
Handler == IntrEnter \/ IntrOne \/ IntrLoopEnd \/ IntrAck
Device == DevTake \/ \E h \in Desc : DevDone(h)

Next ==
  \/ \E t \in Threads : Driver(t) \/ \E w \in BOOLEAN : Call(t, w)
  \/ Handler \/ Device

Spec == Init /\ [][Next]_vars

\* Runnable threads are scheduled, the device works, its interrupt is taken.
FairSpec ==
  Spec /\ WF_vars(Handler) /\ WF_vars(Device) /\ \A t \in Threads : WF_vars(Driver(t))

----------------------------------------------------------------------------
(* Properties *)

Holders == {t \in Threads : pc[t] \in {"wait", "woken"}}

\* The chains of the requests in progress are apart and cover what is not free.
ChainsExact ==
  /\ \A t \in Holders : Cardinality(Chain(idx0[t])) = 3
  /\ \A t, u \in Holders : t # u => Chain(idx0[t]) \intersect Chain(idx0[u]) = {}
  /\ UNION {Chain(idx0[t]) : t \in Holders} = Desc \ FreeDescs

\* The entries of the rings and of the device are those of the unfinished requests.
PlacesExact ==
  /\ Len(avail) + Cardinality(busy) + Len(used) =
       Cardinality({t \in Threads : bdisk[t]})
  /\ Range(avail) \union busy \union Range(used) =
       {idx0[t] : t \in {u \in Threads : bdisk[u]}}

\* A descriptor is in use exactly while it is in the chain of one request in
\* progress, and a chain is three descriptors: none leaks, none is shared,
\* and free_desc never meets a free descriptor (its second panic).  Each
\* request is in exactly one place (avail ring, device, used ring, or
\* finished), and the used ring never holds VIRTIO_NUM entries, where the
\* handler's modulus would take it for empty.
RequestsAccounted ==
  TypeOK /\ ChainsExact /\ PlacesExact /\ Len(used) < VIRTIO_NUM

\* When virtio_disk_rw returns the transfer has been done: what was read is
\* the block on the disk, what was written is on the disk.
TransferDone == \A t \in Threads : pc[t] = "idle" => data[t] = disk[t]

\* No thread sleeps for descriptors that are there, unless another waiter is
\* awake and on its way to take them.
DescWakeupNotLost ==
  (\E t \in Threads : pc[t] = "nodesc") =>
    \/ Cardinality(FreeDescs) < 3 /\ Holders # {}
    \/ \E t \in Threads : pc[t] = "try"

----------------------------------------------------------------------------
(* What the comments and assertions of the code say, and the model refutes *)

\* virtio.c line 205: virtio_disk_intr tells a waiting thread that its request
\* has finished.
RequestFinishes == \A t \in Threads : pc[t] = "wait" ~> pc[t] = "idle"

=============================================================================
