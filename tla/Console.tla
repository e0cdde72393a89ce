------------------------------ MODULE Console ------------------------------
(***************************************************************************)
(* Console input, src/kernel/lib/console.c: cons_edit, called for every    *)
(* character by the UART interrupt, and cons_read, called by processes,    *)
(* share a ring of CONSOLE_INPUT_BUF characters with three indices:        *)
(* read_idx up to which it is read, writ_idx up to which it may be read,   *)
(* edit_idx up to which it is typed.                                       *)
(*                                                                         *)
(* Both sides work under cons.lk with interrupts off.  cons_edit is one    *)
(* step; cons_read takes one step per character and keeps the lock between *)
(* them.  proc_sleep releases the lock and sleeps atomically (SleepLock,   *)
(* WakeupNotLost).  The indices are ints: edit_idx goes back when the line *)
(* is edited, the others only grow; MaxTyped keeps them small, far from    *)
(* the overflow at 2^31 characters.  Output (cons_putc and cons_write)     *)
(* changes no state.                                                       *)
(***************************************************************************)
EXTENDS Naturals, Sequences

CONSTANTS
  CONSOLE_INPUT_BUF,  \* size of the ring
  Chars, NL,          \* ordinary characters, and '\n' ('\r' becomes it)
  Readers, NoReader,  \* processes that read the console
  MaxLen,             \* bound on the length asked of cons_read
  MaxTyped            \* bound on the characters accepted

ASSUME BufAssumption == CONSOLE_INPUT_BUF \in Nat \ {0}
ASSUME CharsAssumption == NL \notin Chars /\ NoReader \notin Readers
ASSUME BoundAssumption == MaxLen \in Nat /\ MaxTyped \in Nat

VARIABLES
  buf, read_idx, writ_idx, edit_idx,   \* console_t
  lk,                                  \* the reader that holds cons.lk
  pc,                                  \* each reader: "out", "in", "asleep"
  want                                 \* len - read_len of each reader

ivars == <<read_idx, writ_idx, edit_idx>>
rvars == <<lk, pc, want>>
vars == <<buf, ivars, rvars>>

Slots == 0 .. (CONSOLE_INPUT_BUF - 1)
At(i) == buf[i % CONSOLE_INPUT_BUF]

\* The type invariant.
TypeOK ==
  /\ buf \in [Slots -> Chars \union {NL}]
  /\ read_idx \in Nat /\ writ_idx \in Nat /\ edit_idx \in Nat
  /\ lk \in Readers \union {NoReader}
  /\ pc \in [Readers -> {"out", "in", "asleep"}]
  /\ want \in [Readers -> 0 .. MaxLen]

\* cons_init; what the ring holds before it is written does not matter.
Init ==
  /\ buf = [s \in Slots |-> NL]
  /\ read_idx = 0 /\ writ_idx = 0 /\ edit_idx = 0
  /\ lk = NoReader
  /\ pc = [r \in Readers |-> "out"] /\ want = [r \in Readers |-> 0]

----------------------------------------------------------------------------
(* cons_edit *)

\* Ctrl-U: back to the last newline or to what may already be read.
KillStart ==
  CHOOSE i \in writ_idx .. edit_idx :
    /\ \A j \in i .. (edit_idx - 1) : At(j) # NL
    /\ i = writ_idx \/ At(i - 1) = NL

EditKill ==
  /\ lk = NoReader /\ edit_idx' = KillStart
  /\ UNCHANGED <<buf, read_idx, writ_idx, rvars>>

EditErase ==
  /\ lk = NoReader /\ edit_idx # writ_idx
  /\ edit_idx' = edit_idx - 1
  /\ UNCHANGED <<buf, read_idx, writ_idx, rvars>>

Accepts == edit_idx - read_idx < CONSOLE_INPUT_BUF
\* Mutant: the index is incremented before the store.
PutAhead(c) ==
  /\ buf' = [buf EXCEPT ![(edit_idx + 1) % CONSOLE_INPUT_BUF] = c]
  /\ edit_idx' = edit_idx + 1
Put(c) ==
  /\ buf' = [buf EXCEPT ![edit_idx % CONSOLE_INPUT_BUF] = c]
  /\ edit_idx' = edit_idx + 1

\* proc_wakeup(&cons.read_idx)
WakeReaders == pc' = [r \in Readers |-> IF pc[r] = "asleep" THEN "in" ELSE pc[r]]

\* Mutants: a full buffer is not announced; the readers are not woken.
EditCharOnlyNL(c) ==
  /\ lk = NoReader /\ Accepts /\ edit_idx < MaxTyped
  /\ Put(c)
  /\ IF c = NL
     THEN writ_idx' = edit_idx' /\ WakeReaders
     ELSE UNCHANGED <<writ_idx, pc>>
  /\ UNCHANGED <<read_idx, lk, want>>
EditCharNoWakeup(c) ==
  /\ lk = NoReader /\ Accepts /\ edit_idx < MaxTyped
  /\ Put(c)
  /\ writ_idx' = IF c = NL \/ edit_idx' = read_idx + CONSOLE_INPUT_BUF
                 THEN edit_idx' ELSE writ_idx
  /\ UNCHANGED <<read_idx, rvars>>

\* Any other character (a NUL, and one that finds the ring full, is dropped).
EditChar(c) ==
  /\ lk = NoReader /\ Accepts /\ edit_idx < MaxTyped
  /\ Put(c)
  /\ IF c = NL \/ edit_idx' = read_idx + CONSOLE_INPUT_BUF
     THEN writ_idx' = edit_idx' /\ WakeReaders
     ELSE UNCHANGED <<writ_idx, pc>>
  /\ UNCHANGED <<read_idx, lk, want>>

----------------------------------------------------------------------------
(* cons_read *)

ReadCall(r, n) ==
  /\ pc[r] = "out"
  /\ pc' = [pc EXCEPT ![r] = "in"] /\ want' = [want EXCEPT ![r] = n]
  /\ UNCHANGED <<buf, ivars, lk>>

\* The reader takes cons.lk, at the start or when proc_sleep returns.
ReadLock(r) ==
  /\ pc[r] = "in" /\ lk = NoReader /\ lk' = r
  /\ UNCHANGED <<buf, ivars, pc, want>>

\* proc_sleep on an empty ring.
ReadSleep(r) ==
  /\ lk = r /\ want[r] > 0 /\ read_idx = writ_idx
  /\ lk' = NoReader /\ pc' = [pc EXCEPT ![r] = "asleep"]
  /\ UNCHANGED <<buf, ivars, want>>

\* One character; a newline ends the read (break).
ReadChar(r) ==
  /\ lk = r /\ want[r] > 0 /\ read_idx # writ_idx
  /\ read_idx' = read_idx + 1
  /\ want' = [want EXCEPT ![r] = IF At(read_idx) = NL THEN 0 ELSE @ - 1]
  /\ UNCHANGED <<buf, writ_idx, edit_idx, lk, pc>>

ReadDone(r) ==
  /\ lk = r /\ want[r] = 0
  /\ lk' = NoReader /\ pc' = [pc EXCEPT ![r] = "out"]
  /\ UNCHANGED <<buf, ivars, want>>

Reader(r) == ReadLock(r) \/ ReadSleep(r) \/ ReadChar(r) \/ ReadDone(r)

Next ==
  \/ EditKill \/ EditErase \/ \E c \in Chars \union {NL} : EditChar(c)
  \/ \E r \in Readers : Reader(r) \/ \E n \in 0 .. MaxLen : ReadCall(r, n)

Spec == Init /\ [][Next]_vars

----------------------------------------------------------------------------
(* Properties *)

\* The indices stay in order and the ring never holds more than it has room
\* for, so no unread character is overwritten; and a full ring can be read:
\* otherwise cons_edit would drop every character and no reader make room.
IndicesOrdered ==
  /\ TypeOK
  /\ read_idx <= writ_idx /\ writ_idx <= edit_idx
  /\ edit_idx <= read_idx + CONSOLE_INPUT_BUF
  /\ edit_idx = read_idx + CONSOLE_INPUT_BUF => read_idx # writ_idx

\* No reader sleeps while there is input to read.
ReaderWoken == \A r \in Readers : pc[r] = "asleep" => read_idx = writ_idx

----------------------------------------------------------------------------
(* Refinement *)

Between(i, j) == [k \in 1 .. (j - i) |-> At(i + k - 1)]

Abs == INSTANCE AbsLine WITH
         ready <- Between(read_idx, writ_idx), line <- Between(writ_idx, edit_idx),
         BufSize <- CONSOLE_INPUT_BUF

\* cons_edit and cons_read implement the line discipline: the characters of
\* finished lines are read once each and in the order typed.
ImplementsAbsLine == Abs!Spec

=============================================================================
