------------------------------ MODULE AbsLine ------------------------------
(***************************************************************************)
(* What the console promises of its input: characters typed are edited at  *)
(* the end of the current line, become readable when the line is finished  *)
(* or the buffer is full, and are read once each, in order.                *)
(***************************************************************************)
EXTENDS Naturals, Sequences

CONSTANTS
  Chars,      \* ordinary characters
  NL,         \* '\n'
  BufSize     \* characters that are kept at most

VARIABLES
  ready,      \* finished input that nobody has read
  line        \* the line being edited

Init == ready = <<>> /\ line = <<>>

Size == Len(ready) + Len(line)

Type(c) ==
  /\ Size < BufSize
  /\ IF c = NL \/ Size + 1 = BufSize
     THEN ready' = ready \o Append(line, c) /\ line' = <<>>
     ELSE line' = Append(line, c) /\ UNCHANGED ready

Erase ==
  /\ line # <<>> /\ line' = SubSeq(line, 1, Len(line) - 1)
  /\ UNCHANGED ready

Kill == line # <<>> /\ line' = <<>> /\ UNCHANGED ready

Read == ready # <<>> /\ ready' = Tail(ready) /\ UNCHANGED line

Next == (\E c \in Chars \union {NL} : Type(c)) \/ Erase \/ Kill \/ Read

Spec == Init /\ [][Next]_<<ready, line>>

=============================================================================
