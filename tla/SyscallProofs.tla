--------------------------- MODULE SyscallProofs ---------------------------
(***************************************************************************)
(* Theorems about what system calls reach of the console and of the file   *)
(* system: the line that is typed (Console) and the tree of directories    *)
(* (Tree), for every value of their constants.                             *)
(*                                                                         *)
(* Console: for every ring size, number of readers and length of a read.   *)
(* IndicesOrdered alone is not inductive: that Ctrl-U stays within the     *)
(* line needs that the unfinished line holds no newline, and that in turn  *)
(* needs that two indices less than CONSOLE_INPUT_BUF apart never share a  *)
(* slot of the ring.                                                       *)
(*                                                                         *)
(* Tree: for every number of processes, names, inodes and blocks, paths of *)
(* any length and directories of any size, for careful users.  The three   *)
(* properties are not inductive: a walk stays on inodes that exist only    *)
(* because "." leads back, ".." to the one parent, and every directory in  *)
(* use can be reached from the root (TreeInv).                             *)
(***************************************************************************)
EXTENDS Console, Tree, FiniteSetTheorems, SequenceTheorems, WellFoundedInduction, TLAPS

----------------------------------------------------------------------------
(* CONSOLE *)

\* A newline finishes the line, so the part still edited has none.
LineUnfinished == \A j \in writ_idx .. (edit_idx - 1) : At(j) # NL

IndInv == IndicesOrdered /\ ReaderWoken /\ LineUnfinished

----------------------------------------------------------------------------
(* The ring *)

\* Division with remainder, in the form the next lemma uses it.
LEMMA DivMod ==
  ASSUME NEW n \in Nat \ {0}, NEW a \in Nat
  PROVE  /\ a % n \in Nat /\ a % n \in 0 .. (n - 1)
         /\ a \div n \in Nat /\ a = n * (a \div n) + (a % n)
OBVIOUS

\* Indices less than a ring apart are in different slots.
LEMMA SlotsDistinct ==
  ASSUME NEW n \in Nat \ {0}, NEW a \in Nat, NEW b \in Nat, a < b, b < a + n
  PROVE  a % n # b % n
<1> SUFFICES ASSUME a % n = b % n PROVE FALSE
  OBVIOUS
<1> DEFINE qa == a \div n
           qb == b \div n
           m == a % n
<1>1. m \in Nat /\ qa \in Nat /\ a = n * qa + m
  BY DivMod, Zenon
<1>2. qb \in Nat /\ b = n * qb + m
  BY DivMod, Zenon
<1> HIDE DEF qa, qb, m
<1>3. b - a = n * (qb - qa)
  BY <1>1, <1>2
<1>4. CASE qb - qa >= 1
  <2>1. n * (qb - qa) >= n
    BY <1>1, <1>2, <1>4
  <2> QED
    BY <2>1, <1>3
<1>5. CASE qb - qa <= 0
  <2>1. n * (qb - qa) <= 0
    BY <1>1, <1>2, <1>5
  <2> QED
    BY <2>1, <1>3
<1> QED
  BY <1>1, <1>2, <1>4, <1>5

\* Storing the next character leaves every character that is kept in place.
LEMMA PutKeeps ==
  ASSUME IndicesOrdered, Accepts, NEW c \in Chars \union {NL}, Put(c)
  PROVE  /\ \A j \in read_idx .. (edit_idx - 1) : At(j)' = At(j)
         /\ buf'[edit_idx % CONSOLE_INPUT_BUF] = c
         /\ edit_idx' = edit_idx + 1 /\ buf' \in [Slots -> Chars \union {NL}]
<1> USE DEF IndicesOrdered, TypeOK, Accepts, Put
<1>1. edit_idx % CONSOLE_INPUT_BUF \in Slots
  BY BufAssumption, DivMod DEF Slots
<1>2. ASSUME NEW j \in read_idx .. (edit_idx - 1)
      PROVE  At(j)' = At(j)
  <2>1. j \in Nat /\ j < edit_idx /\ edit_idx < j + CONSOLE_INPUT_BUF
    BY BufAssumption
  <2>2. j % CONSOLE_INPUT_BUF # edit_idx % CONSOLE_INPUT_BUF
    BY <2>1, SlotsDistinct, BufAssumption
  <2>3. j % CONSOLE_INPUT_BUF \in Slots
    BY <2>1, BufAssumption, DivMod DEF Slots
  <2> QED
    BY <2>2, <2>3 DEF At
<1>3. buf'[edit_idx % CONSOLE_INPUT_BUF] = c
  BY <1>1
<1> QED
  BY <1>1, <1>2, <1>3 DEF At

\* Ctrl-U clears the whole unfinished line and nothing else.
LEMMA KillClearsLine ==
  ASSUME IndicesOrdered, LineUnfinished
  PROVE  KillStart = writ_idx
<1> DEFINE P(i) == /\ \A j \in i .. (edit_idx - 1) : At(j) # NL
                   /\ i = writ_idx \/ At(i - 1) = NL
<1> USE DEF IndicesOrdered, TypeOK, LineUnfinished
<1>1. writ_idx \in writ_idx .. edit_idx /\ P(writ_idx)
  OBVIOUS
<1>2. ASSUME NEW i \in writ_idx .. edit_idx, P(i)
      PROVE  i = writ_idx
  <2> SUFFICES ASSUME i # writ_idx PROVE FALSE
    OBVIOUS
  <2>1. At(i - 1) = NL
    BY <1>2
  <2>2. i - 1 \in writ_idx .. (edit_idx - 1)
    OBVIOUS
  <2> QED
    BY <2>1, <2>2
<1>3. KillStart = CHOOSE i \in writ_idx .. edit_idx : P(i)
  BY DEF KillStart
<1> HIDE DEF P
<1> QED
  BY <1>1, <1>2, <1>3

----------------------------------------------------------------------------
(* The inductive invariant *)

\* cons_init establishes the invariant.
LEMMA IndInvInit == Init => IndInv
BY BufAssumption, CharsAssumption, BoundAssumption
   DEF Init, IndInv, IndicesOrdered, TypeOK, ReaderWoken, LineUnfinished, Slots

\* Steps of cons_edit preserve the invariant.
LEMMA EditStep ==
  ASSUME IndInv,
         EditKill \/ EditErase \/ \E c \in Chars \union {NL} : EditChar(c)
  PROVE  IndInv'
<1> USE BufAssumption DEF IndInv, IndicesOrdered, TypeOK, ReaderWoken, rvars
<1>1. CASE EditKill
  <2>1. edit_idx' = writ_idx
    BY <1>1, KillClearsLine DEF EditKill
  <2>2. LineUnfinished'
    BY <1>1, <2>1 DEF EditKill, LineUnfinished
  <2> QED
    BY <1>1, <2>1, <2>2 DEF EditKill
<1>2. CASE EditErase
  <2>1. \A j : At(j)' = At(j)
    BY <1>2 DEF EditErase, At
  <2>2. writ_idx' .. (edit_idx' - 1) \subseteq writ_idx .. (edit_idx - 1)
    BY <1>2 DEF EditErase
  <2>3. LineUnfinished'
    BY <2>1, <2>2 DEF LineUnfinished
  <2> QED
    BY <1>2, <2>3 DEF EditErase
<1>3. ASSUME NEW c \in Chars \union {NL}, EditChar(c)
      PROVE  IndInv'
  <2>1. /\ \A j \in read_idx .. (edit_idx - 1) : At(j)' = At(j)
        /\ buf'[edit_idx % CONSOLE_INPUT_BUF] = c
        /\ edit_idx' = edit_idx + 1 /\ buf' \in [Slots -> Chars \union {NL}]
    BY <1>3, PutKeeps DEF EditChar
  <2>2. UNCHANGED <<read_idx, lk, want>> /\ edit_idx - read_idx < CONSOLE_INPUT_BUF
    BY <1>3 DEF EditChar, Accepts
  <2>3. CASE c = NL \/ edit_idx' = read_idx + CONSOLE_INPUT_BUF
    <3>1. writ_idx' = edit_idx' /\ WakeReaders
      BY <1>3, <2>3 DEF EditChar
    <3>2. pc' \in [Readers -> {"out", "in", "asleep"}] /\ ReaderWoken'
      BY <3>1 DEF WakeReaders
    <3>3. LineUnfinished'
      BY <2>1, <3>1 DEF LineUnfinished
    <3> QED
      BY <2>1, <2>2, <3>1, <3>2, <3>3
  <2>4. CASE ~ (c = NL \/ edit_idx' = read_idx + CONSOLE_INPUT_BUF)
    <3>1. UNCHANGED <<writ_idx, pc>>
      BY <1>3, <2>4 DEF EditChar
    <3>2. ASSUME NEW j \in writ_idx' .. (edit_idx' - 1) PROVE At(j)' # NL
      <4>1. CASE j = edit_idx
        BY <4>1, <2>1, <2>4 DEF At
      <4>2. CASE j # edit_idx
        BY <4>2, <2>1, <3>1 DEF LineUnfinished
      <4> QED
        BY <4>1, <4>2
    <3>3. LineUnfinished'
      BY <3>2 DEF LineUnfinished
    <3> QED
      BY <2>1, <2>2, <2>4, <3>1, <3>3
  <2> QED
    BY <2>3, <2>4
<1> QED
  BY <1>1, <1>2, <1>3

\* Steps of cons_read preserve the invariant.
LEMMA ReadStep ==
  ASSUME IndInv, NEW r \in Readers,
         Reader(r) \/ \E n \in 0 .. MaxLen : ReadCall(r, n)
  PROVE  IndInv'
<1> USE BufAssumption, BoundAssumption
    DEF IndInv, IndicesOrdered, TypeOK, ReaderWoken, ivars
<1>1. ASSUME NEW n \in 0 .. MaxLen, ReadCall(r, n) PROVE IndInv'
  BY <1>1 DEF ReadCall, LineUnfinished, At
<1>2. CASE ReadLock(r)
  BY <1>2 DEF ReadLock, LineUnfinished, At
<1>3. CASE ReadSleep(r)
  BY <1>3 DEF ReadSleep, LineUnfinished, At
<1>4. CASE ReadChar(r)
  <2>1. want' \in [Readers -> 0 .. MaxLen]
    BY <1>4 DEF ReadChar
  <2>2. LineUnfinished'
    BY <1>4 DEF ReadChar, LineUnfinished, At
  <2> QED
    BY <1>4, <2>1, <2>2 DEF ReadChar
<1>5. CASE ReadDone(r)
  BY <1>5 DEF ReadDone, LineUnfinished, At
<1> QED
  BY <1>1, <1>2, <1>3, <1>4, <1>5 DEF Reader

\* The invariant holds in every reachable state.
THEOREM InvariantHolds == Spec => []IndInv
<1>1. IndInv /\ [Next]_vars => IndInv'
  <2> SUFFICES ASSUME IndInv, [Next]_vars PROVE IndInv'
    OBVIOUS
  <2>1. CASE UNCHANGED vars
    BY <2>1 DEF vars, ivars, rvars, IndInv, IndicesOrdered, TypeOK, ReaderWoken,
       LineUnfinished, At
  <2> QED
    BY <2>1, EditStep, ReadStep DEF Next
<1> QED
  BY <1>1, IndInvInit, PTL DEF Spec

\* read_idx <= writ_idx <= edit_idx <= read_idx + CONSOLE_INPUT_BUF: cons_edit
\* overwrites no unread character, and a full ring has something to read.
THEOREM ConsoleIndicesOrdered == Spec => []IndicesOrdered
<1>1. IndInv => IndicesOrdered
  BY DEF IndInv
<1> QED
  BY <1>1, InvariantHolds, PTL

\* No process sleeps in cons_read while there is input to read.
THEOREM ConsoleReaderWoken == Spec => []ReaderWoken
<1>1. IndInv => ReaderWoken
  BY DEF IndInv
<1> QED
  BY <1>1, InvariantHolds, PTL

----------------------------------------------------------------------------
(* Pieces of a ring as sequences *)

Char == Chars \union {NL}

\* The characters with indices i .. j - 1 of a ring b.
Piece(b, i, j) == [k \in 1 .. (j - i) |-> b[(i + k - 1) % CONSOLE_INPUT_BUF]]

\* A piece of the ring is a sequence of characters.
LEMMA PieceSeq ==
  ASSUME NEW b \in [Slots -> Char], NEW i \in Nat, NEW j \in Nat, i <= j
  PROVE  /\ Piece(b, i, j) \in Seq(Char) /\ Len(Piece(b, i, j)) = j - i
         /\ \A k \in 1 .. (j - i) :
              Piece(b, i, j)[k] = b[(i + k - 1) % CONSOLE_INPUT_BUF]
<1>1. ASSUME NEW k \in 1 .. (j - i)
      PROVE  b[(i + k - 1) % CONSOLE_INPUT_BUF] \in Char
  <2>1. i + k - 1 \in Nat
    OBVIOUS
  <2>2. (i + k - 1) % CONSOLE_INPUT_BUF \in Slots
    BY <2>1, DivMod, BufAssumption DEF Slots
  <2> QED
    BY <2>2
<1>2. j - i \in Nat
  OBVIOUS
<1> QED
  BY <1>1, <1>2 DEF Piece

\* A sequence with the length and the characters of a piece is that piece.
LEMMA PieceEqual ==
  ASSUME NEW b \in [Slots -> Char], NEW i \in Nat, NEW j \in Nat, i <= j,
         NEW s \in Seq(Char), Len(s) = j - i,
         \A k \in 1 .. (j - i) : s[k] = b[(i + k - 1) % CONSOLE_INPUT_BUF]
  PROVE  s = Piece(b, i, j)
<1> DEFINE t == Piece(b, i, j)
<1>1. t \in Seq(Char) /\ Len(t) = j - i
  BY PieceSeq
<1>2. \A k \in 1 .. (j - i) : t[k] = b[(i + k - 1) % CONSOLE_INPUT_BUF]
  BY PieceSeq
<1> HIDE DEF t
<1>3. \A k \in 1 .. Len(s) : s[k] = t[k]
  BY <1>1, <1>2
<1>4. s = t
  BY <1>1, <1>3, SeqEqual
<1> QED
  BY <1>4 DEF t

\* A store outside a piece leaves it as it was.
LEMMA PieceKept ==
  ASSUME NEW b \in [Slots -> Char], NEW d \in [Slots -> Char],
         NEW i \in Nat, NEW j \in Nat, i <= j,
         \A k \in i .. (j - 1) : d[k % CONSOLE_INPUT_BUF] = b[k % CONSOLE_INPUT_BUF]
  PROVE  Piece(d, i, j) = Piece(b, i, j)
<1>1. \A k \in 1 .. (j - i) : i + k - 1 \in i .. (j - 1)
  OBVIOUS
<1> QED
  BY <1>1 DEF Piece

\* Adjacent pieces make up one piece.
LEMMA PieceConcat ==
  ASSUME NEW b \in [Slots -> Char], NEW i \in Nat, NEW m \in Nat, NEW j \in Nat,
         i <= m, m <= j
  PROVE  Piece(b, i, m) \o Piece(b, m, j) = Piece(b, i, j)
<1> DEFINE s == Piece(b, i, m)
           t == Piece(b, m, j)
<1>1. s \in Seq(Char) /\ Len(s) = m - i
      /\ \A k \in 1 .. (m - i) : s[k] = b[(i + k - 1) % CONSOLE_INPUT_BUF]
  BY PieceSeq
<1>2. t \in Seq(Char) /\ Len(t) = j - m
      /\ \A k \in 1 .. (j - m) : t[k] = b[(m + k - 1) % CONSOLE_INPUT_BUF]
  BY PieceSeq
<1> HIDE DEF s, t
<1>3. s \o t \in Seq(Char) /\ Len(s \o t) = j - i
  BY <1>1, <1>2
<1>4. ASSUME NEW k \in 1 .. (j - i)
      PROVE  (s \o t)[k] = b[(i + k - 1) % CONSOLE_INPUT_BUF]
  <2>1. (s \o t)[k] = IF k <= m - i THEN s[k] ELSE t[k - (m - i)]
    BY <1>1, <1>2, ConcatProperties
  <2>2. CASE k <= m - i
    BY <2>1, <2>2, <1>1
  <2>3. CASE ~ k <= m - i
    <3>1. k - (m - i) \in 1 .. (j - m) /\ m + (k - (m - i)) - 1 = i + k - 1
      BY <2>3
    <3> QED
      BY <2>1, <2>3, <3>1, <1>2
  <2> QED
    BY <2>2, <2>3
<1>5. i <= j
  OBVIOUS
<1>6. s \o t = Piece(b, i, j)
  BY <1>3, <1>4, <1>5, PieceEqual, Zenon
<1> QED
  BY <1>6 DEF s, t

\* One more index appends one character.
LEMMA PieceAppend ==
  ASSUME NEW b \in [Slots -> Char], NEW i \in Nat, NEW j \in Nat, i <= j,
         NEW c \in Char, b[j % CONSOLE_INPUT_BUF] = c
  PROVE  Append(Piece(b, i, j), c) = Piece(b, i, j + 1)
<1> DEFINE s == Piece(b, i, j)
<1>1. s \in Seq(Char) /\ Len(s) = j - i
      /\ \A k \in 1 .. (j - i) : s[k] = b[(i + k - 1) % CONSOLE_INPUT_BUF]
  BY PieceSeq
<1> HIDE DEF s
<1>2. Append(s, c) \in Seq(Char) /\ Len(Append(s, c)) = (j + 1) - i
  BY <1>1, AppendProperties
<1>3. ASSUME NEW k \in 1 .. ((j + 1) - i)
      PROVE  Append(s, c)[k] = b[(i + k - 1) % CONSOLE_INPUT_BUF]
  <2>1. CASE k = Len(s) + 1
    <3>1. i + k - 1 = j
      BY <1>1, <2>1
    <3> QED
      BY <1>1, <2>1, <3>1, AppendProperties
  <2>2. CASE k # Len(s) + 1
    <3>1. k \in 1 .. (j - i)
      BY <1>1, <2>2
    <3> QED
      BY <1>1, <3>1, AppendProperties
  <2> QED
    BY <2>1, <2>2
<1>4. j + 1 \in Nat /\ i <= j + 1
  OBVIOUS
<1>5. Append(s, c) = Piece(b, i, j + 1)
  BY <1>2, <1>3, <1>4, PieceEqual, Zenon
<1> QED
  BY <1>5 DEF s

\* One index less at the end takes the last character off.
LEMMA PieceErase ==
  ASSUME NEW b \in [Slots -> Char], NEW i \in Nat, NEW j \in Nat, i < j
  PROVE  /\ Piece(b, i, j) # << >>
         /\ SubSeq(Piece(b, i, j), 1, Len(Piece(b, i, j)) - 1) = Piece(b, i, j - 1)
<1> DEFINE s == Piece(b, i, j)
           t == SubSeq(s, 1, Len(s) - 1)
<1>0. i <= j /\ i + 1 \in Nat /\ i + 1 <= j /\ j - 1 \in Nat /\ i <= j - 1
  OBVIOUS
<1>1. s \in Seq(Char) /\ Len(s) = j - i
      /\ \A k \in 1 .. (j - i) : s[k] = b[(i + k - 1) % CONSOLE_INPUT_BUF]
  BY <1>0, PieceSeq, Zenon
<1> HIDE DEF s
<1>2. s # << >>
  BY <1>1
<1>3. \A k \in 1 .. (Len(s) - 1) : s[k] \in Char
  BY <1>1
<1>4. /\ t \in Seq(Char) /\ Len(t) = (j - 1) - i
      /\ \A k \in 1 .. ((j - 1) - i) : t[k] = s[k]
  BY <1>1, <1>3
<1> HIDE DEF t
<1>5. t = Piece(b, i, j - 1)
  <2>1. \A k \in 1 .. ((j - 1) - i) : t[k] = b[(i + k - 1) % CONSOLE_INPUT_BUF]
    BY <1>1, <1>4
  <2> QED
    BY <1>0, <1>4, <2>1, PieceEqual, Zenon
<1> QED
  BY <1>2, <1>5 DEF s, t

\* One index more at the start takes the first character off.
LEMMA PieceTail ==
  ASSUME NEW b \in [Slots -> Char], NEW i \in Nat, NEW j \in Nat, i < j
  PROVE  /\ Piece(b, i, j) # << >>
         /\ Tail(Piece(b, i, j)) = Piece(b, i + 1, j)
<1> DEFINE s == Piece(b, i, j)
<1>0. i <= j /\ i + 1 \in Nat /\ i + 1 <= j /\ j - 1 \in Nat /\ i <= j - 1
  OBVIOUS
<1>1. s \in Seq(Char) /\ Len(s) = j - i
      /\ \A k \in 1 .. (j - i) : s[k] = b[(i + k - 1) % CONSOLE_INPUT_BUF]
  BY <1>0, PieceSeq, Zenon
<1> HIDE DEF s
<1>2. s # << >>
  BY <1>1
<1>3. /\ Tail(s) \in Seq(Char) /\ Len(Tail(s)) = j - (i + 1)
      /\ \A k \in 1 .. (j - (i + 1)) : Tail(s)[k] = s[k + 1]
  BY <1>1, <1>2
<1>4. ASSUME NEW k \in 1 .. (j - (i + 1))
      PROVE  Tail(s)[k] = b[((i + 1) + k - 1) % CONSOLE_INPUT_BUF]
  <2>1. k + 1 \in 1 .. (j - i) /\ i + (k + 1) - 1 = (i + 1) + k - 1
    OBVIOUS
  <2>2. Tail(s)[k] = s[k + 1]
    BY <1>3
  <2>3. s[k + 1] = b[(i + (k + 1) - 1) % CONSOLE_INPUT_BUF]
    BY <2>1, <1>1
  <2> QED
    BY <2>1, <2>2, <2>3
<1>5. Tail(s) = Piece(b, i + 1, j)
  BY <1>0, <1>3, <1>4, PieceEqual, Zenon
<1> QED
  BY <1>2, <1>5 DEF s

----------------------------------------------------------------------------
(* Refinement *)

\* Each step of cons_edit on a character is a Type step of the line discipline.
LEMMA EditCharRefines ==
  ASSUME IndInv, NEW c \in Char, EditChar(c)
  PROVE  Abs!Type(c)
<1>0. /\ buf \in [Slots -> Char] /\ IndicesOrdered
      /\ read_idx \in Nat /\ writ_idx \in Nat /\ edit_idx \in Nat
      /\ read_idx <= writ_idx /\ writ_idx <= edit_idx
  BY DEF IndInv, IndicesOrdered, TypeOK, Char
<1> DEFINE R == Piece(buf, read_idx, writ_idx)
           L == Piece(buf, writ_idx, edit_idx)
           N == CONSOLE_INPUT_BUF
<1>1. R \in Seq(Char) /\ Len(R) = writ_idx - read_idx
  BY <1>0, PieceSeq, Zenon
<1>2. L \in Seq(Char) /\ Len(L) = edit_idx - writ_idx
  BY <1>0, PieceSeq, Zenon
<1>3. Between(read_idx, writ_idx) = R /\ Between(writ_idx, edit_idx) = L
  BY DEF Between, Piece, At
<1>4. /\ Between(read_idx, writ_idx)' = Piece(buf', read_idx, writ_idx')
      /\ Between(writ_idx, edit_idx)' = Piece(buf', writ_idx', edit_idx')
  BY DEF Between, Piece, At, EditChar
<1>5. /\ \A j \in read_idx .. (edit_idx - 1) : buf'[j % N] = buf[j % N]
      /\ buf'[edit_idx % N] = c
      /\ edit_idx' = edit_idx + 1 /\ buf' \in [Slots -> Char]
  BY <1>0, PutKeeps DEF EditChar, At, Char
<1>6. Piece(buf', read_idx, writ_idx) = R
  <2>1. \A j \in read_idx .. (writ_idx - 1) : buf'[j % N] = buf[j % N]
    BY <1>0, <1>5
  <2> QED
    BY <1>0, <1>5, <2>1, PieceKept, Zenon
<1>7. Piece(buf', writ_idx, edit_idx + 1) = Append(L, c)
  <2>1. Piece(buf', writ_idx, edit_idx) = L
    <3>1. \A j \in writ_idx .. (edit_idx - 1) : buf'[j % N] = buf[j % N]
      BY <1>0, <1>5
    <3> QED
      BY <1>0, <1>5, <3>1, PieceKept, Zenon
  <2>2. Append(Piece(buf', writ_idx, edit_idx), c) = Piece(buf', writ_idx, edit_idx + 1)
    BY <1>0, <1>5, PieceAppend, Zenon
  <2> QED
    BY <2>1, <2>2
<1>8. edit_idx - read_idx < N
  BY DEF EditChar, Accepts
<1> HIDE DEF R, L
<1>9. Len(R) + Len(L) = edit_idx - read_idx
  BY <1>0, <1>1, <1>2
<1>10. CASE c = NL \/ edit_idx' = read_idx + CONSOLE_INPUT_BUF
  <2>1. writ_idx' = edit_idx'
    BY <1>10 DEF EditChar
  <2>2. Piece(buf', read_idx, edit_idx + 1) = R \o Append(L, c)
    <3>1. writ_idx <= edit_idx + 1 /\ edit_idx + 1 \in Nat
      BY <1>0
    <3>2. Piece(buf', read_idx, writ_idx) \o Piece(buf', writ_idx, edit_idx + 1)
            = Piece(buf', read_idx, edit_idx + 1)
      BY <3>1, <1>0, <1>5, PieceConcat, Zenon
    <3> QED
      BY <3>2, <1>6, <1>7
  <2>3. Piece(buf', edit_idx + 1, edit_idx + 1) = << >>
    <3>1. Piece(buf', edit_idx + 1, edit_idx + 1) \in Seq(Char)
          /\ Len(Piece(buf', edit_idx + 1, edit_idx + 1)) = 0
      <4>1. edit_idx + 1 \in Nat /\ edit_idx + 1 <= edit_idx + 1
            /\ (edit_idx + 1) - (edit_idx + 1) = 0
        BY <1>0
      <4> QED
        BY <4>1, <1>5, PieceSeq
    <3> QED
      BY <3>1, EmptySeq
  <2>4. c = NL \/ (Len(R) + Len(L)) + 1 = N
    BY <1>0, <1>5, <1>9, <1>10, BufAssumption
  <2> QED
    BY <1>3, <1>4, <1>5, <1>8, <1>9, <2>1, <2>2, <2>3, <2>4 DEF Abs!Type, Abs!Size
<1>11. CASE ~ (c = NL \/ edit_idx' = read_idx + CONSOLE_INPUT_BUF)
  <2>1. writ_idx' = writ_idx
    BY <1>11 DEF EditChar
  <2>2. ~ (c = NL \/ (Len(R) + Len(L)) + 1 = N)
    BY <1>0, <1>5, <1>9, <1>11, BufAssumption
  <2> QED
    BY <1>3, <1>4, <1>5, <1>6, <1>7, <1>8, <1>9, <2>1, <2>2 DEF Abs!Type, Abs!Size
<1> QED
  BY <1>10, <1>11

\* What the line discipline sees of the console.
Seen == <<Between(read_idx, writ_idx), Between(writ_idx, edit_idx)>>

\* Ctrl-U is a Kill step, or finds an empty line and changes nothing.
LEMMA EditKillRefines ==
  ASSUME IndInv, EditKill
  PROVE  Abs!Kill \/ UNCHANGED Seen
<1>0. /\ buf \in [Slots -> Char]
      /\ read_idx \in Nat /\ writ_idx \in Nat /\ edit_idx \in Nat
      /\ writ_idx <= edit_idx
  BY DEF IndInv, IndicesOrdered, TypeOK, Char
<1>1. UNCHANGED <<buf, read_idx, writ_idx>> /\ edit_idx' = writ_idx
  BY KillClearsLine DEF EditKill, IndInv
<1>2. Between(read_idx, writ_idx)' = Between(read_idx, writ_idx)
  BY <1>1 DEF Between, At
<1>3. Between(writ_idx, edit_idx)' = << >>
  BY <1>0, <1>1 DEF Between
<1>4. CASE writ_idx = edit_idx
  BY <1>1, <1>4 DEF Seen, Between, At
<1>5. CASE writ_idx < edit_idx
  <2>1. Piece(buf, writ_idx, edit_idx) # << >>
    BY <1>0, <1>5, PieceTail, Zenon
  <2>2. Between(writ_idx, edit_idx) # << >>
    BY <2>1 DEF Between, Piece, At
  <2> QED
    BY <1>2, <1>3, <2>2 DEF Abs!Kill
<1> QED
  BY <1>0, <1>4, <1>5

\* Backspace is an Erase step.
LEMMA EditEraseRefines ==
  ASSUME IndInv, EditErase
  PROVE  Abs!Erase
<1>0. /\ buf \in [Slots -> Char]
      /\ read_idx \in Nat /\ writ_idx \in Nat /\ edit_idx \in Nat
      /\ writ_idx < edit_idx
  BY DEF IndInv, IndicesOrdered, TypeOK, Char, EditErase
<1>1. UNCHANGED <<buf, read_idx, writ_idx>> /\ edit_idx' = edit_idx - 1
  BY DEF EditErase
<1>2. Between(read_idx, writ_idx)' = Between(read_idx, writ_idx)
  BY <1>1 DEF Between, At
<1>3. /\ Between(writ_idx, edit_idx) = Piece(buf, writ_idx, edit_idx)
      /\ Between(writ_idx, edit_idx)' = Piece(buf, writ_idx, edit_idx - 1)
  BY <1>1 DEF Between, Piece, At
<1>4. /\ Piece(buf, writ_idx, edit_idx) # << >>
      /\ SubSeq(Piece(buf, writ_idx, edit_idx), 1,
                Len(Piece(buf, writ_idx, edit_idx)) - 1)
           = Piece(buf, writ_idx, edit_idx - 1)
  BY <1>0, PieceErase, Zenon
<1> QED
  BY <1>2, <1>3, <1>4 DEF Abs!Erase

\* One turn of the loop in cons_read is a Read step.
LEMMA ReadCharRefines ==
  ASSUME IndInv, NEW r \in Readers, ReadChar(r)
  PROVE  Abs!Read
<1>0. /\ buf \in [Slots -> Char]
      /\ read_idx \in Nat /\ writ_idx \in Nat /\ edit_idx \in Nat
      /\ read_idx < writ_idx
  BY DEF IndInv, IndicesOrdered, TypeOK, Char, ReadChar
<1>1. UNCHANGED <<buf, writ_idx, edit_idx>> /\ read_idx' = read_idx + 1
  BY DEF ReadChar
<1>2. Between(writ_idx, edit_idx)' = Between(writ_idx, edit_idx)
  BY <1>1 DEF Between, At
<1>3. /\ Between(read_idx, writ_idx) = Piece(buf, read_idx, writ_idx)
      /\ Between(read_idx, writ_idx)' = Piece(buf, read_idx + 1, writ_idx)
  BY <1>1 DEF Between, Piece, At
<1>4. /\ Piece(buf, read_idx, writ_idx) # << >>
      /\ Tail(Piece(buf, read_idx, writ_idx)) = Piece(buf, read_idx + 1, writ_idx)
  BY <1>0, PieceTail, Zenon
<1> QED
  BY <1>2, <1>3, <1>4 DEF Abs!Read

\* The console implements the line discipline: whatever is typed, erased and
\* read, by however many readers, finished lines are read once each in order.
THEOREM ConsoleRefinesLine == Spec => ImplementsAbsLine
<1>1. Init => Abs!Init
  BY DEF Init, Abs!Init, Between
<1>2. IndInv /\ [Next]_vars => [Abs!Next]_Seen
  <2> SUFFICES ASSUME IndInv, [Next]_vars PROVE Abs!Next \/ UNCHANGED Seen
    OBVIOUS
  <2>1. CASE EditKill
    BY <2>1, EditKillRefines DEF Abs!Next
  <2>2. CASE EditErase
    BY <2>2, EditEraseRefines DEF Abs!Next
  <2>3. ASSUME NEW c \in Chars \union {NL}, EditChar(c) PROVE Abs!Next
    BY <2>3, EditCharRefines DEF Abs!Next, Char
  <2>4. ASSUME NEW r \in Readers, ReadChar(r) PROVE Abs!Next
    BY <2>4, ReadCharRefines DEF Abs!Next
  <2>5. ASSUME UNCHANGED <<buf, ivars>> PROVE UNCHANGED Seen
    BY <2>5 DEF Seen, Between, At, ivars
  <2>6. CASE UNCHANGED vars
    BY <2>5, <2>6 DEF vars
  <2>7. ASSUME NEW r \in Readers,
               \/ ReadLock(r) \/ ReadSleep(r) \/ ReadDone(r)
               \/ \E n \in 0 .. MaxLen : ReadCall(r, n)
        PROVE  UNCHANGED Seen
    BY <2>5, <2>7 DEF ReadLock, ReadSleep, ReadDone, ReadCall, ivars
  <2> QED
    BY <2>1, <2>2, <2>3, <2>4, <2>6, <2>7 DEF Next, Reader
<1> QED
  BY <1>1, <1>2, InvariantHolds, PTL DEF Spec, ImplementsAbsLine, Abs!Spec, Seen

----------------------------------------------------------------------------
(* TREE *)

\* The parts of a tree, of a disk s: the root is a directory, the names in a
\* directory differ, a directory has at most one name and the root none.
RootIsDir(s) == Root \in s.alloc /\ s.type[Root] = "dir"

DistinctNames(s) ==
  \A d \in s.alloc : \A j, k \in DOMAIN s.ents[d] :
    j # k /\ s.ents[d][j] # Free => s.ents[d][j][1] # s.ents[d][k][1]

OneName(s) ==
  \A i \in Inums : s.type[i] = "dir" => \A x, y \in NamingIn(s, i) : x = y /\ i # Root

\* "." leads back to the directory, ".." of one that has a name to where the
\* name is, ".." of the root to the root.
DotsLead(s) ==
  \A d \in s.alloc : s.type[d] = "dir" => \A j \in DOMAIN s.ents[d] :
    /\ s.ents[d][j][1] = "." => s.ents[d][j][2] = d
    /\ s.ents[d][j][1] = ".." =>
         IF d = Root THEN s.ents[d][j][2] = Root
         ELSE \A x \in NamingIn(s, d) : x[1] = s.ents[d][j][2]

\* All of it.
Shape(s) == s \in Disks /\ RootIsDir(s) /\ DistinctNames(s) /\ OneName(s) /\ DotsLead(s)

\* nlink is at least the number of names.
Covered(s, i) ==
  /\ IsFiniteSet(NamingIn(s, i))
  /\ NamingIn(s, i) # {} => Cardinality(NamingIn(s, i)) <= s.nlink[i]

\* The inductive invariant: the shape of a tree and the properties, and that a
\* file never has a negative count and every working directory can be reached.
TreeInv ==
  /\ TreeTypeOK /\ Shape(disk) /\ (\A i \in Inums : Covered(disk, i)) /\ UsedStaysAllocated
  /\ \A i \in Inums : disk.type[i] = "data" => disk.nlink[i] >= 0
  /\ \A p \in Procs : cwd[p] \in Reachable

----------------------------------------------------------------------------
(* Entries *)

\* A nonempty set of numbers has a minimum.
LEMMA MinIsLeast ==
  ASSUME NEW S \in SUBSET Nat, S # {}
  PROVE  Min(S) \in S /\ \A y \in S : Min(S) <= y
<1> DEFINE R == {ss \in Nat \X Nat : ss[1] < ss[2]}
<1>1. IsWellFoundedOn(R, Nat)
  BY NatLessThanWellFounded, Zenon DEF OpToRel
<1>2. \A a, b \in Nat : a < b => <<a, b>> \in R
  OBVIOUS
<1> HIDE DEF R
<1>3. PICK x \in S : \A y \in S : ~ (<<y, x>> \in R)
  BY <1>1, WFMin, Zenon
<1>4. ASSUME NEW y \in S PROVE x <= y
  <2>1. x \in Nat /\ y \in Nat
    OBVIOUS
  <2>2. ~ (y < x)
    BY <2>1, <1>2, <1>3, Zenon
  <2> QED
    BY <2>1, <2>2
<1> QED
  BY <1>4, Zenon DEF Min

\* Which counts a short holds.
LEMMA ShortLinks ==
  /\ ShortMin .. ShortMax \subseteq Int
  /\ \A k \in Int : -32768 <= k /\ k <= 32767 <=> k \in ShortMin .. ShortMax
<1>1. ShortMin \in Int /\ ShortMax \in Int
  BY DEF ShortMin, ShortMax
<1>2. \A k \in Int : ShortMin <= k /\ k <= ShortMax <=> -32768 <= k /\ k <= 32767
  BY DEF ShortMin, ShortMax
<1> QED
  BY <1>1, <1>2

\* What the fields of a disk are.
LEMMA DiskFields ==
  ASSUME NEW s \in Disks, NEW d \in Inums
  PROVE  /\ s.alloc \subseteq Inums /\ s.type[d] \in {"data", "dir"}
         /\ s.nlink[d] \in ShortMin .. ShortMax /\ s.nlink[d] \in Int
         /\ s.ents[d] \in Seq(Dirents)
         /\ DOMAIN s.ents[d] = 1 .. Len(s.ents[d]) /\ Len(s.ents[d]) \in Nat
         /\ \A j \in DOMAIN s.ents[d] : s.ents[d][j] \in Dirents
<1>1. /\ s.alloc \subseteq Inums /\ s.type[d] \in {"data", "dir"}
      /\ s.nlink[d] \in ShortMin .. ShortMax
      /\ s.ents[d] \in Seq(Dirents)
  BY DEF Disks
<1> HIDE DEF Dirents
<1> QED
  BY <1>1, ShortLinks

\* An entry is a hole or has a name and leads to an inode.
LEMMA DirentParts ==
  ASSUME NEW e \in Dirents
  PROVE  \/ e = Free /\ e[1] = Nil
         \/ e[1] \in AnyName /\ e[1] # Nil /\ e[2] \in Inums /\ e = <<e[1], e[2]>>
BY NameAssumption DEF Dirents, Free, AnyName

\* No inode number is Nil.
LEMMA NilIsNone == Nil \notin Inums /\ Nil \notin AnyName
BY NameAssumption DEF Inums, AnyName

\* Which pairs are names of an inode.
LEMMA NamingMember ==
  ASSUME NEW s, NEW i, NEW x
  PROVE  x \in NamingIn(s, i) <=>
           \E d \in s.alloc : \E j \in DOMAIN s.ents[d] :
             /\ x = <<d, j>> /\ s.type[d] = "dir"
             /\ s.ents[d][j][1] \in Names /\ s.ents[d][j][2] = i
BY DEF NamingIn, NamesIn

\* An entry that is one.
LEMMA NamingEntry ==
  ASSUME NEW s, NEW i, NEW d \in s.alloc, NEW j \in DOMAIN s.ents[d], s.type[d] = "dir",
         s.ents[d][j][1] \in Names, s.ents[d][j][2] = i
  PROVE  <<d, j>> \in NamingIn(s, i)
BY NamingMember

\* dentry_search returns where an entry of this name leads, or Nil.
LEMMA SearchFinds ==
  ASSUME NEW s \in Disks, NEW d \in Inums, NEW n, DentrySearch(s, d, n) # Nil
  PROVE  /\ s.type[d] = "dir" /\ n # Nil
         /\ DentrySearch(s, d, n) \in Inums
         /\ \E j \in DOMAIN s.ents[d] :
              /\ j = Min({k \in DOMAIN s.ents[d] : s.ents[d][k][1] = n})
              /\ s.ents[d][j] = <<n, DentrySearch(s, d, n)>>
<1> DEFINE hits == {k \in DOMAIN s.ents[d] : s.ents[d][k][1] = n}
           j == Min(hits)
<1>1. s.type[d] = "dir" /\ n # Nil /\ hits # {} /\ DentrySearch(s, d, n) = s.ents[d][j][2]
  BY DEF DentrySearch
<1>2. hits \in SUBSET Nat
  BY DiskFields
<1>3. j \in hits
  BY <1>1, <1>2, MinIsLeast
<1>4. j \in DOMAIN s.ents[d] /\ s.ents[d][j][1] = n
  BY <1>3
<1>5. s.ents[d][j] \in Dirents
  BY <1>4, DiskFields
<1> HIDE DEF j
<1>6. s.ents[d][j][2] \in Inums /\ s.ents[d][j] = <<n, s.ents[d][j][2]>>
  BY <1>5, <1>4, <1>1, DirentParts
<1> QED
  BY <1>1, <1>4, <1>6 DEF j

\* If it returns Nil no entry has the name.
LEMMA SearchMisses ==
  ASSUME NEW s \in Disks, NEW d \in Inums, s.type[d] = "dir", NEW n, n # Nil,
         DentrySearch(s, d, n) = Nil, NEW k \in DOMAIN s.ents[d]
  PROVE  s.ents[d][k][1] # n
<1> DEFINE hits == {m \in DOMAIN s.ents[d] : s.ents[d][m][1] = n}
           j == Min(hits)
<1> SUFFICES ASSUME hits # {} PROVE FALSE
  OBVIOUS
<1>1. DentrySearch(s, d, n) = s.ents[d][j][2]
  BY DEF DentrySearch
<1>2. hits \in SUBSET Nat
  BY DiskFields
<1>3. j \in hits
  BY <1>2, MinIsLeast
<1>4. j \in DOMAIN s.ents[d] /\ s.ents[d][j][1] = n
  BY <1>3
<1>5. s.ents[d][j] \in Dirents
  BY <1>4, DiskFields
<1> HIDE DEF j
<1>6. s.ents[d][j][2] \in Inums
  BY <1>5, <1>4, DirentParts
<1> QED
  BY <1>1, <1>6, NilIsNone

----------------------------------------------------------------------------
(* What the operations on entries do *)

\* t is s with the entry e of directory d written at j, in a hole or at the end.
PutAt(s, t, d, j, e) ==
  /\ t \in Disks /\ t.alloc = s.alloc /\ t.type = s.type /\ t.nlink = s.nlink
  /\ \A c \in Inums \ {d} : t.ents[c] = s.ents[c]
  /\ j \in DOMAIN t.ents[d] /\ t.ents[d][j] = e
  /\ j \in DOMAIN s.ents[d] => s.ents[d][j] = Free
  /\ \A k \in DOMAIN t.ents[d] : k # j => k \in DOMAIN s.ents[d] /\ t.ents[d][k] = s.ents[d][k]

\* Replacing and appending an entry of a sequence.
LEMMA SeqReplace ==
  ASSUME NEW S, NEW q \in Seq(S), NEW j \in DOMAIN q, NEW e \in S
  PROVE  /\ [q EXCEPT ![j] = e] \in Seq(S) /\ DOMAIN [q EXCEPT ![j] = e] = DOMAIN q
         /\ [q EXCEPT ![j] = e][j] = e
         /\ \A k \in DOMAIN q : k # j => [q EXCEPT ![j] = e][k] = q[k]
OBVIOUS

\* Appending one.
LEMMA SeqAppend ==
  ASSUME NEW S, NEW q \in Seq(S), NEW e \in S
  PROVE  LET t == Append(q, e)
             j == Len(q) + 1
         IN /\ t \in Seq(S) /\ j \in DOMAIN t /\ j \notin DOMAIN q /\ t[j] = e
            /\ \A k \in DOMAIN t : k # j => k \in DOMAIN q /\ t[k] = q[k]
OBVIOUS

\* What dentry_create writes is an entry.
LEMMA EntryIsDirent ==
  ASSUME NEW n \in AnyName \union {Nil}, NEW i \in Inums
  PROVE  (IF n = Nil THEN Free ELSE <<n, i>>) \in Dirents
BY DEF Dirents

\* Replacing the entries of one directory.
WithEnts(s, d, q) == [s EXCEPT !.ents[d] = q]

LEMMA SetEnts ==
  ASSUME NEW s \in Disks, NEW d \in Inums, NEW q \in Seq(Dirents),
         NEW t, t = WithEnts(s, d, q)
  PROVE  /\ t \in Disks /\ t.alloc = s.alloc /\ t.type = s.type /\ t.nlink = s.nlink
         /\ t.ents[d] = q /\ \A c \in Inums \ {d} : t.ents[c] = s.ents[c]
<1> DEFINE ents == [s.ents EXCEPT ![d] = q]
<1>1. s.ents \in [Inums -> Seq(Dirents)]
  BY DEF Disks
<1> HIDE DEF Dirents, Inums
<1>2. ents \in [Inums -> Seq(Dirents)] /\ ents[d] = q /\ \A c \in Inums \ {d} : ents[c] = s.ents[c]
  BY <1>1
<1>3. t = [s EXCEPT !.ents = ents]
  BY DEF WithEnts
<1> HIDE DEF ents
<1>4. t \in Disks /\ t.alloc = s.alloc /\ t.type = s.type /\ t.nlink = s.nlink /\ t.ents = ents
  BY <1>2, <1>3 DEF Disks
<1> QED
  BY <1>2, <1>4

\* dentry_create changes nothing, or puts the entry into a directory that has
\* none of this name.
LEMMA CreateEffect ==
  ASSUME NEW s \in Disks, NEW d \in Inums, NEW n \in AnyName \union {Nil}, NEW i \in Inums
  PROVE  \/ DentryCreate(s, d, n, i) = s
         \/ /\ s.type[d] = "dir" /\ DentrySearch(s, d, n) = Nil
            /\ \E j : PutAt(s, DentryCreate(s, d, n, i), d, j, IF n = Nil THEN Free ELSE <<n, i>>)
<1> DEFINE holes == {j \in DOMAIN s.ents[d] : s.ents[d][j] = Free}
           e == IF n = Nil THEN Free ELSE <<n, i>>
           t1 == [s EXCEPT !.ents[d] = [s.ents[d] EXCEPT ![Min(holes)] = e]]
           t2 == [s EXCEPT !.ents[d] = Append(s.ents[d], e)]
           t == DentryCreate(s, d, n, i)
<1>1. \/ t = s
      \/ /\ s.type[d] = "dir" /\ DentrySearch(s, d, n) = Nil
         /\ (holes # {} /\ t = t1) \/ t = t2
  BY Zenon DEF DentryCreate
<1>2. e \in Dirents
  BY EntryIsDirent
<1>3. s.ents[d] \in Seq(Dirents) /\ holes \in SUBSET Nat
  BY DiskFields
<1> HIDE DEF e, t
<1>4. ASSUME holes # {} PROVE PutAt(s, t1, d, Min(holes), e)
  <2> DEFINE j == Min(holes)
             q == [s.ents[d] EXCEPT ![j] = e]
  <2>1. j \in holes
    BY <1>3, <1>4, MinIsLeast
  <2>2. j \in DOMAIN s.ents[d] /\ s.ents[d][j] = Free
    BY <2>1
  <2> HIDE DEF j
  <2>3. /\ q \in Seq(Dirents) /\ DOMAIN q = DOMAIN s.ents[d] /\ q[j] = e
        /\ \A k \in DOMAIN s.ents[d] : k # j => q[k] = s.ents[d][k]
    BY <2>2, <1>2, <1>3, SeqReplace
  <2>4. t1 = WithEnts(s, d, q)
    BY DEF j, WithEnts
  <2> HIDE DEF q
  <2> DEFINE u == WithEnts(s, d, q)
  <2>0. u = WithEnts(s, d, q)
    OBVIOUS
  <2> HIDE DEF u
  <2>5. /\ u \in Disks /\ u.alloc = s.alloc /\ u.type = s.type /\ u.nlink = s.nlink
        /\ u.ents[d] = q /\ \A c \in Inums \ {d} : u.ents[c] = s.ents[c]
    BY <2>0, <2>3, SetEnts
  <2>6. PutAt(s, u, d, j, e)
    BY <2>2, <2>3, <2>5 DEF PutAt
  <2> QED
    BY <2>4, <2>6 DEF j, u
<1>5. PutAt(s, t2, d, Len(s.ents[d]) + 1, e)
  <2> DEFINE q == Append(s.ents[d], e)
             j == Len(s.ents[d]) + 1
  <2>1. /\ q \in Seq(Dirents) /\ j \in DOMAIN q /\ j \notin DOMAIN s.ents[d] /\ q[j] = e
        /\ \A k \in DOMAIN q : k # j => k \in DOMAIN s.ents[d] /\ q[k] = s.ents[d][k]
    BY <1>2, <1>3, SeqAppend
  <2> HIDE DEF q, j
  <2> DEFINE u == WithEnts(s, d, q)
  <2>0. u = WithEnts(s, d, q)
    OBVIOUS
  <2> HIDE DEF u
  <2>2. /\ u \in Disks /\ u.alloc = s.alloc /\ u.type = s.type /\ u.nlink = s.nlink
        /\ u.ents[d] = q /\ \A c \in Inums \ {d} : u.ents[c] = s.ents[c]
    BY <2>0, <2>1, SetEnts
  <2>3. PutAt(s, u, d, j, e)
    BY <2>1, <2>2 DEF PutAt
  <2> QED
    BY <2>3 DEF u, q, j, WithEnts
<1> HIDE DEF t1, t2, holes
<1>6. t1 = t /\ holes # {} => \E j : PutAt(s, t, d, j, e)
  BY <1>4, Zenon
<1>7. t2 = t => \E j : PutAt(s, t, d, j, e)
  BY <1>5, Zenon
<1>8. t = s \/ (s.type[d] = "dir" /\ DentrySearch(s, d, n) = Nil /\ \E j : PutAt(s, t, d, j, e))
  BY <1>1, <1>6, <1>7, Zenon
<1> QED
  BY <1>8 DEF e, t

----------------------------------------------------------------------------
(* How the operations keep the shape of the tree *)

\* The four kinds of names are different.
LEMMA NamesDiffer ==
  /\ \A n \in Names : n # "." /\ n # ".." /\ n # Nil
  /\ Free[1] = Nil /\ Nil # "." /\ Nil # ".." /\ Nil \notin Names
BY NameAssumption DEF Free

\* A new entry is at most one name more of what it leads to.
LEMMA PutNaming ==
  ASSUME NEW s \in Disks, NEW t, NEW d \in Inums, NEW j, NEW e, PutAt(s, t, d, j, e),
         NEW i, NEW x \in NamingIn(t, i)
  PROVE  x \in NamingIn(s, i) \/ (x = <<d, j>> /\ e[1] \in Names /\ e[2] = i)
<1>0. PICK c \in t.alloc : \E k \in DOMAIN t.ents[c] :
        x = <<c, k>> /\ t.type[c] = "dir" /\ t.ents[c][k][1] \in Names /\ t.ents[c][k][2] = i
  BY NamingMember
<1>1. PICK k \in DOMAIN t.ents[c] :
        x = <<c, k>> /\ t.type[c] = "dir" /\ t.ents[c][k][1] \in Names /\ t.ents[c][k][2] = i
  BY <1>0
<1>2. t.alloc = s.alloc /\ t.type = s.type /\ c \in Inums /\ c \in s.alloc
  BY DEF PutAt, Disks
<1>3. CASE c = d /\ k = j
  BY <1>1, <1>3 DEF PutAt
<1>4. CASE ~ (c = d /\ k = j)
  <2>1. k \in DOMAIN s.ents[c] /\ t.ents[c][k] = s.ents[c][k]
    BY <1>1, <1>2, <1>4 DEF PutAt
  <2> QED
    BY <1>1, <1>2, <2>1, NamingEntry
<1> QED
  BY <1>3, <1>4

\* Entering a new name keeps the shape, if it leads to a file or to a directory
\* without a name that has this one as its parent.
LEMMA PutShape ==
  ASSUME NEW s, Shape(s), NEW t, NEW d \in s.alloc, NEW j, NEW e, PutAt(s, t, d, j, e),
         e = Free \/ (e[1] \in Names /\ e[2] \in Inums),
         e # Free =>
           /\ \A k \in DOMAIN s.ents[d] : s.ents[d][k][1] # e[1]
           /\ s.type[e[2]] = "dir" =>
                /\ e[2] # Root /\ NamingIn(s, e[2]) = {}
                /\ \A k \in DOMAIN s.ents[e[2]] :
                     s.ents[e[2]][k][1] = ".." => s.ents[e[2]][k][2] = d
  PROVE  Shape(t)
<1>0. s \in Disks /\ t \in Disks /\ d \in Inums /\ s.alloc \subseteq Inums
  BY DEF Shape, Disks, PutAt
<1>1. t.alloc = s.alloc /\ t.type = s.type
  BY DEF PutAt
<1>2. \A c \in Inums : \A k \in DOMAIN t.ents[c] :
        \/ c = d /\ k = j /\ t.ents[c][k] = e
        \/ k \in DOMAIN s.ents[c] /\ t.ents[c][k] = s.ents[c][k]
  BY <1>0 DEF PutAt
<1>3. RootIsDir(t)
  BY <1>1 DEF Shape, RootIsDir
<1>4. DistinctNames(t)
  <2> SUFFICES ASSUME NEW c \in t.alloc, NEW k \in DOMAIN t.ents[c], NEW m \in DOMAIN t.ents[c],
                      k # m, t.ents[c][k] # Free
               PROVE  t.ents[c][k][1] # t.ents[c][m][1]
    BY DEF DistinctNames
  <2>1. c \in s.alloc /\ c \in Inums
    BY <1>0, <1>1
  <2>2. \/ c = d /\ k = j /\ t.ents[c][k] = e
        \/ k \in DOMAIN s.ents[c] /\ t.ents[c][k] = s.ents[c][k]
    BY <1>2, <2>1
  <2>3. \/ c = d /\ m = j /\ t.ents[c][m] = e
        \/ m \in DOMAIN s.ents[c] /\ t.ents[c][m] = s.ents[c][m]
    BY <1>2, <2>1
  <2>4. CASE k \in DOMAIN s.ents[c] /\ t.ents[c][k] = s.ents[c][k]
             /\ m \in DOMAIN s.ents[c] /\ t.ents[c][m] = s.ents[c][m]
    BY <2>1, <2>4 DEF Shape, DistinctNames
  <2>5. CASE c = d /\ k = j /\ t.ents[c][k] = e /\ m \in DOMAIN s.ents[c] /\ t.ents[c][m] = s.ents[c][m]
    BY <2>5
  <2>6. CASE c = d /\ m = j /\ t.ents[c][m] = e /\ k \in DOMAIN s.ents[c] /\ t.ents[c][k] = s.ents[c][k]
    <3>1. CASE e # Free
      BY <2>6, <3>1
    <3>2. CASE e = Free
      <4>1. s.ents[c][k] \in Dirents
        BY <2>1, <2>6, <1>0, DiskFields
      <4>2. s.ents[c][k][1] # Nil
        BY <4>1, <2>6, DirentParts
      <4> QED
        BY <4>2, <2>6, <3>2, NamesDiffer
    <3> QED
      BY <3>1, <3>2
  <2> QED
    BY <2>2, <2>3, <2>4, <2>5, <2>6
<1>5. \A i : \A x \in NamingIn(t, i) :
        x \in NamingIn(s, i) \/ (x = <<d, j>> /\ e[1] \in Names /\ e[2] = i)
  <2> TAKE i
  <2> TAKE x \in NamingIn(t, i)
  <2> QED
    BY <1>0, PutNaming
<1>6. e[1] \in Names => e # Free
  BY NamesDiffer
<1>7. OneName(t)
  <2> SUFFICES ASSUME NEW i \in Inums, t.type[i] = "dir", NEW x \in NamingIn(t, i),
                      NEW y \in NamingIn(t, i)
               PROVE  x = y /\ i # Root
    BY DEF OneName
  <2>1. CASE x \in NamingIn(s, i) /\ y \in NamingIn(s, i)
    BY <1>1, <2>1 DEF Shape, OneName
  <2>2. CASE x \notin NamingIn(s, i) \/ y \notin NamingIn(s, i)
    <3>1. e[1] \in Names /\ e[2] = i
      BY <1>5, <2>2
    <3>2. i # Root /\ NamingIn(s, i) = {}
      BY <3>1, <1>6, <1>1
    <3> QED
      BY <3>2, <1>5
  <2> QED
    BY <2>1, <2>2
<1>8. DotsLead(t)
  <2> SUFFICES ASSUME NEW c \in t.alloc, t.type[c] = "dir", NEW k \in DOMAIN t.ents[c]
               PROVE  /\ t.ents[c][k][1] = "." => t.ents[c][k][2] = c
                      /\ t.ents[c][k][1] = ".." =>
                           IF c = Root THEN t.ents[c][k][2] = Root
                           ELSE \A x \in NamingIn(t, c) : x[1] = t.ents[c][k][2]
    BY DEF DotsLead
  <2>1. c \in s.alloc /\ c \in Inums /\ s.type[c] = "dir"
    BY <1>0, <1>1
  <2>2. CASE c = d /\ k = j /\ t.ents[c][k] = e
    BY <2>2, NamesDiffer
  <2>3. CASE k \in DOMAIN s.ents[c] /\ t.ents[c][k] = s.ents[c][k]
    <3>1. /\ s.ents[c][k][1] = "." => s.ents[c][k][2] = c
          /\ s.ents[c][k][1] = ".." =>
               IF c = Root THEN s.ents[c][k][2] = Root
               ELSE \A x \in NamingIn(s, c) : x[1] = s.ents[c][k][2]
      BY <2>1, <2>3 DEF Shape, DotsLead
    <3>2. ASSUME s.ents[c][k][1] = "..", c # Root, NEW x \in NamingIn(t, c)
          PROVE  x[1] = s.ents[c][k][2]
      <4>1. CASE x \in NamingIn(s, c)
        BY <3>1, <3>2, <4>1
      <4>2. CASE x = <<d, j>> /\ e[1] \in Names /\ e[2] = c
        <5>1. s.ents[c][k][2] = d
          BY <4>2, <1>6, <2>1, <2>3, <3>2
        <5> QED
          BY <5>1, <4>2
      <4> QED
        BY <4>1, <4>2, <1>5
    <3> QED
      BY <3>1, <3>2, <2>3
  <2> QED
    BY <2>2, <2>3, <2>1, <1>2
<1> QED
  BY <1>0, <1>3, <1>4, <1>7, <1>8 DEF Shape

\* s is t0 with the inode i, which had no name, now in use: its entries are at
\* most a "." to itself and a ".." to d.
Fresh(t0, s, i, d) ==
  /\ s \in Disks /\ i \in Inums \ t0.alloc /\ NamingIn(t0, i) = {}
  /\ s.alloc = t0.alloc \union {i}
  /\ \A c \in Inums \ {i} : s.type[c] = t0.type[c]
  /\ \A c \in t0.alloc : s.type[c] = t0.type[c] /\ s.ents[c] = t0.ents[c]
  /\ \A k \in DOMAIN s.ents[i] :
       /\ s.ents[i][k][1] \notin Names
       /\ s.ents[i][k][1] = "." => s.ents[i][k][2] = i
       /\ s.ents[i][k][1] = ".." => s.ents[i][k][2] = d
  /\ \A k, m \in DOMAIN s.ents[i] :
       k # m /\ s.ents[i][k] # Free => s.ents[i][k][1] # s.ents[i][m][1]

\* A new inode names nothing.
LEMMA FreshNaming ==
  ASSUME NEW t0, NEW s, NEW i, NEW d, Fresh(t0, s, i, d), NEW c, NEW x \in NamingIn(s, c)
  PROVE  x \in NamingIn(t0, c)
<1>0. PICK b \in s.alloc : \E k \in DOMAIN s.ents[b] :
        x = <<b, k>> /\ s.type[b] = "dir" /\ s.ents[b][k][1] \in Names /\ s.ents[b][k][2] = c
  BY NamingMember
<1>1. PICK k \in DOMAIN s.ents[b] :
        x = <<b, k>> /\ s.type[b] = "dir" /\ s.ents[b][k][1] \in Names /\ s.ents[b][k][2] = c
  BY <1>0
<1>2. b # i
  BY <1>1 DEF Fresh
<1>3. b \in t0.alloc /\ t0.type[b] = "dir" /\ t0.ents[b] = s.ents[b]
  BY <1>1, <1>2 DEF Fresh
<1> QED
  BY <1>1, <1>3, NamingEntry

\* It keeps the shape.
LEMMA FreshShape ==
  ASSUME NEW t0, NEW s, NEW i, NEW d, Shape(t0), Fresh(t0, s, i, d)
  PROVE  Shape(s)
<1>0. /\ s \in Disks /\ i \in Inums /\ i \notin t0.alloc /\ NamingIn(t0, i) = {}
      /\ s.alloc = t0.alloc \union {i} /\ t0.alloc \subseteq Inums
      /\ Root \in t0.alloc
  BY DEF Fresh, Shape, RootIsDir, Disks
<1>1. \A c \in t0.alloc : s.type[c] = t0.type[c] /\ s.ents[c] = t0.ents[c]
  BY DEF Fresh
<1>2. RootIsDir(s)
  BY <1>0, <1>1 DEF Shape, RootIsDir
<1>3. DistinctNames(s)
  BY <1>0, <1>1 DEF Shape, DistinctNames, Fresh
<1>4. \A c : \A x \in NamingIn(s, c) : x \in NamingIn(t0, c)
  BY FreshNaming
<1>5. OneName(s)
  <2> SUFFICES ASSUME NEW c \in Inums, s.type[c] = "dir", NEW x \in NamingIn(s, c),
                      NEW y \in NamingIn(s, c)
               PROVE  x = y /\ c # Root
    BY DEF OneName
  <2>1. CASE c = i
    BY <2>1, <1>0, <1>4
  <2>2. CASE c \in t0.alloc
    BY <2>2, <1>1, <1>4 DEF Shape, OneName
  <2>3. CASE c \notin t0.alloc /\ c # i
    <3>1. t0.type[c] = "dir" /\ x \in NamingIn(t0, c) /\ y \in NamingIn(t0, c)
      BY <2>3, <1>4 DEF Fresh
    <3> QED
      BY <3>1 DEF Shape, OneName
  <2> QED
    BY <2>1, <2>2, <2>3
<1>6. DotsLead(s)
  <2> SUFFICES ASSUME NEW c \in s.alloc, s.type[c] = "dir", NEW k \in DOMAIN s.ents[c]
               PROVE  /\ s.ents[c][k][1] = "." => s.ents[c][k][2] = c
                      /\ s.ents[c][k][1] = ".." =>
                           IF c = Root THEN s.ents[c][k][2] = Root
                           ELSE \A x \in NamingIn(s, c) : x[1] = s.ents[c][k][2]
    BY DEF DotsLead
  <2>1. CASE c = i
    BY <2>1, <1>0, <1>4 DEF Fresh
  <2>2. CASE c \in t0.alloc
    <3>1. /\ t0.ents[c][k][1] = "." => t0.ents[c][k][2] = c
          /\ t0.ents[c][k][1] = ".." =>
               IF c = Root THEN t0.ents[c][k][2] = Root
               ELSE \A x \in NamingIn(t0, c) : x[1] = t0.ents[c][k][2]
      BY <2>2, <1>1 DEF Shape, DotsLead
    <3> QED
      BY <3>1, <2>2, <1>1, <1>4
  <2> QED
    BY <2>1, <2>2, <1>0
<1> QED
  BY <1>0, <1>2, <1>3, <1>5, <1>6 DEF Shape

\* t is s with inodes given back and entries removed.
Thinner(s, t) ==
  /\ t \in Disks /\ t.alloc \subseteq s.alloc /\ t.type = s.type /\ Root \in t.alloc
  /\ \A d \in t.alloc : /\ DOMAIN t.ents[d] = DOMAIN s.ents[d]
                        /\ \A k \in DOMAIN s.ents[d] : t.ents[d][k] \in {s.ents[d][k], Free}

\* Removal adds no name.
LEMMA ThinNaming ==
  ASSUME NEW s, NEW t, Thinner(s, t), NEW i
  PROVE  NamingIn(t, i) \subseteq NamingIn(s, i)
<1> SUFFICES ASSUME NEW x \in NamingIn(t, i) PROVE x \in NamingIn(s, i)
  OBVIOUS
<1>0. PICK b \in t.alloc : \E k \in DOMAIN t.ents[b] :
        x = <<b, k>> /\ t.type[b] = "dir" /\ t.ents[b][k][1] \in Names /\ t.ents[b][k][2] = i
  BY NamingMember
<1>1. PICK k \in DOMAIN t.ents[b] :
        x = <<b, k>> /\ t.type[b] = "dir" /\ t.ents[b][k][1] \in Names /\ t.ents[b][k][2] = i
  BY <1>0
<1>2. t.ents[b][k] # Free
  BY <1>1, NamesDiffer
<1>3. b \in s.alloc /\ s.type[b] = "dir" /\ k \in DOMAIN s.ents[b] /\ t.ents[b][k] = s.ents[b][k]
  BY <1>1, <1>2 DEF Thinner
<1> QED
  BY <1>1, <1>3, NamingEntry

\* It keeps the shape.
LEMMA ThinShape ==
  ASSUME NEW s, NEW t, Shape(s), Thinner(s, t)
  PROVE  Shape(t)
<1>0. s \in Disks /\ t \in Disks /\ t.alloc \subseteq s.alloc /\ t.type = s.type /\ Root \in t.alloc
  BY DEF Shape, Thinner
<1>1. \A d \in t.alloc : \A k \in DOMAIN t.ents[d] :
        k \in DOMAIN s.ents[d] /\ (t.ents[d][k] = s.ents[d][k] \/ t.ents[d][k] = Free)
  BY DEF Thinner
<1>2. RootIsDir(t)
  BY <1>0 DEF Shape, RootIsDir
<1>3. DistinctNames(t)
  <2> SUFFICES ASSUME NEW d \in t.alloc, NEW k \in DOMAIN t.ents[d], NEW m \in DOMAIN t.ents[d],
                      k # m, t.ents[d][k] # Free
               PROVE  t.ents[d][k][1] # t.ents[d][m][1]
    BY DEF DistinctNames
  <2>1. /\ d \in s.alloc /\ k \in DOMAIN s.ents[d] /\ m \in DOMAIN s.ents[d]
        /\ t.ents[d][k] = s.ents[d][k]
    BY <1>0, <1>1
  <2>2. s.ents[d][k][1] # s.ents[d][m][1]
    BY <2>1 DEF Shape, DistinctNames
  <2>3. d \in Inums
    BY <2>1, <1>0 DEF Disks
  <2>4. s.ents[d][k] \in Dirents
    BY <2>1, <2>3, <1>0, DiskFields
  <2>5. s.ents[d][k][1] # Nil
    BY <2>4, <2>1, DirentParts
  <2> QED
    BY <2>1, <2>2, <2>5, <1>1, NamesDiffer
<1>4. \A i : NamingIn(t, i) \subseteq NamingIn(s, i)
  BY ThinNaming
<1>5. OneName(t)
  BY <1>0, <1>4 DEF Shape, OneName
<1>6. DotsLead(t)
  <2> SUFFICES ASSUME NEW c \in t.alloc, t.type[c] = "dir", NEW k \in DOMAIN t.ents[c]
               PROVE  /\ t.ents[c][k][1] = "." => t.ents[c][k][2] = c
                      /\ t.ents[c][k][1] = ".." =>
                           IF c = Root THEN t.ents[c][k][2] = Root
                           ELSE \A x \in NamingIn(t, c) : x[1] = t.ents[c][k][2]
    BY DEF DotsLead
  <2>1. c \in s.alloc /\ s.type[c] = "dir" /\ k \in DOMAIN s.ents[c]
    BY <1>0, <1>1
  <2>2. CASE t.ents[c][k] = Free
    BY <2>2, NamesDiffer
  <2>3. CASE t.ents[c][k] = s.ents[c][k]
    <3>1. /\ s.ents[c][k][1] = "." => s.ents[c][k][2] = c
          /\ s.ents[c][k][1] = ".." =>
               IF c = Root THEN s.ents[c][k][2] = Root
               ELSE \A x \in NamingIn(s, c) : x[1] = s.ents[c][k][2]
      BY <2>1 DEF Shape, DotsLead
    <3> QED
      BY <3>1, <2>3, <1>4
  <2> QED
    BY <2>2, <2>3, <1>1
<1> QED
  BY <1>0, <1>2, <1>3, <1>5, <1>6 DEF Shape

----------------------------------------------------------------------------
(* What can be reached *)

\* The root is reachable.
LEMMA RootReached ==
  ASSUME NEW s
  PROVE  Root \in ReachableIn(s)
BY SizeAssumption DEF ReachableIn, Inums, Root

\* What a reachable directory names can be reached.
LEMMA SubdirReached ==
  ASSUME NEW s, NEW i \in Inums, s.type[i] = "dir", NEW x \in NamingIn(s, i),
         x[1] \in ReachableIn(s)
  PROVE  i \in ReachableIn(s)
<1> SUFFICES ASSUME NEW C \in SUBSET Inums, Root \in C, HasSubdirs(s, C), i \notin C
             PROVE  FALSE
  BY Zenon DEF ReachableIn
<1>1. x[1] \in C
  BY Zenon DEF ReachableIn
<1>2. x[1] \notin C
  BY Zenon DEF HasSubdirs
<1> QED
  BY <1>1, <1>2

\* Every reachable inode but the root is a directory with a reachable parent:
\* without those that are not, the set would still be closed.
LEMMA ReachedByName ==
  ASSUME NEW s, NEW d \in ReachableIn(s), d # Root
  PROVE  s.type[d] = "dir" /\ \E x \in NamingIn(s, d) : x[1] \in ReachableIn(s)
<1> DEFINE R == ReachableIn(s)
           C == {i \in R : i = Root \/ (s.type[i] = "dir" /\ \E x \in NamingIn(s, i) : x[1] \in R)}
<1>1. R \subseteq Inums
  BY DEF ReachableIn
<1>2. Root \in C
  BY RootReached
<1>3. \A i \in Inums \ C : s.type[i] = "dir" => \A x \in NamingIn(s, i) : x[1] \notin C
  <2> SUFFICES ASSUME NEW i \in Inums, i \notin C, s.type[i] = "dir", NEW x \in NamingIn(s, i),
                      x[1] \in C
               PROVE  FALSE
    BY Zenon
  <2>1. x[1] \in R
    BY Zenon
  <2>2. i \in R
    BY <2>1, SubdirReached, Zenon
  <2> QED
    BY <2>1, <2>2, Zenon
<1>4. HasSubdirs(s, C)
  BY <1>3, Zenon DEF HasSubdirs
<1>5. C \in SUBSET Inums
  BY <1>1
<1>6. d \in C
  BY <1>2, <1>4, <1>5, Zenon DEF ReachableIn
<1> QED
  BY <1>6, Zenon

\* What has a name has a link, and exists.
LEMMA NamedExists ==
  ASSUME TreeInv, NEW i \in Inums, NamingIn(disk, i) # {}
  PROVE  disk.nlink[i] >= 1 /\ i \in disk.alloc
<1>1. /\ IsFiniteSet(NamingIn(disk, i))
      /\ Cardinality(NamingIn(disk, i)) <= disk.nlink[i]
  BY DEF TreeInv, Covered
<1>2. Cardinality(NamingIn(disk, i)) \in Nat /\ Cardinality(NamingIn(disk, i)) # 0
  BY <1>1, FS_CardinalityType, FS_EmptySet
<1>3. disk.nlink[i] \in Int
  BY DiskFields DEF TreeInv, TreeTypeOK
<1>4. disk.nlink[i] >= 1
  BY <1>1, <1>2, <1>3
<1> QED
  BY <1>4, <1>3 DEF TreeInv, UsedStaysAllocated

\* What is reachable is a directory in use; all but the root have a link.
LEMMA ReachedExists ==
  ASSUME TreeInv, NEW d \in Reachable
  PROVE  /\ d \in Inums /\ d \in disk.alloc /\ disk.type[d] = "dir"
         /\ d # Root => disk.nlink[d] >= 1
<1>1. d \in Inums
  BY DEF Reachable, ReachableIn
<1>2. CASE d = Root
  BY <1>1, <1>2 DEF TreeInv, Shape, RootIsDir
<1>3. CASE d # Root
  <2>1. disk.type[d] = "dir" /\ NamingIn(disk, d) # {}
    BY <1>3, ReachedByName DEF Reachable
  <2> QED
    BY <1>1, <2>1, NamedExists
<1> QED
  BY <1>2, <1>3

\* Where a walk may be: nowhere, in a directory that can be reached, or at a
\* file, which it does not leave.
Reached == {Nil} \union Reachable \union {i \in disk.alloc : disk.type[i] = "data"}

\* One element of a path.
LEMMA RoundReaches ==
  ASSUME TreeInv, NEW d \in Reached, d # Nil, NEW n \in AnyName
  PROVE  DentrySearch(disk, d, n) \in Reached
<1> DEFINE r == DentrySearch(disk, d, n)
<1> SUFFICES ASSUME r # Nil PROVE r \in Reached
  BY DEF Reached
<1>0. disk \in Disks /\ disk.alloc \subseteq Inums
  BY DEF TreeInv, TreeTypeOK, Disks
<1>1. d \in Inums
  BY <1>0, ReachedExists DEF Reached
<1>2. /\ disk.type[d] = "dir" /\ r \in Inums
      /\ \E j \in DOMAIN disk.ents[d] : disk.ents[d][j] = <<n, r>>
  BY <1>0, <1>1, SearchFinds
<1>3. PICK j \in DOMAIN disk.ents[d] : disk.ents[d][j] = <<n, r>>
  BY <1>2
<1> HIDE DEF r
<1>4. d \in Reachable
  BY <1>2 DEF Reached
<1>5. d \in disk.alloc
  BY <1>4, ReachedExists
<1>6. disk.ents[d][j][1] = n /\ disk.ents[d][j][2] = r
  BY <1>3
<1>7. CASE n \in Names
  <2>1. <<d, j>> \in NamingIn(disk, r)
    BY <1>2, <1>5, <1>6, <1>7, NamingEntry
  <2>2. r \in disk.alloc
    BY <2>1, <1>2, NamedExists
  <2>3. disk.type[r] = "dir" => r \in Reachable
    <3>1. <<d, j>>[1] = d
      OBVIOUS
    <3> QED
      BY <2>1, <3>1, <1>2, <1>4, SubdirReached DEF Reachable
  <2>4. disk.type[r] \in {"data", "dir"}
    BY <1>0, <1>2, DiskFields
  <2> QED
    BY <2>2, <2>3, <2>4 DEF Reached
<1>8. CASE n = "."
  <2>1. r = d
    BY <1>2, <1>5, <1>6, <1>8 DEF TreeInv, Shape, DotsLead
  <2> QED
    BY <2>1
<1>9. CASE n = ".."
  <2>1. IF d = Root THEN r = Root ELSE \A x \in NamingIn(disk, d) : x[1] = r
    BY <1>2, <1>5, <1>6, <1>9 DEF TreeInv, Shape, DotsLead
  <2>2. CASE d = Root
    BY <2>1, <2>2, <1>4 DEF Reached
  <2>3. CASE d # Root
    <3>1. PICK x \in NamingIn(disk, d) : x[1] \in Reachable
      BY <1>4, <2>3, ReachedByName DEF Reachable
    <3> QED
      BY <2>1, <2>3, <3>1 DEF Reached
  <2> QED
    BY <2>2, <2>3
<1> QED
  BY <1>7, <1>8, <1>9 DEF AnyName

----------------------------------------------------------------------------
(* Walks *)

\* One round of path_to_inode, and f the places after 0, 1, ... m of them.
Round(v, elems, k) == IF v = Nil THEN Nil ELSE DentrySearch(disk, v, elems[k])
IsWalk(f, m, start, elems) ==
  f = [k \in 0 .. m |-> IF k = 0 THEN start ELSE Round(f[k - 1], elems, k)]

\* There are such places for every number of rounds: with the least number
\* there are none for, the round before it could be continued.
LEMMA WalkExists ==
  ASSUME NEW start, NEW elems, NEW len \in Nat
  PROVE  \E f : IsWalk(f, len, start, elems)
<1> DEFINE Bad == {m \in Nat : ~ \E f : IsWalk(f, m, start, elems)}
           m == Min(Bad)
<1> SUFFICES ASSUME Bad # {} PROVE FALSE
  OBVIOUS
<1>1. m \in Bad
  BY MinIsLeast
<1>2. \A k \in Bad : m <= k
  BY MinIsLeast
<1> HIDE DEF m
<1>3. m \in Nat /\ ~ \E f : IsWalk(f, m, start, elems)
  BY <1>1
<1>4. CASE m = 0
  <2> DEFINE f == [k \in 0 .. 0 |-> start]
  <2>1. f = [k \in 0 .. 0 |-> IF k = 0 THEN start ELSE Round(f[k - 1], elems, k)]
    OBVIOUS
  <2> QED
    BY <2>1, <1>3, <1>4 DEF IsWalk
<1>5. CASE m # 0
  <2>1. m - 1 \in Nat /\ m - 1 \notin Bad
    BY <1>2, <1>3, <1>5
  <2>2. PICK f : IsWalk(f, m - 1, start, elems)
    BY <2>1
  <2> DEFINE g == [k \in 0 .. m |-> IF k = m THEN Round(f[m - 1], elems, m) ELSE f[k]]
  <2>3. ASSUME NEW k \in 0 .. m
        PROVE  g[k] = IF k = 0 THEN start ELSE Round(g[k - 1], elems, k)
    <3>1. CASE k = m
      <4>1. g[k - 1] = f[m - 1] /\ g[k] = Round(f[m - 1], elems, m)
        BY <3>1, <1>3, <1>5, <2>1
      <4> QED
        BY <4>1, <3>1, <1>5
    <3>2. CASE k # m
      <4>1. k \in 0 .. m - 1 /\ g[k] = f[k]
        BY <3>2, <1>3
      <4>2. f[k] = IF k = 0 THEN start ELSE Round(f[k - 1], elems, k)
        BY <4>1, <2>2 DEF IsWalk
      <4>3. k # 0 => g[k - 1] = f[k - 1]
        BY <4>1, <1>3
      <4> QED
        BY <4>1, <4>2, <4>3
    <3> QED
      BY <3>1, <3>2
  <2>4. g = [k \in 0 .. m |-> g[k]]
    OBVIOUS
  <2> HIDE DEF g
  <2>5. g = [k \in 0 .. m |-> IF k = 0 THEN start ELSE Round(g[k - 1], elems, k)]
    BY <2>3, <2>4
  <2> QED
    BY <2>5, <1>3 DEF IsWalk
<1> QED
  BY <1>4, <1>5

\* The places of a walk that starts in Reached are all in Reached.
LEMMA WalkStays ==
  ASSUME TreeInv, NEW start \in Reached, NEW elems \in Seq(AnyName),
         NEW f, IsWalk(f, Len(elems), start, elems)
  PROVE  f[Len(elems)] \in Reached
<1> DEFINE Bad == {k \in 0 .. Len(elems) : f[k] \notin Reached}
           m == Min(Bad)
<1>0. Len(elems) \in Nat
  OBVIOUS
<1> SUFFICES ASSUME Bad # {} PROVE FALSE
  BY <1>0
<1>1. Bad \in SUBSET Nat
  OBVIOUS
<1>2. m \in Bad /\ \A k \in Bad : m <= k
  BY <1>1, MinIsLeast
<1> HIDE DEF m
<1>3. m \in 0 .. Len(elems) /\ f[m] \notin Reached
  BY <1>2
<1>4. f[m] = IF m = 0 THEN start ELSE Round(f[m - 1], elems, m)
  BY <1>3 DEF IsWalk
<1>5. m # 0
  BY <1>3, <1>4
<1>6. m - 1 \in 0 .. Len(elems) /\ m \in 1 .. Len(elems) /\ ~ (m <= m - 1)
  BY <1>3, <1>5
<1>7. f[m - 1] \in Reached
  BY <1>2, <1>6
<1>8. elems[m] \in AnyName
  BY <1>6
<1>9. Round(f[m - 1], elems, m) \in Reached
  BY <1>7, <1>8, RoundReaches DEF Round, Reached
<1> QED
  BY <1>3, <1>4, <1>5, <1>9

\* So the recursive function of Walk is defined and ends in Reached.
LEMMA WalkReaches ==
  ASSUME TreeInv, NEW p \in Procs, NEW abs \in BOOLEAN, NEW elems \in Seq(AnyName)
  PROVE  Walk(p, abs, elems) \in Reached
<1> DEFINE start == IF abs THEN Root ELSE cwd[p]
           at == CHOOSE f : IsWalk(f, Len(elems), start, elems)
<1>1. start \in Reached
  BY RootReached DEF Reached, Reachable, TreeInv
<1>2. IsWalk(at, Len(elems), start, elems)
  BY WalkExists
<1>3. at[Len(elems)] \in Reached
  BY <1>1, <1>2, WalkStays
<1>4. Walk(p, abs, elems) = at[Len(elems)]
  BY DEF Walk, IsWalk, Round
<1> QED
  BY <1>3, <1>4

\* The same for the inode and for the parent a path leads to.
LEMMA PathReaches ==
  ASSUME TreeInv, NEW p \in Procs, NEW path \in Paths
  PROVE  /\ PathToInode(p, path) \in Reached /\ PathToParent(p, path) \in Reached
         /\ PathNames(path) \subseteq AnyName \union {Nil}
<1>1. path.abs \in BOOLEAN /\ path.elems \in Seq(AnyName)
  BY PathAssumption
<1>2. path.elems # <<>> => Front(path.elems) \in Seq(AnyName) /\ Last(path.elems) \in AnyName
  BY <1>1 DEF Front, Last
<1> QED
  BY <1>1, <1>2, WalkReaches DEF PathToInode, PathToParent, PathNames

----------------------------------------------------------------------------
(* What every call ends with *)

\* What a walk finds exists.
LEMMA ReachedUsed ==
  ASSUME TreeInv, NEW v \in Reached, v # Nil
  PROVE  v \in Inums /\ v \in disk.alloc /\ (disk.type[v] = "dir" => v \in Reachable)
BY ReachedExists DEF Reached, TreeInv, TreeTypeOK, Disks

\* Counts, compared before and after: not more names and not fewer links.
LEMMA CoverMono ==
  ASSUME NEW s, NEW t, NEW i, Covered(s, i), NamingIn(t, i) \subseteq NamingIn(s, i),
         s.nlink[i] \in Int, t.nlink[i] \in Int, s.nlink[i] <= t.nlink[i]
  PROVE  Covered(t, i)
<1>1. /\ IsFiniteSet(NamingIn(t, i))
      /\ Cardinality(NamingIn(t, i)) <= Cardinality(NamingIn(s, i))
  BY FS_Subset DEF Covered
<1>2. Cardinality(NamingIn(t, i)) \in Nat /\ Cardinality(NamingIn(s, i)) \in Nat
  BY <1>1, FS_CardinalityType DEF Covered
<1> QED
  BY <1>1, <1>2 DEF Covered

\* One name and one link more.
LEMMA CoverAdd ==
  ASSUME NEW s, NEW t, NEW i, Covered(s, i), NEW x, NamingIn(t, i) \subseteq NamingIn(s, i) \union {x},
         s.nlink[i] \in Nat, t.nlink[i] \in Int, s.nlink[i] + 1 <= t.nlink[i]
  PROVE  Covered(t, i)
<1> DEFINE N == NamingIn(s, i)
           M == NamingIn(s, i) \union {x}
<1>1. IsFiniteSet(N) /\ (N = {} => Cardinality(N) = 0)
  BY FS_EmptySet DEF Covered
<1>2. IsFiniteSet(M) /\ (Cardinality(M) = Cardinality(N) \/ Cardinality(M) = Cardinality(N) + 1)
  BY <1>1, FS_AddElement
<1>3. /\ IsFiniteSet(NamingIn(t, i)) /\ Cardinality(NamingIn(t, i)) <= Cardinality(M)
  BY <1>2, FS_Subset
<1>4. /\ Cardinality(N) \in Nat /\ Cardinality(M) \in Nat /\ Cardinality(NamingIn(t, i)) \in Nat
  BY <1>1, <1>2, <1>3, FS_CardinalityType
<1>5. Cardinality(N) <= s.nlink[i]
  BY <1>1 DEF Covered
<1> HIDE DEF N, M
<1>6. Cardinality(NamingIn(t, i)) <= t.nlink[i]
  BY <1>2, <1>3, <1>4, <1>5
<1> QED
  BY <1>3, <1>6 DEF Covered

\* One name and one link less.
LEMMA CoverRemove ==
  ASSUME NEW s, NEW t, NEW i, Covered(s, i), NEW x \in NamingIn(s, i),
         NamingIn(t, i) \subseteq NamingIn(s, i) \ {x},
         s.nlink[i] \in Int, t.nlink[i] \in Int, s.nlink[i] - 1 <= t.nlink[i]
  PROVE  Covered(t, i)
<1> DEFINE N == NamingIn(s, i)
           M == NamingIn(s, i) \ {x}
<1>1. IsFiniteSet(N) /\ Cardinality(N) <= s.nlink[i]
  BY DEF Covered
<1>2. IsFiniteSet(M) /\ Cardinality(M) = Cardinality(N) - 1
  BY <1>1, FS_RemoveElement
<1>3. IsFiniteSet(NamingIn(t, i)) /\ Cardinality(NamingIn(t, i)) <= Cardinality(M)
  BY <1>2, FS_Subset
<1>4. /\ Cardinality(N) \in Nat /\ Cardinality(M) \in Nat /\ Cardinality(NamingIn(t, i)) \in Nat
  BY <1>1, <1>2, <1>3, FS_CardinalityType
<1> HIDE DEF N, M
<1>5. Cardinality(NamingIn(t, i)) <= t.nlink[i]
  BY <1>1, <1>2, <1>3, <1>4
<1> QED
  BY <1>3, <1>5 DEF Covered

\* A directory has at most one name.
LEMMA CoverDir ==
  ASSUME NEW s, Shape(s), NEW i \in Inums, s.type[i] = "dir",
         s.nlink[i] >= 1 \/ NamingIn(s, i) = {} \/ i = Root
  PROVE  Covered(s, i)
<1>1. CASE NamingIn(s, i) = {}
  BY <1>1, FS_EmptySet DEF Covered
<1>2. CASE NamingIn(s, i) # {}
  <2>1. PICK x : x \in NamingIn(s, i)
    BY <1>2
  <2>2. NamingIn(s, i) = {x} /\ i # Root
    BY <2>1 DEF Shape, OneName
  <2>3. IsFiniteSet(NamingIn(s, i)) /\ Cardinality(NamingIn(s, i)) = 1
    BY <2>2, FS_Singleton
  <2> QED
    BY <2>2, <2>3, <1>2 DEF Covered
<1> QED
  BY <1>1, <1>2

\* Settle only gives inodes back.
LEMMA SettleThins ==
  ASSUME NEW s \in Disks, NEW c, NEW o, NEW t, t = Settle(s, c, o), Root \in t.alloc
  PROVE  /\ Thinner(s, t) /\ t.nlink = s.nlink
         /\ \A i \in Inums : i \in t.alloc <=> i \in s.alloc /\ (s.nlink[i] # 0 \/ Used(i, c, o))
         /\ \A i \in t.alloc : t.ents[i] = s.ents[i]
<1> DEFINE gone == {i \in Inums : s.nlink[i] = 0 /\ ~Used(i, c, o)}
           ents == [i \in Inums |-> IF i \in gone THEN <<>> ELSE s.ents[i]]
<1>1. t = [s EXCEPT !.alloc = s.alloc \ gone, !.ents = ents]
  BY DEF Settle, Disks
<1>2. ents \in [Inums -> Seq(Dirents)]
  BY DEF Disks
<1> HIDE DEF ents, gone
<1>3. /\ t \in Disks /\ t.alloc = s.alloc \ gone /\ t.type = s.type /\ t.nlink = s.nlink
      /\ t.ents = ents
  BY <1>1, <1>2 DEF Disks
<1>4. \A i \in Inums : i \in gone <=> (s.nlink[i] = 0 /\ ~Used(i, c, o))
  BY DEF gone
<1>5. \A i \in t.alloc : t.ents[i] = s.ents[i]
  <2> SUFFICES ASSUME NEW i \in t.alloc PROVE t.ents[i] = s.ents[i]
    OBVIOUS
  <2>1. i \in Inums /\ i \notin gone
    BY <1>3 DEF Disks
  <2> QED
    BY <2>1, <1>3 DEF ents
<1>6. Thinner(s, t)
  BY <1>3, <1>5 DEF Thinner
<1> QED
  BY <1>3, <1>4, <1>5, <1>6

\* The disk a call leaves keeps the invariant, if it has the shape of a tree,
\* the inodes with links or in use exist, and counts cover the names of all but
\* the directories that have lost a link: those are left to KeepsLink.
LEMMA LeaveKeeps ==
  ASSUME TreeInv, KeepsLink, StaysInTree, NEW s, Leave(s), Shape(s),
         cwd' \in [Procs -> Inums], opn' \in [Procs -> Inums \union {Nil}],
         \A i \in Inums : s.nlink[i] # 0 \/ Used(i, cwd', opn') => i \in s.alloc,
         \A i \in Inums : s.type[i] = "data" => s.nlink[i] >= 0,
         \A i \in Inums : \/ Covered(s, i)
                          \/ s.type[i] = "dir" /\ disk.type[i] = "dir" /\ s.nlink[i] < disk.nlink[i]
  PROVE  TreeInv'
<1> DEFINE t == disk'
<1>1. s \in Disks /\ t = Settle(s, cwd', opn') /\ Root \in t.alloc
  BY DEF Shape, Leave, KeepsLink
<1>2. /\ Thinner(s, t) /\ t.nlink = s.nlink
      /\ \A i \in Inums : i \in t.alloc <=> i \in s.alloc /\ (s.nlink[i] # 0 \/ Used(i, cwd', opn'))
  BY <1>1, SettleThins
<1>3. t \in Disks /\ t.type = s.type
  BY <1>2 DEF Thinner
<1>4. Shape(t)
  BY <1>2, ThinShape
<1>5. TreeTypeOK'
  BY <1>3 DEF TreeTypeOK
<1>6. ASSUME NEW i \in Inums PROVE Covered(t, i)
  <2>1. NamingIn(t, i) \subseteq NamingIn(s, i)
    BY <1>2, ThinNaming
  <2>2. s.nlink[i] \in Int /\ t.nlink[i] = s.nlink[i] /\ t.type[i] = s.type[i]
    BY <1>1, <1>2, <1>3, DiskFields
  <2>3. CASE Covered(s, i)
    BY <2>1, <2>2, <2>3, CoverMono
  <2>4. CASE s.type[i] = "dir" /\ disk.type[i] = "dir" /\ s.nlink[i] < disk.nlink[i]
    <3>1. i # Root => t.nlink[i] > 0 \/ NamingIn(t, i) = {}
      BY <2>2, <2>4 DEF KeepsLink
    <3>2. t.nlink[i] > 0 => t.nlink[i] >= 1
      BY <2>2
    <3> QED
      BY <3>1, <3>2, <2>2, <2>4, <1>4, CoverDir
  <2> QED
    BY <2>3, <2>4
<1>7. UsedStaysAllocated'
  BY <1>2 DEF UsedStaysAllocated
<1>8. \A i \in Inums : t.type[i] = "data" => t.nlink[i] >= 0
  BY <1>2, <1>3
<1>9. \A p \in Procs : cwd'[p] \in ReachableIn(t)
  BY DEF StaysInTree
<1> QED
  BY <1>4, <1>5, <1>6, <1>7, <1>8, <1>9 DEF TreeInv, Reachable

----------------------------------------------------------------------------
(* The calls *)

\* The parts of the invariant the calls start from.
LEMMA InvParts ==
  ASSUME TreeInv
  PROVE  /\ disk \in Disks /\ Shape(disk) /\ Root \in disk.alloc
         /\ cwd \in [Procs -> Inums] /\ opn \in [Procs -> Inums \union {Nil}]
         /\ \A i \in Inums : /\ Covered(disk, i)
                             /\ disk.nlink[i] # 0 => i \in disk.alloc
                             /\ Used(i, cwd, opn) => i \in disk.alloc
                             /\ disk.type[i] = "data" => disk.nlink[i] >= 0
BY DEF TreeInv, TreeTypeOK, Shape, RootIsDir, UsedStaysAllocated

\* The disk mkfs makes.
LEMMA TreeInitInv == TreeInit => TreeInv
<1> SUFFICES ASSUME TreeInit PROVE TreeInv
  OBVIOUS
<1>0. Root \in Inums
  BY SizeAssumption DEF Root, Inums
<1>1. << <<".", Root>>, <<"..", Root>> >> \in Seq(Dirents)
  BY <1>0 DEF Dirents, AnyName
<1>2. /\ disk.alloc = {Root} /\ disk.type \in [Inums -> {"data", "dir"}]
      /\ disk.nlink \in [Inums -> {0, 1}] /\ disk.ents \in [Inums -> Seq(Dirents)]
      /\ disk.ents[Root] = << <<".", Root>>, <<"..", Root>> >>
      /\ \A i \in Inums : /\ disk.type[i] = "dir" <=> i = Root
                          /\ disk.nlink[i] = 1 <=> i = Root
  BY <1>0, <1>1 DEF TreeInit
<1>3. {0, 1} \subseteq ShortMin .. ShortMax
  BY ShortLinks
<1>4. disk \in Disks
  <2>1. disk = [alloc |-> disk.alloc, type |-> disk.type, nlink |-> disk.nlink, ents |-> disk.ents]
    BY DEF TreeInit
  <2>2. disk.nlink \in [Inums -> ShortMin .. ShortMax] /\ disk.alloc \in SUBSET Inums
    BY <1>0, <1>2, <1>3
  <2> QED
    BY <2>1, <2>2, <1>2 DEF Disks
<1>5. cwd = [p \in Procs |-> Root] /\ opn = [p \in Procs |-> Nil]
  BY DEF TreeInit
<1>6. TreeTypeOK
  BY <1>0, <1>4, <1>5 DEF TreeTypeOK
<1>7. ASSUME NEW j \in DOMAIN disk.ents[Root]
      PROVE  \/ j = 1 /\ disk.ents[Root][j][1] = "." /\ disk.ents[Root][j][2] = Root
             \/ j = 2 /\ disk.ents[Root][j][1] = ".." /\ disk.ents[Root][j][2] = Root
  BY <1>2
<1>8. ASSUME NEW i PROVE NamingIn(disk, i) = {}
  <2> SUFFICES ASSUME NEW x \in NamingIn(disk, i) PROVE FALSE
    OBVIOUS
  <2>1. \E d \in disk.alloc : \E j \in DOMAIN disk.ents[d] : disk.ents[d][j][1] \in Names
    BY NamingMember
  <2> QED
    BY <2>1, <1>2, <1>7, NamesDiffer
<1>9. Shape(disk)
  <2>1. RootIsDir(disk)
    BY <1>0, <1>2 DEF RootIsDir
  <2>2. DistinctNames(disk)
    BY <1>2, <1>7 DEF DistinctNames
  <2>3. OneName(disk)
    BY <1>8 DEF OneName
  <2>4. DotsLead(disk)
    BY <1>2, <1>7 DEF DotsLead
  <2> QED
    BY <1>4, <2>1, <2>2, <2>3, <2>4 DEF Shape
<1>10. \A i \in Inums : Covered(disk, i)
  BY <1>8, FS_EmptySet DEF Covered
<1>11. UsedStaysAllocated
  <2>1. \A i \in Inums : Used(i, cwd, opn) => i = Root
    BY <1>5, NilIsNone DEF Used
  <2>2. \A i \in Inums : disk.nlink[i] # 0 <=> i = Root
    BY <1>2
  <2> QED
    BY <2>1, <2>2, <1>0, <1>2 DEF UsedStaysAllocated
<1>12. \A i \in Inums : disk.type[i] = "data" => disk.nlink[i] >= 0
  BY <1>2
<1>13. \A p \in Procs : cwd[p] \in Reachable
  BY <1>5, RootReached DEF Reachable
<1> QED
  BY <1>6, <1>9, <1>10, <1>11, <1>12, <1>13 DEF TreeInv

\* What two users' fields refer to, when one field changes.
LEMMA UsedThen ==
  ASSUME NEW c, NEW o, NEW c2, NEW o2, NEW p \in Procs, NEW v, NEW i,
         Used(i, c2, o2), DOMAIN c = Procs, DOMAIN o = Procs,
         \/ c2 = c /\ o2 = [o EXCEPT ![p] = v]
         \/ c2 = [c EXCEPT ![p] = v] /\ o2 = o
         \/ c2 = c /\ o2 = o
  PROVE  Used(i, c, o) \/ i = v
BY DEF Used

\* sys_close: the inode is put.
LEMMA CloseKeeps ==
  ASSUME TreeInv, KeepsLink, StaysInTree, NEW p \in Procs, Close(p)
  PROVE  TreeInv'
<1>1. /\ opn' = [opn EXCEPT ![p] = Nil] /\ cwd' = cwd /\ Leave(disk)
  BY DEF Close
<1>2. opn' \in [Procs -> Inums \union {Nil}]
  BY <1>1, InvParts
<1>3. \A i \in Inums : Used(i, cwd', opn') => i \in disk.alloc
  BY <1>1, InvParts, UsedThen, NilIsNone
<1> QED
  BY <1>1, <1>2, <1>3, InvParts, LeaveKeeps

\* sys_open: the inode a path leads to exists.
LEMMA OpenKeeps ==
  ASSUME TreeInv, KeepsLink, StaysInTree, NEW p \in Procs, NEW path \in Paths, Open(p, path)
  PROVE  TreeInv'
<1> DEFINE v == PathToInode(p, path)
<1>1. /\ opn' = [opn EXCEPT ![p] = v] /\ cwd' = cwd /\ Leave(disk) /\ v # Nil
  BY DEF Open
<1>2. v \in Inums /\ v \in disk.alloc
  BY <1>1, PathReaches, ReachedUsed
<1> HIDE DEF v
<1>3. opn' \in [Procs -> Inums \union {Nil}]
  BY <1>1, <1>2, InvParts
<1>4. \A i \in Inums : Used(i, cwd', opn') => i \in disk.alloc
  BY <1>1, <1>2, InvParts, UsedThen
<1> QED
  BY <1>1, <1>3, <1>4, InvParts, LeaveKeeps

\* sys_chdir: the directory a path leads to exists.
LEMMA ChdirKeeps ==
  ASSUME TreeInv, KeepsLink, StaysInTree, NEW p \in Procs, NEW path \in Paths, Chdir(p, path)
  PROVE  TreeInv'
<1> DEFINE v == PathToInode(p, path)
<1>1. /\ cwd' = [cwd EXCEPT ![p] = v] /\ opn' = opn /\ Leave(disk) /\ v # Nil
  BY DEF Chdir
<1>2. v \in Inums /\ v \in disk.alloc
  BY <1>1, PathReaches, ReachedUsed
<1> HIDE DEF v
<1>3. cwd' \in [Procs -> Inums]
  BY <1>1, <1>2, InvParts
<1>4. \A i \in Inums : Used(i, cwd', opn') => i \in disk.alloc
  BY <1>1, <1>2, InvParts, UsedThen
<1> QED
  BY <1>1, <1>3, <1>4, InvParts, LeaveKeeps

\* A call cannot have entered a "." or ".." into a directory it could reach:
\* the directory is not given back, and KeepsDots excludes it.
LEMMA DotsKept ==
  ASSUME TreeInv, KeepsLink, KeepsDots, NEW s \in Disks, Leave(s), NEW d \in Reachable,
         s.nlink[d] = disk.nlink[d], s.type[d] = "dir", d \in s.alloc,
         NEW n \in {".", ".."}, DentrySearch(disk, d, n) = Nil,
         NEW j \in DOMAIN s.ents[d], s.ents[d][j][1] = n
  PROVE  FALSE
<1> DEFINE t == disk'
<1>0. t = Settle(s, cwd', opn') /\ Root \in t.alloc
  BY DEF Leave, KeepsLink
<1>1. d \in Inums /\ d \in disk.alloc /\ (d # Root => disk.nlink[d] >= 1)
  BY ReachedExists
<1>2. d \in t.alloc /\ t.ents[d] = s.ents[d] /\ t.type[d] = "dir" /\ t \in Disks
  BY <1>0, <1>1, SettleThins DEF Thinner
<1>3. DentrySearch(t, d, n) = Nil
  BY <1>1 DEF KeepsDots
<1>4. n # Nil
  BY NamesDiffer
<1> HIDE DEF t
<1> QED
  BY <1>1, <1>2, <1>3, <1>4, SearchMisses

\* A disk with more or less links.
LEMMA Relinked ==
  ASSUME NEW s, Shape(s), NEW links \in [Inums -> ShortMin .. ShortMax],
         NEW t, t = [s EXCEPT !.nlink = links]
  PROVE  /\ Thinner(s, t) /\ Shape(t) /\ t.alloc = s.alloc /\ t.type = s.type
         /\ t.ents = s.ents /\ t.nlink = links
<1>1. s \in Disks /\ Root \in s.alloc
  BY DEF Shape, RootIsDir
<1>2. /\ t \in Disks /\ t.alloc = s.alloc /\ t.type = s.type
      /\ t.ents = s.ents /\ t.nlink = links
  BY <1>1 DEF Disks
<1>3. Thinner(s, t)
  BY <1>1, <1>2 DEF Thinner
<1> QED
  BY <1>2, <1>3, ThinShape

\* The names a call may use, once "." and ".." are excluded.
LEMMA NewEntry ==
  ASSUME NEW n \in AnyName \union {Nil}, n \notin {".", ".."}, NEW i \in Inums,
         NEW e, e = IF n = Nil THEN Free ELSE <<n, i>>
  PROVE  /\ e = Free \/ (e[1] \in Names /\ e[2] \in Inums)
         /\ e # Free => n # Nil /\ e[1] = n /\ e[2] = i
         /\ e[1] \in Names => e[2] = i
BY NamesDiffer DEF AnyName

\* path_link: one name and one link more for a file.
LEMMA PathLinkKeeps ==
  ASSUME TreeInv, KeepsLink, StaysInTree, KeepsDots,
         NEW p \in Procs, NEW old \in Paths, NEW new \in Paths,
         PathLink(p, PathToInode(p, old), new)
  PROVE  TreeInv'
<1> DEFINE i == PathToInode(p, old)
           d == PathToParent(p, new)
<1>1. i \in Reached /\ d \in Reached /\ i # Nil /\ d # Nil /\ disk.type[i] # "dir"
  BY PathReaches DEF PathLink
<1>2. PICK n \in PathNames(new) :
        /\ DentrySearch(disk, d, n) = Nil /\ disk.nlink[i] < MaxLink
        /\ cwd' = cwd /\ opn' = opn
        /\ Leave([DentryCreate(disk, d, n, i) EXCEPT !.nlink[i] = @ + 1])
  BY DEF PathLink
<1>3. n \in AnyName \union {Nil}
  BY PathReaches
<1>4. /\ i \in Inums /\ i \in disk.alloc /\ d \in Inums /\ d \in disk.alloc
      /\ disk.type[d] = "dir" => d \in Reachable
  BY <1>1, ReachedUsed
<1> HIDE DEF i, d
<1>5. disk.type[i] = "data" /\ disk.nlink[i] \in Nat /\ disk \in Disks
  <2>1. disk.type[i] \in {"data", "dir"} /\ disk.nlink[i] \in Int /\ disk \in Disks
    BY <1>4, InvParts, DiskFields
  <2> QED
    BY <2>1, <1>1, <1>4, InvParts
<1> DEFINE s == DentryCreate(disk, d, n, i)
           e == IF n = Nil THEN Free ELSE <<n, i>>
           links == [s.nlink EXCEPT ![i] = @ + 1]
           u == [s EXCEPT !.nlink = links]
<1>6. u = [DentryCreate(disk, d, n, i) EXCEPT !.nlink[i] = @ + 1]
  OBVIOUS
<1>7. Leave(u)
  BY <1>2, <1>6
<1>8. s = disk \/ (disk.type[d] = "dir" /\ \E j : PutAt(disk, s, d, j, e))
  BY <1>3, <1>4, <1>5, CreateEffect
<1> HIDE DEF s
<1>9. s \in Disks /\ s.alloc = disk.alloc /\ s.type = disk.type /\ s.nlink = disk.nlink
  BY <1>5, <1>8 DEF PutAt
<1>10. links \in [Inums -> ShortMin .. ShortMax] /\ links[i] = disk.nlink[i] + 1
       /\ \A c \in Inums \ {i} : links[c] = disk.nlink[c]
  <2>1. disk.nlink \in [Inums -> ShortMin .. ShortMax]
    BY <1>5 DEF Disks
  <2>2. disk.nlink[i] + 1 \in ShortMin .. ShortMax
    <3>1. MaxLink \in Nat /\ MaxLink <= 32767
      BY SizeAssumption, LinkAssumption DEF ShortMax
    <3> QED
      BY <3>1, <1>2, <1>5, ShortLinks
  <2> QED
    BY <2>1, <2>2, <1>4, <1>9
<1> HIDE DEF links, u, e
<1>11. Shape(s) /\ \E x : \A c : NamingIn(s, c) \subseteq NamingIn(disk, c) \union (IF c = i THEN {x} ELSE {})
  <2>1. CASE s = disk
    BY <2>1, InvParts
  <2>2. CASE disk.type[d] = "dir" /\ \E j : PutAt(disk, s, d, j, e)
    <3>1. PICK j : PutAt(disk, s, d, j, e)
      BY <2>2
    <3>2. d \in Reachable /\ d # i
      BY <2>2, <1>4, <1>5
    <3>3. n \notin {".", ".."}
      <4> SUFFICES ASSUME n \in {".", ".."} PROVE FALSE
        OBVIOUS
      <4>0. n # Nil
        BY NamesDiffer
      <4>1. e[1] = n
        BY <4>0 DEF e
      <4>2. j \in DOMAIN s.ents[d] /\ s.ents[d][j][1] = n
        BY <3>1, <4>1 DEF PutAt
      <4>3. /\ u \in Disks /\ u.nlink[d] = disk.nlink[d] /\ u.type[d] = "dir" /\ d \in u.alloc
            /\ u.ents = s.ents
        BY <1>9, <1>10, <1>4, <3>2, <2>2 DEF Disks, u
      <4> QED
        BY <1>2, <1>7, <3>2, <4>2, <4>3, DotsKept
    <3>4. /\ e = Free \/ (e[1] \in Names /\ e[2] \in Inums)
          /\ e # Free => n # Nil /\ e[1] = n /\ e[2] = i
          /\ e[1] \in Names => e[2] = i
      <4>1. e = IF n = Nil THEN Free ELSE <<n, i>>
        BY DEF e
      <4> QED
        BY <4>1, <1>3, <1>4, <3>3, NewEntry
    <3>5. n # Nil => \A k \in DOMAIN disk.ents[d] : disk.ents[d][k][1] # n
      BY <1>2, <1>4, <1>5, <2>2, SearchMisses
    <3>6. Shape(s)
      BY <3>1, <3>4, <3>5, <1>4, <1>5, InvParts, PutShape
    <3>7. \A c : NamingIn(s, c) \subseteq NamingIn(disk, c) \union (IF c = i THEN {<<d, j>>} ELSE {})
      BY <3>1, <3>4, <1>4, <1>5, PutNaming
    <3> QED
      BY <3>6, <3>7
  <2> QED
    BY <1>8, <2>1, <2>2
<1>12. /\ Thinner(s, u) /\ Shape(u) /\ u.alloc = disk.alloc /\ u.type = disk.type
       /\ u.nlink = links
  BY <1>9, <1>10, <1>11, Relinked DEF u
<1>13. ASSUME NEW c \in Inums PROVE Covered(u, c)
  <2>1. Covered(disk, c) /\ disk.nlink[c] \in Int /\ u.nlink[c] \in Int
    BY <1>5, <1>12, InvParts, DiskFields DEF Thinner
  <2>2. PICK x : NamingIn(s, c) \subseteq NamingIn(disk, c) \union (IF c = i THEN {x} ELSE {})
    BY <1>11
  <2>3. NamingIn(u, c) \subseteq NamingIn(s, c)
    BY <1>12, ThinNaming
  <2>4. CASE c = i
    BY <2>1, <2>2, <2>3, <2>4, <1>5, <1>10, <1>12, CoverAdd
  <2>5. CASE c # i
    <3>1. NamingIn(u, c) \subseteq NamingIn(disk, c) /\ u.nlink[c] = disk.nlink[c]
      BY <2>2, <2>3, <2>5, <1>10, <1>12
    <3> QED
      BY <2>1, <3>1, CoverMono
  <2> QED
    BY <2>4, <2>5
<1>14. \A c \in Inums : u.nlink[c] # 0 \/ Used(c, cwd', opn') => c \in u.alloc
  BY <1>2, <1>4, <1>10, <1>12, InvParts
<1>15. \A c \in Inums : u.type[c] = "data" => u.nlink[c] >= 0
  BY <1>5, <1>10, <1>12, InvParts
<1> QED
  BY <1>2, <1>7, <1>12, <1>13, <1>14, <1>15, InvParts, LeaveKeeps

\* dentry_delete removes the entry that dentry_search finds.
LEMMA DeleteEffect ==
  ASSUME NEW s, Shape(s), NEW d \in Inums, d \in s.alloc, NEW n, DentrySearch(s, d, n) # Nil, n \in Names
  PROVE  LET t == DentryDelete(s, d, n)
             i == DentrySearch(s, d, n)
         IN /\ Thinner(s, t) /\ t.alloc = s.alloc /\ t.nlink = s.nlink
            /\ \E x \in NamingIn(s, i) : NamingIn(t, i) \subseteq NamingIn(s, i) \ {x}
<1> DEFINE i == DentrySearch(s, d, n)
           j == Min({k \in DOMAIN s.ents[d] : s.ents[d][k][1] = n})
           q == [s.ents[d] EXCEPT ![j] = Free]
           t == WithEnts(s, d, q)
<1>0. s \in Disks /\ Root \in s.alloc
  BY DEF Shape, RootIsDir
<1>1. s.type[d] = "dir" /\ j \in DOMAIN s.ents[d] /\ s.ents[d][j] = <<n, i>>
  <2>1. s.type[d] = "dir" /\ \E k \in DOMAIN s.ents[d] : k = j /\ s.ents[d][k] = <<n, i>>
    BY <1>0, SearchFinds, Zenon
  <2> QED
    BY <2>1, Zenon
<1>2. DentryDelete(s, d, n) = t
  BY DEF DentryDelete, WithEnts
<1> HIDE DEF i, j
<1>3. s.ents[d] \in Seq(Dirents) /\ Free \in Dirents
  BY <1>0, DiskFields DEF Dirents
<1>4. /\ q \in Seq(Dirents) /\ DOMAIN q = DOMAIN s.ents[d] /\ q[j] = Free
      /\ \A k \in DOMAIN s.ents[d] : k # j => q[k] = s.ents[d][k]
  BY <1>1, <1>3, SeqReplace
<1> HIDE DEF q
<1>12. t = WithEnts(s, d, q)
  OBVIOUS
<1> HIDE DEF t
<1>5. /\ t \in Disks /\ t.alloc = s.alloc /\ t.type = s.type /\ t.nlink = s.nlink
      /\ t.ents[d] = q /\ \A c \in Inums \ {d} : t.ents[c] = s.ents[c]
  BY <1>0, <1>4, <1>12, SetEnts
<1>6. \A c \in t.alloc : /\ DOMAIN t.ents[c] = DOMAIN s.ents[c]
                         /\ \A k \in DOMAIN s.ents[c] : t.ents[c][k] \in {s.ents[c][k], Free}
  BY <1>4, <1>5 DEF Disks
<1>7. Thinner(s, t)
  BY <1>0, <1>5, <1>6 DEF Thinner
<1>8. <<d, j>> \in NamingIn(s, i)
  <2>1. s.ents[d][j][1] = n /\ s.ents[d][j][2] = i
    BY <1>1
  <2> QED
    BY <2>1, <1>1, NamingEntry
<1>9. <<d, j>> \notin NamingIn(t, i)
  <2> SUFFICES ASSUME <<d, j>> \in NamingIn(t, i) PROVE FALSE
    OBVIOUS
  <2>1. \E b \in t.alloc : \E k \in DOMAIN t.ents[b] :
          <<d, j>> = <<b, k>> /\ t.ents[b][k][1] \in Names
    BY NamingMember
  <2>2. t.ents[d][j][1] \in Names
    BY <2>1
  <2> QED
    BY <2>2, <1>4, <1>5, NamesDiffer
<1>10. NamingIn(t, i) \subseteq NamingIn(s, i) \ {<<d, j>>}
  BY <1>7, <1>9, ThinNaming
<1>11. \E x \in NamingIn(s, i) : NamingIn(t, i) \subseteq NamingIn(s, i) \ {x}
  BY <1>8, <1>10
<1> QED
  BY <1>2, <1>5, <1>7, <1>11, Zenon DEF i

\* path_unlink: one name and one link less; what a directory and its parent lose
\* is left to KeepsLink.
LEMMA PathUnlinkKeeps ==
  ASSUME TreeInv, KeepsLink, StaysInTree, NEW p \in Procs, NEW path \in Paths, PathUnlink(p, path)
  PROVE  TreeInv'
<1> DEFINE d == PathToParent(p, path)
<1>1. d \in Reached /\ d # Nil
  BY PathReaches DEF PathUnlink
<1>2. PICK n \in PathNames(path) \ {".", ".."} :
        /\ DentrySearch(disk, d, n) \notin {Nil, d} /\ cwd' = cwd /\ opn' = opn
        /\ disk.type[DentrySearch(disk, d, n)] = "dir" => disk.nlink[d] > MinLink
        /\ Leave(LoseLink(DentryDelete(disk, d, n), DentrySearch(disk, d, n), d))
  BY DEF PathUnlink
<1>3. d \in Inums /\ d \in disk.alloc
  BY <1>1, ReachedUsed
<1> HIDE DEF d
<1> DEFINE i == DentrySearch(disk, d, n)
           s == DentryDelete(disk, d, n)
           u == LoseLink(s, i, d)
<1>4. disk \in Disks /\ Shape(disk)
  BY InvParts
<1>5. /\ disk.type[d] = "dir" /\ n # Nil /\ i \in Inums /\ i # d
  BY <1>2, <1>3, <1>4, SearchFinds
<1>6. n \in Names
  BY <1>2, <1>5, PathReaches DEF AnyName
<1>7. /\ Thinner(disk, s) /\ s.alloc = disk.alloc /\ s.nlink = disk.nlink
      /\ \E x \in NamingIn(disk, i) : NamingIn(s, i) \subseteq NamingIn(disk, i) \ {x}
  BY <1>2, <1>3, <1>4, <1>6, DeleteEffect
<1>8. Leave(u)
  BY <1>2
<1>9. disk.type[i] = "dir" => disk.nlink[d] > MinLink
  BY <1>2
<1> HIDE DEF i, s
<1>10. disk.nlink[i] >= 1 /\ i \in disk.alloc
  BY <1>5, <1>7, NamedExists
<1>11. Shape(s) /\ s.type = disk.type
  BY <1>4, <1>7, ThinShape DEF Thinner
<1>12. \A c \in Inums : disk.nlink[c] \in ShortMin .. ShortMax /\ disk.nlink[c] \in Int
  BY <1>4, DiskFields
<1> DEFINE links == [c \in Inums |->
                      IF c = i \/ (c = d /\ disk.type[i] = "dir") THEN disk.nlink[c] - 1
                      ELSE disk.nlink[c]]
<1>13. disk.nlink \in [Inums -> ShortMin .. ShortMax]
  BY <1>4 DEF Disks
<1>14. /\ links[i] = disk.nlink[i] - 1
       /\ disk.type[i] = "dir" => links[d] = disk.nlink[d] - 1
       /\ \A c \in Inums : c # i /\ (c # d \/ disk.type[i] # "dir") => links[c] = disk.nlink[c]
       /\ links \in [Inums -> Int]
  BY <1>3, <1>5, <1>12
<1>15. links \in [Inums -> ShortMin .. ShortMax]
  <2>1. disk.nlink[i] - 1 \in ShortMin .. ShortMax
    BY <1>5, <1>10, <1>12, ShortLinks
  <2>2. ASSUME disk.type[i] = "dir" PROVE disk.nlink[d] - 1 \in ShortMin .. ShortMax
    <3>1. MinLink \in Int /\ MinLink >= -32767
      <4>1. ShortMin + 1 \in Int /\ ShortMin + 1 = -32767
        BY DEF ShortMin
      <4> QED
        BY <4>1, LinkAssumption
    <3>2. disk.nlink[d] > MinLink /\ disk.nlink[d] \in Int
      BY <2>2, <1>9, <1>3, <1>12
    <3>3. disk.nlink[d] <= 32767
      BY <1>3, <1>12, ShortLinks
    <3>4. -32768 <= disk.nlink[d] - 1 /\ disk.nlink[d] - 1 <= 32767
      BY <3>1, <3>2, <3>3
    <3> QED
      BY <3>2, <3>4, ShortLinks
  <2> QED
    BY <2>1, <2>2, <1>12
<1>16. u = [s EXCEPT !.nlink = links]
  <2>1. ~ (s.nlink[i] <= 0)
    BY <1>5, <1>7, <1>10, <1>12
  <2> QED
    BY <2>1, <1>7, <1>11 DEF LoseLink
<1> HIDE DEF links, u
<1>17. /\ Thinner(s, u) /\ Shape(u) /\ u.alloc = disk.alloc /\ u.type = disk.type
       /\ u.nlink = links
  BY <1>7, <1>11, <1>15, <1>16, Relinked
<1>18. ASSUME NEW c \in Inums
       PROVE  \/ Covered(u, c)
              \/ u.type[c] = "dir" /\ disk.type[c] = "dir" /\ u.nlink[c] < disk.nlink[c]
  <2>1. Covered(disk, c) /\ disk.nlink[c] \in Int /\ u.nlink[c] \in Int
    BY <1>12, <1>14, <1>17, InvParts
  <2>2. NamingIn(u, c) \subseteq NamingIn(s, c) /\ NamingIn(s, c) \subseteq NamingIn(disk, c)
    BY <1>7, <1>17, ThinNaming
  <2>3. CASE c # i /\ (c # d \/ disk.type[i] # "dir")
    BY <2>1, <2>2, <2>3, <1>14, <1>17, CoverMono
  <2>4. CASE disk.type[i] = "dir" /\ (c = i \/ c = d)
    BY <2>1, <2>4, <1>5, <1>14, <1>17
  <2>5. CASE disk.type[i] # "dir" /\ c = i
    <3>1. PICK x \in NamingIn(disk, i) : NamingIn(s, i) \subseteq NamingIn(disk, i) \ {x}
      BY <1>7
    <3>2. NamingIn(u, c) \subseteq NamingIn(disk, c) \ {x}
      BY <3>1, <2>2, <2>5
    <3> QED
      BY <3>1, <3>2, <2>1, <2>5, <1>14, <1>17, CoverRemove
  <2> QED
    BY <2>3, <2>4, <2>5
<1>19. \A c \in Inums : u.nlink[c] # 0 \/ Used(c, cwd', opn') => c \in u.alloc
  BY <1>2, <1>3, <1>10, <1>14, <1>17, InvParts
<1>20. ASSUME NEW c \in Inums, u.type[c] = "data" PROVE u.nlink[c] >= 0
  <2>1. disk.nlink[c] >= 0 /\ disk.type[c] = "data"
    BY <1>17, <1>20, InvParts
  <2>2. CASE c # i
    BY <2>1, <2>2, <1>5, <1>14, <1>17
  <2>3. CASE c = i
    BY <2>1, <2>3, <1>10, <1>12, <1>14, <1>17
  <2> QED
    BY <2>2, <2>3
<1> QED
  BY <1>2, <1>8, <1>17, <1>18, <1>19, <1>20, InvParts, LeaveKeeps

\* inode_create, in an inode that was free.
LEMMA InodeCreateFresh ==
  ASSUME TreeInv, NEW i \in Inums, i \notin disk.alloc, NEW type \in {"data", "dir"}, NEW d
  PROVE  LET s == InodeCreate(disk, i, type)
         IN /\ Fresh(disk, s, i, d) /\ s.type[i] = type /\ s.nlink[i] = 1 /\ s.ents[i] = <<>>
            /\ \A c \in Inums : c # i => s.nlink[c] = disk.nlink[c]
<1> DEFINE s == InodeCreate(disk, i, type)
<1>1. NamingIn(disk, i) = {}
  BY NamedExists
<1>2. disk \in Disks
  BY InvParts
<1>3. 1 \in ShortMin .. ShortMax /\ <<>> \in Seq(Dirents)
  BY ShortLinks
<1>4. /\ s \in Disks /\ s.alloc = disk.alloc \union {i}
      /\ s.type[i] = type /\ s.nlink[i] = 1 /\ s.ents[i] = <<>>
      /\ \A c \in Inums : c # i => /\ s.type[c] = disk.type[c] /\ s.nlink[c] = disk.nlink[c]
                                   /\ s.ents[c] = disk.ents[c]
  BY <1>2, <1>3 DEF InodeCreate, Disks
<1> HIDE DEF s
<1>5. disk.alloc \subseteq Inums
  BY <1>2 DEF Disks
<1>6. Fresh(disk, s, i, d)
  BY <1>1, <1>4, <1>5 DEF Fresh
<1> QED
  BY <1>4, <1>6 DEF s

\* Entering "." and "..".
LEMMA DotFresh ==
  ASSUME NEW t0, NEW s, NEW i, NEW d \in Inums, Fresh(t0, s, i, d), t0.alloc \subseteq Inums,
         s.type[i] = "dir",
         NEW n, NEW v, (n = "." /\ v = i) \/ (n = ".." /\ v = d)
  PROVE  LET t == DentryCreate(s, i, n, v)
         IN /\ Fresh(t0, t, i, d) /\ t.nlink = s.nlink /\ t.type = s.type
<1> DEFINE t == DentryCreate(s, i, n, v)
<1>0. s \in Disks /\ i \in Inums /\ v \in Inums /\ n \in AnyName /\ n # Nil
  BY NamesDiffer DEF Fresh, AnyName
<1>1. \/ t = s
      \/ DentrySearch(s, i, n) = Nil /\ \E j : PutAt(s, t, i, j, IF n = Nil THEN Free ELSE <<n, v>>)
  BY <1>0, CreateEffect
<1> HIDE DEF t
<1>2. CASE t = s
  BY <1>2 DEF t
<1>3. CASE DentrySearch(s, i, n) = Nil /\ \E j : PutAt(s, t, i, j, IF n = Nil THEN Free ELSE <<n, v>>)
  <2> DEFINE e == <<n, v>>
  <2>1. PICK j : PutAt(s, t, i, j, e)
    BY <1>0, <1>3
  <2>2. \A k \in DOMAIN s.ents[i] : s.ents[i][k][1] # n
    BY <1>0, <1>3, SearchMisses
  <2>3. e[1] = n /\ e[2] = v /\ n \notin Names
    BY NamesDiffer
  <2> HIDE DEF e
  <2>4. \A k \in DOMAIN t.ents[i] :
          \/ k = j /\ t.ents[i][k] = e
          \/ k # j /\ k \in DOMAIN s.ents[i] /\ t.ents[i][k] = s.ents[i][k]
    BY <2>1 DEF PutAt
  <2>5. /\ t \in Disks /\ t.alloc = s.alloc /\ t.type = s.type /\ t.nlink = s.nlink
        /\ \A c \in Inums : c # i => t.ents[c] = s.ents[c]
    BY <2>1 DEF PutAt
  <2>6. \A k \in DOMAIN t.ents[i] :
          /\ t.ents[i][k][1] \notin Names
          /\ t.ents[i][k][1] = "." => t.ents[i][k][2] = i
          /\ t.ents[i][k][1] = ".." => t.ents[i][k][2] = d
    BY <2>3, <2>4 DEF Fresh
  <2>7. ASSUME NEW k \in DOMAIN t.ents[i], NEW m \in DOMAIN t.ents[i], k # m, t.ents[i][k] # Free
        PROVE  t.ents[i][k][1] # t.ents[i][m][1]
    BY <2>2, <2>3, <2>4, <2>7 DEF Fresh
  <2>8. Fresh(t0, t, i, d)
    BY <2>5, <2>6, <2>7 DEF Fresh
  <2> QED
    BY <2>5, <2>8 DEF t
<1> QED
  BY <1>1, <1>2, <1>3

\* A new directory, with as many of its two entries as the disk had room for.
LEMMA MakeDotsFresh ==
  ASSUME TreeInv, NEW i \in Inums, i \notin disk.alloc, NEW d \in Inums
  PROVE  LET s == MakeDots(InodeCreate(disk, i, "dir"), i, d)
         IN /\ Fresh(disk, s, i, d) /\ s.nlink[i] = 2
            /\ \A c \in Inums : c # i => s.nlink[c] = disk.nlink[c]
<1> DEFINE s0 == InodeCreate(disk, i, "dir")
           s1 == DentryCreate(s0, i, ".", i)
           s2 == DentryCreate(s1, i, "..", d)
           s == MakeDots(s0, i, d)
<1>1. /\ Fresh(disk, s0, i, d) /\ s0.type[i] = "dir" /\ s0.nlink[i] = 1
      /\ \A c \in Inums : c # i => s0.nlink[c] = disk.nlink[c]
  BY InodeCreateFresh
<1>2. s = [s2 EXCEPT !.nlink[i] = @ + 1]
  BY DEF MakeDots
<1>3. disk.alloc \subseteq Inums
  BY InvParts DEF Disks
<1> HIDE DEF s0
<1>4. Fresh(disk, s1, i, d) /\ s1.nlink = s0.nlink /\ s1.type = s0.type
  BY <1>1, <1>3, DotFresh
<1> HIDE DEF s1
<1>5. Fresh(disk, s2, i, d) /\ s2.nlink = s0.nlink /\ s2.type = s0.type
  BY <1>1, <1>3, <1>4, DotFresh
<1> HIDE DEF s2, s
<1>6. s2 \in Disks /\ 2 \in ShortMin .. ShortMax
  BY <1>5, ShortLinks DEF Fresh
<1> DEFINE links == [s2.nlink EXCEPT ![i] = @ + 1]
<1>9. s2.nlink \in [Inums -> ShortMin .. ShortMax] /\ s2.nlink[i] + 1 = 2
  BY <1>1, <1>5, <1>6 DEF Disks
<1>10. /\ links \in [Inums -> ShortMin .. ShortMax] /\ links[i] = 2
       /\ \A c \in Inums : c # i => links[c] = disk.nlink[c]
  BY <1>1, <1>5, <1>6, <1>9
<1>11. s = [s2 EXCEPT !.nlink = links]
  BY <1>2
<1> HIDE DEF links
<1>7. /\ s \in Disks /\ s.alloc = s2.alloc /\ s.type = s2.type /\ s.ents = s2.ents
      /\ s.nlink[i] = 2 /\ \A c \in Inums : c # i => s.nlink[c] = disk.nlink[c]
  BY <1>6, <1>10, <1>11 DEF Disks
<1>8. Fresh(disk, s, i, d)
  BY <1>5, <1>7 DEF Fresh
<1> QED
  BY <1>7, <1>8 DEF s, s0

\* Entering a new inode under its name.
LEMMA CreateKeeps ==
  ASSUME TreeInv, KeepsLink, StaysInTree, KeepsDots, NEW d \in Reached, d # Nil,
         NEW i \in Inums, i \notin disk.alloc, i # d,
         NEW n \in AnyName \union {Nil}, DentrySearch(disk, d, n) = Nil,
         NEW full, Fresh(disk, full, i, d), full.nlink[i] \in {1, 2},
         \A c \in Inums : c # i => full.nlink[c] = disk.nlink[c],
         Leave(DentryCreate(full, d, n, i)),
         cwd' = cwd, opn' = opn \/ \E p \in Procs : opn' = [opn EXCEPT ![p] = i]
  PROVE  TreeInv'
<1> DEFINE s == DentryCreate(full, d, n, i)
           e == IF n = Nil THEN Free ELSE <<n, i>>
<1>1. d \in Inums /\ d \in disk.alloc /\ (disk.type[d] = "dir" => d \in Reachable)
  BY ReachedUsed
<1>2. /\ full \in Disks /\ full.alloc = disk.alloc \union {i} /\ Shape(full)
      /\ full.type[d] = disk.type[d] /\ full.ents[d] = disk.ents[d]
      /\ Root \in disk.alloc /\ disk \in Disks
  <2>1. full \in Disks /\ full.alloc = disk.alloc \union {i}
    BY DEF Fresh
  <2>2. full.type[d] = disk.type[d] /\ full.ents[d] = disk.ents[d]
    BY <1>1 DEF Fresh
  <2>3. disk \in Disks /\ Root \in disk.alloc /\ Shape(disk)
    BY InvParts
  <2>4. Shape(full)
    BY <2>3, FreshShape
  <2> QED
    BY <2>1, <2>2, <2>3, <2>4
<1>3. s = full \/ (full.type[d] = "dir" /\ \E j : PutAt(full, s, d, j, e))
  BY <1>1, <1>2, CreateEffect
<1>4. Leave(s)
  OBVIOUS
<1> HIDE DEF s, e
<1>5. s \in Disks /\ s.alloc = full.alloc /\ s.type = full.type /\ s.nlink = full.nlink
  BY <1>2, <1>3 DEF PutAt
<1>6. \A c : NamingIn(full, c) \subseteq NamingIn(disk, c)
  BY FreshNaming
<1>7. NamingIn(full, i) = {}
  BY <1>6 DEF Fresh
<1>8. Shape(s) /\ \E x : \A c : NamingIn(s, c) \subseteq NamingIn(full, c) \union (IF c = i THEN {x} ELSE {})
  <2>1. CASE s = full
    BY <2>1, <1>2
  <2>2. CASE full.type[d] = "dir" /\ \E j : PutAt(full, s, d, j, e)
    <3>1. PICK j : PutAt(full, s, d, j, e)
      BY <2>2
    <3>2. d \in Reachable
      BY <2>2, <1>1, <1>2
    <3>3. n \notin {".", ".."}
      <4> SUFFICES ASSUME n \in {".", ".."} PROVE FALSE
        OBVIOUS
      <4>0. n # Nil
        BY NamesDiffer
      <4>1. e[1] = n
        BY <4>0 DEF e
      <4>2. j \in DOMAIN s.ents[d] /\ s.ents[d][j][1] = n
        BY <3>1, <4>1 DEF PutAt
      <4>3. s.nlink[d] = disk.nlink[d] /\ s.type[d] = "dir" /\ d \in s.alloc
        BY <1>1, <1>2, <1>5, <2>2
      <4> QED
        BY <1>4, <1>5, <3>2, <4>2, <4>3, DotsKept
    <3>4. /\ e = Free \/ (e[1] \in Names /\ e[2] \in Inums)
          /\ e # Free => n # Nil /\ e[1] = n /\ e[2] = i
          /\ e[1] \in Names => e[2] = i
      <4>1. e = IF n = Nil THEN Free ELSE <<n, i>>
        BY DEF e
      <4> QED
        BY <4>1, <3>3, NewEntry
    <3>5. n # Nil => \A k \in DOMAIN full.ents[d] : full.ents[d][k][1] # n
      <4>1. ASSUME n # Nil, NEW k \in DOMAIN disk.ents[d] PROVE disk.ents[d][k][1] # n
        <5>1. disk.type[d] = "dir" /\ disk \in Disks
          BY <1>2, <2>2
        <5> QED
          BY <4>1, <5>1, <1>1, SearchMisses
      <4> QED
        BY <4>1, <1>2
    <3>6. /\ i # Root /\ d \in full.alloc
          /\ \A k \in DOMAIN full.ents[i] : full.ents[i][k][1] = ".." => full.ents[i][k][2] = d
      BY <1>1, <1>2 DEF Fresh
    <3>7. Shape(s)
      BY <3>1, <3>4, <3>5, <3>6, <1>2, <1>7, PutShape
    <3>8. \A c : NamingIn(s, c) \subseteq NamingIn(full, c) \union (IF c = i THEN {<<d, j>>} ELSE {})
      BY <3>1, <3>4, <1>1, <1>2, PutNaming
    <3> QED
      BY <3>7, <3>8
  <2> QED
    BY <1>3, <2>1, <2>2
<1>9. ASSUME NEW c \in Inums PROVE Covered(s, c)
  <2>1. s.nlink[c] \in Int /\ disk.nlink[c] \in Int /\ Covered(disk, c)
    BY <1>2, <1>5, InvParts, DiskFields
  <2>2. PICK x : NamingIn(s, c) \subseteq NamingIn(full, c) \union (IF c = i THEN {x} ELSE {})
    BY <1>8
  <2>3. CASE c = i
    <3>1. NamingIn(s, c) \subseteq {x}
      BY <2>2, <2>3, <1>7
    <3>2. IsFiniteSet({x}) /\ Cardinality({x}) = 1
      BY FS_Singleton
    <3>3. /\ IsFiniteSet(NamingIn(s, c)) /\ Cardinality(NamingIn(s, c)) <= 1
      BY <3>1, <3>2, FS_Subset
    <3>4. Cardinality(NamingIn(s, c)) \in Nat
      BY <3>3, FS_CardinalityType
    <3>5. 1 <= s.nlink[c]
      BY <2>3, <1>5
    <3> QED
      BY <3>3, <3>4, <3>5, <2>1 DEF Covered
  <2>4. CASE c # i
    <3>1. NamingIn(s, c) \subseteq NamingIn(disk, c) /\ s.nlink[c] = disk.nlink[c]
      BY <2>2, <2>4, <1>5, <1>6
    <3> QED
      BY <3>1, <2>1, CoverMono
  <2> QED
    BY <2>3, <2>4
<1>10. /\ cwd' \in [Procs -> Inums] /\ opn' \in [Procs -> Inums \union {Nil}]
  BY InvParts
<1>11. ASSUME NEW c \in Inums, s.nlink[c] # 0 \/ Used(c, cwd', opn') PROVE c \in s.alloc
  <2>1. CASE c = i
    BY <2>1, <1>2, <1>5
  <2>2. CASE c # i /\ s.nlink[c] # 0
    BY <2>2, <1>2, <1>5, InvParts
  <2>3. CASE c # i /\ Used(c, cwd', opn')
    <3>1. Used(c, cwd, opn)
      BY <2>3, InvParts, UsedThen
    <3> QED
      BY <3>1, <1>2, <1>5, InvParts
  <2> QED
    BY <1>11, <2>1, <2>2, <2>3
<1>12. ASSUME NEW c \in Inums, s.type[c] = "data" PROVE s.nlink[c] >= 0
  <2>1. CASE c = i
    BY <2>1, <1>5
  <2>2. CASE c # i
    <3>1. disk.type[c] = "data" /\ s.nlink[c] = disk.nlink[c]
      BY <2>2, <1>5, <1>12 DEF Fresh
    <3> QED
      BY <3>1, InvParts
  <2> QED
    BY <2>1, <2>2
<1> QED
  BY <1>4, <1>8, <1>9, <1>10, <1>11, <1>12, LeaveKeeps

\* path_create_inode: a file, or a directory with its two entries.
LEMMA PathCreateKeeps ==
  ASSUME TreeInv, KeepsLink, StaysInTree, KeepsDots, NEW p \in Procs, NEW path \in Paths,
         NEW type \in {"data", "dir"}, PathCreateInode(p, path, type),
         cwd' = cwd, opn' = opn \/ \E q \in Procs : opn' = [opn EXCEPT ![q] = NewInum]
  PROVE  TreeInv'
<1> DEFINE d == PathToParent(p, path)
           i == NewInum
           new == InodeCreate(disk, i, type)
           full == IF type = "dir" THEN MakeDots(new, i, d) ELSE new
<1>1. d \in Reached /\ d # Nil /\ i # Nil /\ i # d
  BY PathReaches DEF PathCreateInode
<1>2. PICK n \in PathNames(path) :
        DentrySearch(disk, d, n) = Nil /\ Leave(DentryCreate(full, d, n, i))
  BY DEF PathCreateInode
<1>3. n \in AnyName \union {Nil}
  BY PathReaches
<1>4. d \in Inums
  BY <1>1, ReachedUsed
<1>5. i \in Inums /\ i \notin disk.alloc
  <2>1. disk.alloc # Inums /\ i = Min(Inums \ disk.alloc) /\ disk.alloc \subseteq Inums
    BY <1>1, InvParts DEF NewInum, Disks
  <2>2. Inums \subseteq Nat
    BY SizeAssumption DEF Inums
  <2>3. (Inums \ disk.alloc) \in SUBSET Nat /\ (Inums \ disk.alloc) # {}
    BY <2>1, <2>2
  <2> QED
    BY <2>1, <2>3, MinIsLeast
<1>6. opn' = opn \/ \E q \in Procs : opn' = [opn EXCEPT ![q] = i]
  OBVIOUS
<1> HIDE DEF d, i
<1>7. /\ Fresh(disk, full, i, d) /\ full.nlink[i] \in {1, 2}
      /\ \A c \in Inums : c # i => full.nlink[c] = disk.nlink[c]
  BY <1>4, <1>5, InodeCreateFresh, MakeDotsFresh
<1> HIDE DEF full
<1> QED
  BY <1>1, <1>2, <1>3, <1>5, <1>6, <1>7, CreateKeeps

----------------------------------------------------------------------------
(* The theorems *)

\* Every call by careful users keeps the invariant.
LEMMA TreeNextInv == TreeInv /\ [CarefulNext]_treevars => TreeInv'
<1> SUFFICES ASSUME TreeInv, [CarefulNext]_treevars PROVE TreeInv'
  OBVIOUS
<1>1. CASE UNCHANGED treevars
  BY <1>1 DEF treevars, TreeInv, TreeTypeOK, UsedStaysAllocated, Reachable
<1>2. CASE CarefulNext
  <2>1. PICK p \in Procs : Call(p)
    BY <1>2 DEF CarefulNext, TreeNext
  <2>2. KeepsLink /\ StaysInTree /\ KeepsDots
    BY <1>2 DEF CarefulNext
  <2>3. CASE Close(p)
    BY <2>2, <2>3, CloseKeeps
  <2>4. ASSUME NEW path \in Paths, Create(p, path) PROVE TreeInv'
    BY <2>2, <2>4, PathCreateKeeps DEF Create
  <2>5. ASSUME NEW path \in Paths, Mkdir(p, path) PROVE TreeInv'
    BY <2>2, <2>5, PathCreateKeeps DEF Mkdir
  <2>6. ASSUME NEW path \in Paths, Open(p, path) PROVE TreeInv'
    BY <2>2, <2>6, OpenKeeps
  <2>7. ASSUME NEW path \in Paths, Chdir(p, path) PROVE TreeInv'
    BY <2>2, <2>7, ChdirKeeps
  <2>8. ASSUME NEW path \in Paths, PathUnlink(p, path) PROVE TreeInv'
    BY <2>2, <2>8, PathUnlinkKeeps
  <2>9. ASSUME NEW old \in Paths, NEW new \in Paths, PathLink(p, PathToInode(p, old), new)
        PROVE  TreeInv'
    BY <2>2, <2>9, PathLinkKeeps
  <2> QED
    BY <2>1, <2>3, <2>4, <2>5, <2>6, <2>7, <2>8, <2>9, Zenon DEF Call
<1> QED
  BY <1>1, <1>2 DEF CarefulNext

\* The invariant says what the properties say: at most one name and finitely
\* many make a number of names, and what does not exist has none.
LEMMA TreeInvImplies == TreeInv => TreeShape /\ LinksCover /\ UsedStaysAllocated
<1> SUFFICES ASSUME TreeInv PROVE TreeShape /\ LinksCover /\ UsedStaysAllocated
  OBVIOUS
<1>1. LinksCover
  <2>1. ASSUME NEW i \in Inums, disk.type[i] = "data"
        PROVE  Cardinality(Naming(i)) <= disk.nlink[i]
    <3>1. disk.nlink[i] >= 0 /\ Covered(disk, i)
      BY <2>1 DEF TreeInv
    <3>2. CASE Naming(i) = {}
      BY <3>1, <3>2, FS_EmptySet
    <3>3. CASE Naming(i) # {}
      BY <3>1, <3>3 DEF Covered, Naming
    <3> QED
      BY <3>2, <3>3
  <2> QED
    BY <2>1 DEF LinksCover
<1>2. ASSUME NEW i \in Inums, disk.type[i] = "dir"
      PROVE  Cardinality(Naming(i)) <= IF i = Root THEN 0 ELSE 1
  <2>1. CASE Naming(i) = {}
    <3>1. Cardinality(Naming(i)) = 0
      BY <2>1, FS_EmptySet
    <3> QED
      BY <3>1
  <2>2. CASE Naming(i) # {}
    <3>1. PICK x : x \in Naming(i)
      BY <2>2
    <3>2. Naming(i) = {x} /\ i # Root
      BY <3>1, <1>2 DEF TreeInv, Shape, OneName, Naming
    <3>3. Cardinality(Naming(i)) = 1
      BY <3>2, FS_Singleton
    <3> QED
      BY <3>2, <3>3
  <2> QED
    BY <2>1, <2>2
<1>3. \A i \in Inums \ disk.alloc : \A x \in Naming(i) : x[1] \notin Reachable
  BY NamedExists DEF Naming
<1>4. \A d \in disk.alloc : \A j, k \in DOMAIN disk.ents[d] :
        j # k /\ disk.ents[d][j] # Free => disk.ents[d][j][1] # disk.ents[d][k][1]
  BY DEF TreeInv, Shape, DistinctNames
<1>5. TreeTypeOK
  BY DEF TreeInv
<1>6. TreeShape
  BY <1>2, <1>3, <1>4, <1>5 DEF TreeShape
<1> QED
  BY <1>1, <1>6 DEF TreeInv

\* The invariant holds in every state careful users can bring about.
LEMMA TreeInvariant == CarefulSpec => []TreeInv
<1>1. TreeInit => TreeInv
  BY TreeInitInv
<1>2. TreeInv /\ [CarefulNext]_treevars => TreeInv'
  BY TreeNextInv
<1> QED
  BY <1>1, <1>2, PTL DEF CarefulSpec

\* path_create_inode, path_link and path_unlink keep the directories a tree
\* whose names lead to inodes that exist, whatever the disk has room for.
THEOREM TreeStaysTree == CarefulSpec => []TreeShape
<1>1. TreeInv => TreeShape
  BY TreeInvImplies
<1> QED
  BY <1>1, TreeInvariant, PTL

\* nlink of a file is never below the number of its names, although path_link and
\* path_create_inode do not look at the result of dentry_create.  Names of a file
\* in directories that are deleted under them would break it: the theorem is about
\* users who keep to the assumptions of CarefulSpec.
THEOREM LinksCoverNames == CarefulSpec => []LinksCover
<1>1. TreeInv => LinksCover
  BY TreeInvImplies
<1> QED
  BY <1>1, TreeInvariant, PTL

\* inode_put gives an inode back with its last link and its last user, never
\* before, and bitmap_alloc_inode hands out no inode in use.
THEOREM UsedInodesStay == CarefulSpec => []UsedStaysAllocated
<1>1. TreeInv => UsedStaysAllocated
  BY TreeInvImplies
<1> QED
  BY <1>1, TreeInvariant, PTL

=============================================================================
