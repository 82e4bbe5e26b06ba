----------------------------- MODULE TtyProofs -----------------------------
(***************************************************************************)
(* Proofs about a terminal (kernel/chr_drv/tty_io.c), for rings of any     *)
(* size, any number of keys and characters, and a reader and a writer that *)
(* are anywhere in their calls.  Input: copy_to_cooked and tty_read        *)
(* together implement the line editor of LineEditor, and secondary.data is *)
(* the number of line ends a reader can take; both need that no character  *)
(* is erased between tty_read's test and its GETCH ("erase" \notin Races). *)
(* Output: what is written arrives in order and once, which needs that no  *)
(* key is echoed while the writer is at work on a queue that has no room   *)
(* for the echo ("echo" and "drain" \notin Races).                         *)
(* Types follow from both, so they need all three.                         *)
(***************************************************************************)
EXTENDS Tty, DataLemmas

\* What is in a ring.
Cells == Chars \cup Entries \cup {NULL}

Places == {"user", "read", "readSleep", "take", "write", "full", "writeSleep", "fill", "drain"}

\* What the mask of tty.h computes, for numbers at most a round away.
LEMMA Masked ==
    ASSUME NEW i \in Int, -TTY_BUF_SIZE <= i, i < 2 * TTY_BUF_SIZE
    PROVE  /\ i % TTY_BUF_SIZE \in Index
           /\ i % TTY_BUF_SIZE = IF i < 0 THEN i + TTY_BUF_SIZE
                                 ELSE IF i < TTY_BUF_SIZE THEN i ELSE i - TTY_BUF_SIZE
<1>1. CASE i < 0
  BY <1>1, RingsHaveRoom DEF Index
<1>2. CASE 0 <= i /\ i < TTY_BUF_SIZE
  BY <1>2, RingsHaveRoom DEF Index
<1>3. CASE i >= TTY_BUF_SIZE
  BY <1>3, RingsHaveRoom DEF Index
<1> QED
  BY <1>1, <1>2, <1>3, RingsHaveRoom

\* The macros INC, DEC, CHARS and LEFT.
LEMMA RingSteps ==
    ASSUME NEW h \in Index, NEW t \in Index
    PROVE  /\ INC(h) = IF h = TTY_BUF_SIZE - 1 THEN 0 ELSE h + 1
           /\ DEC(h) = IF h = 0 THEN TTY_BUF_SIZE - 1 ELSE h - 1
           /\ CHARS(h, t) = IF h >= t THEN h - t ELSE h - t + TTY_BUF_SIZE
           /\ LEFT(h, t) = TTY_BUF_SIZE - 1 - CHARS(h, t)
<1>1. h \in Int /\ t \in Int /\ 0 <= h /\ 0 <= t /\ h < TTY_BUF_SIZE /\ t < TTY_BUF_SIZE
  BY RingsHaveRoom DEF Index
<1>2. INC(h) = IF h = TTY_BUF_SIZE - 1 THEN 0 ELSE h + 1
  BY <1>1, Masked, RingsHaveRoom DEF INC
<1>3. DEC(h) = IF h = 0 THEN TTY_BUF_SIZE - 1 ELSE h - 1
  BY <1>1, Masked, RingsHaveRoom DEF DEC
<1>4. CHARS(h, t) = IF h >= t THEN h - t ELSE h - t + TTY_BUF_SIZE
  BY <1>1, Masked, RingsHaveRoom DEF CHARS
<1>5. LEFT(h, t) = IF t - h - 1 < 0 THEN t - h - 1 + TTY_BUF_SIZE ELSE t - h - 1
  BY <1>1, Masked, RingsHaveRoom DEF LEFT
<1>6. LEFT(h, t) = TTY_BUF_SIZE - 1 - CHARS(h, t)
  BY <1>1, <1>4, <1>5, RingsHaveRoom
<1> QED
  BY <1>2, <1>3, <1>4, <1>6

\* What they do together: a character more, a character less at either end.
LEMMA RingMoves ==
    ASSUME NEW h \in Index, NEW t \in Index
    PROVE  /\ INC(h) \in Index /\ DEC(h) \in Index /\ CHARS(h, t) \in 0 .. TTY_BUF_SIZE - 1
           /\ CHARS(h, t) = 0 <=> h = t
           /\ ~ FULL(h, t) => CHARS(INC(h), t) = CHARS(h, t) + 1 /\ INC(h) # t
           /\ h # t => CHARS(DEC(h), t) = CHARS(h, t) - 1
           /\ h # t => CHARS(h, INC(t)) = CHARS(h, t) - 1
<1>1. h \in Int /\ t \in Int /\ 0 <= h /\ 0 <= t /\ h < TTY_BUF_SIZE /\ t < TTY_BUF_SIZE
  BY RingsHaveRoom DEF Index
<1>2. INC(h) \in Index /\ DEC(h) \in Index /\ INC(t) \in Index
  <2>1. INC(h) \in Index
    BY <1>1, Masked, RingsHaveRoom DEF INC
  <2>2. DEC(h) \in Index
    BY <1>1, Masked, RingsHaveRoom DEF DEC
  <2>3. INC(t) \in Index
    BY <1>1, Masked, RingsHaveRoom DEF INC
  <2> QED
    BY <2>1, <2>2, <2>3
<1>3. CHARS(h, t) \in 0 .. TTY_BUF_SIZE - 1 /\ (CHARS(h, t) = 0 <=> h = t)
  BY <1>1, RingSteps, RingsHaveRoom
<1>4. ~ FULL(h, t) => CHARS(INC(h), t) = CHARS(h, t) + 1 /\ INC(h) # t
  <2>1. FULL(h, t) <=> CHARS(h, t) = TTY_BUF_SIZE - 1
    BY <1>3, RingSteps, RingsHaveRoom DEF FULL
  <2>2. CHARS(INC(h), t) = IF INC(h) >= t THEN INC(h) - t ELSE INC(h) - t + TTY_BUF_SIZE
    BY <1>2, RingSteps
  <2>3. CHARS(h, t) = IF h >= t THEN h - t ELSE h - t + TTY_BUF_SIZE
    BY RingSteps
  <2>4. INC(h) = IF h = TTY_BUF_SIZE - 1 THEN 0 ELSE h + 1
    BY RingSteps
  <2> QED
    BY <1>1, <2>1, <2>2, <2>3, <2>4, RingsHaveRoom
<1>5. h # t => CHARS(DEC(h), t) = CHARS(h, t) - 1
  <2>1. CHARS(DEC(h), t) = IF DEC(h) >= t THEN DEC(h) - t ELSE DEC(h) - t + TTY_BUF_SIZE
    BY <1>2, RingSteps
  <2> QED
    BY <1>1, <2>1, RingSteps, RingsHaveRoom
<1>6. h # t => CHARS(h, INC(t)) = CHARS(h, t) - 1
  <2>1. CHARS(h, INC(t)) = IF h >= INC(t) THEN h - INC(t) ELSE h - INC(t) + TTY_BUF_SIZE
    BY <1>2, RingSteps
  <2>2. INC(t) = IF t = TTY_BUF_SIZE - 1 THEN 0 ELSE t + 1
    BY RingSteps
  <2> QED
    BY <1>1, <2>1, <2>2, RingSteps, RingsHaveRoom
<1> QED
  BY <1>2, <1>3, <1>4, <1>5, <1>6

-----------------------------------------------------------------------------
(* The content of a ring as a sequence.                                    *)

LEMMA TableIsSequence ==
    ASSUME NEW S, NEW n \in Nat, NEW f \in [1 .. n -> S]
    PROVE  f \in Seq(S) /\ Len(f) = n
  OBVIOUS

\* The cell of the i-th oldest character.
LEMMA CellAt ==
    ASSUME NEW h \in Index, NEW t \in Index, NEW i \in 1 .. CHARS(h, t)
    PROVE  /\ (t + i - 1) % TTY_BUF_SIZE \in Index
           /\ (t + i - 1) % TTY_BUF_SIZE =
                 IF t + i - 1 < TTY_BUF_SIZE THEN t + i - 1 ELSE t + i - 1 - TTY_BUF_SIZE
<1>1. t \in Int /\ 0 <= t /\ t < TTY_BUF_SIZE /\ CHARS(h, t) \in 0 .. TTY_BUF_SIZE - 1
  BY RingMoves, RingsHaveRoom DEF Index
<1>2. t + i - 1 \in Int /\ 0 <= t + i - 1 /\ t + i - 1 < 2 * TTY_BUF_SIZE
  BY <1>1, RingsHaveRoom
<1>3. PICK x \in Int : x = t + i - 1
  BY <1>2
<1>4. -TTY_BUF_SIZE <= x /\ 0 <= x /\ x < 2 * TTY_BUF_SIZE
  BY <1>2, <1>3, RingsHaveRoom
<1>5. x % TTY_BUF_SIZE \in Index
      /\ x % TTY_BUF_SIZE = IF x < TTY_BUF_SIZE THEN x ELSE x - TTY_BUF_SIZE
  <2>1. /\ x % TTY_BUF_SIZE \in Index
        /\ x % TTY_BUF_SIZE = IF x < 0 THEN x + TTY_BUF_SIZE
                              ELSE IF x < TTY_BUF_SIZE THEN x ELSE x - TTY_BUF_SIZE
    BY <1>4, Masked
  <2>2. ~ (x < 0)
    BY <1>4
  <2> QED
    BY <2>1, <2>2
<1> QED
  BY <1>1, <1>3, <1>5, RingsHaveRoom

LEMMA ContentsAreSequence ==
    ASSUME NEW buf \in [Index -> Cells], NEW h \in Index, NEW t \in Index
    PROVE  /\ Contents(buf, h, t) \in Seq(Cells)
           /\ Len(Contents(buf, h, t)) = CHARS(h, t)
           /\ \A i \in 1 .. CHARS(h, t) :
                 Contents(buf, h, t)[i] = buf[(t + i - 1) % TTY_BUF_SIZE]
<1>1. CHARS(h, t) \in Nat
  BY RingMoves, RingsHaveRoom
<1>2. \A i \in 1 .. CHARS(h, t) : (t + i - 1) % TTY_BUF_SIZE \in Index
  BY CellAt
<1>3. Contents(buf, h, t) \in [1 .. CHARS(h, t) -> Cells]
  BY <1>2 DEF Contents
<1>4. Contents(buf, h, t) \in Seq(Cells) /\ Len(Contents(buf, h, t)) = CHARS(h, t)
  BY <1>1, <1>3, TableIsSequence
<1> QED
  BY <1>4 DEF Contents

\* PUTCH appends.
LEMMA PutAppends ==
    ASSUME NEW buf \in [Index -> Cells], NEW h \in Index, NEW t \in Index, ~ FULL(h, t),
           NEW c \in Cells
    PROVE  Contents([buf EXCEPT ![h] = c], INC(h), t) = Append(Contents(buf, h, t), c)
<1> DEFINE new == [buf EXCEPT ![h] = c]
           old == Contents(buf, h, t)
           n == CHARS(h, t)
<1>1. n \in 0 .. TTY_BUF_SIZE - 1 /\ CHARS(INC(h), t) = n + 1 /\ INC(h) \in Index
  BY RingMoves
<1>2. new \in [Index -> Cells]
  OBVIOUS
<1>3. /\ Contents(new, INC(h), t) \in Seq(Cells)
      /\ Len(Contents(new, INC(h), t)) = n + 1
      /\ \A i \in 1 .. n + 1 : Contents(new, INC(h), t)[i] = new[(t + i - 1) % TTY_BUF_SIZE]
  <2> HIDE DEF new, n
  <2>1. /\ Contents(new, INC(h), t) \in Seq(Cells)
        /\ Len(Contents(new, INC(h), t)) = CHARS(INC(h), t)
        /\ \A i \in 1 .. CHARS(INC(h), t) :
              Contents(new, INC(h), t)[i] = new[(t + i - 1) % TTY_BUF_SIZE]
    BY <1>1, <1>2, ContentsAreSequence
  <2> QED
    BY <1>1, <2>1
<1>4. old \in Seq(Cells) /\ Len(old) = n /\ \A i \in 1 .. n : old[i] = buf[(t + i - 1) % TTY_BUF_SIZE]
  BY ContentsAreSequence
<1>5. /\ Append(old, c) \in Seq(Cells) /\ Len(Append(old, c)) = n + 1
      /\ \A i \in 1 .. n : Append(old, c)[i] = old[i]
      /\ Append(old, c)[n + 1] = c
  <2> HIDE DEF old, n
  <2> QED
    BY <1>4, AppendProperties
<1>6. h \in Int /\ t \in Int /\ 0 <= h /\ 0 <= t /\ h < TTY_BUF_SIZE /\ t < TTY_BUF_SIZE
      /\ n = IF h >= t THEN h - t ELSE h - t + TTY_BUF_SIZE
  BY RingSteps, RingsHaveRoom DEF Index
<1>7. ASSUME NEW i \in 1 .. n + 1
      PROVE  Contents(new, INC(h), t)[i] = Append(old, c)[i]
  <2>0. i \in 1 .. CHARS(INC(h), t)
    BY <1>1
  <2>1. /\ (t + i - 1) % TTY_BUF_SIZE \in Index
        /\ (t + i - 1) % TTY_BUF_SIZE =
              IF t + i - 1 < TTY_BUF_SIZE THEN t + i - 1 ELSE t + i - 1 - TTY_BUF_SIZE
    BY <1>1, <2>0, CellAt
  <2>2. CASE i = n + 1
    <3>1. (t + i - 1) % TTY_BUF_SIZE = h
      <4> HIDE DEF n
      <4> QED
        BY <1>6, <2>1, <2>2, RingsHaveRoom
    <3> QED
      BY <1>3, <1>5, <2>2, <3>1
  <2>3. CASE i # n + 1
    <3>1. i \in 1 .. n
      BY <1>1, <2>3
    <3>2. (t + i - 1) % TTY_BUF_SIZE # h
      <4> HIDE DEF n
      <4> QED
        BY <1>6, <2>1, <3>1, RingsHaveRoom
    <3>3. new[(t + i - 1) % TTY_BUF_SIZE] = buf[(t + i - 1) % TTY_BUF_SIZE]
      BY <2>1, <3>2
    <3>4. i \in 1 .. n + 1 /\ Append(old, c)[i] = old[i] /\ old[i] = buf[(t + i - 1) % TTY_BUF_SIZE]
      BY <1>4, <1>5, <3>1
    <3>5. Contents(new, INC(h), t)[i] = new[(t + i - 1) % TTY_BUF_SIZE]
      BY <1>3
    <3> QED
      BY <3>3, <3>4, <3>5
  <2> QED
    BY <2>2, <2>3
<1> HIDE DEF new, old, n
<1>8. Contents(new, INC(h), t) = Append(old, c)
  BY <1>3, <1>5, <1>7, SeqEqual
<1> QED
  BY <1>8 DEF new, old

\* Taking back the head removes the last character, which LAST showed.
LEMMA RubShortens ==
    ASSUME NEW buf \in [Index -> Cells], NEW h \in Index, NEW t \in Index, h # t
    PROVE  LET old == Contents(buf, h, t)
           IN  /\ old # <<>>
               /\ old[Len(old)] = buf[DEC(h)]
               /\ Contents(buf, DEC(h), t) = SubSeq(old, 1, Len(old) - 1)
<1> DEFINE old == Contents(buf, h, t)
           new == Contents(buf, DEC(h), t)
           n == CHARS(h, t)
<1>1. n \in 1 .. TTY_BUF_SIZE - 1 /\ CHARS(DEC(h), t) = n - 1 /\ DEC(h) \in Index
  BY RingMoves, RingsHaveRoom
<1>2. old \in Seq(Cells) /\ Len(old) = n /\ \A i \in 1 .. n : old[i] = buf[(t + i - 1) % TTY_BUF_SIZE]
  BY ContentsAreSequence
<1>3. /\ new \in Seq(Cells) /\ Len(new) = n - 1
      /\ \A i \in 1 .. n - 1 : new[i] = buf[(t + i - 1) % TTY_BUF_SIZE]
  <2> HIDE DEF n
  <2>1. /\ new \in Seq(Cells) /\ Len(new) = CHARS(DEC(h), t)
        /\ \A i \in 1 .. CHARS(DEC(h), t) : new[i] = buf[(t + i - 1) % TTY_BUF_SIZE]
    BY <1>1, ContentsAreSequence
  <2> QED
    BY <1>1, <2>1
<1>4. h \in Int /\ t \in Int /\ 0 <= h /\ 0 <= t /\ h < TTY_BUF_SIZE /\ t < TTY_BUF_SIZE
      /\ n = (IF h >= t THEN h - t ELSE h - t + TTY_BUF_SIZE)
      /\ DEC(h) = IF h = 0 THEN TTY_BUF_SIZE - 1 ELSE h - 1
  BY RingSteps, RingsHaveRoom DEF Index
<1>5. old[n] = buf[DEC(h)]
  <2>1. n \in 1 .. CHARS(h, t)
    BY <1>1, RingsHaveRoom
  <2>2. (t + n - 1) % TTY_BUF_SIZE =
              IF t + n - 1 < TTY_BUF_SIZE THEN t + n - 1 ELSE t + n - 1 - TTY_BUF_SIZE
    BY <2>1, CellAt
  <2>3. (t + n - 1) % TTY_BUF_SIZE = DEC(h)
    <3> HIDE DEF n
    <3> QED
      BY <1>1, <1>4, <2>2, RingsHaveRoom
  <2> QED
    BY <1>2, <2>1, <2>3
<1> HIDE DEF old, new, n
<1>6. \A i \in 1 .. n - 1 : old[i] \in Cells
  <2>1. \A i \in 1 .. n - 1 : i \in 1 .. Len(old)
    BY <1>1, <1>2
  <2> QED
    BY <1>2, <2>1, ElementOfSeq
<1>7. /\ SubSeq(old, 1, n - 1) \in Seq(Cells)
      /\ Len(SubSeq(old, 1, n - 1)) = (IF 1 <= n - 1 THEN n - 1 - 1 + 1 ELSE 0)
      /\ \A i \in 1 .. n - 1 - 1 + 1 : SubSeq(old, 1, n - 1)[i] = old[1 + i - 1]
  <2>1. n - 1 \in Int
    BY <1>1
  <2> QED
    BY <1>6, <2>1, SubSeqProperties
<1>8. Len(SubSeq(old, 1, n - 1)) = n - 1 /\ \A i \in 1 .. n - 1 : SubSeq(old, 1, n - 1)[i] = old[i]
  <2>1. Len(SubSeq(old, 1, n - 1)) = n - 1
    BY <1>1, <1>7
  <2>2. ASSUME NEW i \in 1 .. n - 1 PROVE SubSeq(old, 1, n - 1)[i] = old[i]
    <3>1. i \in 1 .. n - 1 - 1 + 1 /\ 1 + i - 1 = i
      BY <1>1
    <3> QED
      BY <1>7, <3>1
  <2> QED
    BY <2>1, <2>2
<1>9. new = SubSeq(old, 1, n - 1)
  <2>1. \A i \in 1 .. n - 1 : new[i] = SubSeq(old, 1, n - 1)[i]
    <3>1. \A i \in 1 .. n - 1 : i \in 1 .. n
      BY <1>1
    <3> QED
      BY <1>2, <1>3, <1>8, <3>1
  <2> QED
    BY <1>3, <1>7, <1>8, <2>1, SeqEqual
<1>10. old # <<>>
  BY <1>1, <1>2, EmptySeq
<1> QED
  BY <1>2, <1>5, <1>9, <1>10 DEF old, new

\* GETCH takes the oldest character.
LEMMA TakeShortens ==
    ASSUME NEW buf \in [Index -> Cells], NEW h \in Index, NEW t \in Index, h # t
    PROVE  LET old == Contents(buf, h, t)
           IN  /\ old # <<>>
               /\ Head(old) = buf[t]
               /\ Contents([buf EXCEPT ![t] = NULL], h, INC(t)) = Tail(old)
<1> DEFINE old == Contents(buf, h, t)
           cleared == [buf EXCEPT ![t] = NULL]
           new == Contents(cleared, h, INC(t))
           n == CHARS(h, t)
<1>1. n \in 1 .. TTY_BUF_SIZE - 1 /\ CHARS(h, INC(t)) = n - 1 /\ INC(t) \in Index
  BY RingMoves, RingsHaveRoom
<1>2. old \in Seq(Cells) /\ Len(old) = n /\ \A i \in 1 .. n : old[i] = buf[(t + i - 1) % TTY_BUF_SIZE]
  BY ContentsAreSequence
<1>3. cleared \in [Index -> Cells]
  BY DEF Cells
<1>4. /\ new \in Seq(Cells) /\ Len(new) = n - 1
      /\ \A i \in 1 .. n - 1 : new[i] = cleared[(INC(t) + i - 1) % TTY_BUF_SIZE]
  <2> HIDE DEF cleared, n
  <2>1. /\ new \in Seq(Cells) /\ Len(new) = CHARS(h, INC(t))
        /\ \A i \in 1 .. CHARS(h, INC(t)) : new[i] = cleared[(INC(t) + i - 1) % TTY_BUF_SIZE]
    BY <1>1, <1>3, ContentsAreSequence
  <2> QED
    BY <1>1, <2>1
<1>5. t \in Int /\ 0 <= t /\ t < TTY_BUF_SIZE
      /\ INC(t) = IF t = TTY_BUF_SIZE - 1 THEN 0 ELSE t + 1
  BY RingSteps, RingsHaveRoom DEF Index
<1>6. old # <<>>
  BY <1>1, <1>2, EmptySeq
<1>7. Head(old) = buf[t]
  <2>1. Head(old) = old[1] /\ 1 \in 1 .. n
    BY <1>1, <1>2, <1>6
  <2>2. (t + 1 - 1) % TTY_BUF_SIZE = t
    BY <1>5, Masked, RingsHaveRoom
  <2> QED
    BY <1>2, <2>1, <2>2
<1>8. /\ Tail(old) \in Seq(Cells) /\ Len(Tail(old)) = n - 1
      /\ \A i \in 1 .. n - 1 : Tail(old)[i] = old[i + 1]
  <2> HIDE DEF old, n
  <2> QED
    BY <1>2, <1>6, HeadTailProperties
<1>9. ASSUME NEW i \in 1 .. n - 1 PROVE new[i] = Tail(old)[i]
  <2>1. i \in 1 .. CHARS(h, INC(t)) /\ i + 1 \in 1 .. CHARS(h, t)
    BY <1>1
  <2>2. /\ (INC(t) + i - 1) % TTY_BUF_SIZE \in Index
        /\ (INC(t) + i - 1) % TTY_BUF_SIZE =
              IF INC(t) + i - 1 < TTY_BUF_SIZE THEN INC(t) + i - 1
                                               ELSE INC(t) + i - 1 - TTY_BUF_SIZE
    BY <1>1, <2>1, CellAt
  <2>3. (t + (i + 1) - 1) % TTY_BUF_SIZE =
            IF t + (i + 1) - 1 < TTY_BUF_SIZE THEN t + (i + 1) - 1
                                              ELSE t + (i + 1) - 1 - TTY_BUF_SIZE
    BY <2>1, CellAt
  <2>4. (INC(t) + i - 1) % TTY_BUF_SIZE = (t + (i + 1) - 1) % TTY_BUF_SIZE
        /\ (INC(t) + i - 1) % TTY_BUF_SIZE # t
    <3>1. n \in Int /\ n < TTY_BUF_SIZE /\ i \in Int /\ 1 <= i /\ i <= n - 1
      BY <1>1, RingsHaveRoom
    <3> HIDE DEF n
    <3> QED
      BY <1>5, <2>2, <2>3, <3>1, RingsHaveRoom
  <2>5. new[i] = buf[(t + (i + 1) - 1) % TTY_BUF_SIZE]
    BY <1>4, <2>2, <2>4
  <2> QED
    BY <1>2, <1>8, <2>1, <2>5
<1> HIDE DEF old, cleared, new, n
<1>10. new = Tail(old)
  BY <1>4, <1>8, <1>9, SeqEqual
<1> QED
  BY <1>6, <1>7, <1>10 DEF old, new, cleared

-----------------------------------------------------------------------------
(* The line ends in a ring.                                                *)

LEMMA IndexIsFinite ==
    ASSUME NEW S \in SUBSET Index PROVE IsFiniteSet(S) /\ Cardinality(S) \in Nat
<1>1. 0 \in Int /\ TTY_BUF_SIZE - 1 \in Int
  BY RingsHaveRoom
<1>2. IsFiniteSet(Index)
  BY <1>1, FS_Interval DEF Index
<1>3. IsFiniteSet(S)
  BY <1>2, FS_Subset
<1> QED
  BY <1>3, FS_CardinalityType

\* Where a cell is after the tail, from a tail and from the next.
LEMMA Distances ==
    ASSUME NEW i \in Index, NEW h \in Index, NEW t \in Index
    PROVE  /\ CHARS(i, t) \in Int
           /\ i # h => CHARS(i, t) # CHARS(h, t)
           /\ i # t => CHARS(i, INC(t)) = CHARS(i, t) - 1
           /\ CHARS(t, INC(t)) = TTY_BUF_SIZE - 1
<1>1. /\ h \in Int /\ 0 <= h /\ h < TTY_BUF_SIZE
      /\ t \in Int /\ 0 <= t /\ t < TTY_BUF_SIZE
      /\ i \in Int /\ 0 <= i /\ i < TTY_BUF_SIZE
  BY RingsHaveRoom DEF Index
<1>2. CHARS(i, t) = (IF i >= t THEN i - t ELSE i - t + TTY_BUF_SIZE)
      /\ CHARS(h, t) = (IF h >= t THEN h - t ELSE h - t + TTY_BUF_SIZE)
  BY RingSteps
<1>3. CHARS(i, t) \in Int /\ (i # h => CHARS(i, t) # CHARS(h, t))
  BY <1>1, <1>2, RingsHaveRoom
<1>4. i # t => CHARS(i, INC(t)) = CHARS(i, t) - 1
  BY RingMoves
<1>5. CHARS(t, INC(t)) = TTY_BUF_SIZE - 1
  <2>1. INC(t) \in Index
    BY RingMoves
  <2>2. CHARS(t, INC(t)) = IF t >= INC(t) THEN t - INC(t) ELSE t - INC(t) + TTY_BUF_SIZE
    BY <2>1, RingSteps
  <2>3. INC(t) = IF t = TTY_BUF_SIZE - 1 THEN 0 ELSE t + 1
    BY RingSteps
  <2> QED
    BY <1>1, <2>2, <2>3, RingsHaveRoom
<1> QED
  BY <1>3, <1>4, <1>5

\* PUTCH counts one more if it puts a line end.
LEMMA PutCounts ==
    ASSUME NEW buf \in [Index -> Cells], NEW h \in Index, NEW t \in Index, ~ FULL(h, t),
           NEW c \in Cells
    PROVE  LET old == LineCells(buf, h, t)
               new == LineCells([buf EXCEPT ![h] = c], INC(h), t)
           IN  /\ Cardinality(old) \in Nat /\ Cardinality(new) \in Nat
               /\ Cardinality(new) = Cardinality(old) + One(c \in Ends)
<1> DEFINE old == LineCells(buf, h, t)
           new == LineCells([buf EXCEPT ![h] = c], INC(h), t)
<1>1. old \in SUBSET Index /\ new \in SUBSET Index
  BY DEF LineCells
<1>2. CHARS(INC(h), t) = CHARS(h, t) + 1 /\ CHARS(h, t) \in Int
  BY RingMoves
<1>3. ASSUME NEW i \in Index, i # h PROVE i \in new <=> i \in old
  <2>1. CHARS(i, t) \in Int /\ CHARS(i, t) # CHARS(h, t)
    BY <1>3, Distances
  <2>2. CHARS(i, t) < CHARS(INC(h), t) <=> CHARS(i, t) < CHARS(h, t)
    BY <1>2, <2>1
  <2> QED
    BY <1>3, <2>2 DEF LineCells
<1>4. h \notin old /\ (h \in new <=> c \in Ends)
  BY <1>2 DEF LineCells
<1> HIDE DEF old, new
<1>5. IsFiniteSet(old) /\ Cardinality(old) \in Nat /\ Cardinality(new) \in Nat
  BY <1>1, IndexIsFinite
<1>6. old \ {h} = new \ {h}
  BY <1>1, <1>3
<1>7. Cardinality(new) = Cardinality(old) + One(h \in new) - One(h \in old)
  BY <1>5, <1>6, OneDiffers
<1>8. Cardinality(new) = Cardinality(old) + One(c \in Ends)
  BY <1>4, <1>5, <1>7 DEF One
<1> QED
  BY <1>5, <1>8 DEF old, new

\* What is rubbed out is no line end.
LEMMA RubCounts ==
    ASSUME NEW buf \in [Index -> Cells], NEW h \in Index, NEW t \in Index, h # t,
           buf[DEC(h)] \notin Ends
    PROVE  LineCells(buf, DEC(h), t) = LineCells(buf, h, t)
<1>1. DEC(h) \in Index /\ CHARS(DEC(h), t) = CHARS(h, t) - 1 /\ CHARS(h, t) \in Int
  BY RingMoves
<1>2. ASSUME NEW i \in Index, i # DEC(h)
      PROVE  CHARS(i, t) < CHARS(DEC(h), t) <=> CHARS(i, t) < CHARS(h, t)
  <2>1. CHARS(i, t) \in Int /\ CHARS(i, t) # CHARS(DEC(h), t)
    BY <1>1, <1>2, Distances
  <2> QED
    BY <1>1, <2>1
<1> QED
  BY <1>1, <1>2 DEF LineCells

\* GETCH counts one less if it takes a line end.
LEMMA TakeCounts ==
    ASSUME NEW buf \in [Index -> Cells], NEW h \in Index, NEW t \in Index, h # t
    PROVE  LET old == LineCells(buf, h, t)
               new == LineCells([buf EXCEPT ![t] = NULL], h, INC(t))
           IN  /\ Cardinality(old) \in Nat /\ Cardinality(new) \in Nat
               /\ Cardinality(new) = Cardinality(old) - One(buf[t] \in Ends)
<1> DEFINE old == LineCells(buf, h, t)
           new == LineCells([buf EXCEPT ![t] = NULL], h, INC(t))
<1>1. old \in SUBSET Index /\ new \in SUBSET Index
  BY DEF LineCells
<1>2. CHARS(h, INC(t)) = CHARS(h, t) - 1 /\ CHARS(h, t) \in 0 .. TTY_BUF_SIZE - 1
      /\ CHARS(h, t) # 0 /\ CHARS(t, t) = 0
  BY RingMoves
<1>3. ASSUME NEW i \in Index, i # t PROVE i \in new <=> i \in old
  <2>1. CHARS(i, INC(t)) = CHARS(i, t) - 1 /\ CHARS(i, t) \in Int
    BY <1>3, Distances
  <2>2. CHARS(i, INC(t)) < CHARS(h, INC(t)) <=> CHARS(i, t) < CHARS(h, t)
    BY <1>2, <2>1
  <2> QED
    BY <1>3, <2>2 DEF LineCells
<1>4. t \notin new
  <2>1. CHARS(t, INC(t)) = TTY_BUF_SIZE - 1
    BY Distances
  <2>2. ~ (CHARS(t, INC(t)) < CHARS(h, INC(t)))
    BY <1>2, <2>1, RingsHaveRoom
  <2> QED
    BY <2>2 DEF LineCells
<1>5. t \in old <=> buf[t] \in Ends
  <2>1. CHARS(t, t) < CHARS(h, t)
    BY <1>2, RingsHaveRoom
  <2> QED
    BY <2>1 DEF LineCells
<1> HIDE DEF old, new
<1>6. IsFiniteSet(old) /\ Cardinality(old) \in Nat /\ Cardinality(new) \in Nat
  BY <1>1, IndexIsFinite
<1>7. old \ {t} = new \ {t}
  BY <1>1, <1>3
<1>8. Cardinality(new) = Cardinality(old) + One(t \in new) - One(t \in old)
  BY <1>6, <1>7, OneDiffers
<1>9. Cardinality(new) = Cardinality(old) - One(buf[t] \in Ends)
  BY <1>4, <1>5, <1>6, <1>8 DEF One
<1> QED
  BY <1>6, <1>9 DEF old, new

-----------------------------------------------------------------------------
(***************************************************************************)
(* The inductive invariant.  The reader is at GETCH only when there is a   *)
(* character to get; that stays so while the interrupt works because then  *)
(* no erase character is in read_q (Racing).                               *)
(***************************************************************************)
InputTypes ==
    /\ term \in Terms
    /\ read_q \in Seq(Chars)
    /\ sbuf \in [Index -> Cells]
    /\ shead \in Index
    /\ stail \in Index
    /\ pc \in [Procs -> Places]

TakerFindsOne ==
    pc[Reader] = "take" =>
        /\ ~ EMPTY(shead, stail)
        /\ irq /\ term.canon => \A i \in 1 .. Len(read_q) : read_q[i] \notin {ERASE, KILL}

InputInv == InputTypes /\ TakerFindsOne /\ LinesCounted

LEMMA InputInit == Init => InputInv
<1> SUFFICES ASSUME Init PROVE InputInv
  OBVIOUS
<1>1. 0 \in Index
  BY RingsHaveRoom DEF Index
<1>2. InputTypes
  <2>1. Console \in Terms /\ Line \in Terms
    BY DEF Terms, Console, Line
  <2>2. read_q \in Seq(Chars)
    BY DEF Init
  <2>3. sbuf \in [Index -> Cells] /\ pc \in [Procs -> Places]
    BY DEF Init, Cells, Places
  <2> QED
    BY <1>1, <2>1, <2>2, <2>3 DEF Init, InputTypes
<1>3. TakerFindsOne
  BY DEF Init, TakerFindsOne, Procs
<1>4. LinesCounted
  <2>1. LineCells(sbuf, shead, stail) = {}
    <3>1. CHARS(0, 0) = 0
      BY <1>1, RingMoves
    <3>2. \A i \in Index : CHARS(i, 0) \in 0 .. TTY_BUF_SIZE - 1
      BY <1>1, RingMoves
    <3> QED
      BY <3>1, <3>2, RingsHaveRoom DEF Init, LineCells
  <2> QED
    BY <2>1, FS_EmptySet DEF Init, LinesCounted
<1> QED
  BY <1>2, <1>3, <1>4 DEF InputInv

\* Steps that leave the secondary queue alone, and do not bring the reader to
\* GETCH: reading and writing otherwise, signals, and the ioctl calls.
LEMMA InputUntouched ==
    ASSUME InputInv, UNCHANGED second, term' \in Terms, read_q' \in Seq(Chars),
           pc' \in [Procs -> Places],
           pc'[Reader] = "take" =>
               /\ pc[Reader] = "take"
               /\ irq' /\ term'.canon =>
                      \A i \in 1 .. Len(read_q') : read_q'[i] \notin {ERASE, KILL}
    PROVE  InputInv'
<1>1. InputTypes'
  BY DEF InputInv, InputTypes, second
<1>2. TakerFindsOne'
  BY DEF InputInv, TakerFindsOne, second, EMPTY
<1>3. LinesCounted'
  BY DEF InputInv, LinesCounted, second, LineCells
<1> QED
  BY <1>1, <1>2, <1>3 DEF InputInv

\* wake_up sends nobody to GETCH.
LEMMA WakeTakes ==
    ASSUME NEW a \in Places \ {"take"}, NEW b \in Places \ {"take"}, pc \in [Procs -> Places]
    PROVE  Wake(a, b) \in [Procs -> Places] /\ (Wake(a, b)[Reader] = "take" <=> pc[Reader] = "take")
  BY DEF Wake, Procs

-----------------------------------------------------------------------------
(* The steps.                                                              *)

LEMMA CharsAreCells == Chars \subseteq Cells
  BY DEF Cells

\* The first character of read_q, and what stays there.
LEMMA FirstOfQueue ==
    ASSUME InputInv, read_q # <<>>
    PROVE  /\ read_q[1] \in Chars /\ Tail(read_q) \in Seq(Chars)
           /\ 1 \in 1 .. Len(read_q)
           /\ \A i \in 1 .. Len(Tail(read_q)) :
                 Tail(read_q)[i] = read_q[i + 1] /\ i + 1 \in 1 .. Len(read_q)
<1>1. read_q \in Seq(Chars)
  BY DEF InputInv, InputTypes
<1>2. Len(read_q) \in Nat \ {0}
  BY <1>1, EmptySeq
<1>3. /\ Tail(read_q) \in Seq(Chars) /\ Len(Tail(read_q)) = Len(read_q) - 1
      /\ \A i \in 1 .. Len(Tail(read_q)) : Tail(read_q)[i] = read_q[i + 1]
  BY <1>1, HeadTailProperties
<1>4. 1 \in 1 .. Len(read_q)
  BY <1>2
<1>5. read_q[1] \in Chars
  BY <1>1, <1>4, ElementOfSeq
<1> QED
  BY <1>2, <1>3, <1>4, <1>5

\* What the interrupt does with a character, seen from the secondary queue.
CookAdds(c) ==
    /\ ~ FULL(shead, stail)
    /\ sbuf' = [sbuf EXCEPT ![shead] = c]
    /\ shead' = INC(shead)
    /\ stail' = stail
    /\ sdata' = IF c \in Ends THEN sdata + 1 ELSE sdata

CookRubs ==
    /\ ~ EMPTY(shead, stail)
    /\ LAST \notin Ends
    /\ shead' = DEC(shead)
    /\ UNCHANGED <<sbuf, stail, sdata>>
    /\ pc[Reader] # "take"

LEMMA CookCases ==
    ASSUME InputInv, Cook
    PROVE  /\ UNCHANGED <<term, irq, pc, received>>
           /\ read_q' \in Seq(Chars)
           /\ pc[Reader] = "take" /\ term.canon =>
                 \A i \in 1 .. Len(read_q') : read_q'[i] \notin {ERASE, KILL}
           /\ CookRubs \/ UNCHANGED second \/ \E c \in Chars : CookAdds(c)
<1> DEFINE c == IF read_q[1] = CR /\ ~ term.serial THEN NL ELSE read_q[1]
<1>1. irq /\ read_q # <<>> /\ ~ FULL(shead, stail) /\ UNCHANGED <<term, irq, pc, received>>
  BY DEF Cook, calls
<1>2. /\ read_q[1] \in Chars /\ Tail(read_q) \in Seq(Chars)
      /\ 1 \in 1 .. Len(read_q)
      /\ \A i \in 1 .. Len(Tail(read_q)) :
            Tail(read_q)[i] = read_q[i + 1] /\ i + 1 \in 1 .. Len(read_q)
  BY <1>1, FirstOfQueue
<1>3. read_q' = read_q \/ read_q' = Tail(read_q)
  BY DEF Cook
<1>4. read_q' \in Seq(Chars)
  BY <1>2, <1>3 DEF InputInv, InputTypes
<1>5. pc[Reader] = "take" /\ term.canon =>
          \A i \in 1 .. Len(read_q) : read_q[i] \notin {ERASE, KILL}
  BY <1>1 DEF InputInv, TakerFindsOne
<1>6. pc[Reader] = "take" /\ term.canon =>
          \A i \in 1 .. Len(read_q') : read_q'[i] \notin {ERASE, KILL}
  BY <1>2, <1>3, <1>5
<1>7. c \in Chars
  BY <1>2 DEF Chars
<1>8. pc[Reader] = "take" /\ term.canon => c \notin {ERASE, KILL}
  BY <1>2, <1>5, LineEndStays
<1>9. CookRubs \/ UNCHANGED second \/ CookAdds(c)
  <2>1. IF term.canon /\ c \in {ERASE, KILL}
        THEN IF Rubs THEN Erased ELSE UNCHANGED <<second, output, signal>>
        ELSE IF term.canon /\ c \in {STOP, START} THEN UNCHANGED <<second, output, signal>>
        ELSE IF ~ term.serial /\ c = INTR THEN tty_intr
        ELSE Kept(c)
    BY DEF Cook
  <2> HIDE DEF c
  <2>2. CASE term.canon /\ c \in {ERASE, KILL} /\ Rubs
    BY <1>8, <2>1, <2>2 DEF Rubs, Erased, CookRubs
  <2>3. CASE UNCHANGED <<second, output, signal>>
    BY <2>3
  <2>4. CASE tty_intr
    BY <2>4 DEF tty_intr
  <2>5. CASE Kept(c)
    BY <1>1, <2>5 DEF Kept, CookAdds
  <2> QED
    BY <2>1, <2>2, <2>3, <2>4, <2>5
<1> QED
  BY <1>1, <1>4, <1>6, <1>7, <1>9

LEMMA CookKeeps == ASSUME InputInv, Cook PROVE InputInv'
<1>1. /\ UNCHANGED <<term, irq, pc, received>> /\ read_q' \in Seq(Chars)
      /\ pc[Reader] = "take" /\ term.canon =>
            \A i \in 1 .. Len(read_q') : read_q'[i] \notin {ERASE, KILL}
  BY CookCases
<1>2. /\ sbuf \in [Index -> Cells] /\ shead \in Index /\ stail \in Index
      /\ term \in Terms /\ pc \in [Procs -> Places]
  BY DEF InputInv, InputTypes
<1>3. CASE UNCHANGED second
  BY <1>1, <1>2, <1>3, InputUntouched
<1>4. CASE CookRubs
  <2>1. InputTypes'
    <3>1. shead' \in Index
      BY <1>2, <1>4, RingMoves DEF CookRubs
    <3> QED
      BY <1>1, <1>2, <1>4, <3>1 DEF CookRubs, InputTypes
  <2>2. TakerFindsOne'
    BY <1>1, <1>4 DEF CookRubs, TakerFindsOne
  <2>3. LineCells(sbuf, DEC(shead), stail) = LineCells(sbuf, shead, stail)
    BY <1>2, <1>4, RubCounts DEF CookRubs, EMPTY, LAST
  <2>4. LinesCounted'
    BY <1>4, <2>3 DEF CookRubs, LinesCounted, InputInv
  <2> QED
    BY <2>1, <2>2, <2>4 DEF InputInv
<1>5. ASSUME NEW c \in Chars, CookAdds(c) PROVE InputInv'
  <2>1. c \in Cells
    BY CharsAreCells
  <2>2. InputTypes'
    <3>1. shead' \in Index
      BY <1>2, <1>5, RingMoves DEF CookAdds
    <3>2. sbuf' \in [Index -> Cells]
      BY <1>2, <1>5, <2>1 DEF CookAdds
    <3> QED
      BY <1>1, <1>2, <1>5, <3>1, <3>2 DEF CookAdds, InputTypes
  <2>3. TakerFindsOne'
    <3>1. shead' # stail'
      BY <1>2, <1>5, RingMoves DEF CookAdds
    <3> QED
      BY <1>1, <3>1 DEF TakerFindsOne, EMPTY
  <2>4. LinesCounted'
    <3>1. /\ Cardinality(LineCells(sbuf, shead, stail)) \in Nat
          /\ Cardinality(LineCells([sbuf EXCEPT ![shead] = c], INC(shead), stail)) =
                Cardinality(LineCells(sbuf, shead, stail)) + One(c \in Ends)
      BY <1>2, <1>5, <2>1, PutCounts DEF CookAdds
    <3>2. LineCells(sbuf, shead, stail)' = LineCells([sbuf EXCEPT ![shead] = c], INC(shead), stail)
      BY <1>5 DEF CookAdds, LineCells
    <3>3. sdata = Cardinality(LineCells(sbuf, shead, stail))
      BY DEF InputInv, LinesCounted
    <3>4. sdata' = sdata + One(c \in Ends)
      BY <1>5, <3>1, <3>3 DEF CookAdds, One
    <3> QED
      BY <3>1, <3>2, <3>3, <3>4 DEF LinesCounted
  <2> QED
    BY <2>2, <2>3, <2>4 DEF InputInv
<1> QED
  BY <1>3, <1>4, <1>5, CookCases

LEMMA TakeCharKeeps == ASSUME InputInv, TakeChar PROVE InputInv'
<1>1. /\ sbuf \in [Index -> Cells] /\ shead \in Index /\ stail \in Index
      /\ read_q \in Seq(Chars) /\ term \in Terms /\ pc \in [Procs -> Places]
  BY DEF InputInv, InputTypes
<1>2. /\ pc[Reader] = "take" /\ ~ irq
      /\ stail' = INC(stail) /\ shead' = shead
      /\ sbuf' = [sbuf EXCEPT ![stail] = NULL]
      /\ sdata' = IF sbuf[stail] \in Ends THEN sdata - 1 ELSE sdata
      /\ UNCHANGED <<term, read_q, irq>>
  BY DEF TakeChar, At
<1>3. shead # stail
  BY <1>2 DEF InputInv, TakerFindsOne, EMPTY
<1>4. pc' = [pc EXCEPT ![Reader] = "user"] \/ (pc' = pc /\ ~ EMPTY(shead, INC(stail)))
  BY DEF TakeChar, LeaveRead, ReadReturns, Goto
<1>5. InputTypes'
  <2>1. stail' \in Index
    BY <1>1, <1>2, RingMoves
  <2>2. sbuf' \in [Index -> Cells]
    BY <1>1, <1>2 DEF Cells
  <2>3. pc' \in [Procs -> Places]
    BY <1>1, <1>4 DEF Places
  <2> QED
    BY <1>1, <1>2, <2>1, <2>2, <2>3 DEF InputTypes
<1>6. TakerFindsOne'
  BY <1>1, <1>2, <1>4 DEF TakerFindsOne, EMPTY, Procs
<1>7. LinesCounted'
  <2>1. /\ Cardinality(LineCells(sbuf, shead, stail)) \in Nat
        /\ Cardinality(LineCells([sbuf EXCEPT ![stail] = NULL], shead, INC(stail))) =
              Cardinality(LineCells(sbuf, shead, stail)) - One(sbuf[stail] \in Ends)
    BY <1>1, <1>3, TakeCounts
  <2>2. LineCells(sbuf, shead, stail)' = LineCells([sbuf EXCEPT ![stail] = NULL], shead, INC(stail))
    BY <1>2 DEF LineCells
  <2>3. sdata = Cardinality(LineCells(sbuf, shead, stail))
    BY DEF InputInv, LinesCounted
  <2>4. sdata' = sdata - One(sbuf[stail] \in Ends)
    BY <1>2, <2>1, <2>3 DEF One
  <2> QED
    BY <2>1, <2>2, <2>3, <2>4 DEF LinesCounted
<1> QED
  BY <1>5, <1>6, <1>7 DEF InputInv

\* A key: not an erase character while the reader is at GETCH.
LEMMA KeyPressKeeps ==
    ASSUME InputInv, "erase" \notin Races, NEW c \in Chars, KeyPress(c) PROVE InputInv'
<1>1. /\ read_q \in Seq(Chars) /\ term \in Terms /\ pc \in [Procs -> Places]
  BY DEF InputInv, InputTypes
<1>2. /\ UNCHANGED <<second, term, pc>>
      /\ read_q' = read_q \/ read_q' = Append(read_q, c)
      /\ ~ Racing(c)
  BY DEF KeyPress
<1>3. read_q' \in Seq(Chars)
  BY <1>1, <1>2, AppendProperties
<1>4. ASSUME pc[Reader] = "take", term.canon, NEW i \in 1 .. Len(read_q')
      PROVE  read_q'[i] \notin {ERASE, KILL}
  <2>1. {ERASE, KILL} \cap (ToSet(read_q) \cup {c}) = {}
    BY <1>2, <1>4 DEF Racing
  <2>2. \A j \in 1 .. Len(read_q) : read_q[j] \in ToSet(read_q)
    BY <1>1, LenProperties DEF ToSet
  <2>3. CASE read_q' = read_q
    BY <1>4, <2>1, <2>2, <2>3
  <2>4. CASE read_q' = Append(read_q, c)
    <3>1. /\ Len(read_q') = Len(read_q) + 1 /\ Len(read_q) \in Nat
          /\ \A j \in 1 .. Len(read_q) : read_q'[j] = read_q[j]
          /\ read_q'[Len(read_q) + 1] = c
      BY <1>1, <2>4, AppendProperties, LenProperties
    <3>2. i = Len(read_q) + 1 \/ i \in 1 .. Len(read_q)
      BY <1>4, <3>1
    <3> QED
      BY <2>1, <2>2, <3>1, <3>2
  <2> QED
    BY <1>2, <2>3, <2>4
<1> QED
  BY <1>1, <1>2, <1>3, <1>4, InputUntouched

\* tty_read goes to GETCH only when there is something to read, and not during
\* an interrupt.
LEMMA ReadStartsKeeps == ASSUME InputInv, ReadStarts PROVE InputInv'
<1>1. /\ UNCHANGED <<second, term, read_q, irq>> /\ ~ irq /\ ~ EMPTY(shead, stail)
      /\ pc' = [pc EXCEPT ![Reader] = "take"]
  BY DEF ReadStarts, At, Goto, NothingToRead
<1>2. InputTypes'
  <2>1. pc' \in [Procs -> Places]
    BY <1>1 DEF InputInv, InputTypes, Places
  <2> QED
    BY <1>1, <2>1 DEF InputInv, InputTypes, second
<1>3. TakerFindsOne'
  BY <1>1 DEF TakerFindsOne, second, EMPTY
<1>4. LinesCounted'
  BY <1>1 DEF InputInv, LinesCounted, second, LineCells
<1> QED
  BY <1>2, <1>3, <1>4 DEF InputInv

\* The rest of the steps of the reader and all steps of the writer.
CallStep ==
    \/ ReadSignalled \/ ReadSleep
    \/ WriteChecks \/ WriteSleeps \/ Fill \/ WriteOut \/ Drain
    \/ \E n \in 1 .. 2 : Read(n) \/ Write(n)

LEMMA CallStepMoves ==
    ASSUME pc \in [Procs -> Places], CallStep
    PROVE  /\ UNCHANGED <<second, received, term, read_q, irq>> /\ ~ irq
           /\ pc' \in [Procs -> Places]
           /\ pc'[Reader] = "take" => pc[Reader] = "take"
<1> USE DEF Places, Procs, At, Goto
<1>1. CASE ReadSignalled
  BY <1>1 DEF ReadSignalled, ReadReturns, LeaveRead
<1>2. CASE ReadSleep
  BY <1>2 DEF ReadSleep
<1>3. CASE WriteChecks
  BY <1>3, TwoProcesses DEF WriteChecks
<1>4. CASE WriteSleeps
  BY <1>4, TwoProcesses DEF WriteSleeps
<1>5. CASE Fill
  BY <1>5 DEF Fill
<1>6. CASE WriteOut
  BY <1>6, TwoProcesses DEF WriteOut, WriteTurns
<1>7. CASE Drain
  BY <1>7, TwoProcesses DEF Drain, WriteTurns
<1>8. ASSUME NEW n \in 1 .. 2, Read(n)
      PROVE  /\ UNCHANGED <<second, received, term, read_q, irq>> /\ ~ irq
             /\ pc' \in [Procs -> Places]
             /\ pc'[Reader] = "take" => pc[Reader] = "take"
  BY <1>8 DEF Read
<1>9. ASSUME NEW n \in 1 .. 2, Write(n)
      PROVE  /\ UNCHANGED <<second, received, term, read_q, irq>> /\ ~ irq
             /\ pc' \in [Procs -> Places]
             /\ pc'[Reader] = "take" => pc[Reader] = "take"
  BY <1>9, TwoProcesses DEF Write
<1> QED
  BY <1>1, <1>2, <1>3, <1>4, <1>5, <1>6, <1>7, <1>8, <1>9 DEF CallStep

\* What comes from outside the calls: interrupts, the scheduler, signals.
OtherStep ==
    \/ CookDone \/ RsWrite \/ AlarmRings
    \/ \E p \in Procs : Schedule(p) \/ Handle(p)

LEMMA OtherStepMoves ==
    ASSUME pc \in [Procs -> Places], OtherStep
    PROVE  /\ UNCHANGED <<second, received, term, read_q>>
           /\ irq' => irq
           /\ pc' \in [Procs -> Places]
           /\ pc'[Reader] = "take" => pc[Reader] = "take"
<1>0. Reader \in Procs
  BY DEF Procs
<1>1. CASE CookDone
  <2>1. pc' = Wake("readSleep", "read") /\ ~ irq'
    BY <1>1 DEF CookDone
  <2>2. Wake("readSleep", "read") \in [Procs -> Places]
        /\ (Wake("readSleep", "read")[Reader] = "take" <=> pc[Reader] = "take")
    BY WakeTakes DEF Places
  <2> QED
    BY <1>1, <2>1, <2>2 DEF CookDone
<1>2. CASE RsWrite
  <2>1. pc' = Wake("writeSleep", "full") \/ pc' = pc
    BY <1>2 DEF RsWrite
  <2>2. Wake("writeSleep", "full") \in [Procs -> Places]
        /\ (Wake("writeSleep", "full")[Reader] = "take" <=> pc[Reader] = "take")
    BY WakeTakes DEF Places
  <2> QED
    BY <1>2, <2>1, <2>2 DEF RsWrite
<1>3. CASE AlarmRings
  BY <1>3 DEF AlarmRings
<1>4. ASSUME NEW p \in Procs, Schedule(p)
      PROVE  /\ UNCHANGED <<second, received, term, read_q>>
             /\ irq' => irq
             /\ pc' \in [Procs -> Places]
             /\ pc'[Reader] = "take" => pc[Reader] = "take"
  BY <1>0, <1>4 DEF Schedule, Places
<1>5. ASSUME NEW p \in Procs, Handle(p)
      PROVE  /\ UNCHANGED <<second, received, term, read_q>>
             /\ irq' => irq
             /\ pc' \in [Procs -> Places]
             /\ pc'[Reader] = "take" => pc[Reader] = "take"
  BY <1>5 DEF Handle
<1> QED
  BY <1>1, <1>2, <1>3, <1>4, <1>5 DEF OtherStep

\* The ioctl calls may flush read_q, never secondary.
IoctlStep ==
    \E p \in Procs : \/ \E arg \in 0 .. 2 : Flush(p, arg)
                     \/ \E b \in BOOLEAN : SetTermios(p, b)

LEMMA IoctlStepMoves ==
    ASSUME term \in Terms, read_q \in Seq(Chars), IoctlStep
    PROVE  /\ UNCHANGED <<second, received, pc, irq>> /\ ~ irq
           /\ term' \in Terms /\ read_q' \in Seq(Chars)
<1>1. <<>> \in Seq(Chars)
  OBVIOUS
<1>2. ASSUME NEW p \in Procs, NEW arg \in 0 .. 2, Flush(p, arg)
      PROVE  /\ UNCHANGED <<second, received, pc, irq>> /\ ~ irq
             /\ term' \in Terms /\ read_q' \in Seq(Chars)
  BY <1>1, <1>2 DEF Flush, At
<1>3. ASSUME NEW p \in Procs, NEW b \in BOOLEAN, SetTermios(p, b)
      PROVE  /\ UNCHANGED <<second, received, pc, irq>> /\ ~ irq
             /\ term' \in Terms /\ read_q' \in Seq(Chars)
  <2>1. term' = [term EXCEPT !.canon = ~ term.canon]
    BY <1>3 DEF SetTermios
  <2>2. term' \in Terms
    <3>1. (~ term.canon) \in BOOLEAN
      OBVIOUS
    <3> QED
      BY <2>1, <3>1, Zenon DEF Terms
  <2> QED
    BY <1>1, <1>3, <2>2 DEF SetTermios, At
<1> QED
  BY <1>2, <1>3 DEF IoctlStep

LEMMA NextCases ==
    ASSUME [Next]_vars
    PROVE  \/ Cook \/ TakeChar \/ ReadStarts
           \/ CallStep \/ OtherStep \/ IoctlStep
           \/ \E c \in Chars : KeyPress(c)
           \/ UNCHANGED vars
<1>1. (IF term.serial THEN LineKeys ELSE Keys) \subseteq Chars
  BY KeysAreChars
<1> QED
  BY <1>1 DEF Next, KernelStep, CallStep, OtherStep, IoctlStep

LEMMA InputInductive ==
    ASSUME InputInv, "erase" \notin Races, [Next]_vars PROVE InputInv'
<1>1. /\ read_q \in Seq(Chars) /\ term \in Terms /\ pc \in [Procs -> Places]
      /\ pc[Reader] = "take" /\ irq /\ term.canon =>
            \A i \in 1 .. Len(read_q) : read_q[i] \notin {ERASE, KILL}
  BY DEF InputInv, InputTypes, TakerFindsOne
<1>2. CASE CallStep
  BY <1>1, <1>2, CallStepMoves, InputUntouched
<1>3. CASE OtherStep
  BY <1>1, <1>3, OtherStepMoves, InputUntouched
<1>4. CASE IoctlStep
  BY <1>1, <1>4, IoctlStepMoves, InputUntouched
<1>5. CASE UNCHANGED vars
  BY <1>1, <1>5, InputUntouched DEF vars
<1> QED
  BY <1>2, <1>3, <1>4, <1>5, NextCases, CookKeeps, TakeCharKeeps, ReadStartsKeeps, KeyPressKeeps

\* secondary.data, which tty_read waits for, is exact: it is changed by the
\* interrupt and by the reader, and the line discipline may change in between.
THEOREM LinesAreCounted == ASSUME "erase" \notin Races PROVE Spec => []LinesCounted
<1>1. InputInv => LinesCounted
  BY DEF InputInv
<1> QED
  BY <1>1, InputInit, InputInductive, PTL DEF Spec

-----------------------------------------------------------------------------
(* The refinement.                                                         *)

LEMMA CookEdits == ASSUME InputInv, Cook PROVE [Editor!Next]_<<Contents(sbuf, shead, stail), received>>
<1>1. /\ sbuf \in [Index -> Cells] /\ shead \in Index /\ stail \in Index
  BY DEF InputInv, InputTypes
<1>2. UNCHANGED received
  BY CookCases
<1>3. CASE UNCHANGED second
  BY <1>2, <1>3 DEF second, Contents
<1>4. CASE CookRubs
  <2> DEFINE old == Contents(sbuf, shead, stail)
  <2>1. /\ old # <<>> /\ old[Len(old)] = LAST
        /\ Contents(sbuf, DEC(shead), stail) = SubSeq(old, 1, Len(old) - 1)
    BY <1>1, <1>4, RubShortens DEF CookRubs, EMPTY, LAST
  <2>2. Contents(sbuf, shead, stail)' = Contents(sbuf, DEC(shead), stail)
    BY <1>4 DEF CookRubs, Contents
  <2>3. LAST \notin Editor!Ends
    BY <1>4 DEF CookRubs, Ends, Editor!Ends
  <2> QED
    BY <1>2, <2>1, <2>2, <2>3 DEF Editor!Next, Editor!Rub
<1>5. ASSUME NEW c \in Chars, CookAdds(c) PROVE Editor!Add(c)
  <2>1. Contents([sbuf EXCEPT ![shead] = c], INC(shead), stail) =
            Append(Contents(sbuf, shead, stail), c)
    BY <1>1, <1>5, CharsAreCells, PutAppends DEF CookAdds
  <2>2. Contents(sbuf, shead, stail)' =
            Contents([sbuf EXCEPT ![shead] = c], INC(shead), stail)
    BY <1>5 DEF CookAdds, Contents
  <2> QED
    BY <1>2, <2>1, <2>2 DEF Editor!Add
<1> QED
  BY <1>3, <1>4, <1>5, CookCases DEF Editor!Next

LEMMA TakeCharTakes == ASSUME InputInv, TakeChar PROVE Editor!Take
<1> DEFINE old == Contents(sbuf, shead, stail)
<1>1. /\ sbuf \in [Index -> Cells] /\ shead \in Index /\ stail \in Index
  BY DEF InputInv, InputTypes
<1>2. /\ stail' = INC(stail) /\ shead' = shead /\ sbuf' = [sbuf EXCEPT ![stail] = NULL]
      /\ \/ received' = sbuf[stail]
         \/ sbuf[stail] = EOF /\ UNCHANGED received
  BY DEF TakeChar
<1>3. shead # stail
  BY DEF InputInv, TakerFindsOne, EMPTY, TakeChar, At
<1>4. /\ old # <<>> /\ Head(old) = sbuf[stail]
      /\ Contents([sbuf EXCEPT ![stail] = NULL], shead, INC(stail)) = Tail(old)
  BY <1>1, <1>3, TakeShortens
<1>5. Contents(sbuf, shead, stail)' = Contents([sbuf EXCEPT ![stail] = NULL], shead, INC(stail))
  BY <1>2 DEF Contents
<1> QED
  BY <1>2, <1>4, <1>5 DEF Editor!Take

\* copy_to_cooked, tty_read and the ring between them implement the line editor:
\* the characters arrive in order, and only the current line can be edited.
THEOREM TtyIsLineEditor == ASSUME "erase" \notin Races PROVE Spec => ImplementsLineEditor
<1>1. Init => Editor!Init
  <2> SUFFICES ASSUME Init PROVE Editor!Init
    OBVIOUS
  <2>1. /\ sbuf \in [Index -> Cells] /\ shead \in Index /\ stail \in Index /\ shead = stail
    BY InputInit DEF InputInv, InputTypes, Init
  <2>2. Contents(sbuf, shead, stail) \in Seq(Cells) /\ Len(Contents(sbuf, shead, stail)) = 0
    <3>1. /\ Contents(sbuf, shead, stail) \in Seq(Cells)
          /\ Len(Contents(sbuf, shead, stail)) = CHARS(shead, stail)
      BY <2>1, ContentsAreSequence
    <3>2. CHARS(shead, stail) = 0
      BY <2>1, RingMoves
    <3> QED
      BY <3>1, <3>2
  <2>3. Contents(sbuf, shead, stail) = <<>>
    BY <2>2, EmptySeq
  <2> QED
    BY <2>3 DEF Editor!Init, Init
<1>2. ASSUME InputInv, [Next]_vars
      PROVE  [Editor!Next]_<<Contents(sbuf, shead, stail), received>>
  <2>1. ASSUME UNCHANGED <<second, received>>
        PROVE  UNCHANGED <<Contents(sbuf, shead, stail), received>>
    BY <2>1 DEF second, Contents
  <2>2. /\ read_q \in Seq(Chars) /\ term \in Terms /\ pc \in [Procs -> Places]
    BY <1>2 DEF InputInv, InputTypes
  <2>3. CASE CallStep
    BY <2>1, <2>2, <2>3, CallStepMoves
  <2>4. CASE OtherStep
    BY <2>1, <2>2, <2>4, OtherStepMoves
  <2>5. CASE IoctlStep
    BY <2>1, <2>2, <2>5, IoctlStepMoves
  <2>6. CASE ReadStarts \/ UNCHANGED vars \/ \E c \in Chars : KeyPress(c)
    BY <2>1, <2>6 DEF ReadStarts, vars, KeyPress
  <2>7. CASE TakeChar
    BY <1>2, <2>7, TakeCharTakes DEF Editor!Next
  <2>8. CASE Cook
    BY <1>2, <2>8, CookEdits
  <2> QED
    BY <1>2, <2>3, <2>4, <2>5, <2>6, <2>7, <2>8, NextCases
<1> QED
  BY <1>1, <1>2, InputInit, InputInductive, PTL DEF Spec, ImplementsLineEditor, Editor!Spec

-----------------------------------------------------------------------------
(***************************************************************************)
(* Output.  Everything that was written and not flushed is what came to    *)
(* the device followed by what is in write_q.  Only Fill adds to it and    *)
(* only a flush takes from it: con_write and the serial line move it, and  *)
(* an echo does so too as long as it fits.  That it fits is why the        *)
(* console's queue must be empty, but for a writer that fills or empties   *)
(* it, and why no key may come then ("echo" and "drain").                  *)
(***************************************************************************)
Out == shown \o Contents(wbuf, whead, wtail)

OutputTypes ==
    /\ term \in Terms
    /\ wbuf \in [Index -> Cells]
    /\ whead \in Index
    /\ wtail \in Index
    /\ shown \in Seq(Cells)
    /\ pc \in [Procs -> Places]
    /\ nr \in [Procs -> Nat]
    /\ written \in Nat
    /\ written + nr[Writer] <= MaxOut

\* The writer keeps the processor while it fills or empties the queue, only a
\* serial line interrupts for output, and the console's queue is otherwise empty.
QueueInv ==
    /\ pc[Writer] \in {"fill", "drain"} => cpu = Writer
    /\ ier => term.serial
    /\ pc[Writer] = "drain" => ~ term.serial
    /\ ~ term.serial =>
          /\ pc[Writer] \notin {"fill", "drain"} => whead = wtail
          /\ pc[Writer] = "drain" => ~ irq /\ todo = CHARS(whead, wtail)
          /\ pc[Writer] = "fill" /\ irq => LEFT(whead, wtail) >= 3 \/ whead = wtail

\* What cr_flag remembers.
PendingReturn ==
    Post /\ lost = {} /\ cr_flag => Out # <<>> /\ Out[Len(Out)] = RETURN

Delivered == OutputInOrder /\ PendingReturn

OutputInv == OutputTypes /\ QueueInv /\ Delivered

\* The sequence of all output.
LEMMA OutIsSequence ==
    ASSUME OutputTypes
    PROVE  /\ Contents(wbuf, whead, wtail) \in Seq(Cells)
           /\ Len(Contents(wbuf, whead, wtail)) = CHARS(whead, wtail)
           /\ Out \in Seq(Cells)
           /\ whead = wtail => Contents(wbuf, whead, wtail) = <<>> /\ Out = shown
<1>1. /\ Contents(wbuf, whead, wtail) \in Seq(Cells)
      /\ Len(Contents(wbuf, whead, wtail)) = CHARS(whead, wtail)
  BY ContentsAreSequence DEF OutputTypes
<1>2. Out \in Seq(Cells)
  BY <1>1, ConcatProperties DEF OutputTypes, Out
<1>3. ASSUME whead = wtail PROVE Contents(wbuf, whead, wtail) = <<>> /\ Out = shown
  <2>1. CHARS(whead, wtail) = 0
    BY <1>3, RingMoves DEF OutputTypes
  <2>2. Contents(wbuf, whead, wtail) = <<>>
    BY <1>1, <2>1, EmptySeq
  <2> QED
    BY <2>2, ConcatEmptySeq DEF OutputTypes, Out
<1> QED
  BY <1>1, <1>2, <1>3

\* A character that is appended to the second part is appended to the whole.
LEMMA AppendsToAll ==
    ASSUME NEW s \in Seq(Cells), NEW t \in Seq(Cells), NEW c \in Cells
    PROVE  s \o Append(t, c) = Append(s \o t, c)
<1>1. s \o t \in Seq(Cells)
  BY ConcatProperties
<1>2. <<c>> \in Seq(Cells)
  OBVIOUS
<1>3. Append(t, c) = t \o <<c>> /\ Append(s \o t, c) = (s \o t) \o <<c>>
  BY <1>1, AppendIsConcat
<1>4. (s \o t) \o <<c>> = s \o (t \o <<c>>)
  BY <1>2, ConcatAssociative
<1> QED
  BY <1>3, <1>4

\* The first of the second part may as well be the last of the first part.
LEMMA MovesOver ==
    ASSUME NEW s \in Seq(Cells), NEW t \in Seq(Cells), t # <<>>
    PROVE  Append(s, Head(t)) \o Tail(t) = s \o t
<1>1. /\ Head(t) \in Cells /\ Tail(t) \in Seq(Cells) /\ Head(t) = t[1] /\ Len(t) \in Nat \ {0}
      /\ Len(Tail(t)) = Len(t) - 1
      /\ \A i \in 1 .. Len(Tail(t)) : Tail(t)[i] = t[i + 1]
  BY HeadTailProperties, EmptySeq
<1> DEFINE u == Append(s, Head(t))
           h == Head(t)
           r == Tail(t)
<1>2. /\ u \in Seq(Cells) /\ Len(u) = Len(s) + 1 /\ Len(s) \in Nat
      /\ \A i \in 1 .. Len(s) : u[i] = s[i]
      /\ u[Len(s) + 1] = t[1]
  BY <1>1, AppendProperties
<1> HIDE DEF u, h, r
<1>3. /\ u \o r \in Seq(Cells) /\ Len(u \o r) = Len(u) + Len(r)
      /\ \A i \in 1 .. Len(u) + Len(r) :
            (u \o r)[i] = IF i <= Len(u) THEN u[i] ELSE r[i - Len(u)]
  BY <1>1, <1>2, ConcatProperties DEF r
<1>4. /\ s \o t \in Seq(Cells) /\ Len(s \o t) = Len(s) + Len(t)
      /\ \A i \in 1 .. Len(s) + Len(t) :
            (s \o t)[i] = IF i <= Len(s) THEN s[i] ELSE t[i - Len(s)]
  BY ConcatProperties
<1>5. ASSUME NEW i \in 1 .. Len(s) + Len(t) PROVE (u \o r)[i] = (s \o t)[i]
  <2>1. i \in 1 .. Len(u) + Len(r)
    BY <1>1, <1>2 DEF r
  <2>2. CASE i <= Len(s)
    <3>1. i \in 1 .. Len(s) /\ i <= Len(u)
      BY <1>2, <2>2
    <3> QED
      BY <1>2, <1>3, <1>4, <2>1, <2>2, <3>1
  <2>3. CASE i = Len(s) + 1
    BY <1>1, <1>2, <1>3, <1>4, <2>1, <2>3
  <2>4. CASE i > Len(s) + 1
    <3>1. i - Len(u) \in 1 .. Len(r) /\ ~ (i <= Len(u)) /\ ~ (i <= Len(s))
          /\ i - Len(u) + 1 = i - Len(s)
      BY <1>1, <1>2, <2>1, <2>4 DEF r
    <3>2. r[i - Len(u)] = t[i - Len(u) + 1]
      BY <1>1, <3>1 DEF r
    <3> QED
      BY <1>3, <1>4, <2>1, <3>1, <3>2
  <2>5. i <= Len(s) \/ i = Len(s) + 1 \/ i > Len(s) + 1
    BY <1>1, <1>2
  <2> QED
    BY <2>2, <2>3, <2>4, <2>5
<1>6. Len(u \o r) = Len(s \o t)
  BY <1>1, <1>2, <1>3, <1>4 DEF r
<1>7. u \o r = s \o t
  BY <1>3, <1>4, <1>5, <1>6, SeqEqual
<1> QED
  BY <1>7 DEF u, r

LEMMA Elements ==
    ASSUME NEW s \in Seq(Cells)
    PROVE  /\ Len(s) \in Nat
           /\ \A i \in 1 .. Len(s) : s[i] \in ToSet(s)
           /\ \A e \in ToSet(s) : \E i \in 1 .. Len(s) : s[i] = e
  BY LenProperties DEF ToSet

LEMMA ElementsOfAll ==
    ASSUME NEW s \in Seq(Cells), NEW t \in Seq(Cells)
    PROVE  ToSet(s \o t) = ToSet(s) \cup ToSet(t)
<1>1. /\ s \o t \in Seq(Cells) /\ Len(s \o t) = Len(s) + Len(t) /\ Len(s) \in Nat /\ Len(t) \in Nat
      /\ \A i \in 1 .. Len(s) + Len(t) :
            (s \o t)[i] = IF i <= Len(s) THEN s[i] ELSE t[i - Len(s)]
  BY ConcatProperties, LenProperties
<1>2. ASSUME NEW e \in ToSet(s \o t) PROVE e \in ToSet(s) \cup ToSet(t)
  <2>1. PICK i \in 1 .. Len(s) + Len(t) : (s \o t)[i] = e
    BY <1>1, Elements
  <2>2. CASE i <= Len(s)
    <3>1. i \in 1 .. Len(s)
      BY <1>1, <2>2
    <3> QED
      BY <1>1, <2>1, <2>2, <3>1, Elements
  <2>3. CASE ~ (i <= Len(s))
    <3>1. i - Len(s) \in 1 .. Len(t)
      BY <1>1, <2>3
    <3> QED
      BY <1>1, <2>1, <2>3, <3>1, Elements
  <2> QED
    BY <2>2, <2>3
<1>3. ASSUME NEW e \in ToSet(s) PROVE e \in ToSet(s \o t)
  <2>1. PICK i \in 1 .. Len(s) : s[i] = e
    BY Elements
  <2>2. i \in 1 .. Len(s \o t) /\ (s \o t)[i] = e
    BY <1>1, <2>1
  <2> QED
    BY <1>1, <2>2, Elements
<1>4. ASSUME NEW e \in ToSet(t) PROVE e \in ToSet(s \o t)
  <2>1. PICK i \in 1 .. Len(t) : t[i] = e
    BY Elements
  <2>2. Len(s) + i \in 1 .. Len(s \o t) /\ (s \o t)[Len(s) + i] = e
    BY <1>1, <2>1
  <2> QED
    BY <1>1, <2>2, Elements
<1> QED
  BY <1>2, <1>3, <1>4

-----------------------------------------------------------------------------
(* What steps do to the output.                                            *)

\* Init: nothing is written.
LEMMA OutputInit == Init => OutputInv
<1> SUFFICES ASSUME Init PROVE OutputInv
  OBVIOUS
<1>1. OutputTypes
  <2>1. 0 \in Index /\ Console \in Terms /\ Line \in Terms
    BY RingsHaveRoom DEF Index, Terms, Console, Line
  <2>2. /\ wbuf \in [Index -> Cells] /\ pc \in [Procs -> Places] /\ nr \in [Procs -> Nat]
        /\ nr[Writer] = 0 /\ shown \in Seq(Cells)
    BY DEF Init, Cells, Places, Procs
  <2> QED
    BY <2>1, <2>2, BoundIsNumber DEF Init, OutputTypes
<1>2. QueueInv
  BY DEF Init, QueueInv, Procs
<1>3. Out = <<>>
  BY <1>1, OutIsSequence DEF Init
<1>4. OutputInOrder
  <2>1. ToSet(<<>>) = {} /\ Len(<<>>) = 0
    BY DEF ToSet
  <2> QED
    BY <1>3, <2>1 DEF Init, OutputInOrder, Out
<1>5. PendingReturn
  BY DEF Init, PendingReturn
<1> QED
  BY <1>1, <1>2, <1>4, <1>5 DEF OutputInv, Delivered

\* Output that is only moved.
LEMMA OutputMoves ==
    ASSUME Delivered, Out' = Out, UNCHANGED <<lost, cr_flag, written>>,
           term'.serial = term.serial
    PROVE  Delivered'
<1>1. OutputInOrder'
  BY DEF Delivered, OutputInOrder, Out, Post
<1>2. PendingReturn'
  BY DEF Delivered, PendingReturn, Post
<1> QED
  BY <1>1, <1>2 DEF Delivered

\* The oldest entry of write_q goes to the device.
LEMMA OneGoesOut ==
    ASSUME OutputTypes, whead # wtail,
           shown' = Append(shown, wbuf[wtail]), wtail' = INC(wtail), whead' = whead,
           wbuf' = [wbuf EXCEPT ![wtail] = NULL]
    PROVE  /\ Out' = Out /\ shown' \in Seq(Cells)
           /\ wtail' \in Index /\ wbuf' \in [Index -> Cells]
           /\ CHARS(whead, wtail)' = CHARS(whead, wtail) - 1
<1> DEFINE old == Contents(wbuf, whead, wtail)
<1>1. /\ wbuf \in [Index -> Cells] /\ whead \in Index /\ wtail \in Index /\ shown \in Seq(Cells)
  BY DEF OutputTypes
<1>2. /\ old # <<>> /\ Head(old) = wbuf[wtail]
      /\ Contents([wbuf EXCEPT ![wtail] = NULL], whead, INC(wtail)) = Tail(old)
  BY <1>1, TakeShortens
<1>3. Contents(wbuf, whead, wtail)' = Tail(old)
  BY <1>2 DEF Contents
<1>4. old \in Seq(Cells)
  BY OutIsSequence
<1>5. wbuf[wtail] \in Cells /\ wtail' \in Index /\ wbuf' \in [Index -> Cells]
  BY <1>1, RingMoves DEF Cells
<1>6. shown' \in Seq(Cells)
  BY <1>1, <1>5, AppendProperties
<1> HIDE DEF old
<1>7. Out' = Out
  <2>1. Append(shown, Head(old)) \o Tail(old) = shown \o old
    BY <1>1, <1>2, <1>4, MovesOver
  <2> QED
    BY <1>2, <1>3, <2>1 DEF Out, old
<1>8. CHARS(whead, wtail)' = CHARS(whead, wtail) - 1
  <2>1. CHARS(whead, INC(wtail)) = CHARS(whead, wtail) - 1
    BY <1>1, RingMoves
  <2> QED
    BY <2>1 DEF CHARS
<1> QED
  BY <1>5, <1>6, <1>7, <1>8

\* An echo takes to the device what is in write_q, and finds room there.
LEMMA EchoGoesOut ==
    ASSUME OutputTypes, QueueInv, ~ term.serial, irq, NEW n \in 1 .. 2, Echoed(n)
    PROVE  /\ Out' = Out /\ shown' \in Seq(Cells)
           /\ whead' \in Index /\ wtail' = whead' /\ wbuf' \in [Index -> Cells]
           /\ UNCHANGED <<ier, lost>>
<1>1. /\ wbuf \in [Index -> Cells] /\ whead \in Index /\ wtail \in Index /\ shown \in Seq(Cells)
  BY DEF OutputTypes
<1>2. /\ whead' = (whead + n) % TTY_BUF_SIZE /\ wtail' = whead'
      /\ wbuf' = [i \in Index |-> NULL] /\ UNCHANGED <<ier, lost>>
      /\ shown' = IF n <= LEFT(whead, wtail) THEN shown \o Contents(wbuf, whead, wtail) ELSE shown
  BY DEF Echoed
<1>3. whead' \in Index
  <2>1. whead + n \in Int /\ -TTY_BUF_SIZE <= whead + n /\ whead + n < 2 * TTY_BUF_SIZE
    BY <1>1, RingsHaveRoom DEF Index
  <2>2. PICK x \in Int : x = whead + n
    BY <2>1
  <2> QED
    BY <1>2, <2>1, <2>2, Masked
<1>4. wbuf' \in [Index -> Cells]
  BY <1>2 DEF Cells
<1>5. shown' = Out
  <2>1. LEFT(whead, wtail) \in Int
    BY <1>1, RingMoves, RingSteps, RingsHaveRoom
  <2>2. whead = wtail \/ LEFT(whead, wtail) >= 3
    BY DEF QueueInv
  <2>3. CASE n <= LEFT(whead, wtail)
    BY <1>2, <2>3 DEF Out
  <2>4. CASE ~ (n <= LEFT(whead, wtail))
    BY <1>2, <2>1, <2>2, <2>4, OutIsSequence
  <2> QED
    BY <2>3, <2>4
<1>6. shown' \in Seq(Cells)
  BY <1>5, OutIsSequence
<1>7. Contents(wbuf, whead, wtail)' = <<>>
  <2>1. Contents(wbuf', whead', wtail') \in Seq(Cells)
        /\ Len(Contents(wbuf', whead', wtail')) = CHARS(whead', wtail')
    BY <1>2, <1>3, <1>4, ContentsAreSequence
  <2>2. CHARS(whead', wtail') = 0
    BY <1>2, <1>3, RingMoves
  <2> QED
    BY <2>1, <2>2, EmptySeq
<1>8. Out' = Out
  BY <1>5, <1>6, <1>7, ConcatEmptySeq DEF Out
<1> QED
  BY <1>2, <1>3, <1>4, <1>6, <1>8

\* One more entry: the next character, or the carriage return before it.
LEMMA FillDelivers ==
    ASSUME OutputInv, Fill PROVE OutputInv'
<1> DEFINE c == written + 1
           cr == Post /\ Newline(c) /\ ~ cr_flag
           e == IF cr THEN RETURN ELSE c
<1>1. /\ OutputTypes /\ QueueInv /\ OutputInOrder /\ PendingReturn
      /\ wbuf \in [Index -> Cells] /\ whead \in Index /\ wtail \in Index /\ shown \in Seq(Cells)
      /\ written \in Nat /\ nr \in [Procs -> Nat] /\ written + nr[Writer] <= MaxOut
  BY DEF OutputInv, Delivered, OutputTypes
<1>2. /\ pc[Writer] = "fill" /\ cpu = Writer /\ ~ irq /\ nr[Writer] > 0 /\ ~ FULL(whead, wtail)
      /\ UNCHANGED <<term, wtail, ier, shown, lost, irq, cpu, pc, todo>>
  BY DEF Fill, At, Filling
<1>3. /\ wbuf' = [wbuf EXCEPT ![whead] = e] /\ whead' = INC(whead) /\ cr_flag' = cr
      /\ written' = IF cr THEN written ELSE c
      /\ nr' = IF cr THEN nr ELSE [nr EXCEPT ![Writer] = @ - 1]
  BY DEF Fill
<1>4. nr[Writer] \in Nat /\ Writer \in Procs
  BY <1>1 DEF Procs
<1>5. c \in 1 .. MaxOut
  BY <1>1, <1>2, <1>4, BoundIsNumber
<1>6. e \in Entries /\ e \in Cells /\ c # RETURN
  BY <1>5 DEF Entries, Cells, RETURN
<1>7. OutputTypes'
  <2>1. whead' \in Index
    BY <1>1, <1>3, RingMoves
  <2>2. wbuf' \in [Index -> Cells]
    BY <1>1, <1>3, <1>6
  <2>3. written' \in Nat /\ nr' \in [Procs -> Nat] /\ written' + nr'[Writer] <= MaxOut
    <3> HIDE DEF cr
    <3> QED
      BY <1>1, <1>2, <1>3, <1>4, BoundIsNumber
  <2> QED
    BY <1>1, <1>2, <2>1, <2>2, <2>3 DEF OutputTypes
<1>8. QueueInv'
  BY <1>1, <1>2 DEF QueueInv
<1> HIDE DEF e
<1>9. Out' = Append(Out, e)
  <2>1. Contents([wbuf EXCEPT ![whead] = e], INC(whead), wtail) =
            Append(Contents(wbuf, whead, wtail), e)
    BY <1>1, <1>2, <1>6, PutAppends
  <2>2. Contents(wbuf, whead, wtail)' = Append(Contents(wbuf, whead, wtail), e)
    BY <1>2, <1>3, <2>1 DEF Contents
  <2>3. Contents(wbuf, whead, wtail) \in Seq(Cells)
    BY <1>1, OutIsSequence
  <2> QED
    BY <1>1, <1>2, <1>6, <2>2, <2>3, AppendsToAll DEF Out
<1>10. /\ Out \in Seq(Cells) /\ Out' \in Seq(Cells) /\ Len(Out) \in Nat /\ Len(Out') = Len(Out) + 1
       /\ \A i \in 1 .. Len(Out) : Out'[i] = Out[i]
       /\ Out'[Len(Out) + 1] = e
  <2>1. Out \in Seq(Cells)
    BY <1>1, OutIsSequence
  <2> QED
    BY <1>6, <1>9, <2>1, AppendProperties, LenProperties
<1>11. ToSet(Out') = ToSet(Out) \cup {e}
  <2>1. ASSUME NEW x \in ToSet(Out') PROVE x \in ToSet(Out) \cup {e}
    <3>1. PICK i \in 1 .. Len(Out') : Out'[i] = x
      BY <1>10, Elements
    <3>2. CASE i = Len(Out) + 1
      BY <1>10, <3>1, <3>2
    <3>3. CASE i # Len(Out) + 1
      <4>1. i \in 1 .. Len(Out)
        BY <1>10, <3>3
      <4> QED
        BY <1>10, <3>1, <4>1, Elements
    <3> QED
      BY <3>2, <3>3
  <2>2. ASSUME NEW x \in ToSet(Out) PROVE x \in ToSet(Out')
    <3>1. PICK i \in 1 .. Len(Out) : Out[i] = x
      BY <1>10, Elements
    <3>2. i \in 1 .. Len(Out') /\ Out'[i] = x
      BY <1>10, <3>1
    <3> QED
      BY <1>10, <3>2, Elements
  <2>3. e \in ToSet(Out')
    <3>1. Len(Out) + 1 \in 1 .. Len(Out')
      BY <1>10
    <3> QED
      BY <1>10, <3>1, Elements
  <2> QED
    BY <2>1, <2>2, <2>3
<1>12. /\ ToSet(Out) \subseteq Entries
       /\ \A i, j \in 1 .. Len(Out) :
             i < j /\ Out[i] # RETURN /\ Out[j] # RETURN => Out[i] < Out[j]
       /\ (ToSet(Out) \cup lost) \ {RETURN} = 1 .. written
       /\ Post /\ lost = {} =>
             \A i \in 1 .. Len(Out) : Out[i] # RETURN /\ Newline(Out[i]) => i > 1 /\ Out[i-1] = RETURN
  BY <1>1 DEF OutputInOrder, Out
<1>13. \A i \in 1 .. Len(Out) : Out[i] # RETURN => Out[i] \in Int /\ Out[i] < c
  <2>1. ASSUME NEW i \in 1 .. Len(Out), Out[i] # RETURN PROVE Out[i] \in Int /\ Out[i] < c
    <3>1. Out[i] \in 1 .. written
      BY <1>10, <1>12, <2>1, Elements
    <3> QED
      BY <1>1, <3>1
  <2> QED
    BY <2>1
<1>14. OutputInOrder'
  <2>1. ToSet(Out') \subseteq Entries
    BY <1>6, <1>11, <1>12
  <2>2. ASSUME NEW i \in 1 .. Len(Out'), NEW j \in 1 .. Len(Out'),
               i < j, Out'[i] # RETURN, Out'[j] # RETURN
        PROVE  Out'[i] < Out'[j]
    <3>1. i \in 1 .. Len(Out)
      BY <1>10, <2>2
    <3>2. CASE j \in 1 .. Len(Out)
      BY <1>10, <1>12, <2>2, <3>1, <3>2
    <3>3. CASE j = Len(Out) + 1
      <4>1. e = c
        BY <1>10, <2>2, <3>3 DEF e
      <4> QED
        BY <1>10, <1>13, <2>2, <3>1, <3>3, <4>1
    <3> QED
      BY <1>10, <3>2, <3>3
  <2>3. (ToSet(Out') \cup lost') \ {RETURN} = 1 .. written'
    <3>1. (ToSet(Out') \cup lost') \ {RETURN} = (1 .. written) \cup ({e} \ {RETURN})
      BY <1>2, <1>11, <1>12
    <3>2. CASE cr
      BY <1>3, <3>1, <3>2 DEF e
    <3>3. CASE ~ cr
      <4>1. 1 .. c = (1 .. written) \cup {c}
        BY <1>1
      <4> QED
        BY <1>3, <1>6, <3>1, <3>3, <4>1 DEF e
    <3> QED
      BY <3>2, <3>3
  <2>4. ASSUME Post', lost' = {}, NEW i \in 1 .. Len(Out'), Out'[i] # RETURN, Newline(Out'[i])
        PROVE  i > 1 /\ Out'[i-1] = RETURN
    <3>1. Post /\ lost = {}
      BY <1>2, <2>4 DEF Post
    <3>2. CASE i \in 1 .. Len(Out)
      <4>1. i > 1 /\ Out[i-1] = RETURN
        BY <1>10, <1>12, <2>4, <3>1, <3>2
      <4>2. i - 1 \in 1 .. Len(Out)
        BY <3>2, <4>1
      <4> QED
        BY <1>10, <4>1, <4>2
    <3>3. CASE i = Len(Out) + 1
      <4>1. e # RETURN /\ Newline(e)
        BY <1>10, <2>4, <3>3
      <4>2. e = c /\ cr_flag
        BY <3>1, <4>1 DEF e
      <4>3. Out # <<>> /\ Out[Len(Out)] = RETURN
        BY <1>1, <3>1, <4>2 DEF PendingReturn
      <4>4. Len(Out) \in 1 .. Len(Out)
        BY <1>10, <4>3, EmptySeq
      <4>5. Out'[Len(Out)] = RETURN /\ i > 1 /\ i - 1 = Len(Out)
        BY <1>10, <3>3, <4>3, <4>4
      <4> QED
        BY <4>5
    <3> QED
      BY <1>10, <3>2, <3>3
  <2> HIDE DEF c
  <2> QED
    BY <2>1, <2>2, <2>3, <2>4 DEF OutputInOrder, Out
<1>15. PendingReturn'
  <2>1. CASE ~ cr
    BY <1>3, <2>1 DEF PendingReturn
  <2>2. CASE cr
    <3>1. e = RETURN /\ Out'[Len(Out')] = RETURN
      BY <1>10, <2>2 DEF e
    <3>2. Out' # <<>>
      BY <1>10, EmptySeq
    <3> QED
      BY <3>1, <3>2 DEF PendingReturn
  <2> QED
    BY <2>1, <2>2
<1> QED
  BY <1>7, <1>8, <1>14, <1>15 DEF OutputInv, Delivered

\* TCFLSH takes write_q away; what came to the device stays in order.
LEMMA FlushDelivers ==
    ASSUME OutputInv, NEW p \in Procs, NEW arg \in 0 .. 2, Flush(p, arg) PROVE OutputInv'
<1> DEFINE old == Contents(wbuf, whead, wtail)
<1>1. /\ OutputTypes /\ QueueInv /\ OutputInOrder /\ PendingReturn /\ Delivered
      /\ wbuf \in [Index -> Cells] /\ whead \in Index /\ wtail \in Index /\ shown \in Seq(Cells)
  BY DEF OutputInv, Delivered, OutputTypes
<1>2. /\ ~ irq /\ cpu = p /\ pc[p] = "user"
      /\ UNCHANGED <<term, wtail, ier, shown, irq, cr_flag, cpu, pc, nr, todo, written>>
      /\ \/ UNCHANGED <<lost, wbuf, whead>>
         \/ /\ lost' = lost \cup ToSet(old)
            /\ wbuf' = [i \in Index |-> NULL]
            /\ whead' = wtail
  BY DEF Flush, At, calls
<1>3. pc[Writer] \notin {"fill", "drain"}
  BY <1>1, <1>2 DEF QueueInv
<1>4. CASE UNCHANGED <<lost, wbuf, whead>>
  <2>1. OutputTypes'
    BY <1>1, <1>2, <1>4 DEF OutputTypes
  <2>2. QueueInv'
    BY <1>1, <1>2, <1>3, <1>4 DEF QueueInv
  <2>3. Out' = Out
    BY <1>2, <1>4 DEF Out, Contents
  <2> QED
    BY <1>1, <1>2, <1>4, <2>1, <2>2, <2>3, OutputMoves DEF OutputInv
<1>5. CASE lost' = lost \cup ToSet(old) /\ wbuf' = [i \in Index |-> NULL] /\ whead' = wtail
  <2>1. OutputTypes'
    <3>1. wbuf' \in [Index -> Cells]
      BY <1>5 DEF Cells
    <3> QED
      BY <1>1, <1>2, <1>5, <3>1 DEF OutputTypes
  <2>2. QueueInv'
    BY <1>1, <1>2, <1>3, <1>5 DEF QueueInv
  <2>3. Out' = shown
    <3>1. Contents(wbuf', whead', wtail') \in Seq(Cells)
          /\ Len(Contents(wbuf', whead', wtail')) = CHARS(whead', wtail')
      BY <2>1, ContentsAreSequence DEF OutputTypes
    <3>2. CHARS(whead', wtail') = 0
      BY <1>1, <1>2, <1>5, RingMoves
    <3>3. Contents(wbuf, whead, wtail)' = <<>>
      BY <3>1, <3>2, EmptySeq
    <3> QED
      BY <1>1, <1>2, <3>3, ConcatEmptySeq DEF Out
  <2>4. old \in Seq(Cells) /\ Out = shown \o old
    BY <1>1, OutIsSequence DEF Out
  <2>5. /\ Len(Out) = Len(shown) + Len(old) /\ Len(shown) \in Nat /\ Len(old) \in Nat
        /\ \A i \in 1 .. Len(shown) : Out[i] = shown[i] /\ i \in 1 .. Len(Out)
    <3> HIDE DEF old
    <3>1. /\ Len(shown \o old) = Len(shown) + Len(old) /\ Len(shown) \in Nat /\ Len(old) \in Nat
          /\ \A i \in 1 .. Len(shown) + Len(old) :
                (shown \o old)[i] = IF i <= Len(shown) THEN shown[i] ELSE old[i - Len(shown)]
      BY <1>1, <2>4, ConcatProperties, LenProperties
    <3> QED
      BY <2>4, <3>1
  <2>6. ToSet(Out) = ToSet(shown) \cup ToSet(old)
    BY <1>1, <2>4, ElementsOfAll
  <2>7. /\ ToSet(Out) \subseteq Entries
        /\ \A i, j \in 1 .. Len(Out) :
              i < j /\ Out[i] # RETURN /\ Out[j] # RETURN => Out[i] < Out[j]
        /\ (ToSet(Out) \cup lost) \ {RETURN} = 1 .. written
        /\ Post /\ lost = {} =>
              \A i \in 1 .. Len(Out) : Out[i] # RETURN /\ Newline(Out[i]) => i > 1 /\ Out[i-1] = RETURN
    BY <1>1 DEF OutputInOrder, Out
  <2>8. lost' = {} => lost = {} /\ Out' = Out
    <3> HIDE DEF old
    <3>1. ASSUME lost' = {} PROVE lost = {} /\ ToSet(old) = {}
      BY <1>5, <3>1
    <3>2. ToSet(old) = {} => old = <<>>
      <4>1. ASSUME ToSet(old) = {} PROVE Len(old) = 0
        <5>1. Len(old) \in Nat /\ ~ (1 \in 1 .. Len(old))
          BY <2>4, <4>1, Elements
        <5> QED
          BY <5>1
      <4> QED
        BY <2>4, <4>1, EmptySeq
    <3>3. old = <<>> => Out = shown
      BY <1>1, <2>4, ConcatEmptySeq
    <3> QED
      BY <2>3, <3>1, <3>2, <3>3
  <2> HIDE DEF old
  <2>9. OutputInOrder'
    <3>1. ToSet(Out') \subseteq Entries
      BY <2>3, <2>6, <2>7
    <3>2. \A i, j \in 1 .. Len(Out') :
              i < j /\ Out'[i] # RETURN /\ Out'[j] # RETURN => Out'[i] < Out'[j]
      BY <2>3, <2>5, <2>7
    <3>3. (ToSet(Out') \cup lost') \ {RETURN} = 1 .. written'
      <4>1. ToSet(Out') \cup lost' = ToSet(Out) \cup lost
        BY <1>5, <2>3, <2>6
      <4> QED
        BY <1>2, <2>7, <4>1
    <3>4. Post' /\ lost' = {} =>
              \A i \in 1 .. Len(Out') :
                  Out'[i] # RETURN /\ Newline(Out'[i]) => i > 1 /\ Out'[i-1] = RETURN
      BY <1>2, <2>7, <2>8 DEF Post
    <3> QED
      BY <3>1, <3>2, <3>3, <3>4 DEF OutputInOrder, Out
  <2>10. PendingReturn'
    <3>1. (Post' /\ lost' = {} /\ cr_flag') => Out' # <<>> /\ Out'[Len(Out')] = RETURN
      BY <1>1, <1>2, <2>8 DEF PendingReturn, Post
    <3> QED
      BY <3>1 DEF PendingReturn
  <2> QED
    BY <2>1, <2>2, <2>9, <2>10 DEF OutputInv, Delivered
<1> QED
  BY <1>2, <1>4, <1>5

\* The interrupt: an echo at most.
Echoing == ~ term.serial /\ \E n \in 1 .. 2 : Echoed(n)

LEMMA CookDelivers == ASSUME OutputInv, Cook PROVE OutputInv'
<1>1. OutputTypes /\ QueueInv /\ Delivered
  BY DEF OutputInv
<1>2. irq /\ UNCHANGED <<term, irq, cr_flag, cpu, pc, nr, todo, written>>
  BY DEF Cook, calls, bounds
<1>3. UNCHANGED output \/ Echoing
  <2> DEFINE c == IF read_q[1] = CR /\ ~ term.serial THEN NL ELSE read_q[1]
  <2>1. IF term.canon /\ c \in {ERASE, KILL}
        THEN IF Rubs THEN Erased ELSE UNCHANGED <<second, output, signal>>
        ELSE IF term.canon /\ c \in {STOP, START} THEN UNCHANGED <<second, output, signal>>
        ELSE IF ~ term.serial /\ c = INTR THEN tty_intr
        ELSE Kept(c)
    BY DEF Cook
  <2> HIDE DEF c
  <2>2. CASE Erased
    <3>1. 1 \in 1 .. 2
      OBVIOUS
    <3> QED
      BY <2>2, <3>1 DEF Erased, Echo, Echoing
  <2>3. CASE Kept(c)
    <3>1. (IF c = NL THEN 2 ELSE 1) \in 1 .. 2
      OBVIOUS
    <3>2. UNCHANGED output \/ (~ term.serial /\ Echoed(IF c = NL THEN 2 ELSE 1))
      BY <2>3 DEF Kept, Echo
    <3> QED
      BY <3>1, <3>2 DEF Echoing
  <2>4. CASE tty_intr
    BY <2>4 DEF tty_intr
  <2>5. CASE UNCHANGED <<second, output, signal>>
    BY <2>5
  <2> QED
    BY <2>1, <2>2, <2>3, <2>4, <2>5
<1>4. CASE UNCHANGED output
  <2>1. UNCHANGED <<wbuf, whead, wtail, ier, shown, lost>>
    BY <1>4 DEF output
  <2>2. Out' = Out
    BY <2>1 DEF Out, Contents
  <2>3. OutputTypes' /\ QueueInv'
    BY <1>1, <1>2, <2>1 DEF OutputTypes, QueueInv
  <2> QED
    BY <1>1, <1>2, <2>1, <2>2, <2>3, OutputMoves DEF OutputInv
<1>5. CASE Echoing
  <2>0. PICK n \in 1 .. 2 : Echoed(n)
    BY <1>5 DEF Echoing
  <2>1. /\ Out' = Out /\ shown' \in Seq(Cells)
        /\ whead' \in Index /\ wtail' = whead' /\ wbuf' \in [Index -> Cells]
        /\ UNCHANGED <<ier, lost>>
    BY <1>1, <1>2, <1>5, <2>0, EchoGoesOut DEF Echoing
  <2>2. OutputTypes'
    BY <1>1, <1>2, <2>1 DEF OutputTypes
  <2>3. QueueInv'
    BY <1>1, <1>2, <2>1 DEF QueueInv
  <2> QED
    BY <1>1, <1>2, <2>1, <2>2, <2>3, OutputMoves DEF OutputInv
<1> QED
  BY <1>3, <1>4, <1>5

\* The serial line sends one.
LEMMA RsWriteDelivers == ASSUME OutputInv, RsWrite PROVE OutputInv'
<1>1. OutputTypes /\ QueueInv /\ Delivered /\ pc \in [Procs -> Places] /\ Writer \in Procs
  BY DEF OutputInv, OutputTypes, Procs
<1>2. ier /\ ~ irq /\ UNCHANGED <<term, whead, lost, irq, cr_flag, cpu, nr, todo, written>>
  BY DEF RsWrite, calls, bounds
<1>3. term.serial
  BY <1>1, <1>2 DEF QueueInv
<1>4. /\ pc' \in [Procs -> Places]
      /\ pc'[Writer] \in {"fill", "drain"} => pc'[Writer] = pc[Writer]
  <2>1. pc' = Wake("writeSleep", "full") \/ pc' = pc
    BY DEF RsWrite
  <2>2. Wake("writeSleep", "full") \in [Procs -> Places]
    BY <1>1, WakeTakes DEF Places
  <2>3. Wake("writeSleep", "full")[Writer] \in {"fill", "drain"}
        => Wake("writeSleep", "full")[Writer] = pc[Writer]
    BY <1>1 DEF Wake
  <2> QED
    BY <1>1, <2>1, <2>2, <2>3
<1>5. QueueInv'
  BY <1>1, <1>2, <1>3, <1>4 DEF QueueInv
<1>6. CASE whead = wtail
  <2>1. UNCHANGED <<shown, wtail, wbuf>>
    BY <1>6 DEF RsWrite, EMPTY
  <2>2. Out' = Out
    BY <1>2, <2>1 DEF Out, Contents
  <2>3. OutputTypes'
    BY <1>1, <1>2, <1>4, <2>1 DEF OutputTypes
  <2> QED
    BY <1>1, <1>2, <1>5, <2>2, <2>3, OutputMoves DEF OutputInv
<1>7. CASE whead # wtail
  <2>1. shown' = Append(shown, wbuf[wtail]) /\ wtail' = INC(wtail) /\ wbuf' = [wbuf EXCEPT ![wtail] = NULL]
    BY <1>7 DEF RsWrite, EMPTY
  <2>2. /\ Out' = Out /\ shown' \in Seq(Cells)
        /\ wtail' \in Index /\ wbuf' \in [Index -> Cells]
    BY <1>1, <1>2, <1>7, <2>1, OneGoesOut
  <2>3. OutputTypes'
    BY <1>1, <1>2, <1>4, <2>2 DEF OutputTypes
  <2> QED
    BY <1>1, <1>2, <1>5, <2>2, <2>3, OutputMoves DEF OutputInv
<1> QED
  BY <1>6, <1>7

\* The loop of con_write.
LEMMA DrainDelivers == ASSUME OutputInv, Drain PROVE OutputInv'
<1>1. OutputTypes /\ QueueInv /\ Delivered /\ pc \in [Procs -> Places] /\ Writer \in Procs
  BY DEF OutputInv, OutputTypes, Procs
<1>2. /\ pc[Writer] = "drain" /\ cpu = Writer /\ ~ irq
      /\ UNCHANGED <<term, whead, ier, lost, irq, cr_flag, nr, written>>
  BY DEF Drain, At, bounds
<1>3. CASE todo > 0
  <2>1. /\ shown' = Append(shown, wbuf[wtail]) /\ wtail' = INC(wtail)
        /\ wbuf' = [wbuf EXCEPT ![wtail] = NULL]
        /\ todo' = todo - 1 /\ UNCHANGED <<pc, cpu>>
    BY <1>3 DEF Drain
  <2>2. whead # wtail
    <3>1. todo = CHARS(whead, wtail)
      BY <1>1, <1>2 DEF QueueInv
    <3>2. CHARS(whead, wtail) = 0 <=> whead = wtail
      BY <1>1, RingMoves DEF OutputTypes
    <3> QED
      BY <1>3, <3>1, <3>2
  <2>3. /\ Out' = Out /\ shown' \in Seq(Cells)
        /\ wtail' \in Index /\ wbuf' \in [Index -> Cells]
        /\ CHARS(whead, wtail)' = CHARS(whead, wtail) - 1
    BY <1>1, <1>2, <2>1, <2>2, OneGoesOut
  <2>4. OutputTypes'
    BY <1>1, <1>2, <2>1, <2>3 DEF OutputTypes
  <2>5. QueueInv'
    <3>1. CHARS(whead', wtail') = CHARS(whead, wtail) - 1
      BY <2>3
    <3> QED
      BY <1>1, <1>2, <2>1, <3>1 DEF QueueInv
  <2> QED
    BY <1>1, <1>2, <2>3, <2>4, <2>5, OutputMoves DEF OutputInv
<1>4. CASE ~ (todo > 0)
  <2>1. UNCHANGED <<shown, wbuf, wtail, todo>> /\ WriteTurns
    BY <1>4 DEF Drain
  <2>2. Out' = Out
    BY <1>2, <2>1 DEF Out, Contents
  <2>3. pc' \in [Procs -> Places] /\ pc'[Writer] \notin {"fill", "drain"}
    BY <1>1, <2>1 DEF WriteTurns, Goto, Places
  <2>4. OutputTypes'
    BY <1>1, <1>2, <2>1, <2>3 DEF OutputTypes
  <2>5. ~ term.serial => whead = wtail
    <3>1. CHARS(whead, wtail) \in Nat /\ (CHARS(whead, wtail) = 0 <=> whead = wtail)
      <4>1. whead \in Index /\ wtail \in Index
        BY <1>1 DEF OutputTypes
      <4>2. /\ CHARS(whead, wtail) \in 0 .. TTY_BUF_SIZE - 1
            /\ CHARS(whead, wtail) = 0 <=> whead = wtail
        BY <4>1, RingMoves
      <4> HIDE DEF CHARS
      <4> QED
        BY <4>2, RingsHaveRoom
    <3>2. ~ term.serial => todo = CHARS(whead, wtail)
      BY <1>1, <1>2 DEF QueueInv
    <3> QED
      BY <1>4, <3>1, <3>2
  <2>6. QueueInv'
    BY <1>1, <1>2, <2>1, <2>3, <2>5 DEF QueueInv
  <2> QED
    BY <1>1, <1>2, <2>1, <2>2, <2>4, <2>6, OutputMoves DEF OutputInv
<1> QED
  BY <1>3, <1>4

\* A step that leaves the output alone.
LEMMA OutputUntouched ==
    ASSUME OutputInv, UNCHANGED <<wbuf, whead, wtail, shown, lost, cr_flag, written>>,
           term' \in Terms, term'.serial = term.serial,
           pc' \in [Procs -> Places], nr' \in [Procs -> Nat], written + nr'[Writer] <= MaxOut,
           QueueInv'
    PROVE  OutputInv'
<1>1. OutputTypes /\ Delivered
  BY DEF OutputInv
<1>2. Out' = Out
  BY DEF Out, Contents
<1>3. OutputTypes'
  BY <1>1 DEF OutputTypes
<1> QED
  BY <1>1, <1>2, <1>3, OutputMoves DEF OutputInv

\* A key, which may come while the writer is anywhere but in the two races.
LEMMA KeyPressDelivers ==
    ASSUME OutputInv, "echo" \notin Races, "drain" \notin Races, NEW c, KeyPress(c)
    PROVE  OutputInv'
<1>1. /\ QueueInv
      /\ term \in Terms /\ pc \in [Procs -> Places] /\ nr \in [Procs -> Nat]
      /\ written + nr[Writer] <= MaxOut /\ whead \in Index /\ wtail \in Index
  BY DEF OutputInv, OutputTypes
<1>2. /\ UNCHANGED <<term, output, cr_flag, cpu, pc, calls, written>> /\ ~ irq /\ ~ Racing(c)
  BY DEF KeyPress
<1>3. UNCHANGED <<wbuf, whead, wtail, ier, shown, lost, nr, todo>>
  BY <1>2 DEF output, calls
<1>4. ~ term.serial => pc[Writer] # "drain" /\ (pc[Writer] = "fill" => ~ LEFT(whead, wtail) < 3)
  BY <1>2 DEF Racing, Echo
<1>5. LEFT(whead, wtail) \in Int
  <2>1. CHARS(whead, wtail) \in Int
    BY <1>1, RingMoves
  <2> QED
    BY <1>1, <2>1, RingSteps, RingsHaveRoom
<1>6. QueueInv'
  BY <1>1, <1>2, <1>3, <1>4, <1>5 DEF QueueInv
<1> QED
  BY <1>1, <1>2, <1>3, <1>6, OutputUntouched

\* The steps of the reader.
ReaderStep ==
    \/ ReadSignalled \/ ReadSleep \/ ReadStarts \/ TakeChar \/ \E n \in 1 .. 2 : Read(n)

LEMMA ReaderStepMoves ==
    ASSUME pc \in [Procs -> Places], nr \in [Procs -> Nat], ReaderStep
    PROVE  /\ UNCHANGED <<output, term, cr_flag, irq, todo, written>> /\ cpu = Reader
           /\ pc' \in [Procs -> Places] /\ pc'[Writer] = pc[Writer]
           /\ nr' \in [Procs -> Nat] /\ nr'[Writer] = nr[Writer]
<1> USE TwoProcesses DEF Places, Procs, At, Goto
<1>1. CASE ReadSignalled
  BY <1>1 DEF ReadSignalled, ReadReturns, LeaveRead, bounds
<1>2. CASE ReadSleep
  BY <1>2 DEF ReadSleep, calls, bounds
<1>3. CASE ReadStarts
  BY <1>3 DEF ReadStarts, calls, bounds
<1>4. CASE TakeChar
  BY <1>4 DEF TakeChar, ReadReturns, LeaveRead, bounds
<1>5. ASSUME NEW n \in 1 .. 2, Read(n)
      PROVE  /\ UNCHANGED <<output, term, cr_flag, irq, todo, written>> /\ cpu = Reader
             /\ pc' \in [Procs -> Places] /\ pc'[Writer] = pc[Writer]
             /\ nr' \in [Procs -> Nat] /\ nr'[Writer] = nr[Writer]
  BY <1>5 DEF Read, bounds
<1> QED
  BY <1>1, <1>2, <1>3, <1>4, <1>5 DEF ReaderStep

LEMMA ReaderStepDelivers == ASSUME OutputInv, ReaderStep PROVE OutputInv'
<1>1. /\ QueueInv
      /\ term \in Terms /\ pc \in [Procs -> Places] /\ nr \in [Procs -> Nat]
      /\ written + nr[Writer] <= MaxOut
  BY DEF OutputInv, OutputTypes
<1>2. /\ UNCHANGED <<output, term, cr_flag, irq, todo, written>> /\ cpu = Reader
      /\ pc' \in [Procs -> Places] /\ pc'[Writer] = pc[Writer]
      /\ nr' \in [Procs -> Nat] /\ nr'[Writer] = nr[Writer]
  BY <1>1, ReaderStepMoves
<1>3. UNCHANGED <<wbuf, whead, wtail, ier, shown, lost>>
  BY <1>2 DEF output
<1>4. pc[Writer] \notin {"fill", "drain"}
  BY <1>1, <1>2, TwoProcesses DEF QueueInv
<1>5. QueueInv'
  BY <1>1, <1>2, <1>3, <1>4 DEF QueueInv
<1> QED
  BY <1>1, <1>2, <1>3, <1>5, OutputUntouched

\* The writer, when it begins, waits or looks whether there is room.
WriterStep == WriteChecks \/ WriteSleeps \/ \E n \in 1 .. 2 : Write(n)

LEMMA WriterStepMoves ==
    ASSUME pc \in [Procs -> Places], nr \in [Procs -> Nat], written \in Nat,
           written + nr[Writer] <= MaxOut, WriterStep
    PROVE  /\ UNCHANGED <<output, term, cr_flag, irq, todo, written>> /\ ~ irq
           /\ pc[Writer] \notin {"fill", "drain"}
           /\ pc' \in [Procs -> Places] /\ pc'[Writer] # "drain"
           /\ pc'[Writer] = "fill" => cpu' = Writer
           /\ nr' \in [Procs -> Nat] /\ written + nr'[Writer] <= MaxOut
<1>1. Writer \in Procs /\ nr[Writer] \in Nat /\ 0 \in Nat /\ written + 0 <= MaxOut
  BY BoundIsNumber DEF Procs
<1> USE DEF Places, At, Goto
<1>2. ASSUME NEW b, b \in {"full", "user", "fill"}, pc' = [pc EXCEPT ![Writer] = b],
             nr' = [nr EXCEPT ![Writer] = IF pc'[Writer] = "user" THEN 0 ELSE @]
      PROVE  /\ pc' \in [Procs -> Places] /\ pc'[Writer] = b
             /\ nr' \in [Procs -> Nat] /\ written + nr'[Writer] <= MaxOut
  <2>1. pc' \in [Procs -> Places] /\ pc'[Writer] = b
    BY <1>1, <1>2
  <2>2. nr' = [nr EXCEPT ![Writer] = 0] \/ nr' = nr
    BY <1>1, <1>2
  <2> QED
    BY <1>1, <2>1, <2>2
<1>3. CASE WriteChecks
  <2> DEFINE b == IF FULL(whead, wtail) THEN "full"
                  ELSE IF signal[Writer] # {} THEN "user" ELSE "fill"
  <2>1. /\ UNCHANGED <<output, term, cr_flag, irq, todo, written, cpu>> /\ ~ irq /\ cpu = Writer
        /\ pc[Writer] = "write" /\ pc' = [pc EXCEPT ![Writer] = b]
        /\ nr' = [nr EXCEPT ![Writer] = IF pc'[Writer] = "user" THEN 0 ELSE @]
    BY <1>3 DEF WriteChecks, bounds
  <2>2. b \in {"full", "user", "fill"}
    OBVIOUS
  <2> HIDE DEF b
  <2> QED
    BY <1>2, <2>1, <2>2
<1>4. CASE WriteSleeps
  <2>1. /\ UNCHANGED <<output, term, cr_flag, irq, todo, written>> /\ ~ irq /\ cpu = Writer
        /\ pc[Writer] = "full"
        /\ nr' = [nr EXCEPT ![Writer] = IF pc'[Writer] = "user" THEN 0 ELSE @]
        /\ \/ pc' = [pc EXCEPT ![Writer] = "writeSleep"]
           \/ pc' = [pc EXCEPT ![Writer] = IF signal[Writer] # {} THEN "user" ELSE "fill"] /\ cpu' = cpu
    BY <1>4 DEF WriteSleeps, bounds
  <2>2. CASE pc' = [pc EXCEPT ![Writer] = "writeSleep"]
    <3>1. pc' \in [Procs -> Places] /\ pc'[Writer] = "writeSleep"
      BY <1>1, <2>2
    <3>2. nr' = nr
      BY <1>1, <2>1, <3>1
    <3> QED
      BY <1>1, <2>1, <3>1, <3>2
  <2>3. CASE pc' = [pc EXCEPT ![Writer] = IF signal[Writer] # {} THEN "user" ELSE "fill"] /\ cpu' = cpu
    <3> DEFINE b == IF signal[Writer] # {} THEN "user" ELSE "fill"
    <3>1. b \in {"full", "user", "fill"} /\ pc' = [pc EXCEPT ![Writer] = b]
      BY <2>3
    <3> HIDE DEF b
    <3> QED
      BY <1>2, <2>1, <2>3, <3>1
  <2> QED
    BY <2>1, <2>2, <2>3
<1>5. ASSUME NEW n \in 1 .. 2, Write(n)
      PROVE  /\ UNCHANGED <<output, term, cr_flag, irq, todo, written>> /\ ~ irq
             /\ pc[Writer] \notin {"fill", "drain"}
             /\ pc' \in [Procs -> Places] /\ pc'[Writer] # "drain"
             /\ pc'[Writer] = "fill" => cpu' = Writer
             /\ nr' \in [Procs -> Nat] /\ written + nr'[Writer] <= MaxOut
  <2>1. /\ UNCHANGED <<output, term, cr_flag, irq, todo, written>> /\ ~ irq
        /\ pc[Writer] = "user" /\ pc' = [pc EXCEPT ![Writer] = "write"]
        /\ nr' = [nr EXCEPT ![Writer] = n] /\ written + n <= MaxOut
    BY <1>5 DEF Write, bounds
  <2>2. pc' \in [Procs -> Places] /\ pc'[Writer] = "write"
    BY <1>1, <2>1
  <2>3. nr' \in [Procs -> Nat] /\ nr'[Writer] = n
    BY <1>1, <2>1
  <2> QED
    BY <2>1, <2>2, <2>3
<1> QED
  BY <1>3, <1>4, <1>5 DEF WriterStep

LEMMA WriterStepDelivers == ASSUME OutputInv, WriterStep PROVE OutputInv'
<1>1. /\ QueueInv
      /\ term \in Terms /\ pc \in [Procs -> Places] /\ nr \in [Procs -> Nat]
      /\ written \in Nat /\ written + nr[Writer] <= MaxOut
  BY DEF OutputInv, OutputTypes
<1>2. /\ UNCHANGED <<output, term, cr_flag, irq, todo, written>> /\ ~ irq
      /\ pc[Writer] \notin {"fill", "drain"}
      /\ pc' \in [Procs -> Places] /\ pc'[Writer] # "drain"
      /\ pc'[Writer] = "fill" => cpu' = Writer
      /\ nr' \in [Procs -> Nat] /\ written + nr'[Writer] <= MaxOut
  BY <1>1, WriterStepMoves
<1>3. UNCHANGED <<wbuf, whead, wtail, ier, shown, lost>>
  BY <1>2 DEF output
<1>4. QueueInv'
  BY <1>1, <1>2, <1>3 DEF QueueInv
<1> QED
  BY <1>1, <1>2, <1>3, <1>4, OutputUntouched

\* The queue is handed to the device.
LEMMA WriteOutDelivers == ASSUME OutputInv, WriteOut PROVE OutputInv'
<1>1. /\ QueueInv /\ Writer \in Procs
      /\ term \in Terms /\ pc \in [Procs -> Places] /\ nr \in [Procs -> Nat]
      /\ written + nr[Writer] <= MaxOut
  BY DEF OutputInv, OutputTypes, Procs
<1>2. /\ UNCHANGED <<term, wbuf, whead, wtail, shown, lost, irq, cr_flag, nr, written>>
      /\ ~ irq /\ cpu = Writer /\ pc[Writer] = "fill"
      /\ \/ term.serial /\ WriteTurns
         \/ /\ ~ term.serial /\ todo' = CHARS(whead, wtail)
            /\ Goto(Writer, "drain") /\ UNCHANGED <<ier, cpu>>
  BY DEF WriteOut, At, bounds
<1>3. CASE term.serial /\ WriteTurns
  <2>1. pc' \in [Procs -> Places] /\ pc'[Writer] \notin {"fill", "drain"}
    BY <1>1, <1>3 DEF WriteTurns, Goto, Places
  <2>2. QueueInv'
    BY <1>1, <1>2, <1>3, <2>1 DEF QueueInv
  <2> QED
    BY <1>1, <1>2, <2>1, <2>2, OutputUntouched
<1>4. CASE /\ ~ term.serial /\ todo' = CHARS(whead, wtail)
           /\ Goto(Writer, "drain") /\ UNCHANGED <<ier, cpu>>
  <2>1. pc' \in [Procs -> Places] /\ pc'[Writer] = "drain"
    BY <1>1, <1>4 DEF Goto, Places
  <2>2. QueueInv'
    BY <1>1, <1>2, <1>4, <2>1 DEF QueueInv
  <2> QED
    BY <1>1, <1>2, <2>1, <2>2, OutputUntouched
<1> QED
  BY <1>2, <1>3, <1>4

\* What comes from outside the calls, and a change of the line discipline.
OutsideStep ==
    \/ CookDone \/ AlarmRings
    \/ \E p \in Procs : \/ Schedule(p) \/ Handle(p)
                         \/ \E b \in BOOLEAN : SetTermios(p, b)

OutsideMoves ==
    /\ UNCHANGED <<output, cr_flag, nr, todo, written>>
    /\ term' \in Terms /\ term'.serial = term.serial
    /\ irq' => irq
    /\ pc' \in [Procs -> Places]
    /\ pc'[Writer] = pc[Writer] \/ {pc[Writer], pc'[Writer]} \cap {"fill", "drain"} = {}
    /\ cpu' = cpu \/ pc[Writer] \notin {"fill", "drain"}

LEMMA OutsideStepMoves ==
    ASSUME term \in Terms, pc \in [Procs -> Places], QueueInv, OutsideStep
    PROVE  OutsideMoves
<1>0. Writer \in Procs
  BY DEF Procs
<1>1. CASE CookDone
  <2>1. pc' = Wake("readSleep", "read")
    BY <1>1 DEF CookDone
  <2>2. Wake("readSleep", "read") \in [Procs -> Places]
    BY WakeTakes DEF Places
  <2>3. \/ Wake("readSleep", "read")[Writer] = pc[Writer]
        \/ {pc[Writer], Wake("readSleep", "read")[Writer]} \cap {"fill", "drain"} = {}
    BY <1>0 DEF Wake
  <2> QED
    BY <1>1, <2>1, <2>2, <2>3 DEF CookDone, OutsideMoves, calls, bounds
<1>2. CASE AlarmRings
  BY <1>2 DEF AlarmRings, OutsideMoves, bounds
<1>3. ASSUME NEW p \in Procs, Schedule(p) PROVE OutsideMoves
  <2>1. /\ UNCHANGED <<term, output, irq, cr_flag, calls, bounds>>
        /\ Switchable
        /\ pc' = [pc EXCEPT ![p] = CASE @ = "readSleep" -> "read" [] @ = "writeSleep" -> "full"
                                      [] OTHER -> @]
    BY <1>3 DEF Schedule
  <2>2. pc[Writer] \notin {"fill", "drain"}
    BY <2>1, TwoProcesses, <1>0 DEF Switchable, QueueInv
  <2>3. pc' \in [Procs -> Places]
    BY <2>1 DEF Places
  <2>4. pc'[Writer] \notin {"fill", "drain"}
    BY <1>0, <2>1, <2>2
  <2> QED
    BY <2>1, <2>2, <2>3, <2>4 DEF OutsideMoves, calls, bounds
<1>4. ASSUME NEW p \in Procs, Handle(p) PROVE OutsideMoves
  BY <1>4 DEF Handle, OutsideMoves, calls, bounds
<1>5. ASSUME NEW p \in Procs, NEW b \in BOOLEAN, SetTermios(p, b) PROVE OutsideMoves
  <2>1. /\ UNCHANGED <<output, irq, cr_flag, cpu, pc, calls, written>>
        /\ term' = [term EXCEPT !.canon = ~ term.canon]
    BY <1>5 DEF SetTermios
  <2>2. term' \in Terms /\ term'.serial = term.serial
    <3>1. (~ term.canon) \in BOOLEAN
      OBVIOUS
    <3> QED
      BY <2>1, <3>1, Zenon DEF Terms
  <2> QED
    BY <2>1, <2>2 DEF OutsideMoves, calls
<1> QED
  BY <1>1, <1>2, <1>3, <1>4, <1>5 DEF OutsideStep

LEMMA OutsideStepDelivers == ASSUME OutputInv, OutsideMoves PROVE OutputInv'
<1>1. /\ QueueInv /\ nr \in [Procs -> Nat] /\ written + nr[Writer] <= MaxOut
  BY DEF OutputInv, OutputTypes
<1>2. UNCHANGED <<wbuf, whead, wtail, ier, shown, lost>>
  BY DEF OutsideMoves, output
<1>3. QueueInv'
  BY <1>1, <1>2 DEF QueueInv, OutsideMoves
<1> QED
  BY <1>1, <1>2, <1>3, OutputUntouched DEF OutsideMoves

LEMMA OutputInductive ==
    ASSUME OutputInv, "echo" \notin Races, "drain" \notin Races, [Next]_vars
    PROVE  OutputInv'
<1>1. /\ QueueInv /\ term \in Terms /\ pc \in [Procs -> Places] /\ nr \in [Procs -> Nat]
      /\ written + nr[Writer] <= MaxOut
  BY DEF OutputInv, OutputTypes
<1>2. \/ Cook \/ Fill \/ Drain \/ RsWrite \/ WriteOut
      \/ ReaderStep \/ WriterStep \/ OutsideStep
      \/ \E c \in Chars : KeyPress(c)
      \/ \E p \in Procs : \E arg \in 0 .. 2 : Flush(p, arg)
      \/ UNCHANGED vars
  <2>1. (IF term.serial THEN LineKeys ELSE Keys) \subseteq Chars
    BY KeysAreChars
  <2> QED
    BY <2>1 DEF Next, KernelStep, ReaderStep, WriterStep, OutsideStep
<1>3. CASE OutsideStep
  BY <1>1, <1>3, OutsideStepMoves, OutsideStepDelivers
<1>4. CASE UNCHANGED vars
  <2>1. /\ UNCHANGED <<wbuf, whead, wtail, ier, shown, lost, cr_flag, written>>
        /\ UNCHANGED <<term, pc, nr, cpu, irq, todo>>
    BY <1>4 DEF vars, output, calls, bounds
  <2>2. QueueInv'
    BY <1>1, <2>1 DEF QueueInv
  <2> QED
    BY <1>1, <2>1, <2>2, OutputUntouched
<1> QED
  BY <1>2, <1>3, <1>4, CookDelivers, FillDelivers, DrainDelivers, RsWriteDelivers, WriteOutDelivers,
     ReaderStepDelivers, WriterStepDelivers, KeyPressDelivers, FlushDelivers

\* What was written comes to the device in order and once, the carriage return
\* before its newline: through tty_write and con_write or the serial interrupt,
\* with keys echoed in between, as long as no key comes in the two races.
THEOREM OutputArrivesInOrder ==
    ASSUME "echo" \notin Races, "drain" \notin Races
    PROVE  Spec => []OutputInOrder
<1>1. OutputInv => OutputInOrder
  BY DEF OutputInv, Delivered
<1> QED
  BY <1>1, OutputInit, OutputInductive, PTL DEF Spec

-----------------------------------------------------------------------------
(* Types.                                                                  *)

\* What the two invariants above leave out of the types.
RingTypes ==
    /\ Len(read_q) < TTY_BUF_SIZE
    /\ sbuf \in [Index -> Chars \cup {NULL}]
    /\ wbuf \in [Index -> Entries \cup {NULL}]

CallTypes ==
    /\ ier \in BOOLEAN /\ irq \in BOOLEAN /\ cr_flag \in BOOLEAN
    /\ signal \in [Procs -> SUBSET {"SIGINT", "SIGALRM"}]
    /\ alarm \in BOOLEAN /\ oldalarm \in BOOLEAN
    /\ cpu \in Procs \cup {NULL}
    /\ flag \in BOOLEAN /\ todo \in Nat

TypeInv == InputInv /\ OutputInv /\ RingTypes /\ CallTypes

\* Nothing but what was written can be flushed, and secondary.data is a number since
\* it is the number of line ends.
LEMMA TypesFollow == TypeInv => TypeOK
<1> SUFFICES ASSUME TypeInv PROVE TypeOK
  OBVIOUS
<1>1. sdata \in Nat
  <2>1. LineCells(sbuf, shead, stail) \subseteq Index
    BY DEF LineCells
  <2> QED
    BY <2>1, IndexIsFinite DEF TypeInv, InputInv, LinesCounted
<1>2. lost \subseteq Entries
  <2>1. (ToSet(Out) \cup lost) \ {RETURN} = 1 .. written
    BY DEF TypeInv, OutputInv, Delivered, OutputInOrder, Out
  <2>2. 1 .. written \subseteq 1 .. MaxOut
    BY BoundIsNumber DEF TypeInv, OutputInv, OutputTypes, Procs
  <2> QED
    BY <2>1, <2>2 DEF Entries
<1> QED
  BY <1>1, <1>2 DEF TypeInv, TypeOK, InputInv, InputTypes, OutputInv, OutputTypes, RingTypes, CallTypes, Places

LEMMA RingTypesInit == Init => RingTypes /\ CallTypes
<1> SUFFICES ASSUME Init PROVE RingTypes /\ CallTypes
  OBVIOUS
<1>1. Len(read_q) = 0
  BY EmptySeq DEF Init
<1>2. RingTypes
  BY <1>1, RingsHaveRoom DEF Init, RingTypes
<1>3. {} \in SUBSET {"SIGINT", "SIGALRM"}
  OBVIOUS
<1>4. signal \in [Procs -> SUBSET {"SIGINT", "SIGALRM"}]
  BY <1>3, Zenon DEF Init
<1>5. CallTypes
  BY <1>4 DEF Init, CallTypes
<1> QED
  BY <1>2, <1>5

\* Steps that do not touch the rings.
LEMMA RingTypesStay ==
    ASSUME RingTypes, UNCHANGED <<sbuf, wbuf>>, read_q' = read_q \/ read_q' = <<>> PROVE RingTypes'
<1>1. Len(<<>>) = 0
  BY EmptySeq
<1> QED
  BY <1>1, RingsHaveRoom DEF RingTypes

\* What is echoed leaves an empty queue and the flags of output as they were.
LEMMA EchoTypes ==
    ASSUME RingTypes, NEW n, Echoed(n)
    PROVE  wbuf' \in [Index -> Entries \cup {NULL}] /\ ier' = ier
  BY DEF RingTypes, Echoed

LEMMA CookTypes == ASSUME TypeInv, Cook PROVE RingTypes' /\ CallTypes'
<1> DEFINE c == IF read_q[1] = CR /\ ~ term.serial THEN NL ELSE read_q[1]
<1>1. UNCHANGED <<irq, cr_flag, cpu, alarm, oldalarm, flag, todo>>
  BY DEF Cook, calls
<1>2. Len(read_q') < TTY_BUF_SIZE
  <2>1. read_q \in Seq(Chars) /\ read_q # <<>> /\ Len(read_q) < TTY_BUF_SIZE
    BY DEF TypeInv, InputInv, InputTypes, RingTypes, Cook
  <2>2. Len(Tail(read_q)) = Len(read_q) - 1 /\ Len(read_q) \in Nat
    BY <2>1, HeadTailProperties, EmptySeq
  <2>3. read_q' = read_q \/ read_q' = Tail(read_q)
    BY DEF Cook
  <2> QED
    BY <2>1, <2>2, <2>3, RingsHaveRoom
<1>3. c \in Chars
  <2>1. read_q[1] \in Chars
    BY FirstOfQueue DEF TypeInv, Cook
  <2> QED
    BY <2>1 DEF Chars
<1>4. \/ UNCHANGED <<second, output, signal>>
      \/ Erased \/ tty_intr \/ Kept(c)
  BY DEF Cook
<1>5. sbuf' \in [Index -> Chars \cup {NULL}]
  BY <1>3, <1>4 DEF TypeInv, RingTypes, Erased, tty_intr, Kept, second
<1>6. wbuf' \in [Index -> Entries \cup {NULL}] /\ ier' = ier
  BY <1>4, EchoTypes DEF TypeInv, RingTypes, Erased, tty_intr, Kept, output
<1>7. signal' \in [Procs -> SUBSET {"SIGINT", "SIGALRM"}]
  <2>1. signal' = signal \/ tty_intr
    BY <1>4 DEF Erased, Kept
  <2> QED
    BY <2>1 DEF TypeInv, CallTypes, tty_intr
<1> QED
  BY <1>1, <1>2, <1>5, <1>6, <1>7 DEF TypeInv, RingTypes, CallTypes

LEMMA KeyPressTypes ==
    ASSUME TypeInv, NEW c \in Chars, KeyPress(c) PROVE RingTypes' /\ CallTypes'
<1>1. Len(read_q') < TTY_BUF_SIZE
  <2>1. read_q \in Seq(Chars) /\ Len(read_q) < TTY_BUF_SIZE /\ Len(read_q) \in Nat
    BY DEF TypeInv, InputInv, InputTypes, RingTypes
  <2>2. Len(Append(read_q, c)) = Len(read_q) + 1
    BY <2>1, AppendProperties
  <2> QED
    BY <2>1, <2>2, RingsHaveRoom DEF KeyPress
<1>2. RingTypes'
  BY <1>1 DEF TypeInv, RingTypes, KeyPress, second, output
<1>3. CallTypes'
  BY DEF TypeInv, CallTypes, KeyPress, calls, output
<1> QED
  BY <1>2, <1>3

LEMMA ReadTypes ==
    ASSUME TypeInv, ReadSignalled \/ ReadSleep \/ ReadStarts \/ TakeChar \/ \E n \in 1 .. 2 : Read(n)
    PROVE  RingTypes' /\ CallTypes'
<1>1. CASE ReadSignalled
  <2>1. signal' \in [Procs -> SUBSET {"SIGINT", "SIGALRM"}]
    BY <1>1 DEF TypeInv, CallTypes, ReadSignalled
  <2> QED
    BY <1>1, <2>1, RingTypesStay DEF TypeInv, CallTypes, ReadSignalled, ReadReturns, LeaveRead, second, output
<1>2. CASE ReadSleep
  BY <1>2, RingTypesStay DEF TypeInv, CallTypes, ReadSleep, second, output, calls
<1>3. CASE ReadStarts
  BY <1>3, RingTypesStay DEF TypeInv, CallTypes, ReadStarts, second, output, calls
<1>4. CASE TakeChar
  <2>1. RingTypes'
    BY <1>4 DEF TypeInv, RingTypes, TakeChar, output
  <2>2. /\ alarm' \in {alarm, oldalarm} /\ oldalarm' \in {oldalarm, FALSE} /\ flag' \in {flag, FALSE}
    BY <1>4 DEF TakeChar, ReadReturns, LeaveRead
  <2> QED
    BY <1>4, <2>1, <2>2 DEF TypeInv, CallTypes, TakeChar, output
<1>5. ASSUME NEW n \in 1 .. 2, Read(n) PROVE RingTypes' /\ CallTypes'
  <2>1. alarm' \in BOOLEAN /\ oldalarm' \in BOOLEAN /\ flag' \in BOOLEAN
    BY <1>5, Zenon DEF TypeInv, CallTypes, Read
  <2> QED
    BY <1>5, <2>1, RingTypesStay DEF TypeInv, CallTypes, Read, second, output
<1> QED
  BY <1>1, <1>2, <1>3, <1>4, <1>5

LEMMA WriteTypes ==
    ASSUME TypeInv,
           WriteChecks \/ WriteSleeps \/ Fill \/ WriteOut \/ Drain \/ \E n \in 1 .. 2 : Write(n)
    PROVE  RingTypes' /\ CallTypes'
<1> USE DEF Procs
<1>1. CASE WriteChecks
  BY <1>1, RingTypesStay DEF TypeInv, CallTypes, WriteChecks, second, output
<1>2. CASE WriteSleeps
  BY <1>2, RingTypesStay DEF TypeInv, CallTypes, WriteSleeps, second, output
<1>3. CASE Fill
  <2> DEFINE cr == Post /\ Newline(written + 1) /\ ~ cr_flag
  <2>1. written + 1 \in Entries
    <3>1. written \in Nat /\ nr[Writer] \in Nat /\ written + nr[Writer] <= MaxOut /\ nr[Writer] > 0
      BY <1>3 DEF TypeInv, OutputInv, OutputTypes, Fill, Filling
    <3> QED
      BY <3>1, BoundIsNumber DEF Entries
  <2>2. RingTypes'
    BY <1>3, <2>1 DEF TypeInv, RingTypes, Fill, second, Entries
  <2>3. cr_flag' \in BOOLEAN
    BY <1>3, Zenon DEF Fill
  <2> QED
    BY <1>3, <2>2, <2>3 DEF TypeInv, CallTypes, Fill
<1>4. CASE WriteOut
  <2>1. ier' \in BOOLEAN
    <3>1. (ier \/ ~ EMPTY(whead, wtail)) \in BOOLEAN
      BY Zenon
    <3> QED
      BY <1>4, <3>1, Zenon DEF TypeInv, CallTypes, WriteOut
  <2>2. CHARS(whead, wtail) \in Nat
    <3>1. whead \in Index /\ wtail \in Index
      BY DEF TypeInv, OutputInv, OutputTypes
    <3>2. CHARS(whead, wtail) \in 0 .. TTY_BUF_SIZE - 1
      BY <3>1, RingMoves
    <3> QED
      BY <3>2
  <2>3. RingTypes'
    BY <1>4, RingTypesStay DEF TypeInv, WriteOut, second
  <2>4. todo' = todo \/ todo' = CHARS(whead, wtail)
    BY <1>4 DEF WriteOut
  <2>5. cpu' \in {cpu, NULL, Writer}
    BY <1>4 DEF WriteOut, WriteTurns
  <2>6. UNCHANGED <<irq, cr_flag, signal, oldalarm, alarm, flag>>
    BY <1>4 DEF WriteOut
  <2> QED
    BY <2>1, <2>2, <2>3, <2>4, <2>5, <2>6 DEF TypeInv, CallTypes
<1>5. CASE Drain
  <2>1. RingTypes'
    BY <1>5 DEF TypeInv, RingTypes, Drain, second
  <2> QED
    BY <1>5, <2>1 DEF TypeInv, CallTypes, Drain, WriteTurns
<1>6. ASSUME NEW n \in 1 .. 2, Write(n) PROVE RingTypes' /\ CallTypes'
  BY <1>6, RingTypesStay DEF TypeInv, CallTypes, Write, second, output
<1> QED
  BY <1>1, <1>2, <1>3, <1>4, <1>5, <1>6

\* Interrupts, the scheduler, signals and the ioctl calls.
LEMMA OutsideTypes ==
    ASSUME TypeInv,
           \/ CookDone \/ RsWrite \/ AlarmRings
           \/ \E p \in Procs : \/ Schedule(p) \/ Handle(p)
                                \/ \E arg \in 0 .. 2 : Flush(p, arg)
                                \/ \E b \in BOOLEAN : SetTermios(p, b)
    PROVE  RingTypes' /\ CallTypes'
<1>1. CASE CookDone
  BY <1>1, RingTypesStay DEF TypeInv, CallTypes, CookDone, second, output, calls
<1>2. CASE RsWrite
  <2>1. ier' \in BOOLEAN
    BY <1>2, Zenon DEF RsWrite, EMPTY
  <2>2. RingTypes'
    BY <1>2 DEF TypeInv, RingTypes, RsWrite, second
  <2> QED
    BY <1>2, <2>1, <2>2 DEF TypeInv, CallTypes, RsWrite, calls
<1>3. CASE AlarmRings
  BY <1>3, RingTypesStay DEF TypeInv, CallTypes, AlarmRings, second, output
<1>4. ASSUME NEW p \in Procs, Schedule(p) PROVE RingTypes' /\ CallTypes'
  BY <1>4, RingTypesStay DEF TypeInv, CallTypes, Schedule, second, output, calls
<1>5. ASSUME NEW p \in Procs, Handle(p) PROVE RingTypes' /\ CallTypes'
  BY <1>5, RingTypesStay DEF TypeInv, CallTypes, Handle, second, output, calls
<1>6. ASSUME NEW p \in Procs, NEW arg \in 0 .. 2, Flush(p, arg) PROVE RingTypes' /\ CallTypes'
  <2>1. Len(<<>>) = 0
    BY EmptySeq
  <2>2. RingTypes'
    BY <1>6, <2>1, RingsHaveRoom DEF TypeInv, RingTypes, Flush, second
  <2> QED
    BY <1>6, <2>2 DEF TypeInv, CallTypes, Flush, calls
<1>7. ASSUME NEW p \in Procs, NEW b \in BOOLEAN, SetTermios(p, b) PROVE RingTypes' /\ CallTypes'
  BY <1>7, RingTypesStay DEF TypeInv, CallTypes, SetTermios, second, output, calls
<1> QED
  BY <1>1, <1>2, <1>3, <1>4, <1>5, <1>6, <1>7

\* Every variable keeps its type: no index leaves its ring, the number of line ends is
\* never negative, and a call never asks the queue for more than was written to it.
THEOREM TypeCorrect == ASSUME Races = {} PROVE Spec => []TypeOK
<1>1. Init => TypeInv
  BY InputInit, OutputInit, RingTypesInit DEF TypeInv
<1>2. TypeInv /\ [Next]_vars => TypeInv'
  <2> SUFFICES ASSUME TypeInv, [Next]_vars PROVE TypeInv'
    OBVIOUS
  <2>1. InputInv' /\ OutputInv'
    BY InputInductive, OutputInductive DEF TypeInv
  <2>2. CASE UNCHANGED vars
    <3>1. CallTypes'
      BY <2>2 DEF TypeInv, CallTypes, vars, output, calls
    <3> QED
      BY <2>1, <2>2, <3>1, RingTypesStay DEF TypeInv, vars, second, output
  <2>3. CASE Next
    <3>1. (IF term.serial THEN LineKeys ELSE Keys) \subseteq Chars
      BY KeysAreChars
    <3>2. RingTypes' /\ CallTypes'
      BY <2>3, <3>1, CookTypes, KeyPressTypes, ReadTypes, WriteTypes, OutsideTypes DEF Next, KernelStep
    <3> QED
      BY <2>1, <3>2 DEF TypeInv
  <2> QED
    BY <2>2, <2>3
<1> QED
  BY <1>1, <1>2, TypesFollow, PTL DEF Spec

=============================================================================
