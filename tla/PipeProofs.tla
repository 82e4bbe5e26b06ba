----------------------------- MODULE PipeProofs -----------------------------
(***************************************************************************)
(* Proofs about the pipe of fs/pipe.c, for any page size, any number of    *)
(* processes and calls of any length: the order of the bytes, who sleeps,  *)
(* the counts of the ends, the types, what a caller may conclude from a    *)
(* short read or from SIGPIPE, and that the ring implements the queue of   *)
(* bytes of ByteStream.  What is about the bytes needs that the copy loops *)
(* do not sleep (~ MayFault).                                              *)
(***************************************************************************)
EXTENDS Pipe, TLAPS, FiniteSetTheorems, SequenceTheorems

\* What the masks of the code compute for pointers into the page.
LEMMA MaskedPointers ==
    ASSUME NEW h \in 0 .. PAGE_SIZE - 1, NEW t \in 0 .. PAGE_SIZE - 1
    PROVE  /\ h % PAGE_SIZE = h
           /\ PAGE_SIZE % PAGE_SIZE = 0
           /\ (h - t) % PAGE_SIZE = IF h >= t THEN h - t ELSE h - t + PAGE_SIZE
<1>1. h % PAGE_SIZE = h
  BY PageHasRoom
<1>2. PAGE_SIZE % PAGE_SIZE = 0
  BY PageHasRoom
<1>3. (h - t) % PAGE_SIZE = IF h >= t THEN h - t ELSE h - t + PAGE_SIZE
  BY PageHasRoom
<1> QED
  BY <1>1, <1>2, <1>3

\* The two comparisons of the code that limit a chunk give the minimum.
LEMMA ChunkLength ==
    ASSUME NEW a \in Int, NEW b \in Int, NEW c \in Int
    PROVE  /\ Min3(a, b, c) \in {a, b, c}
           /\ Min3(a, b, c) <= a
           /\ Min3(a, b, c) <= b
           /\ Min3(a, b, c) <= c
<1>1. \E x \in {a, b, c} : \A y \in {a, b, c} : x <= y
  <2>1. CASE a <= b /\ a <= c
    BY <2>1
  <2>2. CASE b <= a /\ b <= c
    BY <2>2
  <2>3. CASE c <= a /\ c <= b
    BY <2>3
  <2> QED
    BY <2>1, <2>2, <2>3
<1>2. /\ Min3(a, b, c) \in {a, b, c}
      /\ \A y \in {a, b, c} : Min3(a, b, c) <= y
  BY <1>1 DEF Min3, Min
<1> QED
  BY <1>2

-----------------------------------------------------------------------------

\* A step that ends with wake_up leaves nobody asleep but the caller.
LEMMA WakeLeavesNoSleeper ==
    ASSUME NEW p \in Procs, NEW place \in Places, WakeAndGoto(p, place)
    PROVE  /\ pc'[p] = place
           /\ \A q \in Procs \ {p} : pc'[q] \notin {"readSleep", "writeSleep"}
  BY DEF WakeAndGoto, Places

\* The program counters, which only the scheduler's argument needs.
PlacesOK == pc \in [Procs -> Places] /\ cpu \in Procs \cup {NULL}

\* Readers and writers share one wait queue and are woken late, but nobody is
\* left asleep who could go on.
THEOREM SleepersHaveAReason ==
    ASSUME ~ MayFault PROVE Spec => []NobodySleepsInVain
<1> DEFINE Inv == PlacesOK /\ NobodySleepsInVain
<1>1. Init => Inv
  BY CreatorIsProcess DEF Init, PlacesOK, Places, NobodySleepsInVain
<1>2. ASSUME Inv, [Next]_vars PROVE Inv'
  <2> USE DEF PlacesOK, NobodySleepsInVain, Asleep
  <2>1. ASSUME NEW p \in Procs, Schedule(p) PROVE Inv'
    BY <1>2, <2>1 DEF Schedule, PIPE_SIZE, ring, files
  <2>2. ASSUME NEW p \in Procs, NEW n \in Counts, Read(p, n) \/ Write(p, n) PROVE Inv'
    BY <1>2, <2>2, CreatorIsProcess DEF Read, Write, At, Goto, Places
  <2>3. ASSUME NEW p \in Procs,
               ReadChunk(p) \/ CopyOut(p) \/ WriteChunk(p) \/ CopyIn(p)
        PROVE  Inv'
    BY <1>2, <2>3, CreatorIsProcess DEF ReadChunk, CopyOut, WriteChunk, CopyIn, At, Goto, Places
  <2>4. ASSUME NEW p \in Procs, ReadEmpty(p) PROVE Inv'
    <3>1. pc' \in [Procs -> Places]
      BY <1>2, <2>4 DEF ReadEmpty, WakeAndGoto, Places
    <3>2. \A q \in Procs \ {p} : pc'[q] \notin {"readSleep", "writeSleep"}
      BY <2>4, WakeLeavesNoSleeper DEF ReadEmpty, Places
    <3>3. pc'[p] = IF i_count # 2 THEN "user" ELSE "readSleep"
      BY <2>4, WakeLeavesNoSleeper DEF ReadEmpty, Places
    <3> QED
      BY <1>2, <2>4, <3>1, <3>2, <3>3 DEF ReadEmpty, PIPE_SIZE, ring, files
  <2>5. ASSUME NEW p \in Procs, WriteFull(p) PROVE Inv'
    <3>1. pc' \in [Procs -> Places]
      BY <1>2, <2>5 DEF WriteFull, WakeAndGoto, Places
    <3>2. \A q \in Procs \ {p} : pc'[q] \notin {"readSleep", "writeSleep"}
      BY <2>5, WakeLeavesNoSleeper DEF WriteFull, Places
    <3>3. pc'[p] = IF i_count # 2 THEN "user" ELSE "writeSleep"
      BY <2>5, WakeLeavesNoSleeper DEF WriteFull, Places
    <3> QED
      BY <1>2, <2>5, <3>1, <3>2, <3>3 DEF WriteFull, PIPE_SIZE, ring, files
  <2>6. ASSUME NEW p \in Procs, ReadDone(p) \/ WriteDone(p) PROVE Inv'
    <3>1. pc' \in [Procs -> Places]
      BY <1>2, <2>6 DEF ReadDone, WriteDone, WakeAndGoto, Places
    <3>2. /\ \A q \in Procs \ {p} : pc'[q] \notin {"readSleep", "writeSleep"}
          /\ pc'[p] = "user"
      BY <2>6, WakeLeavesNoSleeper DEF ReadDone, WriteDone, Places
    <3> QED
      BY <1>2, <2>6, <3>1, <3>2 DEF ReadDone, WriteDone
  <2>7. ASSUME NEW p \in Procs, NEW e \in Ends, Close(p, e) PROVE Inv'
    <3>1. CASE f_count[e] = 1
      <4>1. pc' \in [Procs -> Places]
        BY <1>2, <2>7, <3>1 DEF Close, WakeAndGoto, Places
      <4>2. /\ \A q \in Procs \ {p} : pc'[q] \notin {"readSleep", "writeSleep"}
            /\ pc'[p] = "user"
        BY <2>7, <3>1, WakeLeavesNoSleeper DEF Close, Places
      <4> QED
        BY <1>2, <2>7, <4>1, <4>2 DEF Close
    <3>2. CASE f_count[e] # 1
      BY <1>2, <2>7, <3>2 DEF Close, At, PIPE_SIZE, ring
    <3> QED
      BY <3>1, <3>2
  <2>8. ASSUME NEW p \in Procs, NEW q \in Procs, Fork(p, q) PROVE Inv'
    BY <1>2, <2>8 DEF Fork, At, PIPE_SIZE, ring
  <2>9. CASE UNCHANGED vars
    BY <1>2, <2>9 DEF vars, ring, files, PIPE_SIZE
  <2> HIDE DEF Inv
  <2> QED
    BY <1>2, <2>1, <2>2, <2>3, <2>4, <2>5, <2>6, <2>7, <2>8, <2>9
       DEF Next, KernelStep, CloseOne, Call
<1> HIDE DEF Inv
<1>3. Inv => NobodySleepsInVain
  BY DEF Inv
<1> QED
  BY <1>1, <1>2, <1>3, PTL DEF Spec

-----------------------------------------------------------------------------
(***************************************************************************)
(* The inductive invariant behind InOrder.  Byte number sent - Size + k is *)
(* in the k-th cell after tail, except that the bytes of a chunk whose     *)
(* head was advanced are not there until they have been copied in; and the *)
(* bytes of a chunk whose tail was advanced are still in their cells until *)
(* they have been copied out.                                              *)
(***************************************************************************)
Copies == {"copyIn", "copyOut"}

Size == IF head >= tail THEN head - tail ELSE head - tail + PAGE_SIZE

Dist(i) == IF i >= tail THEN i - tail ELSE i - tail + PAGE_SIZE

Filled(n) ==
    \A i \in 0 .. PAGE_SIZE - 1 : Dist(i) < n => page[i] = sent - Size + Dist(i) + 1

RingTypes ==
    /\ page \in [0 .. PAGE_SIZE - 1 -> Nat]
    /\ head \in 0 .. PAGE_SIZE - 1
    /\ tail \in 0 .. PAGE_SIZE - 1
    /\ left \in [Procs -> Nat]
    /\ from \in [Procs -> 0 .. PAGE_SIZE - 1]
    /\ chars \in [Procs -> 0 .. PAGE_SIZE]
    /\ base \in [Procs -> Nat]
    /\ sent \in Nat
    /\ received \in Seq(Nat)

\* Who copies has the CPU, so there is at most one (here no fault may sleep).
CopierRuns == \A p \in Procs : pc[p] \in Copies => cpu = p

NoCopy == Len(received) = sent - Size /\ Filled(Size)

CopyInGoesOn(p) ==
    /\ Len(received) = sent - Size
    /\ chars[p] \in 1 .. Size
    /\ base[p] = sent - chars[p]
    /\ from[p] + chars[p] = IF head = 0 THEN PAGE_SIZE ELSE head
    /\ Filled(Size - chars[p])

CopyOutGoesOn(p) ==
    /\ chars[p] # 0
    /\ Len(received) + chars[p] = sent - Size
    /\ from[p] + chars[p] <= PAGE_SIZE
    /\ \A j \in 1 .. chars[p] : page[from[p] + j - 1] = Len(received) + j
    /\ Filled(Size)

RingInv ==
    /\ (\A p \in Procs : pc[p] \notin Copies) => NoCopy
    /\ \A p \in Procs : pc[p] = "copyIn" => CopyInGoesOn(p)
    /\ \A p \in Procs : pc[p] = "copyOut" => CopyOutGoesOn(p)

FifoInv == PlacesOK /\ RingTypes /\ CopierRuns /\ RingInv /\ InOrder

\* PIPE_SIZE is the distance from tail to head.
LEMMA SizeIsDistance == RingTypes => PIPE_SIZE = Size /\ Size \in 0 .. PAGE_SIZE - 1
<1> SUFFICES ASSUME RingTypes PROVE PIPE_SIZE = Size /\ Size \in 0 .. PAGE_SIZE - 1
  OBVIOUS
<1>1. PIPE_SIZE = Size
  BY MaskedPointers DEF RingTypes, PIPE_SIZE, Size
<1>2. Size \in 0 .. PAGE_SIZE - 1
  BY PageHasRoom DEF RingTypes, Size
<1> QED
  BY <1>1, <1>2

\* Steps that touch neither the ring nor a copy loop.
LEMMA RingUntouched ==
    ASSUME FifoInv, PlacesOK', left' \in [Procs -> Nat], CopierRuns',
           UNCHANGED <<ring, received, chunk>>,
           \A p \in Procs : pc'[p] \in Copies \/ pc[p] \in Copies => pc'[p] = pc[p]
    PROVE  FifoInv'
<1> USE DEF FifoInv, ring, chunk
<1>1. RingTypes'
  BY DEF RingTypes
<1>2. InOrder'
  BY DEF InOrder
<1>3. /\ NoCopy => NoCopy'
      /\ \A p \in Procs : CopyInGoesOn(p) => CopyInGoesOn(p)'
      /\ \A p \in Procs : CopyOutGoesOn(p) => CopyOutGoesOn(p)'
  BY DEF NoCopy, CopyInGoesOn, CopyOutGoesOn, Filled, Size, Dist
<1>4. RingInv'
  BY <1>3 DEF RingInv, Copies
<1> QED
  BY <1>1, <1>2, <1>4

\* A running process that is outside the copy loops is alone with the ring.
LEMMA AloneWithRing ==
    ASSUME FifoInv, NEW p \in Procs, cpu = p, pc[p] \notin Copies
    PROVE  NoCopy
  BY DEF FifoInv, RingInv, CopierRuns

\* Advancing tail turns the oldest bytes of the ring into a chunk.
LEMMA ReadChunkKeeps ==
    ASSUME FifoInv, NEW p \in Procs, ReadChunk(p) PROVE FifoInv'
<1>1. NoCopy /\ PIPE_SIZE = Size /\ Size \in 1 .. PAGE_SIZE - 1
  <2>1. NoCopy
    BY AloneWithRing DEF ReadChunk, At, Copies
  <2> QED
    BY <2>1, SizeIsDistance, PageHasRoom DEF ReadChunk, FifoInv
<1>2. left[p] \in Nat \ {0} /\ tail \in 0 .. PAGE_SIZE - 1
  BY DEF ReadChunk, FifoInv, RingTypes
<1>3. PICK n \in Int : n = Min3(PAGE_SIZE - tail, left[p], PIPE_SIZE)
  BY <1>1, <1>2, ChunkLength, PageHasRoom
<1>4. n \in 1 .. Size /\ n <= left[p] /\ tail + n <= PAGE_SIZE
  <2>1. n \in {PAGE_SIZE - tail, left[p], Size} /\ n <= PAGE_SIZE - tail
        /\ n <= left[p] /\ n <= Size
    BY <1>1, <1>2, <1>3, ChunkLength, PageHasRoom
  <2> QED
    BY <1>1, <1>2, <2>1, PageHasRoom
<1>5. /\ left' = [left EXCEPT ![p] = @ - n]
      /\ from' = [from EXCEPT ![p] = tail]
      /\ chars' = [chars EXCEPT ![p] = n]
      /\ cpu = p /\ cpu' = p
      /\ pc' = [pc EXCEPT ![p] = "copyOut"]
      /\ UNCHANGED <<page, head, sent, received, base>>
  BY <1>3 DEF ReadChunk, Goto, At
<1>6. tail' = IF tail + n = PAGE_SIZE THEN 0 ELSE tail + n
  <2>0. tail' = (tail + n) % PAGE_SIZE
    BY <1>3 DEF ReadChunk
  <2>1. CASE tail + n = PAGE_SIZE
    BY <1>2, <2>0, <2>1, MaskedPointers
  <2>2. CASE tail + n # PAGE_SIZE
    <3>1. tail + n \in 0 .. PAGE_SIZE - 1
      BY <1>1, <1>2, <1>4, <2>2, PageHasRoom
    <3> QED
      BY <2>0, <2>2, <3>1, MaskedPointers
  <2> QED
    BY <2>1, <2>2
<1>7. RingTypes'
  <2>1. n \in 0 .. PAGE_SIZE /\ left[p] - n \in Nat /\ tail' \in 0 .. PAGE_SIZE - 1
    BY <1>1, <1>2, <1>4, <1>6, PageHasRoom
  <2>2. left' \in [Procs -> Nat] /\ from' \in [Procs -> 0 .. PAGE_SIZE - 1]
    BY <1>2, <1>5, <2>1 DEF FifoInv, RingTypes
  <2>3. chars' \in [Procs -> 0 .. PAGE_SIZE]
    BY <1>5, <2>1 DEF FifoInv, RingTypes
  <2>4. base' \in [Procs -> Nat] /\ sent' \in Nat
    BY <1>5, <2>1 DEF FifoInv, RingTypes
  <2> QED
    BY <1>5, <2>1, <2>2, <2>3, <2>4 DEF FifoInv, RingTypes
<1>8. PlacesOK' /\ CopierRuns' /\ InOrder'
  BY <1>5 DEF FifoInv, PlacesOK, Places, CopierRuns, Copies, InOrder
<1>9. /\ head \in 0 .. PAGE_SIZE - 1 /\ tail \in 0 .. PAGE_SIZE - 1
      /\ sent \in Nat /\ received \in Seq(Nat)
  BY DEF FifoInv, RingTypes
<1>10. Size' = Size - n
  BY <1>1, <1>4, <1>5, <1>6, <1>9, PageHasRoom DEF Size
<1>11. Filled(Size)'
  <2> SUFFICES ASSUME NEW i \in 0 .. PAGE_SIZE - 1, Dist(i)' < Size'
               PROVE  page'[i] = sent' - Size' + Dist(i)' + 1
    BY DEF Filled
  <2>1. Dist(i) = Dist(i)' + n /\ Dist(i) < Size
    BY <1>1, <1>4, <1>5, <1>6, <1>9, <1>10, PageHasRoom DEF Size, Dist
  <2>2. Dist(i) \in Int /\ Dist(i)' \in Int
    BY <1>4, <1>6, <1>9, PageHasRoom DEF Dist
  <2>3. page[i] = sent - Size + Dist(i) + 1
    BY <1>1, <2>1 DEF NoCopy, Filled
  <2> QED
    BY <1>1, <1>4, <1>5, <1>9, <1>10, <2>1, <2>2, <2>3
<1>12. ASSUME NEW j \in 1 .. n PROVE page[tail + j - 1] = Len(received) + j
  <2>1. tail + j - 1 \in 0 .. PAGE_SIZE - 1 /\ Dist(tail + j - 1) = j - 1
    BY <1>1, <1>4, <1>9, <1>12, PageHasRoom DEF Dist
  <2>2. page[tail + j - 1] = sent - Size + (j - 1) + 1
    BY <1>1, <1>4, <1>9, <2>1 DEF NoCopy, Filled
  <2> QED
    BY <1>1, <1>4, <1>9, <2>2 DEF NoCopy
<1>13. CopyOutGoesOn(p)'
  <2>1. chars'[p] = n /\ from'[p] = tail
    BY <1>5 DEF FifoInv, RingTypes
  <2>2. Len(received)' + chars'[p] = sent' - Size'
    BY <1>1, <1>4, <1>5, <1>9, <1>10, <2>1 DEF NoCopy
  <2>3. \A j \in 1 .. n : page'[tail + j - 1] = Len(received') + j
    BY <1>5, <1>12
  <2>4. tail + n <= PAGE_SIZE /\ n # 0
    BY <1>4
  <2> QED
    BY <1>11, <2>1, <2>2, <2>3, <2>4 DEF CopyOutGoesOn
<1>14. RingInv'
  <2>1. \A q \in Procs : pc'[q] \in Copies => q = p
    BY <1>5, <1>8 DEF CopierRuns
  <2>2. pc'[p] = "copyOut"
    BY <1>5 DEF FifoInv, PlacesOK
  <2> QED
    BY <1>13, <2>1, <2>2 DEF RingInv, Copies
<1> QED
  BY <1>7, <1>8, <1>14 DEF FifoInv

\* Advancing head reserves the cells of a chunk; one cell stays free.
LEMMA WriteChunkKeeps ==
    ASSUME FifoInv, NEW p \in Procs, WriteChunk(p) PROVE FifoInv'
<1>1. NoCopy /\ PIPE_SIZE = Size /\ Size \in 0 .. PAGE_SIZE - 2
  <2>1. NoCopy
    BY AloneWithRing DEF WriteChunk, At, Copies
  <2> QED
    BY <2>1, SizeIsDistance, PageHasRoom DEF WriteChunk, FifoInv
<1>2. left[p] \in Nat \ {0} /\ head \in 0 .. PAGE_SIZE - 1
  BY DEF WriteChunk, FifoInv, RingTypes
<1>3. PICK n \in Int : n = Min3(PAGE_SIZE - head, left[p], PAGE_SIZE - 1 - PIPE_SIZE)
  BY <1>1, <1>2, ChunkLength, PageHasRoom
<1>4. n \in 1 .. PAGE_SIZE - 1 - Size /\ n <= left[p] /\ head + n <= PAGE_SIZE
  <2>1. n \in {PAGE_SIZE - head, left[p], PAGE_SIZE - 1 - Size} /\ n <= PAGE_SIZE - head
        /\ n <= left[p] /\ n <= PAGE_SIZE - 1 - Size
    BY <1>1, <1>2, <1>3, ChunkLength, PageHasRoom
  <2> QED
    BY <1>1, <1>2, <2>1, PageHasRoom
<1>5. /\ left' = [left EXCEPT ![p] = @ - n]
      /\ from' = [from EXCEPT ![p] = head]
      /\ chars' = [chars EXCEPT ![p] = n]
      /\ cpu = p /\ cpu' = p
      /\ base' = [base EXCEPT ![p] = sent]
      /\ sent' = sent + n
      /\ pc' = [pc EXCEPT ![p] = "copyIn"]
      /\ UNCHANGED <<page, tail, received>>
  BY <1>3 DEF WriteChunk, Goto, At
<1>6. head' = IF head + n = PAGE_SIZE THEN 0 ELSE head + n
  <2>0. head' = (head + n) % PAGE_SIZE
    BY <1>3 DEF WriteChunk
  <2>1. CASE head + n = PAGE_SIZE
    BY <1>2, <2>0, <2>1, MaskedPointers
  <2>2. CASE head + n # PAGE_SIZE
    <3>1. head + n \in 0 .. PAGE_SIZE - 1
      BY <1>1, <1>2, <1>4, <2>2, PageHasRoom
    <3> QED
      BY <2>0, <2>2, <3>1, MaskedPointers
  <2> QED
    BY <2>1, <2>2
<1>7. RingTypes'
  <2>1. n \in 0 .. PAGE_SIZE /\ left[p] - n \in Nat /\ head' \in 0 .. PAGE_SIZE - 1
    BY <1>1, <1>2, <1>4, <1>6, PageHasRoom
  <2>2. left' \in [Procs -> Nat] /\ from' \in [Procs -> 0 .. PAGE_SIZE - 1]
    BY <1>2, <1>5, <2>1 DEF FifoInv, RingTypes
  <2>3. chars' \in [Procs -> 0 .. PAGE_SIZE]
    BY <1>5, <2>1 DEF FifoInv, RingTypes
  <2>4. base' \in [Procs -> Nat] /\ sent' \in Nat
    BY <1>5, <2>1 DEF FifoInv, RingTypes
  <2> QED
    BY <1>5, <2>1, <2>2, <2>3, <2>4 DEF FifoInv, RingTypes
<1>8. PlacesOK' /\ CopierRuns' /\ InOrder'
  BY <1>5 DEF FifoInv, PlacesOK, Places, CopierRuns, Copies, InOrder
<1>9. /\ head \in 0 .. PAGE_SIZE - 1 /\ tail \in 0 .. PAGE_SIZE - 1
      /\ sent \in Nat /\ received \in Seq(Nat)
  BY DEF FifoInv, RingTypes
<1>10. Size' = Size + n
  BY <1>1, <1>4, <1>5, <1>6, <1>9, PageHasRoom DEF Size
<1>11. chars'[p] = n /\ from'[p] = head /\ base'[p] = sent
  BY <1>5 DEF FifoInv, RingTypes
<1>12. Filled(Size - chars[p])'
  <2> SUFFICES ASSUME NEW i \in 0 .. PAGE_SIZE - 1, Dist(i)' < Size' - chars'[p]
               PROVE  page'[i] = sent' - Size' + Dist(i)' + 1
    BY DEF Filled
  <2>1. Dist(i)' = Dist(i)
    BY <1>5 DEF Dist
  <2>2. Dist(i) < Size
    BY <1>1, <1>4, <1>10, <1>11, <2>1
  <2>3. page[i] = sent - Size + Dist(i) + 1
    BY <1>1, <2>2 DEF NoCopy, Filled
  <2> QED
    BY <1>1, <1>4, <1>5, <1>9, <1>10, <2>1, <2>3
<1>13. CopyInGoesOn(p)'
  <2>1. Len(received)' = sent' - Size'
    <3>1. Len(received) = sent - Size
      BY <1>1 DEF NoCopy
    <3>2. sent' - Size' = sent - Size
      BY <1>1, <1>4, <1>5, <1>9, <1>10
    <3>3. received' = received
      BY <1>5
    <3> QED
      BY <3>1, <3>2, <3>3
  <2>2. chars'[p] \in 1 .. Size' /\ base'[p] = sent' - chars'[p]
    BY <1>1, <1>4, <1>5, <1>9, <1>10, <1>11
  <2>3. from'[p] + chars'[p] = IF head' = 0 THEN PAGE_SIZE ELSE head'
    BY <1>1, <1>4, <1>6, <1>9, <1>11, PageHasRoom
  <2>4. Filled(Size - chars[p])'
    BY <1>12
  <2> QED
    BY <2>1, <2>2, <2>3, <2>4, Zenon DEF CopyInGoesOn
<1>14. RingInv'
  <2>1. \A q \in Procs : pc'[q] \in Copies => q = p
    BY <1>5, <1>8 DEF CopierRuns
  <2>2. pc'[p] = "copyIn"
    BY <1>5 DEF FifoInv, PlacesOK
  <2> QED
    BY <1>13, <2>1, <2>2 DEF RingInv, Copies
<1> QED
  BY <1>7, <1>8, <1>14 DEF FifoInv

\* The copied bytes complete the ring.
LEMMA CopyInKeeps ==
    ASSUME FifoInv, NEW p \in Procs, CopyIn(p) PROVE FifoInv'
<1>1. CopyInGoesOn(p) /\ Size \in 0 .. PAGE_SIZE - 1
  BY SizeIsDistance DEF CopyIn, At, FifoInv, RingInv
<1>2. /\ head \in 0 .. PAGE_SIZE - 1 /\ tail \in 0 .. PAGE_SIZE - 1
      /\ sent \in Nat /\ received \in Seq(Nat)
      /\ from[p] \in 0 .. PAGE_SIZE - 1 /\ base[p] \in Nat
      /\ page \in [0 .. PAGE_SIZE - 1 -> Nat]
  BY DEF FifoInv, RingTypes
<1>3. /\ UNCHANGED <<head, tail, sent, received, left>>
      /\ pc' = [pc EXCEPT ![p] = "write"]
      /\ cpu = p /\ cpu' = p
  BY DEF CopyIn, Goto, At
<1>4. ASSUME NEW i \in 0 .. PAGE_SIZE - 1, Dist(i) < Size
      PROVE  page'[i] = sent - Size + Dist(i) + 1
  <2>0. /\ chars[p] \in Nat /\ base[p] = sent - chars[p] /\ Dist(i) \in Int
        /\ IF from[p] <= i /\ i < from[p] + chars[p]
           THEN Dist(i) = Size - chars[p] + i - from[p] ELSE Dist(i) < Size - chars[p]
    <3>1. /\ chars[p] \in 1 .. Size /\ base[p] = sent - chars[p]
          /\ from[p] + chars[p] = IF head = 0 THEN PAGE_SIZE ELSE head
      BY <1>1 DEF CopyInGoesOn
    <3>2. Dist(i) \in Int
      BY <1>2, PageHasRoom DEF Dist
    <3>3. IF from[p] <= i /\ i < from[p] + chars[p]
          THEN Dist(i) = Size - chars[p] + i - from[p] ELSE Dist(i) < Size - chars[p]
      <4>1. PICK c \in Nat : c = chars[p] /\ 1 <= c /\ c <= Size
        BY <1>1, <3>1
      <4>2. PICK f \in 0 .. PAGE_SIZE - 1 : f = from[p]
        BY <1>2
      <4>3. PICK s \in Int : s = Size
        BY <1>1
      <4>4. PICK d \in Int : d = Dist(i)
        BY <3>2
      <4>5. s = IF head >= tail THEN head - tail ELSE head - tail + PAGE_SIZE
        BY <4>3 DEF Size
      <4>6. d = IF i >= tail THEN i - tail ELSE i - tail + PAGE_SIZE
        BY <4>4 DEF Dist
      <4>7. f + c = IF head = 0 THEN PAGE_SIZE ELSE head
        BY <3>1, <4>1, <4>2
      <4>8. d < s /\ c <= s /\ 1 <= c
        BY <1>4, <4>1, <4>3, <4>4
      <4>10. head \in 0 .. PAGE_SIZE - 1 /\ tail \in 0 .. PAGE_SIZE - 1
        BY <1>2
      <4>9. IF f <= i /\ i < f + c THEN d = s - c + i - f ELSE d < s - c
        BY <4>10, <4>5, <4>6, <4>7, <4>8, PageHasRoom
      <4> QED
        BY <4>1, <4>2, <4>3, <4>4, <4>9
    <3> QED
      BY <1>1, <3>1, <3>2, <3>3
  <2>1. CASE i \in from[p] .. from[p] + chars[p] - 1
    <3>1. page'[i] = base[p] + i - from[p] + 1
      BY <2>1 DEF CopyIn
    <3>2. from[p] <= i /\ i < from[p] + chars[p]
      BY <1>2, <2>0, <2>1
    <3>3. /\ from[p] \in Int /\ sent \in Int /\ Size \in Int /\ chars[p] \in Int
          /\ base[p] = sent - chars[p]
      BY <1>1, <1>2, <2>0
    <3>4. Dist(i) = Size - chars[p] + i - from[p]
      BY <2>0, <3>2
    <3> QED
      BY <3>1, <3>3, <3>4
  <2>2. CASE i \notin from[p] .. from[p] + chars[p] - 1
    <3>1. page'[i] = page[i]
      BY <2>2 DEF CopyIn
    <3>2. ~ (from[p] <= i /\ i < from[p] + chars[p])
      <4>1. from[p] \in Int /\ chars[p] \in Int
        BY <1>2, <2>0
      <4> QED
        BY <2>2, <4>1
    <3>3. Dist(i) < Size - chars[p]
      BY <2>0, <3>2
    <3> QED
      BY <1>1, <3>1, <3>3 DEF CopyInGoesOn, Filled
  <2> QED
    BY <2>1, <2>2
<1>5. NoCopy'
  <2>1. Size' = Size /\ \A i \in 0 .. PAGE_SIZE - 1 : Dist(i)' = Dist(i)
    BY <1>3 DEF Size, Dist
  <2>2. Filled(Size)'
    BY <1>3, <1>4, <2>1 DEF Filled
  <2> QED
    BY <1>1, <1>3, <2>1, <2>2 DEF NoCopy, CopyInGoesOn
<1>6. RingTypes'
  <2>1. page' \in [0 .. PAGE_SIZE - 1 -> Nat]
    BY <1>1, <1>2 DEF CopyIn
  <2>2. /\ from' \in [Procs -> 0 .. PAGE_SIZE - 1]
        /\ chars' \in [Procs -> 0 .. PAGE_SIZE]
        /\ base' \in [Procs -> Nat]
    BY PageHasRoom DEF CopyIn, FifoInv, RingTypes
  <2> QED
    BY <1>3, <2>1, <2>2 DEF FifoInv, RingTypes
<1>7. PlacesOK' /\ CopierRuns' /\ InOrder'
  BY <1>3 DEF FifoInv, PlacesOK, Places, CopierRuns, Copies, InOrder
<1>8. \A q \in Procs : pc'[q] \notin Copies
  BY <1>3, <1>7 DEF FifoInv, PlacesOK, CopierRuns, Copies
<1> QED
  BY <1>5, <1>6, <1>7, <1>8 DEF FifoInv, RingInv, Copies

\* A table of n bytes is a sequence of length n.
LEMMA TableIsSequence ==
    ASSUME NEW n \in Nat, NEW f \in [1 .. n -> Nat]
    PROVE  f \in Seq(Nat) /\ Len(f) = n
  OBVIOUS

\* The copied bytes are the next ones.
LEMMA CopyOutKeeps ==
    ASSUME FifoInv, NEW p \in Procs, CopyOut(p) PROVE FifoInv'
<1> DEFINE out == [i \in 1 .. chars[p] |-> page[from[p] + i - 1]]
<1>1. CopyOutGoesOn(p) /\ Size \in 0 .. PAGE_SIZE - 1
  BY SizeIsDistance DEF CopyOut, At, FifoInv, RingInv
<1>2. /\ head \in 0 .. PAGE_SIZE - 1 /\ tail \in 0 .. PAGE_SIZE - 1
      /\ sent \in Nat /\ received \in Seq(Nat) /\ chars[p] \in Nat
      /\ from[p] \in 0 .. PAGE_SIZE - 1 /\ page \in [0 .. PAGE_SIZE - 1 -> Nat]
  BY PageHasRoom DEF FifoInv, RingTypes
<1>3. /\ UNCHANGED <<page, head, tail, sent, left, base>>
      /\ pc' = [pc EXCEPT ![p] = "read"]
      /\ cpu = p /\ cpu' = p
      /\ received' = received \o out
  BY DEF CopyOut, Goto, At, ring
<1>4. out \in Seq(Nat) /\ Len(out) = chars[p]
  <2>1. \A i \in 1 .. chars[p] : page[from[p] + i - 1] \in Nat
    BY <1>1, <1>2 DEF CopyOutGoesOn
  <2>2. out \in [1 .. chars[p] -> Nat]
    BY <2>1
  <2> HIDE DEF out
  <2>3. chars[p] \in Nat
    BY <1>2
  <2> QED
    BY <2>2, <2>3, TableIsSequence
<1>5. \A i \in 1 .. chars[p] : out[i] = Len(received) + i
  BY <1>1 DEF CopyOutGoesOn
<1> HIDE DEF out
<1>6. received' \in Seq(Nat) /\ Len(received') = Len(received) + chars[p]
  BY <1>2, <1>3, <1>4
<1>7. InOrder'
  <2> SUFFICES ASSUME NEW i \in 1 .. Len(received') PROVE received'[i] = i
    BY DEF InOrder
  <2>1. CASE i <= Len(received)
    BY <1>2, <1>3, <1>4, <2>1 DEF FifoInv, InOrder
  <2>2. CASE i > Len(received)
    <3>1. i - Len(received) \in 1 .. chars[p]
      BY <1>2, <1>6, <2>2
    <3>2. received'[i] = out[i - Len(received)]
      BY <1>2, <1>3, <1>4, <2>2, <3>1
    <3> QED
      BY <1>2, <1>5, <3>1, <3>2
  <2> QED
    BY <1>2, <1>6, <2>1, <2>2
<1>8. NoCopy'
  <2>1. Size' = Size
    BY <1>3 DEF Size
  <2>2. Filled(Size)'
    BY <1>1, <1>3 DEF CopyOutGoesOn, Filled, Size, Dist
  <2> QED
    BY <1>1, <1>3, <1>6, <2>1, <2>2 DEF NoCopy, CopyOutGoesOn
<1>9. RingTypes'
  <2>1. /\ from' \in [Procs -> 0 .. PAGE_SIZE - 1]
        /\ chars' \in [Procs -> 0 .. PAGE_SIZE]
    BY PageHasRoom DEF CopyOut, FifoInv, RingTypes
  <2> QED
    BY <1>3, <1>6, <2>1 DEF FifoInv, RingTypes
<1>10. PlacesOK' /\ CopierRuns'
  BY <1>3 DEF FifoInv, PlacesOK, Places, CopierRuns, Copies
<1>11. \A q \in Procs : pc'[q] \notin Copies
  BY <1>3, <1>10 DEF FifoInv, PlacesOK, CopierRuns, Copies
<1> QED
  BY <1>7, <1>8, <1>9, <1>10, <1>11 DEF FifoInv, RingInv, Copies

LEMMA FifoInit == Init => FifoInv
<1> SUFFICES ASSUME Init PROVE FifoInv
  OBVIOUS
<1>1. PlacesOK /\ CopierRuns /\ InOrder /\ RingTypes
  BY PageHasRoom, CreatorIsProcess
     DEF Init, PlacesOK, Places, CopierRuns, Copies, InOrder, RingTypes
<1>2. NoCopy
  <2>1. Size = 0 /\ sent = 0 /\ Len(received) = 0 /\ tail = 0
    BY DEF Init, Size
  <2> QED
    BY <2>1 DEF NoCopy, Filled, Dist
<1> QED
  BY <1>1, <1>2 DEF FifoInv, RingInv, Init

LEMMA FifoInductive == ASSUME ~ MayFault, FifoInv, [Next]_vars PROVE FifoInv'
<1>1. ASSUME NEW p \in Procs, Schedule(p) PROVE FifoInv'
  <2>1. PlacesOK' /\ CopierRuns'
    BY <1>1, CreatorIsProcess
       DEF FifoInv, Schedule, PlacesOK, CopierRuns, Copies, Asleep
  <2> QED
    BY <1>1, <2>1, RingUntouched DEF Schedule, FifoInv, RingTypes
<1>2. ASSUME NEW p \in Procs, NEW n \in Counts, Read(p, n) \/ Write(p, n)
      PROVE  FifoInv'
  <2>1. PlacesOK' /\ CopierRuns' /\ left' \in [Procs -> Nat]
    BY <1>2, BoundsAreNumbers
       DEF Read, Write, At, Goto, FifoInv, PlacesOK, Places, CopierRuns, Copies, RingTypes
  <2>2. UNCHANGED <<ring, received, chunk>>
    BY <1>2 DEF Read, Write
  <2>3. \A q \in Procs : pc'[q] \in Copies \/ pc[q] \in Copies => pc'[q] = pc[q]
    BY <1>2 DEF Read, Write, At, Goto, FifoInv, PlacesOK, Copies
  <2> QED
    BY <2>1, <2>2, <2>3, RingUntouched
<1>3. ASSUME NEW p \in Procs,
             ReadEmpty(p) \/ ReadDone(p) \/ WriteFull(p) \/ WriteDone(p)
      PROVE  FifoInv'
  <2>1. PICK place \in Places \ Copies : WakeAndGoto(p, place)
    BY <1>3 DEF ReadEmpty, ReadDone, WriteFull, WriteDone, Places, Copies
  <2>2. cpu = p /\ cpu' = p /\ pc[p] \notin Copies
    BY <1>3 DEF ReadEmpty, ReadDone, WriteFull, WriteDone, At, Copies
  <2>3. \A q \in Procs : pc'[q] \in Copies \/ pc[q] \in Copies => pc'[q] = pc[q]
    BY <2>1, <2>2 DEF WakeAndGoto, Copies
  <2>4. PlacesOK' /\ CopierRuns'
    BY <2>1, <2>2, <2>3 DEF WakeAndGoto, FifoInv, PlacesOK, Places, CopierRuns, Copies
  <2>5. left' \in [Procs -> Nat] /\ UNCHANGED <<ring, received, chunk>>
    BY <1>3 DEF ReadEmpty, ReadDone, WriteFull, WriteDone, FifoInv, RingTypes
  <2> QED
    BY <2>3, <2>4, <2>5, RingUntouched
<1>4. ASSUME NEW p \in Procs, NEW e \in Ends, Close(p, e) PROVE FifoInv'
  <2>1. WakeAndGoto(p, "user") \/ pc' = pc
    BY <1>4 DEF Close
  <2>2. cpu = p /\ cpu' = p /\ pc[p] = "user" /\ UNCHANGED <<ring, received, chunk, left>>
    BY <1>4 DEF Close, At
  <2>3. \A q \in Procs : pc'[q] \in Copies \/ pc[q] \in Copies => pc'[q] = pc[q]
    BY <2>1, <2>2 DEF WakeAndGoto, Copies
  <2>4. PlacesOK' /\ CopierRuns' /\ left' \in [Procs -> Nat]
    BY <2>1, <2>2, <2>3
       DEF WakeAndGoto, FifoInv, PlacesOK, Places, CopierRuns, Copies, RingTypes
  <2> QED
    BY <2>2, <2>3, <2>4, RingUntouched
<1>5. ASSUME NEW p \in Procs, NEW q \in Procs, Fork(p, q) PROVE FifoInv'
  <2>1. UNCHANGED <<ring, received, chunk, left, pc, cpu>>
    BY <1>5 DEF Fork
  <2> QED
    BY <2>1, RingUntouched DEF FifoInv, PlacesOK, CopierRuns, RingTypes
<1>6. CASE UNCHANGED vars
  BY <1>6, RingUntouched DEF vars, FifoInv, PlacesOK, CopierRuns, RingTypes
<1>7. ASSUME NEW p \in Procs,
             ReadChunk(p) \/ CopyOut(p) \/ WriteChunk(p) \/ CopyIn(p)
      PROVE  FifoInv'
  BY <1>7, ReadChunkKeeps, CopyOutKeeps, WriteChunkKeeps, CopyInKeeps
<1> QED
  BY <1>1, <1>2, <1>3, <1>4, <1>5, <1>6, <1>7
     DEF Next, KernelStep, CloseOne, Call

\* Bytes are read in the order in which they were written, none is lost, none
\* is read twice: the ring buffer of read_pipe and write_pipe is a FIFO.
THEOREM BytesInOrder == ASSUME ~ MayFault PROVE Spec => []InOrder
<1>1. FifoInv => InOrder
  BY DEF FifoInv
<1> QED
  BY <1>1, FifoInit, FifoInductive, PTL DEF Spec

-----------------------------------------------------------------------------

(***************************************************************************)
(* The counts of the two file structures and of the inode.                 *)
(***************************************************************************)
Holders(e) == {p \in Procs : e \in filp[p]}

Open == {e \in Ends : Holders(e) # {}}

CountsInv ==
    /\ filp \in [Procs -> SUBSET Ends]
    /\ f_count \in [Ends -> Nat]
    /\ born \subseteq Procs
    /\ \A e \in Ends : f_count[e] = Cardinality(Holders(e))
    /\ i_count = Cardinality(Open)
    /\ \A p \in Procs \ born : filp[p] = {}

\* There are at most two open ends, and two only if both are open.
LEMMA OpenEnds ==
    /\ IsFiniteSet(Open) /\ Cardinality(Open) \in 0 .. 2
    /\ \A e \in Open : Cardinality(Open) # 2 => Open = {e}
<1>1. IsFiniteSet(Ends) /\ Cardinality(Ends) = 2
  <2>1. IsFiniteSet({"r"}) /\ Cardinality({"r"}) = 1
    BY FS_Singleton
  <2>2. Ends = {"r"} \cup {"w"} /\ "w" \notin {"r"}
    BY DEF Ends
  <2> QED
    BY <2>1, <2>2, FS_AddElement
<1>2. Open \in SUBSET Ends
  BY DEF Open
<1>3. IsFiniteSet(Open) /\ Cardinality(Open) <= 2 /\ Cardinality(Open) \in Nat
  BY <1>1, <1>2, FS_Subset, FS_CardinalityType
<1>4. ASSUME NEW e \in Open, Open # {e} PROVE Cardinality(Open) = 2
  <2>1. Open = Ends
    BY <1>2, <1>4 DEF Ends
  <2> QED
    BY <1>1, <2>1
<1> QED
  BY <1>3, <1>4

LEMMA HoldersFinite ==
    ASSUME NEW e \in Ends
    PROVE  IsFiniteSet(Holders(e)) /\ Cardinality(Holders(e)) \in Nat
<1>1. Holders(e) \in SUBSET Procs
  BY DEF Holders
<1> QED
  BY <1>1, ProcsAreFinite, FS_Subset, FS_CardinalityType

\* The last close of an end, and only that one, releases the inode.
LEMMA CloseCounts ==
    ASSUME CountsInv, NEW p \in Procs, NEW e \in Ends, Close(p, e)
    PROVE  CountsInv'
<1>1. /\ filp' = [filp EXCEPT ![p] = @ \ {e}] /\ e \in filp[p] /\ born' = born
      /\ f_count' = [f_count EXCEPT ![e] = @ - 1]
      /\ i_count' = IF f_count[e] = 1 THEN i_count - 1 ELSE i_count
  BY DEF Close
<1>2. filp' \in [Procs -> SUBSET Ends] /\ \A q \in Procs \ born' : filp'[q] = {}
  BY <1>1 DEF CountsInv
<1>3. Holders(e)' = Holders(e) \ {p} /\ p \in Holders(e)
  BY <1>1, <1>2 DEF Holders, CountsInv
<1>4. ASSUME NEW d \in Ends \ {e} PROVE Holders(d)' = Holders(d)
  BY <1>1, <1>2, <1>4 DEF Holders, CountsInv
<1>5. /\ Cardinality(Holders(e)') = Cardinality(Holders(e)) - 1
      /\ Cardinality(Holders(e)') \in Nat
      /\ Cardinality(Holders(e)') = 0 <=> Holders(e)' = {}
  <2>1. IsFiniteSet(Holders(e)')
    BY <1>3, HoldersFinite, FS_RemoveElement
  <2> QED
    BY <1>3, <2>1, HoldersFinite, FS_RemoveElement, FS_EmptySet, FS_CardinalityType
<1>6. \A d \in Ends : f_count'[d] = Cardinality(Holders(d))'
  BY <1>1, <1>4, <1>5 DEF CountsInv
<1>7. i_count' = Cardinality(Open')
  <2>1. CASE f_count[e] = 1
    <3>1. Holders(e)' = {}
      BY <1>5, <2>1 DEF CountsInv
    <3>2. Open' = Open \ {e} /\ e \in Open
      BY <1>3, <1>4, <3>1 DEF Open
    <3> QED
      BY <1>1, <2>1, <3>2, OpenEnds, FS_RemoveElement DEF CountsInv
  <2>2. CASE f_count[e] # 1
    <3>1. Holders(e)' # {}
      BY <1>5, <2>2 DEF CountsInv
    <3>2. Open' = Open
      BY <1>3, <1>4, <3>1 DEF Open
    <3> QED
      BY <1>1, <2>2, <3>2 DEF CountsInv
  <2> QED
    BY <2>1, <2>2
<1>8. f_count' \in [Ends -> Nat]
  BY <1>1, <1>5, <1>6 DEF CountsInv
<1> QED
  BY <1>1, <1>2, <1>6, <1>7, <1>8 DEF CountsInv

\* A fork opens no end again: the child has descriptors for what its father has.
LEMMA ForkCounts ==
    ASSUME CountsInv, NEW p \in Procs, NEW q \in Procs, Fork(p, q)
    PROVE  CountsInv'
<1>1. /\ filp' = [filp EXCEPT ![q] = filp[p]] /\ q \notin born /\ filp[q] = {}
      /\ f_count' = [e \in Ends |-> IF e \in filp[p] THEN f_count[e] + 1 ELSE f_count[e]]
      /\ born' = born \cup {q} /\ i_count' = i_count
  BY DEF Fork, CountsInv
<1>2. filp' \in [Procs -> SUBSET Ends] /\ \A r \in Procs \ born' : filp'[r] = {}
  BY <1>1 DEF CountsInv
<1>3. ASSUME NEW e \in Ends
      PROVE  /\ Holders(e)' = IF e \in filp[p] THEN Holders(e) \cup {q} ELSE Holders(e)
             /\ q \notin Holders(e)
             /\ e \in filp[p] => p \in Holders(e)
  BY <1>1, <1>2 DEF Holders, CountsInv
<1>4. ASSUME NEW e \in Ends
      PROVE  f_count'[e] = Cardinality(Holders(e)') /\ f_count'[e] \in Nat
  BY <1>1, <1>3, HoldersFinite, FS_AddElement DEF CountsInv
<1>5. Open' = Open
  BY <1>3 DEF Open
<1> QED
  BY <1>1, <1>2, <1>4, <1>5 DEF CountsInv

LEMMA CountsInductive == ASSUME CountsInv, [Next]_vars PROVE CountsInv'
<1>1. ASSUME UNCHANGED files PROVE CountsInv'
  BY <1>1 DEF files, CountsInv, Holders, Open
<1>2. ASSUME NEW p \in Procs, KernelStep(p) PROVE CountsInv'
  BY <1>1, <1>2 DEF KernelStep, ReadChunk, CopyOut, ReadEmpty, ReadDone, WriteChunk,
                    CopyIn, WriteFull, WriteDone
<1>3. ASSUME NEW p \in Procs, Schedule(p) PROVE CountsInv'
  BY <1>1, <1>3 DEF Schedule
<1>4. ASSUME NEW p \in Procs, NEW n \in Counts, Read(p, n) \/ Write(p, n) PROVE CountsInv'
  BY <1>1, <1>4 DEF Read, Write
<1>5. CASE UNCHANGED vars
  BY <1>1, <1>5 DEF vars
<1> QED
  BY <1>2, <1>3, <1>4, <1>5, CloseCounts, ForkCounts DEF Next, CloseOne, Call

LEMMA CountsInit == Init => CountsInv
<1> SUFFICES ASSUME Init PROVE CountsInv
  OBVIOUS
<1>1. \A e \in Ends : Holders(e) = {Creator}
  BY CreatorIsProcess DEF Init, Holders
<1>2. IsFiniteSet({Creator}) /\ Cardinality({Creator}) = 1
  BY FS_Singleton
<1>3. Open = Ends /\ "r" \in Open /\ Open # {"r"}
  BY <1>1 DEF Open, Ends
<1>4. Cardinality(Open) = 2
  BY <1>3, OpenEnds
<1> QED
  BY <1>1, <1>2, <1>4, CreatorIsProcess DEF Init, CountsInv

\* The reference counts of the file structures and of the inode always tell
\* which ends are open, however descriptors are inherited and closed.
THEOREM EndsCounted == Spec => []EndsAreCounted
<1>1. CountsInv => EndsAreCounted
  <2>1. Open = {e \in Ends : \E p \in Procs : e \in filp[p]}
    BY DEF Open, Holders
  <2> QED
    BY <2>1 DEF CountsInv, EndsAreCounted, Holders
<1> QED
  BY <1>1, CountsInit, CountsInductive, PTL DEF Spec

(***************************************************************************)
(* The types.  A chunk never leaves the page, also when a copy loop may    *)
(* sleep in a fault.                                                       *)
(***************************************************************************)
TypeInv ==
    /\ PlacesOK
    /\ RingTypes
    /\ sigpipe \in [Procs -> BOOLEAN]
    /\ \A p \in Procs : from[p] + chars[p] <= PAGE_SIZE

\* Masking with PAGE_SIZE - 1 gives a pointer into the page.
LEMMA MaskIsPointer ==
    ASSUME NEW n \in Int PROVE n % PAGE_SIZE \in 0 .. PAGE_SIZE - 1
  BY PageHasRoom

\* A chunk is positive, does not leave the page, and is not longer than asked for.
LEMMA ChunkFits ==
    ASSUME NEW at \in 0 .. PAGE_SIZE - 1, NEW want \in Nat \ {0}, NEW room \in Nat \ {0}
    PROVE  /\ Min3(PAGE_SIZE - at, want, room) \in 1 .. PAGE_SIZE - at
           /\ Min3(PAGE_SIZE - at, want, room) <= want
<1> DEFINE a == PAGE_SIZE - at
<1>1. a \in Int /\ a >= 1
  BY PageHasRoom
<1>2. PICK n \in Int : n = Min3(a, want, room)
  BY <1>1, ChunkLength
<1>3. n \in {a, want, room} /\ n <= a /\ n <= want
  BY <1>1, <1>2, ChunkLength
<1> QED
  BY <1>1, <1>2, <1>3

LEMMA ReadChunkTypes ==
    ASSUME TypeInv, NEW p \in Procs, ReadChunk(p) PROVE TypeInv'
<1>1. tail \in 0 .. PAGE_SIZE - 1 /\ left[p] \in Nat \ {0} /\ PIPE_SIZE \in Nat \ {0}
  <2>1. PIPE_SIZE \in 0 .. PAGE_SIZE - 1
    BY SizeIsDistance DEF TypeInv
  <2> QED
    BY <2>1 DEF ReadChunk, TypeInv, RingTypes
<1>2. PICK n \in Int : n = Min3(PAGE_SIZE - tail, left[p], PIPE_SIZE)
  BY <1>1, ChunkFits, PageHasRoom
<1>3. n \in 1 .. PAGE_SIZE - tail /\ n <= left[p]
  BY <1>1, <1>2, ChunkFits
<1>4. /\ left' = [left EXCEPT ![p] = @ - n] /\ from' = [from EXCEPT ![p] = tail]
      /\ chars' = [chars EXCEPT ![p] = n] /\ tail' = (tail + n) % PAGE_SIZE
      /\ pc' = [pc EXCEPT ![p] = "copyOut"]
      /\ UNCHANGED <<page, head, sent, received, sigpipe, cpu, base>>
  BY <1>2 DEF ReadChunk, Goto
<1>5. left[p] - n \in Nat /\ n \in 0 .. PAGE_SIZE /\ tail' \in 0 .. PAGE_SIZE - 1
      /\ tail + n <= PAGE_SIZE
  BY <1>1, <1>3, <1>4, MaskIsPointer, PageHasRoom
<1>6. RingTypes'
  BY <1>1, <1>4, <1>5 DEF TypeInv, RingTypes
<1> QED
  BY <1>1, <1>4, <1>5, <1>6 DEF TypeInv, PlacesOK, Places, RingTypes

LEMMA WriteChunkTypes ==
    ASSUME TypeInv, NEW p \in Procs, WriteChunk(p) PROVE TypeInv'
<1>1. /\ head \in 0 .. PAGE_SIZE - 1 /\ left[p] \in Nat \ {0}
      /\ PAGE_SIZE - 1 - PIPE_SIZE \in Nat \ {0}
  <2>1. PIPE_SIZE \in 0 .. PAGE_SIZE - 1
    BY SizeIsDistance DEF TypeInv
  <2>2. PIPE_SIZE < PAGE_SIZE - 1
    BY DEF WriteChunk
  <2>3. PAGE_SIZE - 1 - PIPE_SIZE \in Nat \ {0}
    BY <2>1, <2>2, PageHasRoom
  <2> QED
    BY <2>3 DEF WriteChunk, TypeInv, RingTypes
<1>2. PICK n \in Int : n = Min3(PAGE_SIZE - head, left[p], PAGE_SIZE - 1 - PIPE_SIZE)
  BY <1>1, ChunkFits, PageHasRoom
<1>3. n \in 1 .. PAGE_SIZE - head /\ n <= left[p]
  BY <1>1, <1>2, ChunkFits
<1>4. /\ left' = [left EXCEPT ![p] = @ - n] /\ from' = [from EXCEPT ![p] = head]
      /\ chars' = [chars EXCEPT ![p] = n] /\ head' = (head + n) % PAGE_SIZE
      /\ base' = [base EXCEPT ![p] = sent] /\ sent' = sent + n
      /\ pc' = [pc EXCEPT ![p] = "copyIn"]
      /\ UNCHANGED <<page, tail, received, sigpipe, cpu>>
  BY <1>2 DEF WriteChunk, Goto
<1>5. left[p] - n \in Nat /\ n \in 0 .. PAGE_SIZE /\ head' \in 0 .. PAGE_SIZE - 1
      /\ head + n <= PAGE_SIZE
  BY <1>1, <1>3, <1>4, MaskIsPointer, PageHasRoom
<1>6. RingTypes'
  <2>1. sent' \in Nat /\ base' \in [Procs -> Nat]
    BY <1>3, <1>4 DEF TypeInv, RingTypes
  <2> QED
    BY <1>1, <1>4, <1>5, <2>1 DEF TypeInv, RingTypes
<1> QED
  BY <1>1, <1>4, <1>5, <1>6 DEF TypeInv, PlacesOK, Places, RingTypes

LEMMA CopyOutTypes ==
    ASSUME TypeInv, NEW p \in Procs, CopyOut(p) PROVE TypeInv'
<1> DEFINE out == [i \in 1 .. chars[p] |-> page[from[p] + i - 1]]
<1>1. /\ chars[p] \in Nat /\ from[p] \in 0 .. PAGE_SIZE - 1 /\ received \in Seq(Nat)
      /\ from[p] + chars[p] <= PAGE_SIZE /\ page \in [0 .. PAGE_SIZE - 1 -> Nat]
  BY PageHasRoom DEF TypeInv, RingTypes
<1>2. out \in [1 .. chars[p] -> Nat]
  <2> SUFFICES ASSUME NEW i \in 1 .. chars[p] PROVE page[from[p] + i - 1] \in Nat
    OBVIOUS
  <2>1. from[p] + i - 1 \in 0 .. PAGE_SIZE - 1
    BY <1>1, PageHasRoom
  <2> QED
    BY <1>1, <2>1
<1>3. received' = received \o out
  BY DEF CopyOut
<1> HIDE DEF out
<1>4. received' \in Seq(Nat)
  <2>1. chars[p] \in Nat
    BY <1>1
  <2>2. out \in Seq(Nat)
    BY <1>2, <2>1, TableIsSequence
  <2> QED
    BY <1>1, <1>3, <2>2
<1>5. /\ from' = [from EXCEPT ![p] = 0] /\ chars' = [chars EXCEPT ![p] = 0]
      /\ pc' = [pc EXCEPT ![p] = "read"]
      /\ UNCHANGED <<page, head, tail, sent, sigpipe, cpu, left, base>>
  BY DEF CopyOut, Goto, ring
<1>6. /\ from' \in [Procs -> 0 .. PAGE_SIZE - 1] /\ chars' \in [Procs -> 0 .. PAGE_SIZE]
      /\ \A q \in Procs : from'[q] + chars'[q] <= PAGE_SIZE
  <2>1. 0 \in 0 .. PAGE_SIZE - 1 /\ 0 \in 0 .. PAGE_SIZE /\ 0 + 0 <= PAGE_SIZE
    BY PageHasRoom
  <2>2. from' \in [Procs -> 0 .. PAGE_SIZE - 1]
    BY <2>1, <1>5 DEF TypeInv, RingTypes
  <2>3. chars' \in [Procs -> 0 .. PAGE_SIZE]
    BY <2>1, <1>5 DEF TypeInv, RingTypes
  <2> QED
    BY <2>1, <2>2, <2>3, <1>5 DEF TypeInv, RingTypes
<1>7. RingTypes'
  BY <1>4, <1>5, <1>6 DEF TypeInv, RingTypes
<1> QED
  BY <1>5, <1>6, <1>7 DEF TypeInv, PlacesOK, Places

LEMMA CopyInTypes ==
    ASSUME TypeInv, NEW p \in Procs, CopyIn(p) PROVE TypeInv'
<1>1. /\ from' = [from EXCEPT ![p] = 0] /\ chars' = [chars EXCEPT ![p] = 0]
      /\ base' = [base EXCEPT ![p] = 0]
      /\ pc' = [pc EXCEPT ![p] = "write"]
      /\ UNCHANGED <<head, tail, sent, received, sigpipe, cpu, left>>
  BY DEF CopyIn, Goto
<1>2. page' \in [0 .. PAGE_SIZE - 1 -> Nat]
  <2>1. from[p] \in Nat /\ base[p] \in Nat /\ chars[p] \in Nat
    BY PageHasRoom DEF TypeInv, RingTypes
  <2> QED
    BY <2>1 DEF CopyIn, TypeInv, RingTypes
<1>3. /\ from' \in [Procs -> 0 .. PAGE_SIZE - 1] /\ chars' \in [Procs -> 0 .. PAGE_SIZE]
      /\ \A q \in Procs : from'[q] + chars'[q] <= PAGE_SIZE
  <2>1. 0 \in 0 .. PAGE_SIZE - 1 /\ 0 \in 0 .. PAGE_SIZE /\ 0 + 0 <= PAGE_SIZE
    BY PageHasRoom
  <2>2. from' \in [Procs -> 0 .. PAGE_SIZE - 1]
    BY <2>1, <1>1 DEF TypeInv, RingTypes
  <2>3. chars' \in [Procs -> 0 .. PAGE_SIZE]
    BY <2>1, <1>1 DEF TypeInv, RingTypes
  <2> QED
    BY <2>1, <2>2, <2>3, <1>1 DEF TypeInv, RingTypes
<1>4. base' \in [Procs -> Nat]
  BY <1>1 DEF TypeInv, RingTypes
<1>5. RingTypes'
  BY <1>1, <1>2, <1>3, <1>4 DEF TypeInv, RingTypes
<1> QED
  BY <1>1, <1>3, <1>5 DEF TypeInv, PlacesOK, Places

LEMMA TypesInductive == ASSUME TypeInv, [Next]_vars PROVE TypeInv'
<1>1. ASSUME UNCHANGED <<ring, received, chunk>>, PlacesOK', left' \in [Procs -> Nat],
             sigpipe' \in [Procs -> BOOLEAN]
      PROVE  TypeInv'
  BY <1>1 DEF TypeInv, RingTypes, ring, chunk
<1>2. ASSUME NEW p \in Procs, Schedule(p) PROVE TypeInv'
  BY <1>1, <1>2 DEF Schedule, TypeInv, PlacesOK, RingTypes
<1>3. ASSUME NEW p \in Procs, NEW n \in Counts, Read(p, n) \/ Write(p, n) PROVE TypeInv'
  BY <1>1, <1>3, BoundsAreNumbers DEF Read, Write, Goto, TypeInv, PlacesOK, Places, RingTypes
<1>4. ASSUME NEW p \in Procs, NEW place \in Places, WakeAndGoto(p, place)
      PROVE  pc' \in [Procs -> Places]
  BY <1>4 DEF WakeAndGoto, TypeInv, PlacesOK, Places
<1>5. ASSUME NEW p \in Procs, ReadEmpty(p) \/ ReadDone(p) \/ WriteFull(p) \/ WriteDone(p)
      PROVE  TypeInv'
  <2>1. pc' \in [Procs -> Places]
    BY <1>4, <1>5 DEF ReadEmpty, ReadDone, WriteFull, WriteDone, Places
  <2>2. left' \in [Procs -> Nat] /\ UNCHANGED <<ring, received, chunk, cpu>>
    BY <1>5 DEF ReadEmpty, ReadDone, WriteFull, WriteDone, TypeInv, RingTypes
  <2>3. sigpipe' \in [Procs -> BOOLEAN]
    <3>1. sigpipe' = sigpipe \/ sigpipe' = [sigpipe EXCEPT ![p] = @ \/ i_count # 2]
      BY <1>5 DEF ReadEmpty, ReadDone, WriteFull, WriteDone
    <3>2. (sigpipe[p] \/ i_count # 2) \in BOOLEAN
      OBVIOUS
    <3> QED
      BY <3>1, <3>2, Zenon DEF TypeInv
  <2> QED
    BY <1>1, <2>1, <2>2, <2>3 DEF TypeInv, PlacesOK
<1>6. ASSUME NEW p \in Procs, NEW e \in Ends, Close(p, e) PROVE TypeInv'
  <2>1. pc' \in [Procs -> Places]
    BY <1>4, <1>6 DEF Close, Places, TypeInv, PlacesOK
  <2> QED
    BY <1>1, <1>6, <2>1 DEF Close, TypeInv, PlacesOK, RingTypes
<1>7. ASSUME NEW p \in Procs, NEW q \in Procs, Fork(p, q) PROVE TypeInv'
  BY <1>1, <1>7 DEF Fork, TypeInv, PlacesOK, RingTypes
<1>8. CASE UNCHANGED vars
  BY <1>1, <1>8 DEF vars, TypeInv, PlacesOK, RingTypes
<1> QED
  BY <1>2, <1>3, <1>5, <1>6, <1>7, <1>8, ReadChunkTypes, WriteChunkTypes, CopyInTypes,
     CopyOutTypes DEF Next, KernelStep, CloseOne, Call

\* No call leaves the page or its own count, whether or not copy loops sleep.
THEOREM TypeCorrect == Spec => []TypeOK
<1>1. Init => TypeInv
  BY PageHasRoom, CreatorIsProcess DEF Init, TypeInv, PlacesOK, Places, RingTypes
<1>2. TypeInv /\ CountsInv => TypeOK
  <2>1. CountsInv => i_count \in 0 .. 2
    BY OpenEnds DEF CountsInv
  <2> QED
    BY <2>1 DEF TypeInv, CountsInv, PlacesOK, RingTypes, TypeOK
<1> QED
  BY <1>1, <1>2, CountsInit, CountsInductive, TypesInductive, PTL DEF Spec

-----------------------------------------------------------------------------

\* A process in a call has a descriptor for the end it uses.
HoldsItsEnd ==
    \A p \in Procs :
        /\ pc[p] \in {"read", "copyOut", "readSleep"} => "r" \in filp[p]
        /\ pc[p] \in {"write", "copyIn", "writeSleep"} => "w" \in filp[p]

LEMMA HoldsInductive ==
    ASSUME PlacesOK, CountsInv, HoldsItsEnd, [Next]_vars PROVE HoldsItsEnd'
<1> USE DEF PlacesOK, HoldsItsEnd
<1>1. ASSUME filp' = filp, NEW p \in Procs,
             \A q \in Procs \ {p} : pc'[q] = IF pc[q] = "readSleep" THEN "read"
                                             ELSE IF pc[q] = "writeSleep" THEN "write"
                                             ELSE pc[q],
             pc'[p] \in {"read", "copyOut", "readSleep"} => "r" \in filp[p],
             pc'[p] \in {"write", "copyIn", "writeSleep"} => "w" \in filp[p]
      PROVE  HoldsItsEnd'
  BY <1>1
<1>2. ASSUME filp' = filp, NEW p \in Procs, NEW place \in Places,
             pc' = [pc EXCEPT ![p] = place],
             place \in {"read", "copyOut", "readSleep"} => "r" \in filp[p],
             place \in {"write", "copyIn", "writeSleep"} => "w" \in filp[p]
      PROVE  HoldsItsEnd'
  BY <1>2
<1>3. ASSUME NEW p \in Procs, NEW n \in Counts, Read(p, n) \/ Write(p, n) PROVE HoldsItsEnd'
  BY <1>2, <1>3 DEF Read, Write, Goto, Places, files
<1>4. ASSUME NEW p \in Procs, ReadChunk(p) \/ CopyOut(p) \/ WriteChunk(p) \/ CopyIn(p)
      PROVE  HoldsItsEnd'
  BY <1>2, <1>4 DEF ReadChunk, CopyOut, WriteChunk, CopyIn, At, Goto, Places, files
<1>5. ASSUME NEW p \in Procs, ReadEmpty(p) \/ ReadDone(p) \/ WriteFull(p) \/ WriteDone(p)
      PROVE  HoldsItsEnd'
  BY <1>1, <1>5 DEF ReadEmpty, ReadDone, WriteFull, WriteDone, At, WakeAndGoto, files
<1>6. ASSUME NEW p \in Procs, NEW e \in Ends, Close(p, e) PROVE HoldsItsEnd'
  <2>1. filp' = [filp EXCEPT ![p] = @ \ {e}] /\ pc[p] = "user"
    BY <1>6 DEF Close, At
  <2>2. /\ pc'[p] = "user"
        /\ \A q \in Procs : \/ pc'[q] \in {pc[q], "user"}
                            \/ pc[q] = "readSleep" /\ pc'[q] = "read"
                            \/ pc[q] = "writeSleep" /\ pc'[q] = "write"
    BY <1>6 DEF Close, At, WakeAndGoto
  <2>3. \A q \in Procs \ {p} : filp'[q] = filp[q]
    BY <2>1 DEF CountsInv
  <2> QED
    BY <2>2, <2>3
<1>7. ASSUME NEW p \in Procs, NEW q \in Procs, Fork(p, q) PROVE HoldsItsEnd'
  <2>1. pc' = pc /\ filp' = [filp EXCEPT ![q] = filp[p]] /\ filp[q] = {}
    BY <1>7 DEF Fork, CountsInv
  <2> QED
    BY <2>1 DEF CountsInv
<1>8. ASSUME NEW p \in Procs, Schedule(p) PROVE HoldsItsEnd'
  BY <1>8 DEF Schedule, files
<1>9. CASE UNCHANGED vars
  BY <1>9 DEF vars, files
<1> QED
  BY <1>3, <1>4, <1>5, <1>6, <1>7, <1>8, <1>9 DEF Next, KernelStep, CloseOne, Call

\* The test i_count != 2 of a process in a call tells that the other end is closed.
LEMMA OtherEndClosed ==
    ASSUME CountsInv, HoldsItsEnd, NEW p \in Procs, i_count # 2
    PROVE  /\ pc[p] = "read" => \A q \in Procs : "w" \notin filp[q]
           /\ pc[p] = "write" => \A q \in Procs : "r" \notin filp[q]
<1>1. ASSUME NEW e \in Open, NEW d \in Ends \ {e} PROVE \A q \in Procs : d \notin filp[q]
  <2>1. d \notin Open
    BY <1>1, OpenEnds DEF CountsInv
  <2> QED
    BY <1>1, <2>1 DEF Open, Holders
<1>2. pc[p] = "read" => "r" \in Open
  BY DEF HoldsItsEnd, Open, Holders, Ends
<1>3. pc[p] = "write" => "w" \in Open
  BY DEF HoldsItsEnd, Open, Holders, Ends
<1> QED
  BY <1>1, <1>2, <1>3 DEF Ends

\* Short reads and SIGPIPE come only when the other end has been closed by all.
THEOREM ReturnsAreHonest == Spec => HonestReturns
<1> DEFINE Inv == TypeInv /\ CountsInv /\ HoldsItsEnd
           Honest == \A p \in Procs :
                        /\ pc[p] = "read" /\ pc'[p] = "user" /\ left[p] > 0 =>
                              PIPE_SIZE = 0 /\ \A q \in Procs : "w" \notin filp[q]
                        /\ sigpipe'[p] /\ ~ sigpipe[p] => \A q \in Procs : "r" \notin filp[q]
<1>1. Init => Inv
  <2>1. Init => TypeInv
    BY PageHasRoom, CreatorIsProcess DEF Init, TypeInv, PlacesOK, Places, RingTypes
  <2> QED
    BY <2>1, CountsInit DEF Init, HoldsItsEnd
<1>2. Inv /\ [Next]_vars => Inv'
  BY TypesInductive, CountsInductive, HoldsInductive DEF TypeInv
<1>3. Inv /\ [Next]_vars => [Honest]_vars
  <2> SUFFICES ASSUME Inv, Next PROVE Honest
    OBVIOUS
  <2>1. ASSUME sigpipe' = sigpipe,
               \A q \in Procs : pc[q] = "read" /\ pc'[q] = "user" => left[q] = 0
        PROVE  Honest
    BY <2>1
  <2>2. ASSUME NEW p \in Procs, Schedule(p) PROVE Honest
    BY <2>1, <2>2 DEF Schedule
  <2>3. ASSUME NEW p \in Procs, NEW n \in Counts, Read(p, n) \/ Write(p, n) PROVE Honest
    BY <2>1, <2>3 DEF Read, Write, At, Goto, TypeInv, PlacesOK
  <2>4. ASSUME NEW p \in Procs, ReadChunk(p) \/ CopyOut(p) \/ WriteChunk(p) \/ CopyIn(p)
        PROVE  Honest
    BY <2>1, <2>4 DEF ReadChunk, CopyOut, WriteChunk, CopyIn, At, Goto, TypeInv, PlacesOK
  <2>5. ASSUME NEW p \in Procs, ReadDone(p) \/ WriteDone(p) PROVE Honest
    BY <2>1, <2>5 DEF ReadDone, WriteDone, At, WakeAndGoto
  <2>6. ASSUME NEW p \in Procs, ReadEmpty(p) PROVE Honest
    <3>1. /\ \A q \in Procs \ {p} : pc[q] = "read" => pc'[q] = "read"
          /\ pc[p] = "read" /\ PIPE_SIZE = 0 /\ sigpipe' = sigpipe
          /\ pc'[p] = "user" => i_count # 2
      BY <2>6 DEF ReadEmpty, WakeAndGoto, At
    <3> QED
      BY <3>1, OtherEndClosed
  <2>7. ASSUME NEW p \in Procs, WriteFull(p) PROVE Honest
    <3>1. /\ \A q \in Procs : pc[q] = "read" => pc'[q] = "read"
          /\ pc[p] = "write" /\ sigpipe' = [sigpipe EXCEPT ![p] = @ \/ i_count # 2]
      BY <2>7 DEF WriteFull, WakeAndGoto, At
    <3>2. \A q \in Procs : sigpipe'[q] /\ ~ sigpipe[q] => q = p /\ i_count # 2
      BY <3>1 DEF TypeInv
    <3> QED
      BY <3>1, <3>2, OtherEndClosed
  <2>8. ASSUME NEW p \in Procs, NEW e \in Ends, Close(p, e) PROVE Honest
    BY <2>1, <2>8 DEF Close, At, WakeAndGoto
  <2>9. ASSUME NEW p \in Procs, NEW q \in Procs, Fork(p, q) PROVE Honest
    BY <2>1, <2>9 DEF Fork
  <2> HIDE DEF Honest, Inv
  <2> QED
    BY <2>2, <2>3, <2>4, <2>5, <2>6, <2>7, <2>8, <2>9 DEF Next, KernelStep, CloseOne, Call
<1> QED
  BY <1>1, <1>2, <1>3, PTL DEF Spec, HonestReturns

(***************************************************************************)
(* The page implements ByteStream.  A byte is the number of its writing,   *)
(* so that what is in the pipe is a run of consecutive numbers.            *)
(***************************************************************************)
Numbers(r, s) == [i \in 1 .. s - r |-> r + i]

LEMMA NumbersAreSequence ==
    ASSUME NEW r \in Nat, NEW s \in Nat, r <= s
    PROVE  Numbers(r, s) \in Seq(Nat) /\ Len(Numbers(r, s)) = s - r
<1>1. s - r \in Nat /\ Numbers(r, s) \in [1 .. s - r -> Nat]
  BY DEF Numbers
<1> HIDE DEF Numbers
<1> QED
  BY <1>1, TableIsSequence

LEMMA SameSequence ==
    ASSUME NEW n \in Nat, NEW a \in Seq(Nat), NEW b \in Seq(Nat), Len(a) = n, Len(b) = n,
           \A i \in 1 .. n : a[i] = b[i]
    PROVE  a = b
  BY SeqEqual

\* Two runs that meet are one.
LEMMA NumbersJoin ==
    ASSUME NEW r \in Nat, NEW s \in Nat, NEW t \in Nat, r <= s, s <= t
    PROVE  Numbers(r, s) \o Numbers(s, t) = Numbers(r, t)
<1> DEFINE a == Numbers(r, s)
           b == Numbers(s, t)
<1>1. a \in Seq(Nat) /\ Len(a) = s - r
  BY NumbersAreSequence
<1>2. b \in Seq(Nat) /\ Len(b) = t - s
  BY NumbersAreSequence
<1>3. Numbers(r, t) \in Seq(Nat) /\ Len(Numbers(r, t)) = t - r
  <2>1. r <= t
    OBVIOUS
  <2> QED
    BY <2>1, NumbersAreSequence
<1>4. \A i \in 1 .. s - r : a[i] = r + i
  BY DEF Numbers
<1>5. \A i \in 1 .. t - s : b[i] = s + i
  BY DEF Numbers
<1>6. \A i \in 1 .. t - r : Numbers(r, t)[i] = r + i
  BY DEF Numbers
<1> HIDE DEF a, b
<1>7. /\ a \o b \in Seq(Nat) /\ Len(a \o b) = t - r
      /\ \A i \in 1 .. t - r : (a \o b)[i] = IF i <= s - r THEN a[i] ELSE b[i - (s - r)]
  <2>1. /\ a \o b \in Seq(Nat) /\ Len(a \o b) = Len(a) + Len(b)
        /\ \A i \in 1 .. Len(a) + Len(b) :
              (a \o b)[i] = IF i <= Len(a) THEN a[i] ELSE b[i - Len(a)]
    BY <1>1, <1>2, ConcatProperties
  <2>2. Len(a) = s - r /\ Len(a) + Len(b) = t - r
    BY <1>1, <1>2
  <2> QED
    BY <2>1, <2>2
<1>8. \A i \in 1 .. t - r : (a \o b)[i] = Numbers(r, t)[i]
  <2> SUFFICES ASSUME NEW i \in 1 .. t - r PROVE (a \o b)[i] = r + i
    BY <1>6
  <2>1. CASE i <= s - r
    BY <1>4, <1>7, <2>1
  <2>2. CASE ~ (i <= s - r)
    BY <1>5, <1>7, <2>2
  <2> QED
    BY <2>1, <2>2
<1>9. t - r \in Nat
  OBVIOUS
<1>10. a \o b = Numbers(r, t)
  BY <1>3, <1>7, <1>8, <1>9, SameSequence
<1> QED
  BY <1>10 DEF a, b

\* A run is the join of its beginning and its end.
LEMMA NumbersSplit ==
    ASSUME NEW r \in Nat, NEW s \in Nat, NEW t \in Nat, r <= s, s <= t
    PROVE  /\ SubSeq(Numbers(r, t), 1, s - r) = Numbers(r, s)
           /\ SubSeq(Numbers(r, t), (s - r) + 1, t - r) = Numbers(s, t)
<1> DEFINE c == Numbers(r, t)
           a == SubSeq(c, 1, s - r)
           b == SubSeq(c, (s - r) + 1, t - r)
<1>1. \A i \in 1 .. t - r : c[i] = r + i
  BY DEF Numbers
<1> HIDE DEF c
<1>2. a \in Seq(Nat) /\ Len(a) = s - r /\ \A i \in 1 .. s - r : a[i] = c[i]
  <2>1. \A i \in 1 .. s - r : c[i] \in Nat
    BY <1>1
  <2> QED
    BY <2>1, SubSeqProperties
<1>3. b \in Seq(Nat) /\ Len(b) = t - s /\ \A i \in 1 .. t - s : b[i] = c[(s - r) + i]
  <2>1. \A i \in (s - r) + 1 .. t - r : c[i] \in Nat
    BY <1>1
  <2> QED
    BY <2>1, SubSeqProperties
<1>4. Numbers(r, s) \in Seq(Nat) /\ Len(Numbers(r, s)) = s - r
  BY NumbersAreSequence
<1>5. Numbers(s, t) \in Seq(Nat) /\ Len(Numbers(s, t)) = t - s
  BY NumbersAreSequence
<1> HIDE DEF a, b
<1>6. \A i \in 1 .. s - r : a[i] = Numbers(r, s)[i]
  <2>1. \A i \in 1 .. s - r : Numbers(r, s)[i] = r + i
    BY DEF Numbers
  <2> QED
    BY <1>1, <1>2, <2>1
<1>7. \A i \in 1 .. t - s : b[i] = Numbers(s, t)[i]
  <2>1. \A i \in 1 .. t - s : Numbers(s, t)[i] = s + i
    BY DEF Numbers
  <2> QED
    BY <1>1, <1>3, <2>1
<1>8. a = Numbers(r, s)
  BY <1>2, <1>4, <1>6, SameSequence
<1>9. b = Numbers(s, t)
  BY <1>3, <1>5, <1>7, SameSequence
<1> QED
  BY <1>8, <1>9 DEF a, b, c

\* The first n cells after tail hold consecutive bytes.
LEMMA BufferedRun ==
    ASSUME RingTypes, NEW n \in 0 .. Size, Filled(n), sent - Size \in Nat
    PROVE  SubSeq(Buffered, 1, n) = Numbers(sent - Size, sent - Size + n)
<1>1. /\ PIPE_SIZE = Size /\ Size \in 0 .. PAGE_SIZE - 1
      /\ tail \in 0 .. PAGE_SIZE - 1 /\ sent \in Nat
      /\ page \in [0 .. PAGE_SIZE - 1 -> Nat]
  BY SizeIsDistance DEF RingTypes
<1>2. ASSUME NEW i \in 1 .. Size
      PROVE  /\ (tail + i - 1) % PAGE_SIZE \in 0 .. PAGE_SIZE - 1
             /\ Dist((tail + i - 1) % PAGE_SIZE) = i - 1
  <2>1. CASE tail + i - 1 < PAGE_SIZE
    <3>1. tail + i - 1 \in 0 .. PAGE_SIZE - 1
      BY <1>1, <1>2, <2>1, PageHasRoom
    <3>2. (tail + i - 1) % PAGE_SIZE = tail + i - 1
      BY <3>1, MaskedPointers
    <3> QED
      BY <1>1, <1>2, <3>1, <3>2 DEF Dist
  <2>2. CASE tail + i - 1 >= PAGE_SIZE
    <3>1. tail + i - 1 - PAGE_SIZE \in 0 .. PAGE_SIZE - 1 /\ tail + i - 1 - PAGE_SIZE < tail
      BY <1>1, <1>2, <2>2, PageHasRoom
    <3>2. (tail + i - 1) % PAGE_SIZE = tail + i - 1 - PAGE_SIZE
      BY <1>1, <1>2, <3>1, PageHasRoom
    <3> QED
      BY <1>1, <1>2, <3>1, <3>2, PageHasRoom DEF Dist
  <2> QED
    BY <1>1, <1>2, <2>1, <2>2, PageHasRoom
<1>3. Buffered \in Seq(Nat) /\ Len(Buffered) = Size
  <2>1. Buffered \in [1 .. Size -> Nat]
    BY <1>1, <1>2 DEF Buffered
  <2>2. Size \in Nat
    BY <1>1, PageHasRoom
  <2> HIDE DEF Buffered
  <2> QED
    BY <2>1, <2>2, TableIsSequence
<1>4. ASSUME NEW i \in 1 .. n PROVE Buffered[i] = sent - Size + i
  <2>1. i \in 1 .. Size
    BY <1>1, <1>4
  <2>2. Buffered[i] = page[(tail + i - 1) % PAGE_SIZE]
    BY <1>1, <2>1 DEF Buffered
  <2>3. PICK c \in 0 .. PAGE_SIZE - 1 : c = (tail + i - 1) % PAGE_SIZE
    BY <1>2, <2>1
  <2>4. Dist(c) = i - 1
    BY <1>2, <2>1, <2>3
  <2>5. page[c] = sent - Size + Dist(c) + 1
    BY <1>1, <1>4, <2>3, <2>4 DEF Filled
  <2> QED
    BY <1>1, <1>4, <2>2, <2>3, <2>4, <2>5
<1> DEFINE a == SubSeq(Buffered, 1, n)
           b == Numbers(sent - Size, sent - Size + n)
<1>5. a \in Seq(Nat) /\ Len(a) = n /\ \A i \in 1 .. n : a[i] = Buffered[i]
  <2>1. n \in Nat /\ n <= Size /\ \A i \in 1 .. n : Buffered[i] \in Nat
    BY <1>1, <1>3
  <2> QED
    BY <2>1, SubSeqProperties
<1>6. b \in Seq(Nat) /\ Len(b) = n
  <2>1. sent - Size \in Nat /\ n \in Nat /\ sent - Size + n \in Nat /\ sent - Size <= sent - Size + n
    BY <1>1, PageHasRoom
  <2>2. PICK m \in Nat : m = sent - Size
    BY <2>1
  <2>3. Numbers(m, m + n) \in Seq(Nat) /\ Len(Numbers(m, m + n)) = (m + n) - m
    BY <2>1, <2>2, NumbersAreSequence
  <2>4. (m + n) - m = n
    BY <2>1, <2>2
  <2> QED
    BY <2>2, <2>3, <2>4
<1>7. \A i \in 1 .. n : b[i] = sent - Size + i
  BY <1>1 DEF Numbers
<1>8. \A i \in 1 .. n : a[i] = b[i]
  BY <1>4, <1>5, <1>7
<1> HIDE DEF a, b
<1>9. a = b
  BY <1>5, <1>6, <1>8
<1> QED
  BY <1>9 DEF a, b

\* How many bytes have been written as far as the stream is concerned.
Written == sent - Pending

StreamRuns ==
    /\ Written \in Nat /\ Len(received) \in Nat /\ Len(received) <= Written
    /\ Stream = Numbers(Len(received), Written)

LEMMA StreamIsNumbers == FifoInv => StreamRuns
<1> SUFFICES ASSUME FifoInv PROVE StreamRuns
  OBVIOUS
<1> DEFINE r == Len(received)
<1>1. /\ PIPE_SIZE = Size /\ Size \in 0 .. PAGE_SIZE - 1 /\ sent \in Nat /\ r \in Nat
      /\ RingTypes
  BY SizeIsDistance DEF FifoInv, RingTypes
<1>2. CASE \A p \in Procs : pc[p] \notin Copies
  <2>1. CopyingIn = {} /\ CopyingOut = {} /\ NoCopy
    BY <1>2 DEF CopyingIn, CopyingOut, Copies, FifoInv, RingInv
  <2>2. Pending = 0 /\ Stream = <<>> \o SubSeq(Buffered, 1, Size)
    BY <1>1, <2>1 DEF Pending, Stream
  <2>3. SubSeq(Buffered, 1, Size) = Numbers(r, sent)
    <3>1. sent - Size = r /\ Filled(Size) /\ Size \in 0 .. Size /\ sent - Size + Size = sent
      BY <1>1, <2>1 DEF NoCopy
    <3> QED
      BY <1>1, <3>1, BufferedRun
  <2>4. r <= sent
    BY <1>1, <2>1 DEF NoCopy
  <2>5. Numbers(r, sent) \in Seq(Nat)
    BY <1>1, <2>4, NumbersAreSequence
  <2>6. Stream = Numbers(r, sent)
    BY <2>2, <2>3, <2>5
  <2> QED
    BY <1>1, <2>2, <2>4, <2>6 DEF Written, StreamRuns
<1>3. ASSUME NEW p \in Procs, pc[p] = "copyIn"
      PROVE  /\ Written \in Nat /\ r <= Written
             /\ Stream = Numbers(r, Written)
  <2>1. CopyingIn = {p} /\ CopyingOut = {} /\ CopyInGoesOn(p)
    BY <1>3 DEF CopyingIn, CopyingOut, FifoInv, RingInv, CopierRuns, Copies
  <2>2. Pending = chars[p] /\ chars[p] \in 1 .. Size /\ r = sent - Size
        /\ Filled(Size - chars[p])
    BY <2>1 DEF Pending, CopyInGoesOn
  <2>3. Stream = <<>> \o SubSeq(Buffered, 1, Size - chars[p])
    BY <1>1, <2>1, <2>2 DEF Stream
  <2>4. Size - chars[p] \in 0 .. Size /\ sent - Size + (Size - chars[p]) = Written
        /\ Written \in Nat /\ r <= Written
    BY <1>1, <2>2 DEF Written
  <2>5. SubSeq(Buffered, 1, Size - chars[p]) = Numbers(r, Written)
    BY <1>1, <2>2, <2>4, BufferedRun
  <2>6. Numbers(r, Written) \in Seq(Nat)
    BY <1>1, <2>4, NumbersAreSequence
  <2> QED
    BY <2>3, <2>4, <2>5, <2>6
<1>4. ASSUME NEW p \in Procs, pc[p] = "copyOut"
      PROVE  /\ Written \in Nat /\ r <= Written
             /\ Stream = Numbers(r, Written)
  <2>1. CopyingIn = {} /\ CopyingOut = {p} /\ CopyOutGoesOn(p)
    BY <1>4 DEF CopyingIn, CopyingOut, FifoInv, RingInv, CopierRuns, Copies
  <2>2. /\ Pending = 0 /\ Written = sent /\ chars[p] \in Nat
        /\ r + chars[p] = sent - Size /\ Filled(Size)
    BY <1>1, <2>1, PageHasRoom DEF Pending, Written, CopyOutGoesOn, RingTypes
  <2> DEFINE out == [i \in 1 .. chars[p] |-> page[from[p] + i - 1]]
  <2>3. Stream = out \o SubSeq(Buffered, 1, Size)
    <3>1. (CHOOSE q \in CopyingOut : TRUE) = p /\ CopyingOut # {}
      BY <2>1
    <3>2. PIPE_SIZE - Pending = Size
      BY <1>1, <2>2, PageHasRoom
    <3> QED
      BY <3>1, <3>2, Zenon DEF Stream
  <2>4. out = Numbers(r, r + chars[p])
    <3>1. \A j \in 1 .. chars[p] : page[from[p] + j - 1] = r + j
      BY <2>1 DEF CopyOutGoesOn
    <3>2. (r + chars[p]) - r = chars[p]
      BY <1>1, <2>2
    <3> QED
      BY <3>1, <3>2 DEF Numbers
  <2>5. SubSeq(Buffered, 1, Size) = Numbers(r + chars[p], sent)
    <3>1. sent - Size \in Nat /\ Size \in 0 .. Size /\ sent - Size + Size = sent
      BY <1>1, <2>2, PageHasRoom
    <3> QED
      BY <1>1, <2>2, <3>1, BufferedRun
  <2>6. r + chars[p] \in Nat /\ r <= r + chars[p] /\ r + chars[p] <= sent
    BY <1>1, <2>2
  <2> HIDE DEF out
  <2>7. Stream = Numbers(r, r + chars[p]) \o Numbers(r + chars[p], sent)
    BY <2>3, <2>4, <2>5
  <2>8. Stream = Numbers(r, sent)
    BY <1>1, <2>6, <2>7, NumbersJoin
  <2> QED
    BY <1>1, <2>2, <2>6, <2>8
<1> QED
  BY <1>1, <1>2, <1>3, <1>4 DEF Copies, StreamRuns

LEMMA StreamIsNumbersNext == FifoInv' => StreamRuns'
  BY StreamIsNumbers, PTL

\* What is copied in is put into the stream.
LEMMA CopyInPuts ==
    ASSUME FifoInv, FifoInv', NEW p \in Procs, CopyIn(p) PROVE Bytes!Put
<1>1. CopyInGoesOn(p) /\ CopyingIn = {p}
  BY DEF FifoInv, RingInv, CopyIn, At, CopyingIn, CopierRuns, Copies
<1>2. /\ chars[p] \in 1 .. Size /\ Size \in 0 .. PAGE_SIZE - 1 /\ sent \in Nat
      /\ Pending = chars[p] /\ Len(received) = sent - Size
  BY <1>1, SizeIsDistance DEF CopyInGoesOn, Pending, FifoInv, RingTypes
<1>3. sent' = sent /\ received' = received /\ pc' = [pc EXCEPT ![p] = "write"]
  BY DEF CopyIn, Goto
<1>4. CopyingIn' = {}
  BY <1>1, <1>3 DEF CopyingIn, FifoInv, PlacesOK
<1>5. Written' = sent /\ Written = sent - chars[p]
  BY <1>2, <1>3, <1>4 DEF Written, Pending
<1> DEFINE r == Len(received)
           n == chars[p]
<1>6. /\ Written \in Nat /\ r \in Nat /\ r <= Written /\ Stream = Numbers(r, Written)
      /\ Stream' = Numbers(r, Written')
  BY <1>3, StreamIsNumbers, StreamIsNumbersNext DEF StreamRuns
<1>7. Len(Stream) = Written - r
  BY <1>6, NumbersAreSequence
<1>8. n \in 1 .. (PAGE_SIZE - 1) - Len(Stream) /\ Written + n = sent /\ Written <= sent
  BY <1>2, <1>5, <1>6, <1>7, PageHasRoom
<1>9. Stream' = Stream \o [i \in 1 .. n |-> Written + i]
  <2>1. Stream' = Numbers(r, Written) \o Numbers(Written, sent)
    <3>1. Numbers(r, Written) \o Numbers(Written, sent) = Numbers(r, sent)
      BY <1>2, <1>6, <1>8, NumbersJoin
    <3> QED
      BY <1>5, <1>6, <3>1
  <2>2. Numbers(Written, sent) = [i \in 1 .. n |-> Written + i]
    <3>1. sent - Written = n
      BY <1>2, <1>5
    <3> QED
      BY <3>1 DEF Numbers
  <2> QED
    BY <1>6, <2>1, <2>2
<1> QED
  BY <1>3, <1>5, <1>8, <1>9 DEF Bytes!Put, Written

\* What is copied out is taken from the stream.
LEMMA CopyOutTakes ==
    ASSUME FifoInv, FifoInv', NEW p \in Procs, CopyOut(p) PROVE Bytes!Take
<1>1. CopyOutGoesOn(p) /\ CopyingIn = {} /\ pc' = [pc EXCEPT ![p] = "read"]
  BY DEF FifoInv, RingInv, CopyOut, At, CopyingIn, CopierRuns, Copies, Goto
<1>2. /\ chars[p] \in Nat \ {0} /\ Size \in 0 .. PAGE_SIZE - 1 /\ sent \in Nat
      /\ Len(received) + chars[p] = sent - Size
      /\ \A j \in 1 .. chars[p] : page[from[p] + j - 1] = Len(received) + j
  <2>1. RingTypes /\ Size \in 0 .. PAGE_SIZE - 1
    BY SizeIsDistance DEF FifoInv
  <2>2. chars[p] \in Nat /\ sent \in Nat
    BY <2>1, PageHasRoom DEF RingTypes
  <2> QED
    BY <1>1, <2>1, <2>2 DEF CopyOutGoesOn
<1>3. CopyingIn' = {}
  BY <1>1 DEF CopyingIn, FifoInv, PlacesOK
<1>4. Written = sent /\ Written' = sent
  BY <1>1, <1>2, <1>3 DEF Written, Pending, CopyOut, ring
<1> DEFINE r == Len(received)
           n == chars[p]
           out == [i \in 1 .. n |-> page[from[p] + i - 1]]
<1>5. received' = received \o out
  BY DEF CopyOut
<1>6. /\ r \in Nat /\ r <= sent /\ Stream = Numbers(r, sent)
      /\ Stream' = Numbers(Len(received'), sent)
  BY <1>4, StreamIsNumbers, StreamIsNumbersNext DEF StreamRuns
<1>7. out = Numbers(r, r + n)
  <2>1. (r + n) - r = n
    BY <1>2, <1>6
  <2> QED
    BY <1>2, <2>1 DEF Numbers
<1>9. /\ r + n \in Nat /\ r <= r + n /\ r + n <= sent /\ (r + n) - r = n
      /\ n \in 1 .. sent - r
  BY <1>2, <1>6, PageHasRoom
<1>8. Len(received') = r + n
  <2>1. Numbers(r, r + n) \in Seq(Nat) /\ Len(Numbers(r, r + n)) = (r + n) - r
    BY <1>6, <1>9, NumbersAreSequence
  <2>2. received \in Seq(Nat)
    BY DEF FifoInv, RingTypes
  <2>3. received' = received \o Numbers(r, r + n)
    BY <1>5, <1>7
  <2> HIDE DEF out
  <2>4. Len(received') = Len(received) + Len(Numbers(r, r + n))
    BY <2>1, <2>2, <2>3
  <2> QED
    BY <1>9, <2>1, <2>4
<1> HIDE DEF out
<1>10. Len(Stream) = sent - r
  BY <1>2, <1>6, NumbersAreSequence
<1>11. PICK k \in Nat : k = r + n
  BY <1>9
<1>12. /\ SubSeq(Stream, 1, n) = Numbers(r, r + n)
       /\ SubSeq(Stream, n + 1, Len(Stream)) = Numbers(r + n, sent)
  <2>0. r \in Nat /\ sent \in Nat /\ r <= k /\ k <= sent
    BY <1>2, <1>6, <1>9, <1>11
  <2> HIDE DEF r
  <2>1. /\ SubSeq(Numbers(r, sent), 1, k - r) = Numbers(r, k)
        /\ SubSeq(Numbers(r, sent), (k - r) + 1, sent - r) = Numbers(k, sent)
    BY <2>0, NumbersSplit
  <2>2. k - r = n
    BY <1>9, <1>11
  <2>3. SubSeq(Stream, 1, n) = Numbers(r, k)
    BY <1>6, <2>1, <2>2
  <2>4. SubSeq(Stream, n + 1, Len(Stream)) = Numbers(k, sent)
    BY <1>6, <1>10, <2>1, <2>2
  <2> QED
    BY <1>11, <2>3, <2>4
<1>13. received' = received \o SubSeq(Stream, 1, n)
  BY <1>5, <1>7, <1>12
<1>14. Stream' = SubSeq(Stream, n + 1, Len(Stream))
  BY <1>6, <1>8, <1>12
<1>15. n \in 1 .. Len(Stream)
  BY <1>9, <1>10
<1> QED
  BY <1>4, <1>13, <1>14, <1>15 DEF Bytes!Take, Written

\* A step that leaves the written and the received bytes leaves the stream.
LEMMA StreamStays ==
    ASSUME FifoInv, FifoInv', received' = received, Written' = Written
    PROVE  UNCHANGED Bytes!vars
<1>1. Stream' = Stream
  BY StreamIsNumbers, StreamIsNumbersNext DEF StreamRuns
<1> QED
  BY <1>1 DEF Bytes!vars, Written

LEMMA ChunkTaken ==
    ASSUME FifoInv, FifoInv', NEW p \in Procs, ReadChunk(p) \/ WriteChunk(p)
    PROVE  UNCHANGED Bytes!vars
<1>1. CopyingIn = {} /\ cpu = p /\ cpu' = p
  BY DEF FifoInv, CopierRuns, Copies, CopyingIn, ReadChunk, WriteChunk, At
<1>2. sent \in Nat /\ received' = received
  BY DEF FifoInv, RingTypes, ReadChunk, WriteChunk
<1>3. CASE ReadChunk(p)
  <2>1. CopyingIn' = {} /\ sent' = sent
    BY <1>1, <1>3 DEF CopyingIn, ReadChunk, Goto, FifoInv, PlacesOK
  <2> QED
    BY <1>1, <1>2, <2>1, StreamStays DEF Written, Pending
<1>4. CASE WriteChunk(p)
  <2>1. PICK n : n = Min3(PAGE_SIZE - head, left[p], PAGE_SIZE - 1 - PIPE_SIZE)
    OBVIOUS
  <2>2. chars' = [chars EXCEPT ![p] = n] /\ sent' = sent + n /\ pc' = [pc EXCEPT ![p] = "copyIn"]
    BY <1>4, <2>1 DEF WriteChunk, Goto
  <2>3. CopyingIn' = {p}
    BY <1>1, <2>2 DEF CopyingIn, FifoInv, PlacesOK
  <2>4. chars'[p] = n /\ n \in Nat
    BY <2>2, PageHasRoom DEF FifoInv, RingTypes
  <2>5. Pending' = n /\ Pending = 0
    BY <1>1, <2>3, <2>4 DEF Pending
  <2> QED
    BY <1>2, <2>2, <2>4, <2>5, StreamStays DEF Written
<1> QED
  BY <1>3, <1>4

\* The steps that neither copy nor move a pointer.
LEMMA RingLeftAlone ==
    ASSUME FifoInv, FifoInv', UNCHANGED <<ring, received, chunk>>,
           \A p \in Procs : pc'[p] \in Copies \/ pc[p] \in Copies => pc'[p] = pc[p]
    PROVE  UNCHANGED Bytes!vars
<1>1. CopyingIn' = CopyingIn
  BY DEF CopyingIn, Copies
<1>2. Written' = Written /\ received' = received
  BY <1>1 DEF Written, Pending, ring, chunk
<1> QED
  BY <1>2, StreamStays

\* The code moves pointers before it copies, and sleeps with chunks pending;
\* seen from outside it is a bounded queue of bytes all the same.
THEOREM PipeIsByteStream == ASSUME ~ MayFault PROVE Spec => ImplementsByteStream
<1>1. Init => Bytes!Init
  <2> SUFFICES ASSUME Init PROVE Bytes!Init
    OBVIOUS
  <2>1. FifoInv /\ sent = 0 /\ received = <<>> /\ CopyingIn = {}
    BY FifoInit DEF Init, CopyingIn
  <2>2. Written = 0 /\ Len(received) = 0
    BY <2>1 DEF Written, Pending
  <2>3. Stream = Numbers(0, 0)
    BY <2>1, <2>2, StreamIsNumbers DEF StreamRuns
  <2>4. Numbers(0, 0) \in Seq(Nat) /\ Len(Numbers(0, 0)) = 0
    BY NumbersAreSequence
  <2>5. Stream = <<>>
    BY <2>3, <2>4, EmptySeq
  <2> QED
    BY <2>1, <2>2, <2>5 DEF Bytes!Init, Written
<1>2. ASSUME FifoInv, FifoInv', [Next]_vars PROVE [Bytes!Next]_(Bytes!vars)
  <2>1. ASSUME UNCHANGED <<ring, received, chunk, pc>> PROVE UNCHANGED Bytes!vars
    BY <1>2, <2>1, RingLeftAlone
  <2>2. ASSUME NEW p \in Procs, Schedule(p) PROVE UNCHANGED Bytes!vars
    BY <2>1, <2>2 DEF Schedule
  <2>3. ASSUME NEW p \in Procs, NEW n \in Counts, Read(p, n) \/ Write(p, n)
        PROVE  UNCHANGED Bytes!vars
    <3>1. \A q \in Procs : pc'[q] \in Copies \/ pc[q] \in Copies => pc'[q] = pc[q]
      BY <1>2, <2>3 DEF Read, Write, At, Goto, FifoInv, PlacesOK, Copies
    <3> QED
      BY <1>2, <2>3, <3>1, RingLeftAlone DEF Read, Write
  <2>4. ASSUME NEW p \in Procs,
               ReadEmpty(p) \/ ReadDone(p) \/ WriteFull(p) \/ WriteDone(p)
        PROVE  UNCHANGED Bytes!vars
    <3>1. PICK place \in Places \ Copies : WakeAndGoto(p, place)
      BY <2>4 DEF ReadEmpty, ReadDone, WriteFull, WriteDone, Places, Copies
    <3>2. pc[p] \notin Copies /\ UNCHANGED <<ring, received, chunk>>
      BY <2>4 DEF ReadEmpty, ReadDone, WriteFull, WriteDone, At, Copies
    <3>3. \A q \in Procs : pc'[q] \in Copies \/ pc[q] \in Copies => pc'[q] = pc[q]
      BY <3>1, <3>2 DEF WakeAndGoto, Copies
    <3> QED
      BY <1>2, <3>2, <3>3, RingLeftAlone
  <2>5. ASSUME NEW p \in Procs, NEW e \in Ends, Close(p, e) PROVE UNCHANGED Bytes!vars
    <3>1. WakeAndGoto(p, "user") \/ pc' = pc
      BY <2>5 DEF Close
    <3>2. pc[p] = "user" /\ UNCHANGED <<ring, received, chunk>>
      BY <2>5 DEF Close, At
    <3>3. \A q \in Procs : pc'[q] \in Copies \/ pc[q] \in Copies => pc'[q] = pc[q]
      BY <3>1, <3>2 DEF WakeAndGoto, Copies
    <3> QED
      BY <1>2, <3>2, <3>3, RingLeftAlone
  <2>6. ASSUME NEW p \in Procs, NEW q \in Procs, Fork(p, q) PROVE UNCHANGED Bytes!vars
    BY <2>1, <2>6 DEF Fork
  <2>7. CASE UNCHANGED vars
    BY <2>1, <2>7 DEF vars
  <2>8. ASSUME NEW p \in Procs, KernelStep(p) PROVE [Bytes!Next]_(Bytes!vars)
    BY <1>2, <2>4, <2>8, CopyInPuts, CopyOutTakes, ChunkTaken DEF KernelStep, Bytes!Next
  <2> QED
    BY <1>2, <2>2, <2>3, <2>5, <2>6, <2>7, <2>8 DEF Next, CloseOne, Call
<1> QED
  BY <1>1, <1>2, FifoInit, FifoInductive, PTL DEF Spec, ImplementsByteStream, Bytes!Spec
=============================================================================
