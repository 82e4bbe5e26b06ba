-------------------------- MODULE BufferCacheProofs --------------------------
(***************************************************************************)
(* Proofs about the buffer cache (fs/buffer.c, ll_rw_blk.c): the counts of *)
(* references, the blocks that processes end up with, and the requests     *)
(* that buffers are locked for (nothing is assumed about the device or     *)
(* about faults); and about the data in it, at the end.                    *)
(*                                                                         *)
(* CacheInv is inductive.  It says what the registers of a process hold at *)
(* each place (Shape), that b_count is the number of references, that a    *)
(* buffer in use keeps its block (Knows, BlocksNamed, OneBufferPerBlock),  *)
(* and that a locked buffer has exactly one request, made or about to be   *)
(* made (RequestInv).                                                      *)
(***************************************************************************)
EXTENDS BufferCache, DataLemmas

Reads == {"bread", "breada", "ahead"}

\* A sync of sys_sync, or one that getblk does for the block it looks for.
Syncing(p) == op[p] = "sync" \/ (op[p] \in Reads /\ block[p] \in Blocks /\ bh[p] \in Buffers)

\* What the registers hold at each place.
Shape(p) ==
    /\ pc[p] \in {"user", "copy", "brelse"} => op[p] = "none" /\ scan[p] = 0 /\ first[p] = NULL
    /\ pc[p] \in {"copy", "brelse", "hashWait", "victimWait", "gotBlock"} => bh[p] \in Buffers
    /\ pc[p] \in {"getblk", "bufferWait", "hashWait", "victimWait", "gotBlock"} =>
          op[p] \in Reads /\ block[p] \in Blocks /\ scan[p] = 0 /\ (op[p] # "ahead" => first[p] = NULL)
    /\ pc[p] = "sync" => scan[p] # 0
    /\ pc[p] \in {"sync", "lockBuffer", "findRequest", "requestSleep", "requestWait", "requested"} =>
          IF scan[p] # 0 THEN Syncing(p) /\ (op[p] # "ahead" => first[p] = NULL)
          ELSE /\ op[p] \in Reads /\ block[p] \in Blocks /\ first[p] \in Buffers
               /\ op[p] = "ahead" => bh[p] \in Buffers
    /\ pc[p] \in {"lockBuffer", "findRequest", "requestSleep", "requestWait"} =>
          /\ io[p] \in Buffers
          /\ rw[p] = IF scan[p] # 0 THEN "WRITE" ELSE IF op[p] = "ahead" THEN "READA" ELSE "READ"
          /\ scan[p] = 0 => io[p] = first[p]
    /\ pc[p] = "readWait" => op[p] \in {"bread", "ahead"} /\ scan[p] = 0 /\ first[p] \in Buffers
                             /\ block[p] \in Blocks
    /\ op[p] = "ahead" => first[p] \in Buffers
    /\ op[p] = "breada" => ahead[p] \in Blocks

Asks(p) == pc[p] \in {"findRequest", "requestSleep", "requestWait"}

\* What a process knows of the blocks of its buffers.
Knows(p) ==
    /\ Counted(p) /\ pc[p] # "brelse" => blocknr[bh[p]] = block[p]
    /\ first[p] # NULL /\ op[p] # "ahead" => blocknr[first[p]] = block[p]
    /\ first[p] \notin hold[p]
    /\ op[p] \in {"bread", "breada"} => Wanted(p, block[p])
    /\ pc[p] = "copy" => bh[p] \in hold[p]

BlocksNamed ==
    \A b \in Buffers : count[b] # 0 \/ dirt[b] \/ lock[b] \/ uptodate[b] => blocknr[b] # NULL

\* The list has a slot once, and only slots in use.
ListInv ==
    /\ \A i, j \in 1 .. Len(queue) : i # j => queue[i] # queue[j]
    /\ \A i \in 1 .. Len(queue) : request[queue[i]] # NULL

\* Every request is for a locked buffer of its own ...
TableInv ==
    /\ \A s \in RQ!Slots : request[s] # NULL =>
          /\ reqbh[s] \in Buffers /\ lock[reqbh[s]] /\ request[s].sector = 2 * blocknr[reqbh[s]]
    /\ \A s, t \in RQ!Slots : request[s] # NULL /\ request[t] # NULL /\ reqbh[s] = reqbh[t] => s = t

\* ... and so is the one a process is about to make.
AskInv ==
    \A p \in Procs : Asks(p) =>
        /\ lock[io[p]]
        /\ rw[p] # "WRITE" => ~ uptodate[io[p]]
        /\ \A q \in Procs : Asks(q) /\ io[q] = io[p] => q = p
        /\ \A s \in RQ!Slots : request[s] # NULL => reqbh[s] # io[p]

\* No other buffer is locked.
LockInv ==
    \A b \in Buffers : lock[b] => \/ \E p \in Procs : Asks(p) /\ io[p] = b
                                  \/ \E s \in RQ!Slots : request[s] # NULL /\ reqbh[s] = b

RequestInv == ListInv /\ TableInv /\ AskInv /\ LockInv

CacheInv ==
    /\ TypeOK
    /\ \A p \in Procs : Shape(p)
    /\ CountIsReferences
    /\ OneBufferPerBlock
    /\ BlocksNamed
    /\ \A p \in Procs : Knows(p)
    /\ RequestInv


-----------------------------------------------------------------------------
(* What every step uses: the references of one process are counted, and    *)
(* the other processes are at most woken up.                               *)

Refs(p, b) == One(b \in hold[p]) + One(first[p] = b) + One(Counted(p) /\ bh[p] = b)

\* What a process refers to is counted.
LEMMA ReferredIsCounted ==
    ASSUME CountIsReferences, NEW b \in Buffers, NEW p \in Procs, Refs(p, b) # 0
    PROVE  count[b] \in Nat \ {0}
<1> DEFINE H == {q \in Procs : b \in hold[q]}
           F == {q \in Procs : first[q] = b}
           C == {q \in Procs : Counted(q) /\ bh[q] = b}
<1>1. count[b] = Cardinality(H) + Cardinality(F) + Cardinality(C)
  BY DEF CountIsReferences
<1>2. p \in H \/ p \in F \/ p \in C
  BY DEF Refs, One
<1>3. H \in SUBSET Procs /\ F \in SUBSET Procs /\ C \in SUBSET Procs
  OBVIOUS
<1> HIDE DEF H, F, C
<1>4. IsFiniteSet(H) /\ IsFiniteSet(F) /\ IsFiniteSet(C)
  BY <1>3, ProcsAreFinite, FS_Subset
<1>5. Cardinality(H) \in Nat /\ Cardinality(F) \in Nat /\ Cardinality(C) \in Nat
  BY <1>4, FS_CardinalityType
<1>6. Cardinality(H) # 0 \/ Cardinality(F) # 0 \/ Cardinality(C) # 0
  BY <1>2, <1>4, FS_EmptySet
<1> QED
  BY <1>1, <1>5, <1>6

\* A step that changes the references of p only, and counts them.
LEMMA CountsFollow ==
    ASSUME CountIsReferences, NEW p \in Procs,
           \A q \in Procs \ {p} : /\ hold'[q] = hold[q] /\ first'[q] = first[q]
                                  /\ \A b \in Buffers : Counted(q)' /\ bh'[q] = b <=> Counted(q) /\ bh[q] = b,
           \A b \in Buffers : count'[b] = count[b] + Refs(p, b)' - Refs(p, b)
    PROVE  CountIsReferences'
<1> SUFFICES ASSUME NEW b \in Buffers
             PROVE  count'[b] = Cardinality({q \in Procs : b \in hold'[q]})
                              + Cardinality({q \in Procs : first'[q] = b})
                              + Cardinality({q \in Procs : Counted(q)' /\ bh'[q] = b})
  BY DEF CountIsReferences
<1> DEFINE H == {q \in Procs : b \in hold[q]}
           F == {q \in Procs : first[q] = b}
           C == {q \in Procs : Counted(q) /\ bh[q] = b}
           H1 == {q \in Procs : b \in hold'[q]}
           F1 == {q \in Procs : first'[q] = b}
           C1 == {q \in Procs : Counted(q)' /\ bh'[q] = b}
<1>1. count[b] = Cardinality(H) + Cardinality(F) + Cardinality(C)
  BY DEF CountIsReferences
<1>2. /\ H \ {p} = H1 \ {p} /\ F \ {p} = F1 \ {p} /\ C \ {p} = C1 \ {p}
      /\ H \in SUBSET Procs /\ F \in SUBSET Procs /\ C \in SUBSET Procs
  OBVIOUS
<1>3. /\ Refs(p, b) = One(p \in H) + One(p \in F) + One(p \in C)
      /\ Refs(p, b)' = One(p \in H1) + One(p \in F1) + One(p \in C1)
  BY DEF Refs, One
<1>4. /\ One(p \in H) \in Nat /\ One(p \in F) \in Nat /\ One(p \in C) \in Nat
      /\ One(p \in H1) \in Nat /\ One(p \in F1) \in Nat /\ One(p \in C1) \in Nat
  BY DEF One
<1>10. count'[b] = count[b] + Refs(p, b)' - Refs(p, b)
  OBVIOUS
<1> HIDE DEF H, F, C, H1, F1, C1
<1>5. IsFiniteSet(H) /\ IsFiniteSet(F) /\ IsFiniteSet(C)
  BY <1>2, ProcsAreFinite, FS_Subset
<1>6. /\ Cardinality(H) \in Nat /\ Cardinality(H1) \in Nat
      /\ Cardinality(H1) = Cardinality(H) + One(p \in H1) - One(p \in H)
  BY <1>2, <1>5, OneDiffers
<1>7. /\ Cardinality(F) \in Nat /\ Cardinality(F1) \in Nat
      /\ Cardinality(F1) = Cardinality(F) + One(p \in F1) - One(p \in F)
  BY <1>2, <1>5, OneDiffers
<1>8. /\ Cardinality(C) \in Nat /\ Cardinality(C1) \in Nat
      /\ Cardinality(C1) = Cardinality(C) + One(p \in C1) - One(p \in C)
  BY <1>2, <1>5, OneDiffers
<1>9. count'[b] = Cardinality(H1) + Cardinality(F1) + Cardinality(C1)
  BY <1>1, <1>3, <1>4, <1>6, <1>7, <1>8, <1>10
<1> QED
  BY <1>9 DEF H1, F1, C1

\* The registers of another process stay; it may be woken up.
Stays(q) ==
    /\ op'[q] = op[q] /\ block'[q] = block[q] /\ ahead'[q] = ahead[q] /\ bh'[q] = bh[q]
    /\ first'[q] = first[q] /\ io'[q] = io[q] /\ rw'[q] = rw[q] /\ scan'[q] = scan[q]
    /\ hold'[q] = hold[q]
    /\ \/ pc'[q] = pc[q]
       \/ pc[q] = "bufferWait" /\ pc'[q] = "getblk"
       \/ pc[q] = "requestWait" /\ pc'[q] = "findRequest"

LEMMA ShapeStays == ASSUME NEW q, Shape(q), Stays(q) PROVE Shape(q)'
  BY DEF Shape, Stays, Syncing

LEMMA CountedStays == ASSUME NEW q, Stays(q) PROVE Counted(q)' = Counted(q)
  BY DEF Counted, Stays

LEMMA AsksStays == ASSUME NEW q, Stays(q) PROVE Asks(q)' = Asks(q)
  BY DEF Asks, Stays

Others(p) == \A q \in Procs \ {p} : Stays(q)

LEMMA CountedByOthers ==
    ASSUME NEW p \in Procs, Others(p), CountIsReferences,
           \A b \in Buffers : count'[b] = count[b] + Refs(p, b)' - Refs(p, b)
    PROVE  CountIsReferences'
<1>1. ASSUME NEW q \in Procs \ {p}
      PROVE  /\ hold'[q] = hold[q] /\ first'[q] = first[q]
             /\ \A b \in Buffers : Counted(q)' /\ bh'[q] = b <=> Counted(q) /\ bh[q] = b
  <2>1. Stays(q)
    BY DEF Others
  <2>2. Counted(q)' = Counted(q)
    BY <2>1, CountedStays
  <2>3. hold'[q] = hold[q] /\ first'[q] = first[q] /\ bh'[q] = bh[q]
    BY <2>1 DEF Stays
  <2> QED
    BY <2>2, <2>3
<1> QED
  BY <1>1, CountsFollow

LEMMA KnowsStays ==
    ASSUME NEW q, Knows(q), Stays(q), blocknr' = blocknr
    PROVE  Knows(q)'
<1>1. Counted(q)' = Counted(q)
  BY CountedStays
<1> QED
  BY <1>1 DEF Knows, Stays, Wanted

\* A step of one process that renames no buffer.
LEMMA OwnStep ==
    ASSUME CacheInv, NEW p \in Procs, Others(p), blocknr' = blocknr, TypeOK', Shape(p)',
           \A b \in Buffers : count'[b] = count[b] + Refs(p, b)' - Refs(p, b),
           BlocksNamed', Knows(p)', RequestInv'
    PROVE  CacheInv'
<1>1. CountIsReferences'
  BY CountedByOthers DEF CacheInv
<1>2. OneBufferPerBlock'
  BY DEF CacheInv, OneBufferPerBlock
<1>3. ASSUME NEW q \in Procs PROVE Shape(q)' /\ Knows(q)'
  <2>1. CASE q = p
    BY <2>1
  <2>2. CASE q # p
    <3>1. Stays(q) /\ Shape(q) /\ Knows(q)
      BY <2>2 DEF Others, CacheInv
    <3> QED
      BY <3>1, ShapeStays, KnowsStays
  <2> QED
    BY <2>1, <2>2
<1> QED
  BY <1>1, <1>2, <1>3 DEF CacheInv

\* The registers of p stay out of the requests.
LEMMA RequestsStay ==
    ASSUME RequestInv, NEW p \in Procs, Others(p),
           \A q \in Procs : Asks(q) => io[q] \in Buffers,
           UNCHANGED <<request, queue, reqbh, lock>>,
           \A b \in Buffers : lock[b] => blocknr'[b] = blocknr[b] /\ uptodate'[b] = uptodate[b],
           Asks(p)' = Asks(p), Asks(p) => io'[p] = io[p] /\ rw'[p] = rw[p]
    PROVE  RequestInv'
<1>1. ASSUME NEW q \in Procs
      PROVE  Asks(q)' = Asks(q) /\ (Asks(q) => io'[q] = io[q] /\ rw'[q] = rw[q])
  <2>1. CASE q # p
    BY <2>1, AsksStays DEF Others, Stays
  <2> QED
    BY <2>1
<1>2. ListInv' /\ TableInv'
  BY DEF RequestInv, ListInv, TableInv
<1>3. AskInv' /\ LockInv'
  BY <1>1 DEF RequestInv, AskInv, LockInv
<1> QED
  BY <1>2, <1>3 DEF RequestInv

LEMMA IoIsBuffer == ASSUME CacheInv PROVE \A q \in Procs : Asks(q) => io[q] \in Buffers
  BY DEF CacheInv, Shape, Asks

LEMMA FindBufferKeeps ==
    ASSUME CacheInv, NEW p \in Procs, FindBuffer(p) PROVE CacheInv' /\ Others(p)
<1>1. TypeOK /\ Shape(p) /\ Knows(p) /\ BlocksNamed /\ RequestInv
  BY DEF CacheInv
<1>2. PICK b \in FoundAt(block[p]) : /\ count' = [count EXCEPT ![b] = @ + 1]
                                     /\ bh' = [bh EXCEPT ![p] = b]
  BY DEF FindBuffer
<1>3. b \in Buffers /\ blocknr[b] = block[p] /\ block[p] \in Blocks /\ pc[p] = "getblk" /\ block[p] # NULL
  BY <1>1, <1>2, NullIsNothing, BlocksAreNumbers DEF FoundAt, FindBuffer, At, Shape
<1>4. TypeOK'
  BY <1>1, <1>2, <1>3 DEF TypeOK, FindBuffer, Goto, dev, RQ!TypeOK
<1>5. Others(p)
  BY <1>1, <1>2 DEF TypeOK, FindBuffer, Goto, Others, Stays
<1>6. Shape(p)'
  BY <1>1, <1>2, <1>3 DEF TypeOK, FindBuffer, Goto, Shape, Syncing
<1>7. ASSUME NEW c \in Buffers PROVE count'[c] = count[c] + Refs(p, c)' - Refs(p, c)
  BY <1>1, <1>2, <1>3 DEF TypeOK, FindBuffer, Goto, Refs, One, Counted
<1>8. BlocksNamed' /\ Knows(p)'
  BY <1>1, <1>2, <1>3 DEF TypeOK, FindBuffer, Goto, BlocksNamed, Knows, Counted, Wanted
<1>9. RequestInv'
  <2>1. Asks(p)' = Asks(p) /\ ~ Asks(p)
    BY <1>1, <1>3 DEF TypeOK, FindBuffer, Goto, Asks
  <2> QED
    BY <1>1, <1>5, <2>1, IoIsBuffer, RequestsStay DEF FindBuffer, dev
<1> QED
  BY <1>4, <1>5, <1>6, <1>7, <1>8, <1>9, OwnStep DEF FindBuffer

-----------------------------------------------------------------------------
(* One lemma per action: CacheInv holds after it, and the registers of the *)
(* other processes stay.  First the actions that leave locks and requests  *)
(* alone.                                                                  *)

LEMMA HashWaitKeeps ==
    ASSUME CacheInv, NEW p \in Procs, HashWait(p) PROVE CacheInv' /\ Others(p)
<1>1. TypeOK /\ Shape(p) /\ Knows(p) /\ BlocksNamed /\ RequestInv
  BY DEF CacheInv
<1>2. blocknr[bh[p]] = block[p] /\ pc[p] = "hashWait" /\ bh[p] \in Buffers
  BY <1>1 DEF HashWait, At, Knows, Counted, Shape
<1>3. TypeOK'
  BY <1>1, <1>2 DEF TypeOK, HashWait, Goto, dev, regs, RQ!TypeOK, At
<1>4. Others(p)
  BY <1>1, <1>2 DEF TypeOK, HashWait, Goto, Others, Stays, regs, At
<1>5. Shape(p)'
  BY <1>1, <1>2 DEF TypeOK, HashWait, Goto, Shape, Syncing, Reads, regs, At
<1>6. ASSUME NEW c \in Buffers PROVE count'[c] = count[c] + Refs(p, c)' - Refs(p, c)
  BY <1>1, <1>2, <1>3, NullIsNothing
     DEF TypeOK, HashWait, Goto, Refs, One, Counted, regs, At, Shape, Reads
<1>7. BlocksNamed' /\ Knows(p)'
  BY <1>1, <1>2, <1>3, NullIsNothing
     DEF TypeOK, HashWait, Goto, BlocksNamed, Knows, Counted, Wanted, regs, At, Shape, Reads
<1>8. RequestInv'
  <2>1. Asks(p)' = Asks(p) /\ (Asks(p) => io'[p] = io[p] /\ rw'[p] = rw[p])
    BY <1>1, <1>2 DEF TypeOK, HashWait, Goto, Asks, regs, At
  <2> QED
    BY <1>1, <1>4, <2>1, IoIsBuffer, RequestsStay DEF HashWait, Goto, dev
<1> QED
  BY <1>3, <1>4, <1>5, <1>6, <1>7, <1>8, OwnStep DEF HashWait, Goto

LEMMA PickVictimKeeps ==
    ASSUME CacheInv, NEW p \in Procs, PickVictim(p) PROVE CacheInv' /\ Others(p)
<1>1. TypeOK /\ Shape(p) /\ Knows(p) /\ BlocksNamed /\ RequestInv
  BY DEF CacheInv
<1>2. TypeOK'
  BY <1>1 DEF TypeOK, PickVictim, Goto, dev, bufs, RQ!TypeOK, At
<1>3. Others(p)
  BY <1>1 DEF TypeOK, PickVictim, Goto, Others, Stays, At
<1>4. Shape(p)'
  BY <1>1 DEF TypeOK, PickVictim, Goto, Shape, Syncing, Reads, At
<1>5. ASSUME NEW c \in Buffers PROVE count'[c] = count[c] + Refs(p, c)' - Refs(p, c)
  BY <1>1, <1>2, NullIsNothing
     DEF TypeOK, PickVictim, Goto, Refs, One, Counted, bufs, At, Shape, Reads
<1>6. BlocksNamed' /\ Knows(p)'
  BY <1>1, <1>2, NullIsNothing
     DEF TypeOK, PickVictim, Goto, BlocksNamed, Knows, Counted, Wanted, bufs, At, Shape, Reads
<1>7. RequestInv'
  <2>1. Asks(p)' = Asks(p) /\ (Asks(p) => io'[p] = io[p] /\ rw'[p] = rw[p])
    BY <1>1 DEF TypeOK, PickVictim, Goto, Asks, At
  <2> QED
    BY <1>1, <1>3, <2>1, IoIsBuffer, RequestsStay DEF PickVictim, Goto, dev, bufs
<1> QED
  BY <1>2, <1>3, <1>4, <1>5, <1>6, <1>7, OwnStep DEF PickVictim, Goto, bufs

LEMMA NoBufferKeeps ==
    ASSUME CacheInv, NEW p \in Procs, NoBuffer(p) PROVE CacheInv' /\ Others(p)
<1>1. TypeOK /\ Shape(p) /\ Knows(p) /\ BlocksNamed /\ RequestInv
  BY DEF CacheInv
<1>2. TypeOK'
  BY <1>1 DEF TypeOK, NoBuffer, Goto, dev, bufs, regs, RQ!TypeOK, At
<1>3. Others(p)
  BY <1>1 DEF TypeOK, NoBuffer, Goto, Others, Stays, regs, At
<1>4. Shape(p)'
  BY <1>1 DEF TypeOK, NoBuffer, Goto, Shape, Syncing, Reads, regs, At
<1>5. ASSUME NEW c \in Buffers PROVE count'[c] = count[c] + Refs(p, c)' - Refs(p, c)
  BY <1>1, <1>2, NullIsNothing
     DEF TypeOK, NoBuffer, Goto, Refs, One, Counted, bufs, regs, At, Shape, Reads
<1>6. BlocksNamed' /\ Knows(p)'
  BY <1>1, <1>2, NullIsNothing
     DEF TypeOK, NoBuffer, Goto, BlocksNamed, Knows, Counted, Wanted, bufs, regs, At, Shape, Reads
<1>7. RequestInv'
  <2>1. Asks(p)' = Asks(p) /\ (Asks(p) => io'[p] = io[p] /\ rw'[p] = rw[p])
    BY <1>1 DEF TypeOK, NoBuffer, Goto, Asks, regs, At
  <2> QED
    BY <1>1, <1>3, <2>1, IoIsBuffer, RequestsStay DEF NoBuffer, Goto, dev, bufs
<1> QED
  BY <1>2, <1>3, <1>4, <1>5, <1>6, <1>7, OwnStep DEF NoBuffer, Goto, bufs

LEMMA VictimLostKeeps ==
    ASSUME CacheInv, NEW p \in Procs, VictimLost(p) PROVE CacheInv' /\ Others(p)
<1>1. TypeOK /\ Shape(p) /\ Knows(p) /\ BlocksNamed /\ RequestInv
  BY DEF CacheInv
<1>2. TypeOK'
  BY <1>1 DEF TypeOK, VictimLost, Goto, dev, bufs, RQ!TypeOK, At
<1>3. Others(p)
  BY <1>1 DEF TypeOK, VictimLost, Goto, Others, Stays, At
<1>4. Shape(p)'
  BY <1>1 DEF TypeOK, VictimLost, Goto, Shape, Syncing, Reads, At
<1>5. ASSUME NEW c \in Buffers PROVE count'[c] = count[c] + Refs(p, c)' - Refs(p, c)
  BY <1>1, <1>2, NullIsNothing
     DEF TypeOK, VictimLost, Goto, Refs, One, Counted, bufs, At, Shape, Reads
<1>6. BlocksNamed' /\ Knows(p)'
  BY <1>1, <1>2, NullIsNothing
     DEF TypeOK, VictimLost, Goto, BlocksNamed, Knows, Counted, Wanted, bufs, At, Shape, Reads
<1>7. RequestInv'
  <2>1. Asks(p)' = Asks(p) /\ (Asks(p) => io'[p] = io[p] /\ rw'[p] = rw[p])
    BY <1>1 DEF TypeOK, VictimLost, Goto, Asks, At
  <2> QED
    BY <1>1, <1>3, <2>1, IoIsBuffer, RequestsStay DEF VictimLost, Goto, dev, bufs
<1> QED
  BY <1>2, <1>3, <1>4, <1>5, <1>6, <1>7, OwnStep DEF VictimLost, Goto, bufs

LEMMA SyncVictimKeeps ==
    ASSUME CacheInv, NEW p \in Procs, SyncVictim(p) PROVE CacheInv' /\ Others(p)
<1>1. TypeOK /\ Shape(p) /\ Knows(p) /\ BlocksNamed /\ RequestInv
  BY DEF CacheInv
<1>2. TypeOK'
  BY <1>1, BuffersExist DEF TypeOK, SyncVictim, Goto, dev, bufs, RQ!TypeOK, At
<1>3. Others(p)
  BY <1>1 DEF TypeOK, SyncVictim, Goto, Others, Stays, At
<1>4. Shape(p)'
  BY <1>1, BuffersExist DEF TypeOK, SyncVictim, Goto, Shape, Syncing, Reads, At
<1>5. ASSUME NEW c \in Buffers PROVE count'[c] = count[c] + Refs(p, c)' - Refs(p, c)
  BY <1>1, <1>2, NullIsNothing
     DEF TypeOK, SyncVictim, Goto, Refs, One, Counted, bufs, At, Shape, Reads
<1>6. BlocksNamed' /\ Knows(p)'
  BY <1>1, <1>2, NullIsNothing
     DEF TypeOK, SyncVictim, Goto, BlocksNamed, Knows, Counted, Wanted, bufs, At, Shape, Reads
<1>7. RequestInv'
  <2>1. Asks(p)' = Asks(p) /\ (Asks(p) => io'[p] = io[p] /\ rw'[p] = rw[p])
    BY <1>1 DEF TypeOK, SyncVictim, Goto, Asks, At
  <2> QED
    BY <1>1, <1>3, <2>1, IoIsBuffer, RequestsStay DEF SyncVictim, Goto, dev, bufs
<1> QED
  BY <1>2, <1>3, <1>4, <1>5, <1>6, <1>7, OwnStep DEF SyncVictim, Goto, bufs

LEMMA SleepOnRequestKeeps ==
    ASSUME CacheInv, NEW p \in Procs, SleepOnRequest(p) PROVE CacheInv' /\ Others(p)
<1>1. TypeOK /\ Shape(p) /\ Knows(p) /\ BlocksNamed /\ RequestInv
  BY DEF CacheInv
<1>2. TypeOK'
  BY <1>1 DEF TypeOK, SleepOnRequest, Goto, dev, bufs, regs, RQ!TypeOK, At
<1>3. Others(p)
  BY <1>1 DEF TypeOK, SleepOnRequest, Goto, Others, Stays, regs, At
<1>4. Shape(p)'
  BY <1>1 DEF TypeOK, SleepOnRequest, Goto, Shape, Syncing, Reads, regs, At
<1>5. ASSUME NEW c \in Buffers PROVE count'[c] = count[c] + Refs(p, c)' - Refs(p, c)
  BY <1>1, <1>2, NullIsNothing
     DEF TypeOK, SleepOnRequest, Goto, Refs, One, Counted, bufs, regs, At, Shape, Reads
<1>6. BlocksNamed' /\ Knows(p)'
  BY <1>1, <1>2, NullIsNothing
     DEF TypeOK, SleepOnRequest, Goto, BlocksNamed, Knows, Counted, Wanted, bufs, regs, At, Shape,
         Reads
<1>7. RequestInv'
  <2>1. Asks(p)' = Asks(p) /\ (Asks(p) => io'[p] = io[p] /\ rw'[p] = rw[p])
    BY <1>1 DEF TypeOK, SleepOnRequest, Goto, Asks, regs, At
  <2> QED
    BY <1>1, <1>3, <2>1, IoIsBuffer, RequestsStay DEF SleepOnRequest, Goto, dev, bufs
<1> QED
  BY <1>2, <1>3, <1>4, <1>5, <1>6, <1>7, OwnStep DEF SleepOnRequest, Goto, bufs

LEMMA GotBlockKeeps ==
    ASSUME CacheInv, NEW p \in Procs, GotBlock(p) PROVE CacheInv' /\ Others(p)
<1>1. TypeOK /\ Shape(p) /\ Knows(p) /\ BlocksNamed /\ RequestInv
  BY DEF CacheInv
<1>2. /\ pc[p] = "gotBlock" /\ bh[p] \in Buffers /\ op[p] \in Reads /\ scan[p] = 0
      /\ op[p] # "ahead" => first[p] = NULL
      /\ op[p] = "ahead" => first[p] \in Buffers
      /\ NULL \notin Buffers
  BY <1>1, NullIsNothing, BuffersExist DEF GotBlock, At, Shape, Buffers
<1>3. /\ count' = count /\ hold' = hold /\ bh' = bh /\ op' = op /\ scan' = scan
      /\ first'[p] = IF op[p] = "ahead" THEN first[p] ELSE bh[p]
      /\ pc'[p] \in {"requested", "lockBuffer"}
  BY <1>1 DEF GotBlock, TypeOK, Goto, bufs
<1>4. TypeOK'
  BY <1>1, <1>2, <1>3 DEF TypeOK, GotBlock, Goto, dev, bufs, RQ!TypeOK, At
<1>5. Others(p)
  BY <1>1, <1>2, <1>3 DEF TypeOK, GotBlock, Goto, Others, Stays, At
<1>6. Shape(p)'
  BY <1>1, <1>2, <1>3 DEF TypeOK, GotBlock, Goto, Shape, Syncing, Reads, At
<1>7. ASSUME NEW c \in Buffers PROVE count'[c] = count[c] + Refs(p, c)' - Refs(p, c)
  BY <1>1, <1>2, <1>3, <1>4, NullIsNothing
     DEF TypeOK, GotBlock, Goto, Refs, One, Counted, bufs, At, Shape, Reads
<1>8. BlocksNamed' /\ Knows(p)'
  BY <1>1, <1>2, <1>3, <1>4, NullIsNothing
     DEF TypeOK, GotBlock, Goto, BlocksNamed, Knows, Counted, Wanted, bufs, At, Shape, Reads
<1>9. RequestInv'
  <2>1. Asks(p)' = Asks(p) /\ (Asks(p) => io'[p] = io[p] /\ rw'[p] = rw[p])
    BY <1>1, <1>2, <1>3 DEF TypeOK, GotBlock, Goto, Asks, At
  <2> QED
    BY <1>1, <1>5, <2>1, IoIsBuffer, RequestsStay DEF GotBlock, Goto, dev, bufs
<1> QED
  BY <1>4, <1>5, <1>6, <1>7, <1>8, <1>9, OwnStep DEF GotBlock, Goto, bufs

LEMMA CopyInKeeps ==
    ASSUME CacheInv, NEW p \in Procs, CopyIn(p) PROVE CacheInv' /\ Others(p)
<1>1. TypeOK /\ Shape(p) /\ Knows(p) /\ BlocksNamed /\ RequestInv
  BY DEF CacheInv
<1>2. bh[p] \in Buffers
  BY <1>1 DEF CopyIn, At, Shape
<1>3. TypeOK'
  BY <1>1, <1>2 DEF TypeOK, CopyIn, Goto, dev, RQ!TypeOK, At
<1>4. Others(p)
  BY <1>1, <1>2 DEF TypeOK, CopyIn, Goto, Others, Stays, At
<1>5. Shape(p)'
  BY <1>1, <1>2 DEF TypeOK, CopyIn, Goto, Shape, Syncing, Reads, At
<1>6. ASSUME NEW c \in Buffers PROVE count'[c] = count[c] + Refs(p, c)' - Refs(p, c)
  BY <1>1, <1>2, <1>3, NullIsNothing DEF TypeOK, CopyIn, Goto, Refs, One, Counted, At, Shape, Reads
<1>7. BlocksNamed' /\ Knows(p)'
  BY <1>1, <1>2, <1>3, NullIsNothing
     DEF TypeOK, CopyIn, Goto, BlocksNamed, Knows, Counted, Wanted, At, Shape, Reads
<1>8. RequestInv'
  <2>1. Asks(p)' = Asks(p) /\ (Asks(p) => io'[p] = io[p] /\ rw'[p] = rw[p])
    BY <1>1, <1>2 DEF TypeOK, CopyIn, Goto, Asks, At
  <2> QED
    BY <1>1, <1>4, <2>1, IoIsBuffer, RequestsStay DEF CopyIn, Goto, dev
<1> QED
  BY <1>3, <1>4, <1>5, <1>6, <1>7, <1>8, OwnStep DEF CopyIn, Goto

LEMMA SyncBufferKeeps ==
    ASSUME CacheInv, NEW p \in Procs, SyncBuffer(p) PROVE CacheInv' /\ Others(p)
<1>1. TypeOK /\ Shape(p) /\ Knows(p) /\ BlocksNamed /\ RequestInv
  BY DEF CacheInv
<1>2. BufferAt(scan[p]) \in Buffers /\ scan[p] + 1 \in 1 .. 2 * NR_BUFFERS + 1 /\ scan[p] + 1 \in 0 .. 2 * NR_BUFFERS + 1
  BY <1>1, BuffersExist, SMTT(20) DEF TypeOK, SyncBuffer, At, Shape, BufferAt, Buffers
<1>3. io' \in [Procs -> Buffers \cup {NULL}] /\ rw' \in [Procs -> {"READ", "READA", "WRITE"}]
      /\ scan' \in [Procs -> 0 .. 2 * NR_BUFFERS + 1]
  BY <1>1, <1>2 DEF TypeOK, SyncBuffer
<1>4. TypeOK'
  <2>1. UNCHANGED <<bufs, dev, cpu, op, block, ahead, bh, first, hold, ops>>
    BY DEF SyncBuffer
  <2>2. pc' = pc \/ pc' = [pc EXCEPT ![p] = "lockBuffer"]
    BY DEF SyncBuffer, Goto
  <2> QED
    BY <1>1, <1>3, <2>1, <2>2 DEF TypeOK, RQ!TypeOK, bufs, dev
<1>5. Others(p)
  BY <1>1, <1>2, <1>3 DEF TypeOK, SyncBuffer, Goto, Others, Stays, At
<1>6. Shape(p)'
  BY <1>1, <1>2, <1>3, BuffersExist, NullIsNothing
     DEF TypeOK, SyncBuffer, Goto, Shape, Syncing, Reads, At
<1>7. ASSUME NEW c \in Buffers PROVE count'[c] = count[c] + Refs(p, c)' - Refs(p, c)
  BY <1>1, <1>2, <1>3, <1>4, NullIsNothing
     DEF TypeOK, SyncBuffer, Goto, Refs, One, Counted, bufs, At, Shape, Reads
<1>8. BlocksNamed' /\ Knows(p)'
  BY <1>1, <1>2, <1>3, <1>4, NullIsNothing
     DEF TypeOK, SyncBuffer, Goto, BlocksNamed, Knows, Counted, Wanted, bufs, At, Shape, Reads
<1>9. RequestInv'
  <2>1. Asks(p)' = Asks(p) /\ (Asks(p) => io'[p] = io[p] /\ rw'[p] = rw[p])
    BY <1>1, <1>2, <1>3 DEF TypeOK, SyncBuffer, Goto, Asks, At
  <2> QED
    BY <1>1, <1>5, <2>1, IoIsBuffer, RequestsStay DEF SyncBuffer, Goto, dev, bufs
<1> QED
  BY <1>4, <1>5, <1>6, <1>7, <1>8, <1>9, OwnStep DEF SyncBuffer, Goto, bufs

LEMMA SyncDoneKeeps ==
    ASSUME CacheInv, NEW p \in Procs, SyncDone(p) PROVE CacheInv' /\ Others(p)
<1>1. TypeOK /\ Shape(p) /\ Knows(p) /\ BlocksNamed /\ RequestInv
  BY DEF CacheInv
<1>2. 0 \in 0 .. 2 * NR_BUFFERS + 1
  BY BuffersExist
<1>3. TypeOK'
  BY <1>1, <1>2, BuffersExist DEF TypeOK, SyncDone, Goto, dev, bufs, RQ!TypeOK, At
<1>4. Others(p)
  BY <1>1, <1>2 DEF TypeOK, SyncDone, Goto, Others, Stays, At
<1>5. Shape(p)'
  BY <1>1, <1>2, BuffersExist DEF TypeOK, SyncDone, Goto, Shape, Syncing, Reads, At
<1>6. ASSUME NEW c \in Buffers PROVE count'[c] = count[c] + Refs(p, c)' - Refs(p, c)
  BY <1>1, <1>2, <1>3, NullIsNothing
     DEF TypeOK, SyncDone, Goto, Refs, One, Counted, bufs, At, Shape, Reads
<1>7. BlocksNamed' /\ Knows(p)'
  BY <1>1, <1>2, <1>3, NullIsNothing
     DEF TypeOK, SyncDone, Goto, BlocksNamed, Knows, Counted, Wanted, bufs, At, Shape, Reads
<1>8. RequestInv'
  <2>1. Asks(p)' = Asks(p) /\ (Asks(p) => io'[p] = io[p] /\ rw'[p] = rw[p])
    BY <1>1, <1>2 DEF TypeOK, SyncDone, Goto, Asks, At
  <2> QED
    BY <1>1, <1>4, <2>1, IoIsBuffer, RequestsStay DEF SyncDone, Goto, dev, bufs
<1> QED
  BY <1>3, <1>4, <1>5, <1>6, <1>7, <1>8, OwnStep DEF SyncDone, Goto, bufs

LEMMA BrelseKeeps ==
    ASSUME CacheInv, NEW p \in Procs, NEW b \in hold[p], Brelse(p, b) PROVE CacheInv' /\ Others(p)
<1>1. TypeOK /\ Shape(p) /\ Knows(p) /\ BlocksNamed /\ RequestInv
  BY DEF CacheInv
<1>2. TypeOK'
  BY <1>1 DEF TypeOK, Brelse, Goto, dev, bufs, RQ!TypeOK, At
<1>3. Others(p)
  BY <1>1 DEF TypeOK, Brelse, Goto, Others, Stays, At
<1>4. Shape(p)'
  BY <1>1 DEF TypeOK, Brelse, Goto, Shape, Syncing, Reads, At
<1>5. ASSUME NEW c \in Buffers PROVE count'[c] = count[c] + Refs(p, c)' - Refs(p, c)
  BY <1>1, <1>2, NullIsNothing DEF TypeOK, Brelse, Goto, Refs, One, Counted, bufs, At, Shape, Reads
<1>6. BlocksNamed' /\ Knows(p)'
  BY <1>1, <1>2, NullIsNothing
     DEF TypeOK, Brelse, Goto, BlocksNamed, Knows, Counted, Wanted, bufs, At, Shape, Reads
<1>7. RequestInv'
  <2>1. Asks(p)' = Asks(p) /\ (Asks(p) => io'[p] = io[p] /\ rw'[p] = rw[p])
    BY <1>1 DEF TypeOK, Brelse, Goto, Asks, At
  <2> QED
    BY <1>1, <1>3, <2>1, IoIsBuffer, RequestsStay DEF Brelse, Goto, dev, bufs
<1> QED
  BY <1>2, <1>3, <1>4, <1>5, <1>6, <1>7, OwnStep DEF Brelse, Goto, bufs

LEMMA BreadKeeps ==
    ASSUME CacheInv, NEW p \in Procs, NEW n \in Blocks, Bread(p, n) PROVE CacheInv' /\ Others(p)
<1>1. TypeOK /\ Shape(p) /\ Knows(p) /\ BlocksNamed /\ RequestInv
  BY DEF CacheInv
<1>2. TypeOK'
  BY <1>1, BoundsAreNumbers DEF TypeOK, Bread, Goto, dev, bufs, RQ!TypeOK, At, Starts
<1>3. Others(p)
  BY <1>1 DEF TypeOK, Bread, Goto, Others, Stays, At, Starts
<1>4. Shape(p)'
  BY <1>1, BoundsAreNumbers DEF TypeOK, Bread, Goto, Shape, Syncing, Reads, At, Starts
<1>5. ASSUME NEW c \in Buffers PROVE count'[c] = count[c] + Refs(p, c)' - Refs(p, c)
  BY <1>1, <1>2, NullIsNothing
     DEF TypeOK, Bread, Goto, Refs, One, Counted, bufs, At, Starts, Shape, Reads
<1>6. BlocksNamed' /\ Knows(p)'
  BY <1>1, <1>2, NullIsNothing
     DEF TypeOK, Bread, Goto, BlocksNamed, Knows, Counted, Wanted, bufs, At, Starts, Shape, Reads
<1>7. RequestInv'
  <2>1. Asks(p)' = Asks(p) /\ (Asks(p) => io'[p] = io[p] /\ rw'[p] = rw[p])
    BY <1>1 DEF TypeOK, Bread, Goto, Asks, At, Starts
  <2> QED
    BY <1>1, <1>3, <2>1, IoIsBuffer, RequestsStay DEF Bread, Goto, dev, bufs, Starts
<1> QED
  BY <1>2, <1>3, <1>4, <1>5, <1>6, <1>7, OwnStep DEF Bread, Goto, bufs, Starts

LEMMA BreadaKeeps ==
    ASSUME CacheInv, NEW p \in Procs, NEW n \in Blocks, NEW m \in AheadBlocks, Breada(p, n, m)
    PROVE  CacheInv' /\ Others(p)
<1>1. TypeOK /\ Shape(p) /\ Knows(p) /\ BlocksNamed /\ RequestInv
  BY DEF CacheInv
<1>2. TypeOK'
  BY <1>1, BlocksAreNumbers, BoundsAreNumbers, SMTT(20)
     DEF TypeOK, Breada, Goto, dev, bufs, RQ!TypeOK, At, Starts
<1>3. Others(p)
  BY <1>1 DEF TypeOK, Breada, Goto, Others, Stays, At, Starts
<1>4. Shape(p)'
  BY <1>1, BlocksAreNumbers, BoundsAreNumbers
     DEF TypeOK, Breada, Goto, Shape, Syncing, Reads, At, Starts
<1>5. ASSUME NEW c \in Buffers PROVE count'[c] = count[c] + Refs(p, c)' - Refs(p, c)
  BY <1>1, <1>2, NullIsNothing
     DEF TypeOK, Breada, Goto, Refs, One, Counted, bufs, At, Starts, Shape, Reads
<1>6. BlocksNamed' /\ Knows(p)'
  BY <1>1, <1>2, NullIsNothing
     DEF TypeOK, Breada, Goto, BlocksNamed, Knows, Counted, Wanted, bufs, At, Starts, Shape, Reads
<1>7. RequestInv'
  <2>1. Asks(p)' = Asks(p) /\ (Asks(p) => io'[p] = io[p] /\ rw'[p] = rw[p])
    BY <1>1 DEF TypeOK, Breada, Goto, Asks, At, Starts
  <2> QED
    BY <1>1, <1>3, <2>1, IoIsBuffer, RequestsStay DEF Breada, Goto, dev, bufs, Starts
<1> QED
  BY <1>2, <1>3, <1>4, <1>5, <1>6, <1>7, OwnStep DEF Breada, Goto, bufs, Starts

LEMMA ModifyBufferKeeps ==
    ASSUME CacheInv, NEW p \in Procs, NEW b \in hold[p], ModifyBuffer(p, b)
    PROVE  CacheInv' /\ Others(p)
<1>1. TypeOK /\ Shape(p) /\ Knows(p) /\ BlocksNamed /\ RequestInv
  BY DEF CacheInv
<1>2. b \in Buffers /\ blocknr[b] # NULL
  BY <1>1, ReferredIsCounted DEF CacheInv, TypeOK, Refs, One, BlocksNamed
<1>3. data' \in [Buffers -> Nat] /\ dirt' \in [Buffers -> BOOLEAN] /\ ops' \in [Procs -> 0 .. MaxOps]
  BY <1>1, <1>2, BoundsAreNumbers DEF TypeOK, ModifyBuffer, Starts
<1>4. TypeOK'
  BY <1>1, <1>2, <1>3, BoundsAreNumbers DEF TypeOK, ModifyBuffer, dev, regs, RQ!TypeOK, At, Starts
<1>5. Others(p)
  BY <1>1, <1>2, <1>3 DEF TypeOK, ModifyBuffer, Others, Stays, regs, At, Starts
<1>6. Shape(p)'
  BY <1>1, <1>2, <1>3, BoundsAreNumbers
     DEF TypeOK, ModifyBuffer, Shape, Syncing, Reads, regs, At, Starts
<1>7. ASSUME NEW c \in Buffers PROVE count'[c] = count[c] + Refs(p, c)' - Refs(p, c)
  BY <1>1, <1>2, <1>3, <1>4, NullIsNothing
     DEF TypeOK, ModifyBuffer, Refs, One, Counted, regs, At, Starts, Shape, Reads
<1>8. BlocksNamed' /\ Knows(p)'
  BY <1>1, <1>2, <1>3, <1>4, NullIsNothing
     DEF TypeOK, ModifyBuffer, BlocksNamed, Knows, Counted, Wanted, regs, At, Starts, Shape, Reads
<1>9. RequestInv'
  <2>1. Asks(p)' = Asks(p) /\ (Asks(p) => io'[p] = io[p] /\ rw'[p] = rw[p])
    BY <1>1, <1>2, <1>3 DEF TypeOK, ModifyBuffer, Asks, regs, At, Starts
  <2> QED
    BY <1>1, <1>5, <2>1, IoIsBuffer, RequestsStay DEF ModifyBuffer, dev, Starts
<1> QED
  BY <1>4, <1>5, <1>6, <1>7, <1>8, <1>9, OwnStep DEF ModifyBuffer, Starts

LEMMA FileWriteKeeps ==
    ASSUME CacheInv, NEW p \in Procs, NEW b \in hold[p], FileWrite(p, b)
    PROVE  CacheInv' /\ Others(p)
<1>1. TypeOK /\ Shape(p) /\ Knows(p) /\ BlocksNamed /\ RequestInv
  BY DEF CacheInv
<1>2. b \in Buffers /\ blocknr[b] # NULL
  BY <1>1, ReferredIsCounted DEF CacheInv, TypeOK, Refs, One, BlocksNamed
<1>3. TypeOK'
  BY <1>1, <1>2, BoundsAreNumbers DEF TypeOK, FileWrite, Goto, dev, RQ!TypeOK, At, Starts
<1>4. Others(p)
  BY <1>1, <1>2 DEF TypeOK, FileWrite, Goto, Others, Stays, At, Starts
<1>5. Shape(p)'
  BY <1>1, <1>2, BoundsAreNumbers DEF TypeOK, FileWrite, Goto, Shape, Syncing, Reads, At, Starts
<1>6. ASSUME NEW c \in Buffers PROVE count'[c] = count[c] + Refs(p, c)' - Refs(p, c)
  BY <1>1, <1>2, <1>3, NullIsNothing
     DEF TypeOK, FileWrite, Goto, Refs, One, Counted, At, Starts, Shape, Reads
<1>7. BlocksNamed' /\ Knows(p)'
  BY <1>1, <1>2, <1>3, NullIsNothing
     DEF TypeOK, FileWrite, Goto, BlocksNamed, Knows, Counted, Wanted, At, Starts, Shape, Reads
<1>8. RequestInv'
  <2>1. Asks(p)' = Asks(p) /\ (Asks(p) => io'[p] = io[p] /\ rw'[p] = rw[p])
    BY <1>1, <1>2 DEF TypeOK, FileWrite, Goto, Asks, At, Starts
  <2> QED
    BY <1>1, <1>4, <2>1, IoIsBuffer, RequestsStay DEF FileWrite, Goto, dev, Starts
<1> QED
  BY <1>3, <1>4, <1>5, <1>6, <1>7, <1>8, OwnStep DEF FileWrite, Goto, Starts

LEMMA SysSyncKeeps ==
    ASSUME CacheInv, NEW p \in Procs, SysSync(p) PROVE CacheInv' /\ Others(p)
<1>1. TypeOK /\ Shape(p) /\ Knows(p) /\ BlocksNamed /\ RequestInv
  BY DEF CacheInv
<1>2. TypeOK'
  BY <1>1, BuffersExist, BoundsAreNumbers, NullIsNothing
     DEF TypeOK, SysSync, Goto, dev, bufs, RQ!TypeOK, At, Starts
<1>3. Others(p)
  BY <1>1 DEF TypeOK, SysSync, Goto, Others, Stays, At, Starts
<1>4. Shape(p)'
  BY <1>1, BuffersExist, BoundsAreNumbers, NullIsNothing
     DEF TypeOK, SysSync, Goto, Shape, Syncing, Reads, At, Starts
<1>5. ASSUME NEW c \in Buffers PROVE count'[c] = count[c] + Refs(p, c)' - Refs(p, c)
  BY <1>1, <1>2, NullIsNothing
     DEF TypeOK, SysSync, Goto, Refs, One, Counted, bufs, At, Starts, Shape, Reads
<1>6. BlocksNamed' /\ Knows(p)'
  BY <1>1, <1>2, NullIsNothing
     DEF TypeOK, SysSync, Goto, BlocksNamed, Knows, Counted, Wanted, bufs, At, Starts, Shape,
         Reads
<1>7. RequestInv'
  <2>1. Asks(p)' = Asks(p) /\ (Asks(p) => io'[p] = io[p] /\ rw'[p] = rw[p])
    BY <1>1 DEF TypeOK, SysSync, Goto, Asks, At, Starts
  <2> QED
    BY <1>1, <1>3, <2>1, IoIsBuffer, RequestsStay DEF SysSync, Goto, dev, bufs, Starts
<1> QED
  BY <1>2, <1>3, <1>4, <1>5, <1>6, <1>7, OwnStep DEF SysSync, Goto, bufs, Starts

LEMMA ScheduleKeeps ==
    ASSUME CacheInv, NEW p \in Procs, Schedule(p) PROVE CacheInv' /\ Others(p)
<1>1. TypeOK /\ Shape(p) /\ Knows(p) /\ BlocksNamed /\ RequestInv
  BY DEF CacheInv
<1>2. TypeOK'
  BY <1>1 DEF TypeOK, Schedule, dev, bufs, regs, RQ!TypeOK
<1>3. Others(p)
  BY <1>1 DEF TypeOK, Schedule, Others, Stays, regs
<1>4. Shape(p)'
  BY <1>1 DEF TypeOK, Schedule, Shape, Syncing, Reads, regs
<1>5. ASSUME NEW c \in Buffers PROVE count'[c] = count[c] + Refs(p, c)' - Refs(p, c)
  BY <1>1, <1>2, NullIsNothing DEF TypeOK, Schedule, Refs, One, Counted, bufs, regs, Shape, Reads
<1>6. BlocksNamed' /\ Knows(p)'
  BY <1>1, <1>2, NullIsNothing
     DEF TypeOK, Schedule, BlocksNamed, Knows, Counted, Wanted, bufs, regs, Shape, Reads
<1>7. RequestInv'
  <2>1. Asks(p)' = Asks(p) /\ (Asks(p) => io'[p] = io[p] /\ rw'[p] = rw[p])
    BY <1>1 DEF TypeOK, Schedule, Asks, regs
  <2> QED
    BY <1>1, <1>3, <2>1, IoIsBuffer, RequestsStay DEF Schedule, dev, bufs
<1> QED
  BY <1>2, <1>3, <1>4, <1>5, <1>6, <1>7, OwnStep DEF Schedule, bufs

LEMMA SyncRequestedKeeps ==
    ASSUME CacheInv, NEW p \in Procs, SyncRequested(p) PROVE CacheInv' /\ Others(p)
<1>1. TypeOK /\ Shape(p) /\ Knows(p) /\ BlocksNamed /\ RequestInv
  BY DEF CacheInv
<1>2. TypeOK'
  BY <1>1 DEF TypeOK, SyncRequested, Returned, Goto, dev, RQ!TypeOK, At
<1>3. Others(p)
  BY <1>1 DEF TypeOK, SyncRequested, Returned, Goto, Others, Stays, At
<1>4. Shape(p)'
  BY <1>1 DEF TypeOK, SyncRequested, Returned, Goto, Shape, Syncing, Reads, At
<1>5. ASSUME NEW c \in Buffers PROVE count'[c] = count[c] + Refs(p, c)' - Refs(p, c)
  BY <1>1, <1>2, NullIsNothing
     DEF TypeOK, SyncRequested, Returned, Goto, Refs, One, Counted, At, Shape, Reads
<1>6. BlocksNamed' /\ Knows(p)'
  BY <1>1, <1>2, NullIsNothing
     DEF TypeOK, SyncRequested, Returned, Goto, BlocksNamed, Knows, Counted, Wanted, At, Shape,
         Reads
<1>7. RequestInv'
  <2>1. Asks(p)' = Asks(p) /\ (Asks(p) => io'[p] = io[p] /\ rw'[p] = rw[p])
    BY <1>1 DEF TypeOK, SyncRequested, Returned, Goto, Asks, At
  <2> QED
    BY <1>1, <1>3, <2>1, IoIsBuffer, RequestsStay DEF SyncRequested, Returned, Goto, dev
<1> QED
  BY <1>2, <1>3, <1>4, <1>5, <1>6, <1>7, OwnStep DEF SyncRequested, Returned, Goto

LEMMA BreadRequestedKeeps ==
    ASSUME CacheInv, NEW p \in Procs, BreadRequested(p) PROVE CacheInv' /\ Others(p)
<1>1. TypeOK /\ Shape(p) /\ Knows(p) /\ BlocksNamed /\ RequestInv
  BY DEF CacheInv
<1>2. TypeOK'
  BY <1>1 DEF TypeOK, BreadRequested, Returned, Goto, dev, RQ!TypeOK, At
<1>3. Others(p)
  BY <1>1 DEF TypeOK, BreadRequested, Returned, Goto, Others, Stays, At
<1>4. Shape(p)'
  BY <1>1 DEF TypeOK, BreadRequested, Returned, Goto, Shape, Syncing, Reads, At
<1>5. ASSUME NEW c \in Buffers PROVE count'[c] = count[c] + Refs(p, c)' - Refs(p, c)
  BY <1>1, <1>2, NullIsNothing
     DEF TypeOK, BreadRequested, Returned, Goto, Refs, One, Counted, At, Shape, Reads
<1>6. BlocksNamed' /\ Knows(p)'
  BY <1>1, <1>2, NullIsNothing
     DEF TypeOK, BreadRequested, Returned, Goto, BlocksNamed, Knows, Counted, Wanted, At, Shape,
         Reads
<1>7. RequestInv'
  <2>1. Asks(p)' = Asks(p) /\ (Asks(p) => io'[p] = io[p] /\ rw'[p] = rw[p])
    BY <1>1 DEF TypeOK, BreadRequested, Returned, Goto, Asks, At
  <2> QED
    BY <1>1, <1>3, <2>1, IoIsBuffer, RequestsStay DEF BreadRequested, Returned, Goto, dev
<1> QED
  BY <1>2, <1>3, <1>4, <1>5, <1>6, <1>7, OwnStep DEF BreadRequested, Returned, Goto

LEMMA FirstRequestedKeeps ==
    ASSUME CacheInv, NEW p \in Procs, FirstRequested(p) PROVE CacheInv' /\ Others(p)
<1>1. TypeOK /\ Shape(p) /\ Knows(p) /\ BlocksNamed /\ RequestInv
  BY DEF CacheInv
<1>2. ahead[p] \in Blocks
  BY <1>1 DEF FirstRequested, Shape, Returned
<1>3. TypeOK'
  BY <1>1, <1>2 DEF TypeOK, FirstRequested, Returned, Goto, dev, RQ!TypeOK, At
<1>4. Others(p)
  BY <1>1, <1>2 DEF TypeOK, FirstRequested, Returned, Goto, Others, Stays, At
<1>5. Shape(p)'
  BY <1>1, <1>2 DEF TypeOK, FirstRequested, Returned, Goto, Shape, Syncing, Reads, At
<1>6. ASSUME NEW c \in Buffers PROVE count'[c] = count[c] + Refs(p, c)' - Refs(p, c)
  BY <1>1, <1>2, <1>3, NullIsNothing
     DEF TypeOK, FirstRequested, Returned, Goto, Refs, One, Counted, At, Shape, Reads
<1>7. BlocksNamed' /\ Knows(p)'
  BY <1>1, <1>2, <1>3, NullIsNothing
     DEF TypeOK, FirstRequested, Returned, Goto, BlocksNamed, Knows, Counted, Wanted, At, Shape,
         Reads
<1>8. RequestInv'
  <2>1. Asks(p)' = Asks(p) /\ (Asks(p) => io'[p] = io[p] /\ rw'[p] = rw[p])
    BY <1>1, <1>2 DEF TypeOK, FirstRequested, Returned, Goto, Asks, At
  <2> QED
    BY <1>1, <1>4, <2>1, IoIsBuffer, RequestsStay DEF FirstRequested, Returned, Goto, dev
<1> QED
  BY <1>3, <1>4, <1>5, <1>6, <1>7, <1>8, OwnStep DEF FirstRequested, Returned, Goto

LEMMA AheadRequestedKeeps ==
    ASSUME CacheInv, NEW p \in Procs, AheadRequested(p) PROVE CacheInv' /\ Others(p)
<1>1. TypeOK /\ Shape(p) /\ Knows(p) /\ BlocksNamed /\ RequestInv
  BY DEF CacheInv
<1>2. /\ bh[p] \in Buffers /\ first[p] \in Buffers /\ block[p] \in Blocks /\ count[bh[p]] \in Nat \ {0}
      /\ pc[p] = "requested"
  BY <1>1, ReferredIsCounted DEF AheadRequested, Shape, Returned, At, CacheInv, Refs, One, Counted
<1>3. TypeOK'
  BY <1>1, <1>2 DEF TypeOK, AheadRequested, Returned, Goto, dev, RQ!TypeOK, At
<1>4. Others(p)
  BY <1>1, <1>2 DEF TypeOK, AheadRequested, Returned, Goto, Others, Stays, At
<1>5. Shape(p)'
  BY <1>1, <1>2 DEF TypeOK, AheadRequested, Returned, Goto, Shape, Syncing, Reads, At
<1>6. ASSUME NEW c \in Buffers PROVE count'[c] = count[c] + Refs(p, c)' - Refs(p, c)
  BY <1>1, <1>2, <1>3, NullIsNothing
     DEF TypeOK, AheadRequested, Returned, Goto, Refs, One, Counted, At, Shape, Reads
<1>7. BlocksNamed' /\ Knows(p)'
  BY <1>1, <1>2, <1>3, NullIsNothing
     DEF TypeOK, AheadRequested, Returned, Goto, BlocksNamed, Knows, Counted, Wanted, At, Shape,
         Reads
<1>8. RequestInv'
  <2>1. Asks(p)' = Asks(p) /\ (Asks(p) => io'[p] = io[p] /\ rw'[p] = rw[p])
    BY <1>1, <1>2 DEF TypeOK, AheadRequested, Returned, Goto, Asks, At
  <2> QED
    BY <1>1, <1>4, <2>1, IoIsBuffer, RequestsStay DEF AheadRequested, Returned, Goto, dev
<1> QED
  BY <1>3, <1>4, <1>5, <1>6, <1>7, <1>8, OwnStep DEF AheadRequested, Returned, Goto

LEMMA ReadWaitKeeps ==
    ASSUME CacheInv, NEW p \in Procs, ReadWait(p) PROVE CacheInv' /\ Others(p)
<1>1. TypeOK /\ Shape(p) /\ Knows(p) /\ BlocksNamed /\ RequestInv
  BY DEF CacheInv
<1>2. /\ first[p] \in Buffers /\ count[first[p]] \in Nat \ {0} /\ count[first[p]] - 1 \in Nat
      /\ pc[p] = "readWait" /\ scan[p] = 0 /\ op[p] \in {"bread", "ahead"} /\ first[p] \notin hold[p]
      /\ first[p] # NULL
  BY <1>1, ReferredIsCounted, NullIsNothing
     DEF ReadWait, Shape, At, CacheInv, Refs, One, Knows, Buffers
<1>3. /\ hold' \in [Procs -> SUBSET Buffers] /\ count' \in [Buffers -> Nat]
      /\ op' \in [Procs -> {"none", "bread", "breada", "ahead", "sync"}]
      /\ UNCHANGED <<io, rw, scan, bh, blocknr, dirt, uptodate, lock, data>>
  BY <1>1, <1>2 DEF ReadWait, TypeOK
<1>4.  \/ /\ uptodate[first[p]] /\ count' = count /\ pc' = [pc EXCEPT ![p] = "user"]
         /\ hold' = [hold EXCEPT ![p] = hold[p] \cup {first[p]}]
      \/ /\ ~ uptodate[first[p]] /\ count' = [count EXCEPT ![first[p]] = count[first[p]] - 1]
         /\ hold' = hold /\ pc' = [q \in Procs |-> IF q = p THEN "user" ELSE IF pc[q] = "bufferWait" THEN "getblk" ELSE pc[q]]
  BY <1>1 DEF ReadWait, Goto, GotoAndWake
<1>5. TypeOK'
  BY <1>1, <1>2, <1>3, <1>4 DEF TypeOK, ReadWait, GotoAndWake, Goto, dev, RQ!TypeOK, At
<1>6. Others(p)
  BY <1>1, <1>2, <1>3, <1>4 DEF TypeOK, ReadWait, GotoAndWake, Goto, Others, Stays, At
<1>7. Shape(p)'
  BY <1>1, <1>2, <1>3, <1>4 DEF TypeOK, ReadWait, GotoAndWake, Goto, Shape, Syncing, Reads, At
<1>8.  /\ pc'[p] = "user" /\ op'[p] = "none" /\ first'[p] = NULL /\ ~ Counted(p)' /\ ~ Counted(p)
       /\ uptodate[first[p]] => /\ hold'[p] = hold[p] \cup {first[p]}
                                /\ count' = count
       /\ ~ uptodate[first[p]] => /\ hold'[p] = hold[p]
                                  /\ count' = [count EXCEPT ![first[p]] = count[first[p]] - 1]
  <2>1. pc'[p] = "user" /\ op'[p] = "none" /\ first'[p] = NULL
    BY <1>1, <1>4 DEF TypeOK, ReadWait
  <2>2. ~ Counted(p)' /\ ~ Counted(p)
    BY <1>2, <2>1 DEF Counted
  <2> QED
    BY <1>1, <1>4, <2>1, <2>2 DEF TypeOK
<1>9.  NULL \notin Buffers /\ \A c \in Buffers : count[c] \in Nat
  BY <1>1, NullIsNothing, BuffersExist DEF Buffers, TypeOK
<1>10. ASSUME NEW c \in Buffers PROVE count'[c] = count[c] + Refs(p, c)' - Refs(p, c)
  <2>1. /\ Refs(p, c) = One(c \in hold[p]) + One(first[p] = c)
        /\ Refs(p, c)' = One(c \in hold'[p])
        /\ One(c \in hold[p]) \in Nat
    BY <1>8, <1>9 DEF Refs, One
  <2>2. CASE uptodate[first[p]] /\ c = first[p]
    <3>1. c \in hold'[p] /\ c \notin hold[p] /\ count'[c] = count[c]
      BY <1>2, <1>8, <2>2
    <3> QED
      BY <1>9, <2>1, <2>2, <3>1 DEF One
  <2>3. CASE ~ uptodate[first[p]] /\ c = first[p]
    <3>1. c \notin hold'[p] /\ c \notin hold[p] /\ count'[c] = count[c] - 1
      BY <1>1, <1>2, <1>8, <2>3 DEF TypeOK
    <3> QED
      BY <1>9, <2>1, <2>3, <3>1 DEF One
  <2>4. CASE c # first[p]
    <3>1. (c \in hold'[p] <=> c \in hold[p]) /\ count'[c] = count[c]
      BY <1>1, <1>2, <1>8, <2>4 DEF TypeOK
    <3> QED
      BY <1>9, <2>1, <2>4, <3>1 DEF One
  <2> QED
    BY <2>2, <2>3, <2>4
<1>11. BlocksNamed' /\ Knows(p)'
  <2>1. BlocksNamed'
    <3>1. \A c \in Buffers : count'[c] # 0 => count[c] # 0
      BY <1>1, <1>2, <1>8 DEF TypeOK
    <3> QED
      BY <1>1, <1>3, <3>1 DEF BlocksNamed
  <2>2. Knows(p)'
    <3>1. NULL \notin hold'[p]
      BY <1>3, <1>9
    <3> QED
      BY <1>8, <3>1 DEF Knows
  <2> QED
    BY <2>1, <2>2
<1>12. RequestInv'
  <2>1. Asks(p)' = Asks(p) /\ (Asks(p) => io'[p] = io[p] /\ rw'[p] = rw[p])
    BY <1>1, <1>2, <1>3, <1>4 DEF TypeOK, ReadWait, GotoAndWake, Goto, Asks, At
  <2> QED
    BY <1>1, <1>6, <2>1, IoIsBuffer, RequestsStay DEF ReadWait, GotoAndWake, Goto, dev
<1> QED
  BY <1>5, <1>6, <1>7, <1>10, <1>11, <1>12, OwnStep DEF ReadWait, GotoAndWake, Goto

LEMMA BrelseDoneKeeps ==
    ASSUME CacheInv, NEW p \in Procs, BrelseDone(p) PROVE CacheInv' /\ Others(p)
<1>1. TypeOK /\ Shape(p) /\ Knows(p) /\ BlocksNamed /\ RequestInv
  BY DEF CacheInv
<1>2. bh[p] \in Buffers /\ count[bh[p]] \in Nat \ {0} /\ pc[p] = "brelse" /\ op[p] = "none"
  BY <1>1, ReferredIsCounted DEF BrelseDone, Shape, At, CacheInv, Refs, One, Counted
<1>3. pc' \in [Procs -> {"user", "copy", "getblk", "hashWait", "bufferWait", "victimWait", "gotBlock", "sync", "lockBuffer",
  "findRequest", "requestSleep", "requestWait", "requested", "readWait", "brelse"}]
  BY <1>1 DEF TypeOK, BrelseDone, GotoAndWake
<1>4. TypeOK'
  BY <1>1, <1>2, <1>3 DEF TypeOK, BrelseDone, GotoAndWake, dev, RQ!TypeOK, At
<1>5. Others(p)
  BY <1>1, <1>2, <1>3 DEF TypeOK, BrelseDone, GotoAndWake, Others, Stays, At
<1>6. Shape(p)'
  BY <1>1, <1>2, <1>3 DEF TypeOK, BrelseDone, GotoAndWake, Shape, Syncing, Reads, At
<1>7. ASSUME NEW c \in Buffers PROVE count'[c] = count[c] + Refs(p, c)' - Refs(p, c)
  BY <1>1, <1>2, <1>3, <1>4, NullIsNothing
     DEF TypeOK, BrelseDone, GotoAndWake, Refs, One, Counted, At, Shape, Reads
<1>8. BlocksNamed' /\ Knows(p)'
  BY <1>1, <1>2, <1>3, <1>4, NullIsNothing
     DEF TypeOK, BrelseDone, GotoAndWake, BlocksNamed, Knows, Counted, Wanted, At, Shape, Reads
<1>9. RequestInv'
  <2>1. Asks(p)' = Asks(p) /\ (Asks(p) => io'[p] = io[p] /\ rw'[p] = rw[p])
    BY <1>1, <1>2, <1>3 DEF TypeOK, BrelseDone, GotoAndWake, Asks, At
  <2> QED
    BY <1>1, <1>5, <2>1, IoIsBuffer, RequestsStay DEF BrelseDone, GotoAndWake, dev
<1> QED
  BY <1>4, <1>5, <1>6, <1>7, <1>8, <1>9, OwnStep DEF BrelseDone, GotoAndWake

-----------------------------------------------------------------------------
(* Taking a buffer over, locking it, and asking for its transfer.          *)

LEMMA NullIsNoBuffer == NULL \notin Buffers /\ NULL \notin Blocks
<1>1. NULL \notin Buffers
  BY NullIsNothing, BuffersExist DEF Buffers
<1>2. NULL \notin Blocks
  BY NullIsNothing, BlocksAreNumbers
<1> QED
  BY <1>1, <1>2

\* A buffer that nobody uses is named by nobody.
LEMMA UnusedIsFree ==
    ASSUME CacheInv, NEW b \in Buffers, count[b] = 0, NEW q \in Procs
    PROVE  b \notin hold[q] /\ first[q] # b /\ ~ (Counted(q) /\ bh[q] = b)
<1>1. Refs(q, b) = 0
  BY ReferredIsCounted DEF CacheInv
<1> QED
  BY <1>1 DEF Refs, One

LEMMA TakeVictimKeeps ==
    ASSUME CacheInv, NEW p \in Procs, TakeVictim(p) PROVE CacheInv' /\ Others(p)
<1> DEFINE b == bh[p]
<1>1. TypeOK /\ Shape(p) /\ Knows(p) /\ BlocksNamed /\ RequestInv /\ OneBufferPerBlock
  BY DEF CacheInv
<1>2. /\ pc[p] = "victimWait" /\ b \in Buffers /\ count[b] = 0 /\ ~ dirt[b] /\ ~ lock[b]
      /\ op[p] \in Reads /\ block[p] \in Blocks /\ scan[p] = 0
  BY <1>1 DEF TakeVictim, At, Asleep, Awaited, Shape
<1>3. /\ count' = [count EXCEPT ![b] = 1] /\ dirt' = [dirt EXCEPT ![b] = FALSE]
      /\ uptodate' = [uptodate EXCEPT ![b] = FALSE] /\ blocknr' = [blocknr EXCEPT ![b] = block[p]]
      /\ \A c \in Buffers : blocknr[c] # block[p]
      /\ pc' = [pc EXCEPT ![p] = "gotBlock"]
      /\ UNCHANGED <<lock, data, dev, cpu, regs, hold, ops>>
  BY DEF TakeVictim, FoundAt, Goto
<1> HIDE DEF b
<1>4. TypeOK'
  BY <1>1, <1>2, <1>3 DEF TypeOK, dev, regs, RQ!TypeOK
<1>5. Others(p)
  BY <1>1, <1>3 DEF TypeOK, Others, Stays, regs
<1>6. Shape(p)'
  BY <1>1, <1>2, <1>3 DEF TypeOK, Shape, Syncing, Reads, regs
<1>7. CountIsReferences'
  <2>1. ASSUME NEW c \in Buffers PROVE count'[c] = count[c] + Refs(p, c)' - Refs(p, c)
    <3>1. ~ Counted(p) /\ Counted(p)' /\ bh'[p] = b /\ first' = first /\ hold' = hold
      BY <1>1, <1>2, <1>3 DEF Counted, regs, Reads, TypeOK, b
    <3>2. count[c] \in Nat /\ count'[c] = IF c = b THEN 1 ELSE count[c]
      BY <1>1, <1>3 DEF TypeOK
    <3> QED
      BY <1>2, <3>1, <3>2 DEF Refs, One
  <2> QED
    BY <1>1, <1>5, <2>1, CountedByOthers DEF CacheInv
<1>8. BlocksNamed' /\ OneBufferPerBlock'
  BY <1>1, <1>2, <1>3, NullIsNoBuffer DEF TypeOK, BlocksNamed, OneBufferPerBlock
<1>9. \A c \in Buffers : c # b => blocknr'[c] = blocknr[c]
  BY <1>1, <1>3 DEF TypeOK
<1>10. ASSUME NEW q \in Procs \ {p} PROVE Shape(q)' /\ Knows(q)'
  <2>1. Stays(q) /\ Shape(q) /\ Knows(q)
    BY <1>5 DEF Others, CacheInv
  <2>2. Shape(q)' /\ Counted(q)' = Counted(q)
    BY <2>1, ShapeStays, CountedStays
  <2>3. b \notin hold[q] /\ first[q] # b /\ ~ (Counted(q) /\ bh[q] = b)
    BY <1>2, UnusedIsFree
  <2>4. /\ hold[q] \subseteq Buffers /\ first[q] \in Buffers \cup {NULL}
        /\ Counted(q) => bh[q] \in Buffers
    BY <1>1, <2>1 DEF TypeOK, Counted, Shape
  <2>5. Knows(q)'
    BY <1>9, <2>1, <2>2, <2>3, <2>4 DEF Knows, Stays, Wanted
  <2> QED
    BY <2>2, <2>5
<1>11. Knows(p)'
  <2>1. b \notin hold[p] /\ first[p] # b
    BY <1>2, UnusedIsFree
  <2>2. hold[p] \subseteq Buffers /\ first[p] \in Buffers \cup {NULL}
    BY <1>1 DEF TypeOK
  <2>3. blocknr'[bh'[p]] = block'[p]
    BY <1>1, <1>2, <1>3 DEF TypeOK, regs, b
  <2>4. pc'[p] = "gotBlock" /\ hold' = hold /\ first' = first /\ op' = op /\ block' = block
    BY <1>1, <1>3 DEF TypeOK, regs
  <2> QED
    BY <1>1, <1>9, <2>1, <2>2, <2>3, <2>4 DEF Knows, Wanted
<1>12. RequestInv'
  <2>1. Asks(p)' = Asks(p) /\ ~ Asks(p)
    BY <1>1, <1>2, <1>3 DEF TypeOK, Asks
  <2>2. \A c \in Buffers : lock[c] => blocknr'[c] = blocknr[c] /\ uptodate'[c] = uptodate[c]
    BY <1>1, <1>2, <1>3 DEF TypeOK
  <2>3. UNCHANGED <<request, queue, reqbh, lock>>
    BY <1>3 DEF dev
  <2> QED
    BY <1>1, <1>5, <2>1, <2>2, <2>3, IoIsBuffer, RequestsStay
<1> QED
  BY <1>4, <1>5, <1>6, <1>7, <1>8, <1>10, <1>11, <1>12 DEF CacheInv

\* The buffer a process asks to transfer has a block.
LEMMA AskedIsNamed ==
    ASSUME CacheInv, NEW p \in Procs, pc[p] = "lockBuffer" \/ Asks(p),
           pc[p] = "lockBuffer" => rw[p] # "WRITE" \/ dirt[io[p]]
    PROVE  io[p] \in Buffers /\ blocknr[io[p]] # NULL
<1>1. Shape(p) /\ BlocksNamed /\ CountIsReferences /\ RequestInv
  BY DEF CacheInv
<1>2. io[p] \in Buffers
  BY <1>1 DEF Shape, Asks
<1>3. CASE Asks(p)
  BY <1>1, <1>2, <1>3 DEF RequestInv, AskInv, BlocksNamed
<1>4. CASE pc[p] = "lockBuffer" /\ rw[p] = "WRITE"
  BY <1>1, <1>2, <1>4 DEF BlocksNamed
<1>5. CASE pc[p] = "lockBuffer" /\ rw[p] # "WRITE"
  <2>1. first[p] = io[p]
    BY <1>1, <1>5 DEF Shape
  <2>2. Refs(p, io[p]) # 0
    BY <2>1 DEF Refs, One
  <2> QED
    BY <1>1, <1>2, <2>2, ReferredIsCounted DEF BlocksNamed
<1> QED
  BY <1>2, <1>3, <1>4, <1>5

LEMMA LockBufferKeeps ==
    ASSUME CacheInv, NEW p \in Procs, LockBuffer(p) PROVE CacheInv' /\ Others(p)
<1> DEFINE b == io[p]
           nothing == IF rw[p] = "WRITE" THEN ~ dirt[b] ELSE uptodate[b]
<1>1. TypeOK /\ Shape(p) /\ Knows(p) /\ BlocksNamed /\ RequestInv
  BY DEF CacheInv
<1>2. pc[p] = "lockBuffer" /\ b \in Buffers
  BY <1>1 DEF LockBuffer, At, Shape
<1>3. \/ (lock[b] \/ nothing) /\ pc' = [pc EXCEPT ![p] = "requested"] /\ UNCHANGED lock
      \/ ~ lock[b] /\ ~ nothing /\ pc' = [pc EXCEPT ![p] = "findRequest"] /\ lock' = [lock EXCEPT ![b] = TRUE]
  BY DEF LockBuffer, Goto
<1>4. UNCHANGED <<blocknr, count, dirt, uptodate, data, dev, cpu, regs, hold, ops>>
  BY DEF LockBuffer
<1> HIDE DEF b, nothing
<1>5. TypeOK'
  BY <1>1, <1>2, <1>3, <1>4 DEF TypeOK, dev, regs, RQ!TypeOK
<1>6. Others(p)
  BY <1>1, <1>3, <1>4 DEF TypeOK, Others, Stays, regs
<1>7. Shape(p)'
  BY <1>1, <1>2, <1>3, <1>4 DEF TypeOK, Shape, Syncing, Reads, regs
<1>8. ASSUME NEW c \in Buffers PROVE count'[c] = count[c] + Refs(p, c)' - Refs(p, c)
  BY <1>1, <1>2, <1>3, <1>4 DEF TypeOK, Refs, One, Counted, regs
<1>9. BlocksNamed'
  <2>1. ~ nothing => blocknr[b] # NULL
    BY <1>2, AskedIsNamed DEF b, nothing
  <2> QED
    BY <1>1, <1>2, <1>3, <1>4, <2>1 DEF TypeOK, BlocksNamed
<1>10. Knows(p)'
  BY <1>1, <1>2, <1>3, <1>4 DEF TypeOK, Knows, Counted, Wanted, regs
<1>11. RequestInv'
  <2>1. CASE UNCHANGED lock /\ pc' = [pc EXCEPT ![p] = "requested"]
    <3>1. Asks(p)' = Asks(p) /\ ~ Asks(p)
      BY <1>1, <1>2, <2>1 DEF TypeOK, Asks
    <3> QED
      BY <1>1, <1>4, <1>6, <2>1, <3>1, IoIsBuffer, RequestsStay DEF dev
  <2>2. CASE ~ lock[b] /\ ~ nothing /\ pc' = [pc EXCEPT ![p] = "findRequest"] /\ lock' = [lock EXCEPT ![b] = TRUE]
    <3>1. /\ \A c \in Buffers : lock'[c] = (c = b \/ lock[c])
          /\ UNCHANGED <<blocknr, uptodate, request, queue, reqbh, io, rw>>
      BY <1>1, <1>2, <1>4, <2>2 DEF TypeOK, dev, regs
    <3>2. /\ \A q \in Procs : Asks(q)' = (q = p \/ Asks(q))
          /\ \A q \in Procs : Asks(q) => io[q] \in Buffers
      BY <1>1, <1>2, <2>2, IoIsBuffer DEF TypeOK, Asks
    <3>3. io[p] = b /\ (rw[p] # "WRITE" => ~ uptodate[b])
      BY <2>2 DEF b, nothing
    <3>4. ListInv'
      BY <1>1, <3>1 DEF RequestInv, ListInv
    <3>5. TableInv'
      BY <1>1, <1>2, <2>2, <3>1, <3>3 DEF RequestInv, TableInv, AskInv
    <3>6. AskInv'
      <4>1. /\ \A q \in Procs : Asks(q) => lock[io[q]] /\ io[q] # b
            /\ \A s \in RQ!Slots : request[s] # NULL => reqbh[s] # b
        BY <1>1, <2>2 DEF RequestInv, TableInv, AskInv
      <4>2. ASSUME NEW q \in Procs, Asks(q)'
            PROVE  /\ lock'[io'[q]]
                   /\ rw'[q] # "WRITE" => ~ uptodate'[io'[q]]
                   /\ \A r \in Procs : Asks(r)' /\ io'[r] = io'[q] => r = q
                   /\ \A s \in RQ!Slots : request'[s] # NULL => reqbh'[s] # io'[q]
        <5>1. CASE q = p
          BY <1>2, <3>1, <3>2, <3>3, <4>1, <5>1
        <5>2. CASE q # p
          <6>1. Asks(q)
            BY <3>2, <4>2, <5>2
          <6>2. /\ rw[q] # "WRITE" => ~ uptodate[io[q]]
                /\ \A r \in Procs : Asks(r) /\ io[r] = io[q] => r = q
                /\ \A s \in RQ!Slots : request[s] # NULL => reqbh[s] # io[q]
            BY <1>1, <6>1 DEF RequestInv, AskInv
          <6> QED
            BY <3>1, <3>2, <3>3, <4>1, <6>1, <6>2
        <5> QED
          BY <5>1, <5>2
      <4> QED
        BY <4>2 DEF AskInv
    <3>7. LockInv'
      BY <1>1, <1>2, <2>2, <3>1, <3>2, <3>3 DEF RequestInv, LockInv
    <3> QED
      BY <3>4, <3>5, <3>6, <3>7 DEF RequestInv
  <2> QED
    BY <1>3, <2>1, <2>2
<1> QED
  BY <1>4, <1>5, <1>6, <1>7, <1>8, <1>9, <1>10, <1>11, OwnStep

LEMMA NoRequestKeeps ==
    ASSUME CacheInv, NEW p \in Procs, NoRequest(p) PROVE CacheInv' /\ Others(p)
<1> DEFINE b == io[p]
<1>1. TypeOK /\ Shape(p) /\ Knows(p) /\ BlocksNamed /\ RequestInv
  BY DEF CacheInv
<1>2. pc[p] = "findRequest" /\ b \in Buffers /\ Asks(p)
  BY <1>1 DEF NoRequest, At, Shape, Asks
<1>3. \/ pc' = [pc EXCEPT ![p] = "requested"] /\ lock' = [lock EXCEPT ![b] = FALSE]
      \/ pc' = [pc EXCEPT ![p] = "requestSleep"] /\ UNCHANGED lock
  BY DEF NoRequest, Goto
<1>4. UNCHANGED <<blocknr, count, dirt, uptodate, data, dev, cpu, regs, hold, ops>>
  BY DEF NoRequest
<1> HIDE DEF b
<1>5. TypeOK'
  BY <1>1, <1>2, <1>3, <1>4 DEF TypeOK, dev, regs, RQ!TypeOK
<1>6. Others(p)
  BY <1>1, <1>3, <1>4 DEF TypeOK, Others, Stays, regs
<1>7. Shape(p)'
  BY <1>1, <1>2, <1>3, <1>4 DEF TypeOK, Shape, Syncing, Reads, regs
<1>8. ASSUME NEW c \in Buffers PROVE count'[c] = count[c] + Refs(p, c)' - Refs(p, c)
  BY <1>1, <1>2, <1>3, <1>4 DEF TypeOK, Refs, One, Counted, regs
<1>9. BlocksNamed'
  BY <1>1, <1>2, <1>3, <1>4 DEF TypeOK, BlocksNamed
<1>10. Knows(p)'
  BY <1>1, <1>2, <1>3, <1>4 DEF TypeOK, Knows, Counted, Wanted, regs
<1>11. RequestInv'
  <2>1. CASE pc' = [pc EXCEPT ![p] = "requestSleep"] /\ UNCHANGED lock
    <3>1. Asks(p)' = Asks(p)
      BY <1>1, <1>2, <2>1 DEF TypeOK, Asks
    <3> QED
      BY <1>1, <1>4, <1>6, <2>1, <3>1, IoIsBuffer, RequestsStay DEF dev, regs
  <2>2. CASE pc' = [pc EXCEPT ![p] = "requested"] /\ lock' = [lock EXCEPT ![b] = FALSE]
    <3>1. /\ \A c \in Buffers : lock'[c] = (c # b /\ lock[c])
          /\ UNCHANGED <<blocknr, uptodate, request, queue, reqbh, io, rw>>
      BY <1>1, <1>2, <1>4, <2>2 DEF TypeOK, dev, regs
    <3>2. /\ \A q \in Procs : Asks(q)' = (q # p /\ Asks(q))
          /\ \A q \in Procs : Asks(q) => io[q] \in Buffers
      BY <1>1, <1>2, <2>2, IoIsBuffer DEF TypeOK, Asks
    <3>3. io[p] = b
      BY DEF b
    <3>4. ListInv'
      BY <1>1, <3>1 DEF RequestInv, ListInv
    <3>5. TableInv'
      BY <1>1, <1>2, <2>2, <3>1, <3>3 DEF RequestInv, TableInv, AskInv
    <3>6. AskInv'
      <4>1. ASSUME NEW q \in Procs, Asks(q)'
            PROVE  /\ lock'[io'[q]]
                   /\ rw'[q] # "WRITE" => ~ uptodate'[io'[q]]
                   /\ \A r \in Procs : Asks(r)' /\ io'[r] = io'[q] => r = q
                   /\ \A s \in RQ!Slots : request'[s] # NULL => reqbh'[s] # io'[q]
        <5>1. Asks(q) /\ q # p
          BY <3>2, <4>1
        <5>2. /\ lock[io[q]] /\ (rw[q] # "WRITE" => ~ uptodate[io[q]])
              /\ \A r \in Procs : Asks(r) /\ io[r] = io[q] => r = q
              /\ \A s \in RQ!Slots : request[s] # NULL => reqbh[s] # io[q]
          BY <1>1, <5>1 DEF RequestInv, AskInv
        <5>3. io[q] # b
          BY <1>2, <3>3, <5>1, <5>2
        <5> QED
          BY <3>1, <3>2, <5>1, <5>2, <5>3
      <4> QED
        BY <4>1 DEF AskInv
    <3>7. LockInv'
      BY <1>1, <1>2, <2>2, <3>1, <3>2, <3>3 DEF RequestInv, LockInv
    <3> QED
      BY <3>4, <3>5, <3>6, <3>7 DEF RequestInv
  <2> QED
    BY <1>3, <2>1, <2>2
<1> QED
  BY <1>4, <1>5, <1>6, <1>7, <1>8, <1>9, <1>10, <1>11, OwnStep

\* Where add_request links a request in.
LEMMA PlaceInList ==
    ASSUME NEW S, NEW q \in Seq(S), q # <<>>, NEW table, NEW r
    PROVE  RQ!Place(q, table, r) \in 1 .. Len(q)
<1> DEFINE Key(i) == table[q[i]]
           Fits(i) == /\ RQ!InOrder(Key(i), r) \/ ~ RQ!InOrder(Key(i), Key(i + 1))
                      /\ RQ!InOrder(r, Key(i + 1))
           fits == {i \in 1 .. Len(q) - 1 : Fits(i)}
<1>1. Len(q) \in Nat \ {0}
  BY EmptySeq, LenProperties
<1>2. fits \in SUBSET Nat /\ fits \in SUBSET (1 .. Len(q))
  BY <1>1
<1>3. RQ!Place(q, table, r) = IF fits = {} THEN Len(q) ELSE RQ!Min(fits)
  BY DEF RQ!Place
<1> HIDE DEF fits
<1>4. fits # {} => RQ!Min(fits) \in fits
  <2>1. RQ!Min(fits) = Min(fits)
    BY DEF RQ!Min, Min
  <2> QED
    BY <1>2, <2>1, MinIsLeast
<1>5. CASE fits = {}
  BY <1>1, <1>3, <1>5
<1>6. CASE fits # {}
  <2>1. RQ!Place(q, table, r) \in fits
    BY <1>3, <1>4, <1>6
  <2> QED
    BY <1>2, <2>1
<1> QED
  BY <1>5, <1>6

LEMMA FirstOfList ==
    ASSUME TypeOK, queue # <<>>
    PROVE  /\ Len(queue) \in Nat \ {0} /\ Head(queue) = queue[1] /\ queue[1] \in RQ!Slots
           /\ Tail(queue) \in Seq(RQ!Slots) /\ Len(Tail(queue)) = Len(queue) - 1
           /\ \A i \in 1 .. Len(queue) - 1 : Tail(queue)[i] = queue[i + 1]
<1>1. queue \in Seq(RQ!Slots)
  BY DEF TypeOK, RQ!TypeOK
<1>2. Len(queue) \in Nat \ {0}
  BY <1>1, EmptySeq, LenProperties
<1>3. 1 \in 1 .. Len(queue)
  BY <1>2
<1>4. queue[1] \in RQ!Slots
  BY <1>1, <1>3, ElementOfSeq
<1> QED
  BY <1>1, <1>2, <1>4, HeadTailProperties

LEMMA FreeSlotTaken ==
    ASSUME NEW cmd, RQ!FreeSlots(cmd) # {}
    PROVE  Max(RQ!FreeSlots(cmd)) \in RQ!FreeSlots(cmd)
<1>1. RQ!FreeSlots(cmd) \in SUBSET (0 .. NR_REQUEST - 1) /\ NR_REQUEST - 1 \in Nat
  BY SlotsExist DEF RQ!FreeSlots, RQ!Slots
<1> QED
  BY <1>1, MaxIsGreatest

LEMMA QueueRequestKeeps ==
    ASSUME CacheInv, NEW p \in Procs, QueueRequest(p) PROVE CacheInv' /\ Others(p)
<1> DEFINE b == io[p]
           s == Max(RQ!FreeSlots(Command(p)))
           r == [cmd |-> Command(p), dev |-> DEV, sector |-> 2 * blocknr[io[p]]]
<1>1. TypeOK /\ Shape(p) /\ Knows(p) /\ BlocksNamed /\ RequestInv
  BY DEF CacheInv
<1>2. pc[p] = "findRequest" /\ b \in Buffers /\ Asks(p) /\ blocknr[b] \in Blocks
  <2>1. pc[p] = "findRequest" /\ Asks(p)
    BY DEF QueueRequest, At, Asks
  <2>2. b \in Buffers /\ blocknr[b] # NULL
    BY <2>1, AskedIsNamed
  <2> QED
    BY <1>1, <2>1, <2>2 DEF TypeOK
<1>3. s \in RQ!Slots /\ request[s] = NULL
  BY FreeSlotTaken DEF QueueRequest, RQ!FreeSlots
<1>4. r \in RQ!Requests /\ r # NULL /\ r.sector = 2 * blocknr[b]
  <2>1. Command(p) \in {RQ!READ, RQ!WRITE}
    BY DEF Command
  <2>2. r \in RQ!Requests
    BY <1>2, <2>1 DEF RQ!Requests
  <2> QED
    BY <2>2, NullIsNoRequest
<1>5. /\ request' = [request EXCEPT ![s] = r]
      /\ queue' = IF queue = <<>> THEN <<s>>
                  ELSE InsertedAt(queue, RQ!Place(queue, request, r) + 1, s)
      /\ reqbh' = [reqbh EXCEPT ![s] = b]
      /\ dirt' = [dirt EXCEPT ![b] = FALSE]
      /\ pc' = [pc EXCEPT ![p] = "requested"]
      /\ UNCHANGED <<blocknr, count, uptodate, lock, data, disk, moved, cpu, regs, hold, ops>>
  BY DEF QueueRequest, RQ!AddRequest, RQ!InsertAt, InsertedAt, Goto
<1> HIDE DEF b, s, r
<1>6. /\ queue' \in Seq(RQ!Slots)
      /\ Len(queue) \in Nat /\ \A k \in 1 .. Len(queue) : queue[k] \in RQ!Slots
      /\ \E i \in 1 .. Len(queue) + 1 :
            /\ i = 1 => queue = <<>>
            /\ Len(queue') = Len(queue) + 1
            /\ \A k \in 1 .. Len(queue) + 1 :
                 queue'[k] = IF k < i THEN queue[k] ELSE IF k = i THEN s ELSE queue[k - 1]
  <2>1. queue \in Seq(RQ!Slots)
    BY <1>1 DEF TypeOK, RQ!TypeOK
  <2>2. Len(queue) \in Nat /\ \A k \in 1 .. Len(queue) : queue[k] \in RQ!Slots
    BY <2>1, LenProperties, ElementOfSeq
  <2>3. CASE queue = <<>>
    <3>1. queue' = <<s>> /\ Len(queue) = 0 /\ Len(queue') = 1 /\ queue'[1] = s /\ queue' \in Seq(RQ!Slots)
      BY <1>3, <1>5, <2>3
    <3>2. 1 \in 1 .. Len(queue) + 1 /\ \A k \in 1 .. Len(queue) + 1 : k = 1
      BY <3>1
    <3> QED
      BY <2>2, <2>3, <3>1, <3>2
  <2>4. CASE queue # <<>>
    <3> DEFINE i == RQ!Place(queue, request, r) + 1
    <3>1. i \in 1 .. Len(queue) + 1 /\ i # 1
      BY <2>1, <2>2, <2>4, PlaceInList
    <3> DEFINE q2 == InsertedAt(queue, i, s)
    <3>2. queue' = q2
      BY <1>5, <2>4
    <3> HIDE DEF i
    <3>3. /\ q2 \in Seq(RQ!Slots) /\ Len(q2) = Len(queue) + 1
          /\ \A k \in 1 .. Len(queue) + 1 :
               q2[k] = IF k < i THEN queue[k] ELSE IF k = i THEN s ELSE queue[k - 1]
      <4>1. queue \in Seq(RQ!Slots) /\ i \in 1 .. Len(queue) + 1 /\ s \in RQ!Slots
        BY <1>3, <2>1, <3>1
      <4>2. IsInserted(RQ!Slots, queue, i, s, q2)
        BY <4>1, Inserted
      <4> QED
        BY <4>2 DEF IsInserted
    <3> HIDE DEF q2
    <3> QED
      BY <2>2, <3>1, <3>2, <3>3
  <2> QED
    BY <2>3, <2>4
<1>7. TypeOK'
  <2>1. /\ request' \in [RQ!Slots -> RQ!Requests \cup {NULL}]
        /\ reqbh' \in [RQ!Slots -> Buffers \cup {NULL}]
        /\ dirt' \in [Buffers -> BOOLEAN]
        /\ pc' \in [Procs -> {"user", "copy", "getblk", "hashWait", "bufferWait",
                         "victimWait", "gotBlock", "sync", "lockBuffer",
                         "findRequest", "requestSleep", "requestWait",
                         "requested", "readWait", "brelse"}]
    BY <1>1, <1>2, <1>3, <1>4, <1>5 DEF TypeOK, RQ!TypeOK
  <2> QED
    BY <1>1, <1>5, <1>6, <2>1 DEF TypeOK, RQ!TypeOK, regs
<1>8. Others(p)
  BY <1>1, <1>5 DEF TypeOK, Others, Stays, regs
<1>9. Shape(p)'
  BY <1>1, <1>2, <1>5 DEF TypeOK, Shape, Syncing, Reads, regs
<1>10. ASSUME NEW c \in Buffers PROVE count'[c] = count[c] + Refs(p, c)' - Refs(p, c)
  BY <1>1, <1>2, <1>5 DEF TypeOK, Refs, One, Counted, regs
<1>11. BlocksNamed'
  BY <1>1, <1>2, <1>5 DEF TypeOK, BlocksNamed
<1>12. Knows(p)'
  BY <1>1, <1>2, <1>5 DEF TypeOK, Knows, Counted, Wanted, regs
<1>13. RequestInv'
  <2>1. /\ \A q \in Procs : Asks(q)' = (q # p /\ Asks(q))
        /\ UNCHANGED <<io, rw, lock, uptodate, blocknr>>
    BY <1>1, <1>2, <1>5 DEF TypeOK, Asks, regs
  <2>2. /\ request' = [request EXCEPT ![s] = r] /\ reqbh' = [reqbh EXCEPT ![s] = b]
        /\ request \in [RQ!Slots -> RQ!Requests \cup {NULL}]
        /\ reqbh \in [RQ!Slots -> Buffers \cup {NULL}]
    BY <1>1, <1>5 DEF TypeOK, RQ!TypeOK
  <2>3. /\ request'[s] = r /\ reqbh'[s] = b
        /\ \A t \in RQ!Slots : t # s => request'[t] = request[t] /\ reqbh'[t] = reqbh[t]
    BY <1>3, <2>2
  <2>4. /\ lock[b] /\ (rw[p] # "WRITE" => ~ uptodate[b]) /\ io[p] = b
        /\ \A q \in Procs : Asks(q) /\ io[q] = b => q = p
        /\ \A t \in RQ!Slots : request[t] # NULL => reqbh[t] # b
    BY <1>1, <1>2 DEF RequestInv, AskInv, b
  <2>5. ListInv'
    <3>1. /\ \A i, j \in 1 .. Len(queue) : i # j => queue[i] # queue[j]
          /\ \A i \in 1 .. Len(queue) : request[queue[i]] # NULL /\ queue[i] # s
      BY <1>1, <1>3 DEF RequestInv, ListInv
    <3>2. PICK i \in 1 .. Len(queue) + 1 :
            /\ Len(queue') = Len(queue) + 1
            /\ \A k \in 1 .. Len(queue) + 1 :
                 queue'[k] = IF k < i THEN queue[k] ELSE IF k = i THEN s ELSE queue[k - 1]
      BY <1>6
    <3>3. ASSUME NEW k \in 1 .. Len(queue) + 1
          PROVE  /\ k < i => k \in 1 .. Len(queue) /\ queue'[k] = queue[k]
                 /\ k > i => k - 1 \in 1 .. Len(queue) /\ queue'[k] = queue[k - 1]
                 /\ k = i => queue'[k] = s
      BY <1>6, <3>2
    <3>4. \A k \in 1 .. Len(queue') : request'[queue'[k]] # NULL
      <4>1. SUFFICES ASSUME NEW k \in 1 .. Len(queue) + 1 PROVE request'[queue'[k]] # NULL
        BY <3>2
      <4>2. CASE k < i
        BY <1>6, <2>3, <3>1, <3>3, <4>2
      <4>3. CASE k > i
        BY <1>6, <2>3, <3>1, <3>3, <4>3
      <4>4. CASE k = i
        BY <1>4, <2>3, <3>3, <4>4
      <4> QED
        BY <1>6, <4>2, <4>3, <4>4
    <3>5. \A k, l \in 1 .. Len(queue') : k # l => queue'[k] # queue'[l]
      <4>1. SUFFICES ASSUME NEW k \in 1 .. Len(queue) + 1, NEW l \in 1 .. Len(queue) + 1, k < l
                     PROVE  queue'[k] # queue'[l]
        BY <1>6, <3>2
      <4>2. CASE l < i
        BY <1>6, <3>1, <3>3, <4>1, <4>2
      <4>3. CASE l = i
        BY <1>6, <3>1, <3>3, <4>1, <4>3
      <4>4. CASE l > i /\ k < i
        <5>1. k \in 1 .. Len(queue) /\ l - 1 \in 1 .. Len(queue) /\ k # l - 1
          BY <1>6, <3>3, <4>1, <4>4
        <5> QED
          BY <3>1, <3>3, <4>4, <5>1
      <4>5. CASE l > i /\ k = i
        BY <1>6, <3>1, <3>3, <4>1, <4>5
      <4>6. CASE k > i
        <5>1. k - 1 \in 1 .. Len(queue) /\ l - 1 \in 1 .. Len(queue) /\ k - 1 # l - 1 /\ l > i
          BY <1>6, <3>3, <4>1, <4>6
        <5> QED
          BY <3>1, <3>3, <4>6, <5>1
      <4> QED
        BY <1>6, <4>1, <4>2, <4>3, <4>4, <4>5, <4>6
    <3> QED
      BY <3>4, <3>5 DEF ListInv
  <2>6. TableInv'
    BY <1>1, <1>2, <1>4, <2>1, <2>3, <2>4 DEF RequestInv, TableInv
  <2>7. AskInv'
    <3>1. ASSUME NEW q \in Procs, q # p, Asks(q)
          PROVE  /\ lock[io[q]] /\ (rw[q] # "WRITE" => ~ uptodate[io[q]]) /\ io[q] # b
                 /\ \A u \in Procs : Asks(u) /\ io[u] = io[q] => u = q
                 /\ \A t \in RQ!Slots : request[t] # NULL => reqbh[t] # io[q]
      BY <1>1, <2>4, <3>1 DEF RequestInv, AskInv
    <3> QED
      BY <2>1, <2>3, <3>1 DEF AskInv
  <2>8. LockInv'
    <3>1. SUFFICES ASSUME NEW c \in Buffers, lock[c]
                   PROVE  \/ \E q \in Procs : Asks(q)' /\ io'[q] = c
                          \/ \E t \in RQ!Slots : request'[t] # NULL /\ reqbh'[t] = c
      BY <2>1 DEF LockInv
    <3>2. CASE c = b
      BY <1>3, <1>4, <2>3, <3>2
    <3>3. CASE c # b /\ \E q \in Procs : Asks(q) /\ io[q] = c
      BY <2>1, <2>4, <3>3
    <3>4. CASE c # b /\ \E t \in RQ!Slots : request[t] # NULL /\ reqbh[t] = c
      BY <1>3, <2>3, <3>4
    <3> QED
      BY <1>1, <3>1, <3>2, <3>3, <3>4 DEF RequestInv, LockInv
  <2> QED
    BY <2>5, <2>6, <2>7, <2>8 DEF RequestInv
<1> QED
  BY <1>5, <1>7, <1>8, <1>9, <1>10, <1>11, <1>12, <1>13, OwnStep

-----------------------------------------------------------------------------
(* The device, and the invariant.                                          *)

\* A step of the device renames and counts nothing.
LEMMA DeviceStep ==
    ASSUME CacheInv, \A q \in Procs : Stays(q), UNCHANGED <<blocknr, count>>,
           TypeOK', BlocksNamed', RequestInv'
    PROVE  CacheInv'
<1>1. ASSUME NEW q \in Procs PROVE Shape(q)' /\ Knows(q)' /\ Counted(q)' = Counted(q)
  BY ShapeStays, KnowsStays, CountedStays DEF CacheInv
<1>2. CountIsReferences'
  <2>1. ASSUME NEW b \in Buffers
        PROVE  /\ {q \in Procs : b \in hold'[q]} = {q \in Procs : b \in hold[q]}
               /\ {q \in Procs : first'[q] = b} = {q \in Procs : first[q] = b}
               /\ {q \in Procs : Counted(q)' /\ bh'[q] = b} = {q \in Procs : Counted(q) /\ bh[q] = b}
    BY <1>1 DEF Stays
  <2> QED
    BY <2>1 DEF CacheInv, CountIsReferences
<1>3. OneBufferPerBlock'
  BY DEF CacheInv, OneBufferPerBlock
<1> QED
  BY <1>1, <1>2, <1>3 DEF CacheInv

\* The request the device works on.
LEMMA FirstRequest ==
    ASSUME CacheInv, queue # <<>>, NEW s, s = Head(queue)
    PROVE  /\ s \in RQ!Slots /\ request[s] # NULL /\ request[s] \in RQ!Requests
           /\ reqbh[s] \in Buffers /\ lock[reqbh[s]]
           /\ blocknr[reqbh[s]] \in Blocks
           /\ request[s].sector = 2 * blocknr[reqbh[s]]
<1>1. TypeOK /\ BlocksNamed /\ ListInv /\ TableInv
  BY DEF CacheInv, RequestInv
<1>2. s \in RQ!Slots /\ request[s] # NULL
  <2>1. s = queue[1] /\ s \in RQ!Slots /\ 1 \in 1 .. Len(queue)
    BY <1>1, FirstOfList
  <2> QED
    BY <1>1, <2>1 DEF ListInv
<1>3. reqbh[s] \in Buffers /\ lock[reqbh[s]] /\ request[s].sector = 2 * blocknr[reqbh[s]]
  BY <1>1, <1>2 DEF TableInv
<1>4. blocknr[reqbh[s]] \in Blocks
  BY <1>1, <1>3 DEF TypeOK, BlocksNamed
<1> QED
  BY <1>1, <1>2, <1>3, <1>4 DEF TypeOK, RQ!TypeOK

LEMMA TransferKeeps == ASSUME CacheInv, Transfer PROVE CacheInv'
<1> DEFINE s == Head(queue)
           n == request[s].sector \div 2
<1>1. TypeOK /\ BlocksNamed /\ RequestInv
  BY DEF CacheInv
<1>2. /\ reqbh[s] \in Buffers /\ blocknr[reqbh[s]] \in Blocks
      /\ request[s].sector = 2 * blocknr[reqbh[s]]
  BY FirstRequest DEF Transfer
<1>3. n = blocknr[reqbh[s]] /\ n \in Blocks
  <2>1. \A k \in Nat : (2 * k) \div 2 = k
    OBVIOUS
  <2>2. blocknr[reqbh[s]] \in Nat
    BY <1>2, BlocksAreNumbers
  <2> QED
    BY <1>2, <2>1, <2>2
<1>4. /\ moved' = TRUE
      /\ \/ data' = [data EXCEPT ![reqbh[s]] = disk[n]] /\ UNCHANGED disk
         \/ disk' = [disk EXCEPT ![n] = data[reqbh[s]]] /\ UNCHANGED data
      /\ UNCHANGED <<blocknr, count, dirt, uptodate, lock, request, queue, reqbh, cpu, pc, regs, hold, ops>>
  BY DEF Transfer
<1> HIDE DEF s, n
<1>5. TypeOK'
  <2>1. data' \in [Buffers -> Nat] /\ disk' \in [Blocks -> Nat]
    BY <1>1, <1>2, <1>3, <1>4, SMTT(20) DEF TypeOK
  <2> QED
    BY <1>1, <1>4, <2>1 DEF TypeOK, RQ!TypeOK, regs
<1>6. \A q \in Procs : Stays(q)
  BY <1>4 DEF Stays, regs
<1>7. BlocksNamed'
  BY <1>1, <1>4 DEF BlocksNamed
<1>8. RequestInv'
  <2>1. \A q \in Procs : Asks(q)' = Asks(q)
    BY <1>6, AsksStays
  <2> QED
    BY <1>1, <1>4, <2>1 DEF RequestInv, ListInv, TableInv, AskInv, LockInv, regs
<1> QED
  BY <1>4, <1>5, <1>6, <1>7, <1>8, DeviceStep

LEMMA EndRequestKeeps ==
    ASSUME CacheInv, NEW ok \in BOOLEAN, EndRequest(ok) PROVE CacheInv'
<1> DEFINE s == Head(queue)
           b == reqbh[s]
<1>1. TypeOK /\ BlocksNamed /\ RequestInv
  BY DEF CacheInv
<1>2. queue # <<>>
  BY DEF EndRequest
<1>3. s \in RQ!Slots /\ request[s] # NULL /\ b \in Buffers /\ lock[b] /\ blocknr[b] # NULL
  BY <1>2, FirstRequest, NullIsNoBuffer
<1>4. /\ uptodate' = [uptodate EXCEPT ![b] = ok] /\ lock' = [lock EXCEPT ![b] = FALSE]
      /\ request' = [request EXCEPT ![s] = NULL] /\ queue' = Tail(queue)
      /\ reqbh' = [reqbh EXCEPT ![s] = NULL] /\ moved' = FALSE
      /\ pc' = [q \in Procs |-> IF pc[q] = "requestWait" THEN "findRequest" ELSE pc[q]]
      /\ UNCHANGED <<blocknr, count, dirt, data, disk, cpu, regs, hold, ops>>
  BY DEF EndRequest, RQ!EndRequest
<1>5. /\ Len(queue) \in Nat \ {0} /\ s = queue[1] /\ \A i \in 1 .. Len(queue) : queue[i] \in RQ!Slots
      /\ Tail(queue) \in Seq(RQ!Slots) /\ Len(Tail(queue)) = Len(queue) - 1
      /\ \A i \in 1 .. Len(queue) - 1 : Tail(queue)[i] = queue[i + 1]
  BY <1>1, <1>2, FirstOfList, ElementOfSeq DEF TypeOK, RQ!TypeOK
<1> HIDE DEF s, b
<1>6. TypeOK'
  <2>1. /\ request' \in [RQ!Slots -> RQ!Requests \cup {NULL}]
        /\ reqbh' \in [RQ!Slots -> Buffers \cup {NULL}]
        /\ lock' \in [Buffers -> BOOLEAN] /\ uptodate' \in [Buffers -> BOOLEAN]
    BY <1>1, <1>3, <1>4 DEF TypeOK, RQ!TypeOK
  <2>2. pc' \in [Procs -> {"user", "copy", "getblk", "hashWait", "bufferWait",
                         "victimWait", "gotBlock", "sync", "lockBuffer",
                         "findRequest", "requestSleep", "requestWait",
                         "requested", "readWait", "brelse"}]
    BY <1>1, <1>4 DEF TypeOK
  <2> QED
    BY <1>1, <1>4, <1>5, <2>1, <2>2 DEF TypeOK, RQ!TypeOK, regs
<1>7. \A q \in Procs : Stays(q)
  BY <1>4 DEF Stays, regs
<1>8. BlocksNamed'
  BY <1>1, <1>3, <1>4 DEF TypeOK, BlocksNamed
<1>9. RequestInv'
  <2>1. /\ \A q \in Procs : Asks(q)' = Asks(q)
        /\ UNCHANGED <<io, rw, blocknr>>
    BY <1>4, <1>7, AsksStays DEF regs
  <2>2. /\ request'[s] = NULL
        /\ \A t \in RQ!Slots : t # s => request'[t] = request[t] /\ reqbh'[t] = reqbh[t]
        /\ \A c \in Buffers : c # b => lock'[c] = lock[c] /\ uptodate'[c] = uptodate[c]
        /\ lock'[b] = FALSE
    BY <1>1, <1>3, <1>4 DEF TypeOK, RQ!TypeOK
  <2>3. /\ \A t \in RQ!Slots : request[t] # NULL /\ t # s => reqbh[t] # b
        /\ \A q \in Procs : Asks(q) => io[q] # b /\ io[q] \in Buffers
    BY <1>1, <1>3, IoIsBuffer DEF RequestInv, TableInv, AskInv, b
  <2>4. ListInv'
    <3>1. \A i \in 1 .. Len(queue) - 1 : /\ queue'[i] = queue[i + 1] /\ i + 1 \in 1 .. Len(queue)
                                         /\ i + 1 # 1
      BY <1>4, <1>5
    <3>2. /\ \A i, j \in 1 .. Len(queue) : i # j => queue[i] # queue[j]
          /\ \A i \in 1 .. Len(queue) : request[queue[i]] # NULL
      BY <1>1 DEF RequestInv, ListInv
    <3>3. Len(queue') = Len(queue) - 1 /\ 1 \in 1 .. Len(queue)
      BY <1>4, <1>5
    <3>4. \A i \in 1 .. Len(queue) - 1 : queue'[i] # s /\ queue'[i] \in RQ!Slots /\ request[queue'[i]] # NULL
      BY <1>5, <3>1, <3>2, <3>3
    <3>5. \A i, j \in 1 .. Len(queue) - 1 : i # j => queue'[i] # queue'[j]
      BY <1>5, <3>1, <3>2
    <3> QED
      BY <2>2, <3>3, <3>4, <3>5 DEF ListInv
  <2>5. TableInv'
    BY <1>1, <2>1, <2>2, <2>3 DEF RequestInv, TableInv
  <2>6. AskInv'
    <3>1. ASSUME NEW q \in Procs, Asks(q)
          PROVE  /\ lock[io[q]] /\ (rw[q] # "WRITE" => ~ uptodate[io[q]])
                 /\ \A u \in Procs : Asks(u) /\ io[u] = io[q] => u = q
                 /\ \A t \in RQ!Slots : request[t] # NULL => reqbh[t] # io[q]
      BY <1>1, <3>1 DEF RequestInv, AskInv
    <3> QED
      BY <2>1, <2>2, <2>3, <3>1 DEF AskInv
  <2>7. LockInv'
    <3>1. ASSUME NEW c \in Buffers, lock'[c]
          PROVE  \/ \E q \in Procs : Asks(q)' /\ io'[q] = c
                 \/ \E t \in RQ!Slots : request'[t] # NULL /\ reqbh'[t] = c
      <4>1. c # b /\ lock[c]
        BY <2>2, <3>1
      <4>2. CASE \E q \in Procs : Asks(q) /\ io[q] = c
        BY <2>1, <4>2
      <4>3. CASE \E t \in RQ!Slots : request[t] # NULL /\ reqbh[t] = c
        <5>1. PICK t \in RQ!Slots : request[t] # NULL /\ reqbh[t] = c
          BY <4>3
        <5>2. t # s
          BY <4>1, <5>1 DEF b
        <5> QED
          BY <2>2, <5>1, <5>2
      <4> QED
        BY <1>1, <4>1, <4>2, <4>3 DEF RequestInv, LockInv
    <3> QED
      BY <3>1 DEF LockInv
  <2> QED
    BY <2>4, <2>5, <2>6, <2>7 DEF RequestInv
<1> QED
  BY <1>4, <1>6, <1>7, <1>8, <1>9, DeviceStep

LEMMA StutterKeeps == ASSUME CacheInv, UNCHANGED vars PROVE CacheInv'
<1>1. UNCHANGED <<bufs, dev, regs, pc, hold>>
  BY DEF vars
<1>2. TypeOK'
  BY DEF CacheInv, TypeOK, RQ!TypeOK, vars, bufs, dev, regs
<1>3. \A q \in Procs : Stays(q)
  BY <1>1 DEF Stays, regs
<1>4. BlocksNamed'
  BY <1>1 DEF CacheInv, BlocksNamed, bufs
<1>5. RequestInv'
  <2>1. \A q \in Procs : Asks(q)' = Asks(q)
    BY <1>3, AsksStays
  <2> QED
    BY <1>1, <2>1 DEF CacheInv, RequestInv, ListInv, TableInv, AskInv, LockInv, regs, bufs, dev
<1> QED
  BY <1>1, <1>2, <1>3, <1>4, <1>5, DeviceStep DEF bufs

LEMMA CacheStep == ASSUME CacheInv, [Next]_vars PROVE CacheInv'
<1>1. ASSUME NEW p \in Procs, KernelStep(p) PROVE CacheInv'
  BY <1>1, FindBufferKeeps, HashWaitKeeps, PickVictimKeeps, NoBufferKeeps, VictimLostKeeps,
     SyncVictimKeeps, TakeVictimKeeps, LockBufferKeeps, QueueRequestKeeps, NoRequestKeeps,
     SleepOnRequestKeeps, GotBlockKeeps, SyncRequestedKeeps, BreadRequestedKeeps,
     FirstRequestedKeeps, AheadRequestedKeeps, ReadWaitKeeps, BrelseDoneKeeps, CopyInKeeps,
     SyncBufferKeeps, SyncDoneKeeps DEF KernelStep
<1>2. ASSUME NEW p \in Procs, Call(p) PROVE CacheInv'
  BY <1>2, BreadKeeps, BreadaKeeps, ModifyBufferKeeps, FileWriteKeeps, SysSyncKeeps DEF Call
<1>3. ASSUME NEW p \in Procs, Schedule(p) \/ Release(p) PROVE CacheInv'
  BY <1>3, ScheduleKeeps, BrelseKeeps DEF Release
<1>4. ASSUME Device PROVE CacheInv'
  BY <1>4, TransferKeeps, EndRequestKeeps DEF Device
<1> QED
  BY <1>1, <1>2, <1>3, <1>4, StutterKeeps DEF Next, Finished

LEMMA CacheInit == Init => CacheInv
<1> SUFFICES ASSUME Init PROVE CacheInv
  OBVIOUS
<1>1. TypeOK
  <2>1. 0 \in 0 .. MaxOps /\ 0 \in 0 .. 2 * NR_BUFFERS + 1 /\ 0 \in Nat
    BY BoundsAreNumbers, BuffersExist
  <2>2. RQ!TypeOK
    BY DEF Init, RQ!Init, RQ!TypeOK
  <2> QED
    BY <2>1, <2>2 DEF Init, TypeOK
<1>2. \A p \in Procs : Shape(p) /\ Knows(p) /\ ~ Asks(p)
  BY NullIsNoBuffer DEF Init, Shape, Knows, Asks, Counted, Wanted
<1>3. CountIsReferences
  <2>1. ASSUME NEW b \in Buffers
        PROVE  /\ count[b] = 0 /\ {q \in Procs : b \in hold[q]} = {} /\ {q \in Procs : first[q] = b} = {}
               /\ {q \in Procs : Counted(q) /\ bh[q] = b} = {}
    BY NullIsNoBuffer DEF Init, Counted
  <2>2. Cardinality({}) = 0
    BY FS_EmptySet
  <2>3. ASSUME NEW b \in Buffers
        PROVE  count[b] = Cardinality({q \in Procs : b \in hold[q]})
                        + Cardinality({q \in Procs : first[q] = b})
                        + Cardinality({q \in Procs : Counted(q) /\ bh[q] = b})
    <3>1. /\ Cardinality({q \in Procs : b \in hold[q]}) = 0
          /\ Cardinality({q \in Procs : first[q] = b}) = 0
          /\ Cardinality({q \in Procs : Counted(q) /\ bh[q] = b}) = 0
      BY <2>1, <2>2
    <3> QED
      BY <2>1, <3>1
  <2> QED
    BY <2>3 DEF CountIsReferences
<1>4. OneBufferPerBlock /\ BlocksNamed
  BY DEF Init, OneBufferPerBlock, BlocksNamed
<1>5. RequestInv
  BY <1>2 DEF Init, RQ!Init, RequestInv, ListInv, TableInv, AskInv, LockInv
<1> QED
  BY <1>1, <1>2, <1>3, <1>4, <1>5 DEF CacheInv

\* The invariant holds whatever the device answers and whoever sleeps where.
THEOREM CacheIsConsistent == Spec => []CacheInv
<1>1. CacheInv /\ [Next]_vars => CacheInv'
  BY CacheStep
<1> QED
  BY <1>1, CacheInit, PTL DEF Spec

\* b_count is the number of references at every moment: brelse cannot panic with
\* "Trying to free free buffer", and getblk takes over no buffer that is in use.
THEOREM CountsAreReferences == Spec => []CountIsReferences
<1>1. CacheInv => CountIsReferences
  BY DEF CacheInv
<1> QED
  BY <1>1, CacheIsConsistent, PTL

\* The fields of the buffer heads, the request table and the registers of the calls
\* keep their types on all paths: b_count is never negative, and a queue of requests
\* only holds slots of the table.
THEOREM TypeCorrect == Spec => []TypeOK
<1>1. CacheInv => TypeOK
  BY DEF CacheInv
<1> QED
  BY <1>1, CacheIsConsistent, PTL

\* However many processes miss the same block at the same time and sleep in getblk,
\* only one of them makes a buffer for it: "this buffer is the only one of its kind".
THEOREM OneBufferEach == Spec => []OneBufferPerBlock
<1>1. CacheInv => OneBufferPerBlock
  BY DEF CacheInv
<1> QED
  BY <1>1, CacheIsConsistent, PTL

LEMMA CacheGivesWanted == CacheInv => GotWantedBlock
  BY DEF CacheInv, Knows, GotWantedBlock

\* The buffer that get_hash_table, getblk or bread ends up with is the one of the
\* block it asked for, although it may have slept on it.
THEOREM WantedIsGot == Spec => []GotWantedBlock
  BY CacheGivesWanted, CacheIsConsistent, PTL

LEMMA CacheLocksForOne == CacheInv => LockedForOneRequest
<1> SUFFICES ASSUME CacheInv PROVE LockedForOneRequest
  OBVIOUS
<1>1. TableInv /\ AskInv /\ LockInv
  BY DEF CacheInv, RequestInv
<1>2. ASSUME NEW b \in Buffers
      PROVE  Cardinality(Queued(b)) + Cardinality(Asking(b)) = IF lock[b] THEN 1 ELSE 0
  <2>1. /\ \A s, t \in Queued(b) : s = t
        /\ \A p, q \in Asking(b) : p = q
        /\ lock[b] <=> Queued(b) # {} \/ Asking(b) # {}
        /\ Queued(b) = {} \/ Asking(b) = {}
    BY <1>1 DEF TableInv, AskInv, LockInv, Asks, Queued, Asking
  <2>2. Cardinality(Queued(b)) = One(Queued(b) # {}) /\ Cardinality(Asking(b)) = One(Asking(b) # {})
    BY <2>1, AtMostOne
  <2> QED
    BY <2>1, <2>2 DEF One
<1>3. ASSUME NEW s \in RQ!Slots, request[s] # NULL
      PROVE  reqbh[s] # NULL /\ request[s].sector = 2 * blocknr[reqbh[s]]
  BY <1>1, <1>3, NullIsNoBuffer DEF TableInv
<1> QED
  BY <1>2, <1>3 DEF LockedForOneRequest

\* b_lock is set for exactly one request, made or about to be made, and the buffer
\* keeps its block meanwhile: end_request finds it locked.
THEOREM BuffersLockedForOneRequest == Spec => []LockedForOneRequest
  BY CacheLocksForOne, CacheIsConsistent, PTL

\* QueueRequest is a MakeRequest of RequestQueue.
LEMMA QueueRequestMakes ==
    ASSUME CacheInv, NEW p \in Procs, QueueRequest(p) PROVE RQ!Next
<1> DEFINE r == [cmd |-> Command(p), dev |-> DEV, sector |-> 2 * blocknr[io[p]]]
<1>1. Asks(p) /\ pc[p] # "lockBuffer"
  BY DEF QueueRequest, At, Asks
<1>2. io[p] \in Buffers /\ blocknr[io[p]] \in Blocks
  BY <1>1, AskedIsNamed DEF CacheInv, TypeOK
<1>3. r \in RQ!Requests /\ r.cmd = Command(p) /\ r.sector = 2 * blocknr[io[p]]
  BY <1>2 DEF RQ!Requests, Command
<1>4. ASSUME NEW s \in RQ!Slots, request[s] # NULL
      PROVE  request[s].sector # r.sector
  <2>1. reqbh[s] \in Buffers /\ request[s].sector = 2 * blocknr[reqbh[s]] /\ reqbh[s] # io[p]
    BY <1>1, <1>4 DEF CacheInv, RequestInv, TableInv, AskInv
  <2>2. blocknr[reqbh[s]] \in Blocks /\ blocknr[reqbh[s]] # blocknr[io[p]]
    BY <1>2, <1>4, <2>1, NullIsNoBuffer
       DEF CacheInv, OneBufferPerBlock, TypeOK, RequestInv, TableInv, BlocksNamed
  <2>3. \A m, n \in Nat : m # n => 2 * m # 2 * n
    OBVIOUS
  <2> QED
    BY <1>2, <1>3, <2>1, <2>2, <2>3, BlocksAreNumbers
<1>5. RQ!FreeSlots(Command(p)) # {} /\ RQ!AddRequest(Max(RQ!FreeSlots(Command(p))), r)
  BY DEF QueueRequest
<1> HIDE DEF r
<1>6. RQ!MakeRequest(r)
  BY <1>3, <1>4, <1>5 DEF RQ!MakeRequest, RQ!Max, Max
<1> QED
  BY <1>3, <1>6 DEF RQ!Next

\* make_request puts no second request for a block into the list, so what RequestQueue
\* shows of add_request and end_request holds of the cache's requests.
THEOREM CacheUsesQueue == Spec => ImplementsRequestQueue
<1>1. Init => RQ!Init
  BY DEF Init
<1>2. ASSUME CacheInv, [Next]_vars PROVE [RQ!Next]_<<request, queue>>
  <2>1. ASSUME NEW p \in Procs, KernelStep(p) PROVE [RQ!Next]_<<request, queue>>
    <3>1. CASE QueueRequest(p)
      BY <1>2, <3>1, QueueRequestMakes
    <3>2. CASE ~ QueueRequest(p)
      BY <2>1, <3>2
         DEF KernelStep, dev, FindBuffer, HashWait, PickVictim, NoBuffer, VictimLost, SyncVictim,
         TakeVictim, LockBuffer, NoRequest, SleepOnRequest, GotBlock, SyncRequested, BreadRequested,
         FirstRequested, AheadRequested, Returned, ReadWait, BrelseDone, CopyIn, SyncBuffer, SyncDone
    <3> QED
      BY <3>1, <3>2
  <2>2. ASSUME NEW p \in Procs, Call(p) \/ Release(p) \/ Schedule(p) PROVE UNCHANGED <<request, queue>>
    BY <2>2
       DEF Call, Release, Schedule, dev, Bread, Breada, ModifyBuffer, FileWrite, SysSync, Brelse
  <2>3. ASSUME Device PROVE [RQ!Next]_<<request, queue>>
    BY <2>3 DEF Device, Transfer, EndRequest, RQ!Next
  <2> QED
    BY <1>2, <2>1, <2>2, <2>3 DEF Next, Finished, vars, dev
<1> QED
  BY <1>1, <1>2, CacheIsConsistent, PTL DEF Spec, ImplementsRequestQueue, RQ!Spec, RQ!vars

------------------------------------------------------------------------------
(* Proofs about the data in the buffer cache: a clean buffer holds what is *)
(* on the disk, and the cache implements a device on which modifications   *)
(* take effect at once (BlockStore).                                       *)
(*                                                                         *)
(* Both need that the copy loop of file_write does not sleep (~ MayFault): *)
(* it sets b_dirt before it copies.  The second also needs a device        *)
(* without errors (~ MayFail): a failed write leaves b_uptodate = 0, and   *)
(* the next bread replaces the data that could not be written.             *)


\* A step that leaves the data, the disk and the requests alone.
Quiet(p) ==
    /\ cpu = p /\ cpu' = cpu
    /\ UNCHANGED <<blocknr, dirt, uptodate, lock, data, disk, request, queue, reqbh, moved>>
    /\ pc'[p] # "copy"
    /\ \A b \in hold'[p] : b \in hold[p] \/ uptodate[b]
    /\ Asks(p)' => Asks(p) /\ io'[p] = io[p] /\ rw'[p] = rw[p]

QuietStep(p) ==
    \/ FindBuffer(p) \/ HashWait(p) \/ PickVictim(p) \/ NoBuffer(p)
    \/ VictimLost(p) \/ SyncVictim(p) \/ SleepOnRequest(p) \/ GotBlock(p)
    \/ SyncRequested(p) \/ BreadRequested(p) \/ FirstRequested(p)
    \/ AheadRequested(p) \/ ReadWait(p) \/ BrelseDone(p)
    \/ SyncBuffer(p) \/ SyncDone(p) \/ Release(p) \/ SysSync(p)
    \/ \E n \in Blocks : Bread(p, n)
    \/ \E n \in Blocks, m \in AheadBlocks : Breada(p, n, m)

\* The quiet steps are quiet, and disturb nobody.
LEMMA QuietSteps == ASSUME TypeOK, NEW p \in Procs, QuietStep(p) PROVE Quiet(p)
<1> USE DEF TypeOK, Quiet, At, Goto, bufs, dev, regs, Asks
<1>1. FindBuffer(p) => Quiet(p)
  BY DEF FindBuffer
<1>2. HashWait(p) => Quiet(p)
  BY DEF HashWait
<1>3. PickVictim(p) => Quiet(p)
  BY DEF PickVictim
<1>4. NoBuffer(p) => Quiet(p)
  BY DEF NoBuffer
<1>5. VictimLost(p) => Quiet(p)
  BY DEF VictimLost
<1>6. SyncVictim(p) => Quiet(p)
  BY DEF SyncVictim
<1>7. SleepOnRequest(p) => Quiet(p)
  BY DEF SleepOnRequest
<1>8. GotBlock(p) => Quiet(p)
  BY DEF GotBlock
<1>9. SyncRequested(p) \/ BreadRequested(p) \/ FirstRequested(p) \/ AheadRequested(p) => Quiet(p)
  BY DEF SyncRequested, BreadRequested, FirstRequested, AheadRequested, Returned
<1>10. ReadWait(p) => Quiet(p)
  BY DEF ReadWait, GotoAndWake
<1>11. BrelseDone(p) => Quiet(p)
  BY DEF BrelseDone, GotoAndWake
<1>12. SyncBuffer(p) => Quiet(p)
  BY DEF SyncBuffer
<1>13. SyncDone(p) => Quiet(p)
  BY DEF SyncDone
<1>14. Release(p) => Quiet(p)
  BY DEF Release, Brelse
<1>15. SysSync(p) => Quiet(p)
  BY DEF SysSync, Starts
<1>16. (\E n \in Blocks : Bread(p, n)) => Quiet(p)
  BY DEF Bread, Starts
<1>17. (\E n \in Blocks, m \in AheadBlocks : Breada(p, n, m)) => Quiet(p)
  BY DEF Breada, Starts
<1> QED
  BY <1>1, <1>2, <1>3, <1>4, <1>5, <1>6, <1>7, <1>8, <1>9, <1>10, <1>11, <1>12, <1>13, <1>14,
     <1>15, <1>16, <1>17 DEF QuietStep

LEMMA QuietOthers == ASSUME CacheInv, NEW p \in Procs, QuietStep(p) PROVE Others(p)
  BY FindBufferKeeps, HashWaitKeeps, PickVictimKeeps, NoBufferKeeps, VictimLostKeeps,
     SyncVictimKeeps, SleepOnRequestKeeps, GotBlockKeeps, SyncRequestedKeeps, BreadRequestedKeeps,
     FirstRequestedKeeps, AheadRequestedKeeps, ReadWaitKeeps, BrelseDoneKeeps,
     SyncBufferKeeps, SyncDoneKeeps, BreadKeeps, BreadaKeeps, SysSyncKeeps, BrelseKeeps
     DEF QuietStep, Release

-----------------------------------------------------------------------------

\* In the copy loop of file_write a process keeps the CPU and the buffer is dirty.
CopyInv == \A p \in Procs : pc[p] = "copy" => cpu = p /\ dirt[bh[p]]

\* The data of the first request, once they have moved.
MovedInv ==
    moved => /\ queue # <<>>
             /\ \A b \in Buffers : b = reqbh[Head(queue)] /\ ~ dirt[b] => data[b] = disk[blocknr[b]]

DataInv == CopyInv /\ CleanMatchesDisk /\ MovedInv

\* Nobody else is in the copy loop while p has the CPU.
LEMMA OnlyCopy ==
    ASSUME DataInv, NEW p \in Procs, cpu = p, Others(p), NEW q \in Procs \ {p}
    PROVE  pc'[q] # "copy"
  BY DEF DataInv, CopyInv, Others, Stays

\* Step by step, the data in the buffers stay right.
LEMMA QuietKeepsData ==
    ASSUME DataInv, NEW p \in Procs, Quiet(p), Others(p) PROVE DataInv'
<1>1. CopyInv'
  BY OnlyCopy DEF Quiet, CopyInv
<1>2. CleanMatchesDisk' /\ MovedInv'
  BY DEF DataInv, Quiet, CleanMatchesDisk, MovedInv
<1> QED
  BY <1>1, <1>2 DEF DataInv

LEMMA TakeVictimKeepsData ==
    ASSUME CacheInv, DataInv, NEW p \in Procs, TakeVictim(p), Others(p) PROVE DataInv'
<1> DEFINE b == bh[p]
<1>1. /\ pc[p] = "victimWait" /\ b \in Buffers /\ ~ lock[b] /\ cpu = p
      /\ \A c \in Buffers : c # b => blocknr'[c] = blocknr[c] /\ uptodate'[c] = uptodate[c] /\ dirt'[c] = dirt[c]
      /\ ~ uptodate'[b] /\ pc'[p] # "copy"
      /\ UNCHANGED <<lock, data, disk, queue, reqbh, moved, cpu>>
  BY DEF CacheInv, TypeOK, Shape, TakeVictim, At, Asleep, Awaited, Goto, dev
<1> HIDE DEF b
<1>2. CopyInv'
  BY <1>1, OnlyCopy DEF CopyInv
<1>3. CleanMatchesDisk'
  BY <1>1 DEF DataInv, CleanMatchesDisk
<1>4. MovedInv'
  <2>1. moved => reqbh[Head(queue)] # b
    BY <1>1, FirstRequest DEF DataInv, MovedInv
  <2> QED
    BY <1>1, <2>1 DEF DataInv, MovedInv
<1> QED
  BY <1>2, <1>3, <1>4 DEF DataInv

LEMMA LockBufferKeepsData ==
    ASSUME CacheInv, DataInv, NEW p \in Procs, LockBuffer(p), Others(p) PROVE DataInv'
<1>1. /\ \A c \in Buffers : lock[c] => lock'[c]
      /\ cpu = p /\ pc'[p] # "copy"
      /\ UNCHANGED <<blocknr, uptodate, dirt, data, disk, queue, reqbh, moved, cpu>>
  BY DEF CacheInv, TypeOK, LockBuffer, At, Goto, dev
<1>2. CopyInv'
  BY <1>1, OnlyCopy DEF CopyInv
<1> QED
  BY <1>1, <1>2 DEF DataInv, CleanMatchesDisk, MovedInv

LEMMA NoRequestKeepsData ==
    ASSUME CacheInv, DataInv, NEW p \in Procs, NoRequest(p), Others(p) PROVE DataInv'
<1>1. /\ \A c \in Buffers : lock[c] => lock'[c] \/ ~ uptodate[c]
      /\ cpu = p /\ pc'[p] # "copy"
      /\ UNCHANGED <<blocknr, uptodate, dirt, data, disk, queue, reqbh, moved, cpu>>
  BY DEF CacheInv, TypeOK, NoRequest, At, Goto, dev, RequestInv, AskInv, Asks
<1>2. CopyInv'
  BY <1>1, OnlyCopy DEF CopyInv
<1> QED
  BY <1>1, <1>2 DEF DataInv, CleanMatchesDisk, MovedInv

LEMMA ModifyKeepsData ==
    ASSUME CacheInv, DataInv, NEW p \in Procs, NEW b \in hold[p],
           ModifyBuffer(p, b) \/ FileWrite(p, b), Others(p)
    PROVE  DataInv'
<1>1. /\ b \in Buffers /\ dirt'[b]
      /\ \A c \in Buffers : c # b => data'[c] = data[c] /\ dirt'[c] = dirt[c]
      /\ cpu = p /\ (pc'[p] = "copy" => bh'[p] = b)
      /\ UNCHANGED <<blocknr, uptodate, lock, disk, queue, reqbh, moved, cpu>>
  BY DEF CacheInv, TypeOK, ModifyBuffer, FileWrite, Starts, At, Goto, dev
<1>2. CopyInv'
  BY <1>1, OnlyCopy DEF CopyInv
<1> QED
  BY <1>1, <1>2 DEF DataInv, CleanMatchesDisk, MovedInv

LEMMA CopyInKeepsData ==
    ASSUME CacheInv, DataInv, NEW p \in Procs, CopyIn(p), Others(p) PROVE DataInv'
<1>1. /\ bh[p] \in Buffers /\ dirt[bh[p]]
      /\ \A c \in Buffers : c # bh[p] => data'[c] = data[c]
      /\ cpu = p /\ pc'[p] # "copy"
      /\ UNCHANGED <<blocknr, uptodate, dirt, lock, disk, queue, reqbh, moved, cpu>>
  BY DEF CacheInv, TypeOK, Shape, DataInv, CopyInv, CopyIn, At, Goto, dev
<1>2. CopyInv'
  BY <1>1, OnlyCopy DEF CopyInv
<1> QED
  BY <1>1, <1>2 DEF DataInv, CleanMatchesDisk, MovedInv

LEMMA ScheduleKeepsData ==
    ASSUME ~ MayFault, CacheInv, DataInv, NEW p \in Procs, Schedule(p) PROVE DataInv'
<1>1. \A q \in Procs : pc[q] # "copy"
  <2>1. SUFFICES ASSUME NEW q \in Procs, pc[q] = "copy" PROVE FALSE
    OBVIOUS
  <2>2. cpu = q /\ ~ Asleep(q)
    BY <2>1 DEF DataInv, CopyInv, Asleep, Awaited
  <2>3. q # NULL
    BY NullIsNothing
  <2> QED
    BY <2>1, <2>2, <2>3 DEF Schedule
<1>2. CopyInv'
  BY <1>1 DEF Schedule, CopyInv
<1> QED
  BY <1>2 DEF Schedule, DataInv, CleanMatchesDisk, MovedInv, bufs, dev

LEMMA TransferKeepsData == ASSUME CacheInv, DataInv, Transfer PROVE DataInv'
<1> DEFINE s == Head(queue)
           b == reqbh[s]
           n == request[s].sector \div 2
<1>1. /\ b \in Buffers /\ blocknr[b] \in Blocks /\ lock[b]
      /\ request[s].sector = 2 * blocknr[b]
  BY FirstRequest DEF Transfer
<1>2. n = blocknr[b] /\ n \in Blocks
  <2>1. \A k \in Nat : (2 * k) \div 2 = k
    OBVIOUS
  <2>2. blocknr[b] \in Nat
    BY <1>1, BlocksAreNumbers
  <2> QED
    BY <1>1, <2>1, <2>2
<1>3. /\ queue # <<>>
      /\ \/ data' = [data EXCEPT ![b] = disk[n]] /\ UNCHANGED disk
         \/ disk' = [disk EXCEPT ![n] = data[b]] /\ UNCHANGED data
      /\ UNCHANGED <<blocknr, dirt, uptodate, lock, queue, reqbh, cpu, pc, bh>>
  BY DEF Transfer, regs
<1> HIDE DEF n
<1>4. /\ \A c \in Buffers : c # b => data'[c] = data[c]
      /\ \A m \in Blocks : m # n => disk'[m] = disk[m]
      /\ data'[b] = disk'[n]
  BY <1>1, <1>2, <1>3 DEF CacheInv, TypeOK
<1>5. CopyInv'
  BY <1>3 DEF DataInv, CopyInv
<1>6. CleanMatchesDisk'
  <2>1. SUFFICES ASSUME NEW c \in Buffers, blocknr[c] # NULL, uptodate[c], ~ dirt[c], ~ lock[c]
                 PROVE  data'[c] = disk'[blocknr[c]]
    BY <1>3 DEF CleanMatchesDisk
  <2>2. c # b /\ blocknr[c] # n /\ blocknr[c] \in Blocks
    BY <1>1, <1>2, <2>1 DEF CacheInv, OneBufferPerBlock, TypeOK
  <2> QED
    BY <1>4, <2>1, <2>2 DEF DataInv, CleanMatchesDisk
<1>7. MovedInv'
  BY <1>2, <1>3, <1>4 DEF MovedInv
<1> QED
  BY <1>5, <1>6, <1>7 DEF DataInv

LEMMA EndRequestKeepsData ==
    ASSUME CacheInv, DataInv, NEW ok \in BOOLEAN, EndRequest(ok) PROVE DataInv'
<1> DEFINE b == reqbh[Head(queue)]
<1>1. b \in Buffers /\ queue # <<>>
  BY FirstRequest DEF EndRequest
<1>2. /\ uptodate'[b] = ok /\ (ok => moved) /\ ~ moved'
      /\ \A c \in Buffers : c # b => uptodate'[c] = uptodate[c] /\ lock'[c] = lock[c]
      /\ UNCHANGED <<blocknr, dirt, data, disk, cpu, bh>>
      /\ \A q \in Procs : pc'[q] = "copy" => pc[q] = "copy"
  BY <1>1 DEF CacheInv, TypeOK, EndRequest, regs
<1> HIDE DEF b
<1>3. CopyInv'
  BY <1>2 DEF DataInv, CopyInv
<1>4. moved /\ ~ dirt[b] => data[b] = disk[blocknr[b]]
  BY <1>1 DEF DataInv, MovedInv, b
<1>5. CleanMatchesDisk'
  BY <1>2, <1>4 DEF DataInv, CleanMatchesDisk
<1> QED
  BY <1>2, <1>3, <1>5 DEF DataInv, MovedInv

\* What QueueRequest does to the head of the list and to the table.
LEMMA QueueRequestDoes ==
    ASSUME CacheInv, NEW p \in Procs, QueueRequest(p)
    PROVE  \E s \in RQ!Slots :
              /\ request[s] = NULL /\ request'[s] # NULL /\ request'[s].cmd = Command(p)
              /\ reqbh'[s] = io[p]
              /\ \A t \in RQ!Slots : t # s => request'[t] = request[t] /\ reqbh'[t] = reqbh[t]
              /\ queue # <<>> => queue' # <<>> /\ Head(queue') = Head(queue)
<1> DEFINE s == Max(RQ!FreeSlots(Command(p)))
           r == [cmd |-> Command(p), dev |-> DEV, sector |-> 2 * blocknr[io[p]]]
<1>1. s \in RQ!Slots /\ request[s] = NULL
  BY FreeSlotTaken DEF QueueRequest, RQ!FreeSlots
<1>2. r # NULL /\ r.cmd = Command(p)
  <2>1. Asks(p) /\ pc[p] # "lockBuffer"
    BY DEF QueueRequest, At, Asks
  <2>2. blocknr[io[p]] \in Blocks
    BY <2>1, AskedIsNamed DEF CacheInv, TypeOK
  <2>3. r \in RQ!Requests
    BY <2>2 DEF RQ!Requests, Command
  <2> QED
    BY <2>3, NullIsNoRequest
<1>3. /\ request' = [request EXCEPT ![s] = r] /\ reqbh' = [reqbh EXCEPT ![s] = io[p]]
      /\ queue # <<>> => queue' = InsertedAt(queue, RQ!Place(queue, request, r) + 1, s)
  BY DEF QueueRequest, RQ!AddRequest, RQ!InsertAt, InsertedAt
<1>4. /\ request \in [RQ!Slots -> RQ!Requests \cup {NULL}] /\ queue \in Seq(RQ!Slots)
      /\ reqbh \in [RQ!Slots -> Buffers \cup {NULL}]
  BY DEF CacheInv, TypeOK, RQ!TypeOK
<1> HIDE DEF s, r
<1>5. /\ request'[s] = r /\ reqbh'[s] = io[p]
      /\ \A t \in RQ!Slots : t # s => request'[t] = request[t] /\ reqbh'[t] = reqbh[t]
  BY <1>1, <1>3, <1>4
<1>6. ASSUME queue # <<>> PROVE queue' # <<>> /\ Head(queue') = Head(queue)
  <2> DEFINE i == RQ!Place(queue, request, r) + 1
             q2 == InsertedAt(queue, i, s)
  <2>1. i \in 1 .. Len(queue) + 1 /\ 1 < i
    BY <1>4, <1>6, PlaceInList, EmptySeq, LenProperties
  <2>2. queue' = q2
    BY <1>3, <1>6
  <2> HIDE DEF i
  <2>3. /\ q2 \in Seq(RQ!Slots) /\ Len(q2) = Len(queue) + 1
        /\ \A k \in 1 .. Len(queue) + 1 :
             q2[k] = IF k < i THEN queue[k] ELSE IF k = i THEN s ELSE queue[k - 1]
    <3>1. queue \in Seq(RQ!Slots) /\ i \in 1 .. Len(queue) + 1 /\ s \in RQ!Slots
      BY <1>1, <1>4, <2>1
    <3>2. IsInserted(RQ!Slots, queue, i, s, q2)
      BY <3>1, Inserted
    <3> QED
      BY <3>2 DEF IsInserted
  <2> HIDE DEF q2
  <2>4. Len(queue) \in Nat
    BY <1>4, LenProperties
  <2>5. q2[1] = queue[1]
    BY <2>1, <2>3, <2>4
  <2>6. q2 # <<>> /\ Head(q2) = q2[1]
    BY <2>3, <2>4, EmptySeq, HeadTailProperties
  <2> QED
    BY <1>4, <1>6, <2>2, <2>5, <2>6, HeadTailProperties
<1> QED
  BY <1>1, <1>2, <1>5, <1>6

LEMMA QueueRequestKeepsData ==
    ASSUME CacheInv, DataInv, NEW p \in Procs, QueueRequest(p), Others(p) PROVE DataInv'
<1>1. Asks(p) /\ io[p] \in Buffers /\ lock[io[p]]
  BY DEF CacheInv, RequestInv, AskInv, QueueRequest, At, Asks, Shape
<1>2. /\ \A c \in Buffers : c # io[p] => dirt'[c] = dirt[c]
      /\ cpu = p /\ pc'[p] # "copy"
      /\ UNCHANGED <<blocknr, uptodate, lock, data, disk, moved, cpu>>
  BY DEF CacheInv, TypeOK, QueueRequest, At, Goto
<1>3. CopyInv'
  BY <1>2, OnlyCopy DEF CopyInv
<1>4. CleanMatchesDisk'
  BY <1>1, <1>2 DEF DataInv, CleanMatchesDisk
<1>5. MovedInv'
  <2>1. SUFFICES ASSUME moved
                 PROVE  /\ queue' # <<>>
                        /\ \A b \in Buffers : b = reqbh'[Head(queue')] /\ ~ dirt'[b] => data[b] = disk[blocknr[b]]
    BY <1>2 DEF MovedInv
  <2>2. queue # <<>> /\ \A b \in Buffers : b = reqbh[Head(queue)] /\ ~ dirt[b] => data[b] = disk[blocknr[b]]
    BY <2>1 DEF DataInv, MovedInv
  <2>3. Head(queue) \in RQ!Slots /\ request[Head(queue)] # NULL
    BY <2>2, FirstRequest
  <2>4. reqbh[Head(queue)] # io[p]
    BY <1>1, <2>3 DEF CacheInv, RequestInv, AskInv
  <2>5. queue' # <<>> /\ Head(queue') = Head(queue) /\ reqbh'[Head(queue)] = reqbh[Head(queue)]
    BY <2>2, <2>3, QueueRequestDoes
  <2> QED
    BY <1>2, <2>2, <2>4, <2>5
<1> QED
  BY <1>3, <1>4, <1>5 DEF DataInv

LEMMA StutterKeepsData == ASSUME DataInv, UNCHANGED vars PROVE DataInv'
  BY DEF vars, bufs, dev, regs, DataInv, CopyInv, CleanMatchesDisk, MovedInv

\* DataInv is preserved, provided the copy loop does not sleep.
LEMMA DataStep == ASSUME ~ MayFault, CacheInv, DataInv, [Next]_vars PROVE DataInv'
<1>1. ASSUME NEW p \in Procs, QuietStep(p) PROVE DataInv'
  BY <1>1, QuietSteps, QuietOthers, QuietKeepsData DEF CacheInv
<1>2. ASSUME NEW p \in Procs, KernelStep(p) PROVE DataInv'
  BY <1>1, <1>2, TakeVictimKeeps, TakeVictimKeepsData, LockBufferKeeps, LockBufferKeepsData,
     QueueRequestKeeps, QueueRequestKeepsData, NoRequestKeeps, NoRequestKeepsData,
     CopyInKeeps, CopyInKeepsData DEF KernelStep, QuietStep
<1>3. ASSUME NEW p \in Procs, Call(p) PROVE DataInv'
  BY <1>1, <1>3, ModifyBufferKeeps, FileWriteKeeps, ModifyKeepsData DEF Call, QuietStep
<1>4. ASSUME NEW p \in Procs, Schedule(p) \/ Release(p) PROVE DataInv'
  BY <1>1, <1>4, ScheduleKeepsData DEF QuietStep
<1>5. ASSUME Device PROVE DataInv'
  BY <1>5, TransferKeepsData, EndRequestKeepsData DEF Device
<1> QED
  BY <1>2, <1>3, <1>4, <1>5, StutterKeepsData DEF Next, Finished

\* A valid buffer that is neither dirty nor in transfer holds what is on the disk, also
\* when writes fail: getblk may throw it away.
THEOREM CleanIsOnDisk ==
    ASSUME ~ MayFault PROVE Spec => []CleanMatchesDisk
<1>1. Init => DataInv
  BY DEF Init, DataInv, CopyInv, CleanMatchesDisk, MovedInv
<1>2. CacheInv /\ DataInv /\ [Next]_vars => DataInv'
  BY DataStep
<1>3. DataInv => CleanMatchesDisk
  BY DEF DataInv
<1> QED
  BY <1>1, <1>2, <1>3, CacheIsConsistent, PTL DEF Spec

-----------------------------------------------------------------------------

\* Without errors of the device a buffer somebody got, or has changed, is valid.
HeldInv == \A p \in Procs : \A b \in hold[p] : uptodate[b]
DirtyInv == \A b \in Buffers : dirt[b] => uptodate[b]
AskedInv == \A p \in Procs : Asks(p) => (rw[p] = "WRITE" <=> uptodate[io[p]])
CommandInv == \A s \in RQ!Slots : request[s] # NULL => (request[s].cmd = RQ!WRITE <=> uptodate[reqbh[s]])

FreshInv == HeldInv /\ DirtyInv /\ AskedInv /\ CommandInv

\* The other processes keep their buffers and their requests.
LEMMA OthersAsk ==
    ASSUME NEW p, Others(p), NEW q \in Procs \ {p}
    PROVE  Asks(q)' = Asks(q) /\ io'[q] = io[q] /\ rw'[q] = rw[q] /\ hold'[q] = hold[q]
<1>1. Stays(q)
  BY DEF Others
<1> QED
  BY <1>1, AsksStays DEF Stays

\* Step by step, what is held, dirty or written stays valid.
LEMMA QuietKeepsFresh ==
    ASSUME FreshInv, NEW p \in Procs, Quiet(p), Others(p) PROVE FreshInv'
<1>1. HeldInv'
  BY OthersAsk DEF FreshInv, HeldInv, Quiet
<1>2. AskedInv'
  BY OthersAsk DEF FreshInv, AskedInv, Quiet
<1>3. DirtyInv' /\ CommandInv'
  BY DEF FreshInv, DirtyInv, CommandInv, Quiet
<1> QED
  BY <1>1, <1>2, <1>3 DEF FreshInv

LEMMA TakeVictimKeepsFresh ==
    ASSUME CacheInv, FreshInv, NEW p \in Procs, TakeVictim(p), Others(p) PROVE FreshInv'
<1> DEFINE b == bh[p]
<1>1. /\ b \in Buffers /\ count[b] = 0 /\ ~ lock[b] /\ ~ dirt[b] /\ pc[p] = "victimWait" /\ ~ Asks(p)'
      /\ \A c \in Buffers : c # b => uptodate'[c] = uptodate[c]
      /\ \A c \in Buffers : dirt'[c] => dirt[c]
      /\ UNCHANGED <<request, reqbh, io, rw, hold>>
  BY DEF CacheInv, TypeOK, Shape, TakeVictim, At, Asleep, Awaited, Goto, dev, regs, Asks
<1>2. \A q \in Procs : b \notin hold[q] /\ hold[q] \subseteq Buffers
  BY <1>1, UnusedIsFree DEF CacheInv, TypeOK
<1> HIDE DEF b
<1>3. HeldInv' /\ DirtyInv'
  BY <1>1, <1>2 DEF FreshInv, HeldInv, DirtyInv
<1>4. AskedInv'
  <2>1. ASSUME NEW q \in Procs, Asks(q) PROVE io[q] \in Buffers /\ io[q] # b
    BY <1>1, <2>1, IoIsBuffer DEF CacheInv, RequestInv, AskInv
  <2> QED
    BY <1>1, <2>1, OthersAsk DEF FreshInv, AskedInv
<1>5. CommandInv'
  BY <1>1 DEF CacheInv, RequestInv, TableInv, FreshInv, CommandInv
<1> QED
  BY <1>3, <1>4, <1>5 DEF FreshInv

LEMMA LockBufferKeepsFresh ==
    ASSUME CacheInv, FreshInv, NEW p \in Procs, LockBuffer(p), Others(p) PROVE FreshInv'
<1>1. /\ UNCHANGED <<uptodate, dirt, request, reqbh, io, rw, hold>>
      /\ Asks(p)' => IF rw[p] = "WRITE" THEN dirt[io[p]] ELSE ~ uptodate[io[p]]
      /\ io[p] \in Buffers
  BY DEF CacheInv, TypeOK, Shape, LockBuffer, At, Goto, dev, regs, Asks
<1>2. AskedInv'
  BY <1>1, OthersAsk DEF FreshInv, AskedInv, DirtyInv
<1> QED
  BY <1>1, <1>2 DEF FreshInv, HeldInv, DirtyInv, CommandInv

LEMMA NoRequestKeepsFresh ==
    ASSUME CacheInv, FreshInv, NEW p \in Procs, NoRequest(p), Others(p) PROVE FreshInv'
<1>1. /\ UNCHANGED <<uptodate, dirt, request, reqbh, io, rw, hold>>
      /\ Asks(p)
  BY DEF CacheInv, TypeOK, NoRequest, At, Goto, dev, regs, Asks
<1>2. AskedInv'
  BY <1>1, OthersAsk DEF FreshInv, AskedInv
<1> QED
  BY <1>1, <1>2 DEF FreshInv, HeldInv, DirtyInv, CommandInv

LEMMA QueueRequestKeepsFresh ==
    ASSUME CacheInv, FreshInv, NEW p \in Procs, QueueRequest(p), Others(p) PROVE FreshInv'
<1>1. /\ UNCHANGED <<uptodate, io, rw, hold>> /\ Asks(p) /\ ~ Asks(p)'
      /\ \A c \in Buffers : dirt'[c] => dirt[c]
      /\ io[p] \in Buffers
  BY DEF CacheInv, TypeOK, Shape, QueueRequest, At, Goto, regs, Asks
<1>2. AskedInv'
  BY <1>1, OthersAsk DEF FreshInv, AskedInv
<1>3. CommandInv'
  <2>1. Command(p) = RQ!WRITE <=> uptodate[io[p]]
    BY <1>1 DEF FreshInv, AskedInv, Command, RQ!READ, RQ!WRITE
  <2>2. PICK s \in RQ!Slots :
              /\ request[s] = NULL /\ request'[s] # NULL /\ request'[s].cmd = Command(p)
              /\ reqbh'[s] = io[p]
              /\ \A t \in RQ!Slots : t # s => request'[t] = request[t] /\ reqbh'[t] = reqbh[t]
    BY QueueRequestDoes
  <2> QED
    BY <1>1, <2>1, <2>2 DEF FreshInv, CommandInv
<1> QED
  BY <1>1, <1>2, <1>3 DEF FreshInv, HeldInv, DirtyInv

LEMMA ModifyKeepsFresh ==
    ASSUME CacheInv, FreshInv, NEW p \in Procs, NEW b \in hold[p],
           ModifyBuffer(p, b) \/ FileWrite(p, b), Others(p)
    PROVE  FreshInv'
<1>1. /\ UNCHANGED <<uptodate, request, reqbh, io, rw, hold>> /\ ~ Asks(p)'
      /\ b \in Buffers
      /\ \A c \in Buffers : c # b => dirt'[c] = dirt[c]
  BY DEF CacheInv, TypeOK, ModifyBuffer, FileWrite, Starts, At, Goto, dev, regs, Asks
<1>2. AskedInv'
  BY <1>1, OthersAsk DEF FreshInv, AskedInv
<1> QED
  BY <1>1, <1>2 DEF FreshInv, HeldInv, DirtyInv, CommandInv

LEMMA PlainKeepsFresh ==
    ASSUME FreshInv, UNCHANGED <<uptodate, dirt, request, reqbh, io, rw, hold>>,
           \A q \in Procs : Asks(q)' => Asks(q)
    PROVE  FreshInv'
  BY DEF FreshInv, HeldInv, DirtyInv, AskedInv, CommandInv

LEMMA EndRequestKeepsFresh ==
    ASSUME ~ MayFail, CacheInv, FreshInv, NEW ok \in BOOLEAN, EndRequest(ok) PROVE FreshInv'
<1> DEFINE s == Head(queue)
           b == reqbh[s]
<1>1. s \in RQ!Slots /\ request[s] # NULL /\ b \in Buffers
  BY FirstRequest DEF EndRequest
<1>2. /\ uptodate'[b] /\ request'[s] = NULL
      /\ \A c \in Buffers : c # b => uptodate'[c] = uptodate[c]
      /\ \A t \in RQ!Slots : t # s => request'[t] = request[t] /\ reqbh'[t] = reqbh[t]
      /\ UNCHANGED <<dirt, io, rw, hold>>
      /\ \A q \in Procs : Asks(q)' = Asks(q)
  BY <1>1 DEF CacheInv, TypeOK, RQ!TypeOK, EndRequest, RQ!EndRequest, regs, Asks
<1>3. /\ \A q \in Procs : Asks(q) => io[q] \in Buffers /\ io[q] # b
      /\ \A t \in RQ!Slots : request[t] # NULL /\ t # s => reqbh[t] \in Buffers /\ reqbh[t] # b
  BY <1>1, IoIsBuffer DEF CacheInv, RequestInv, AskInv, TableInv
<1>4. \A q \in Procs : hold[q] \subseteq Buffers
  BY DEF CacheInv, TypeOK
<1> HIDE DEF s, b
<1>5. HeldInv' /\ DirtyInv'
  BY <1>1, <1>2, <1>4 DEF FreshInv, HeldInv, DirtyInv
<1>6. AskedInv' /\ CommandInv'
  BY <1>2, <1>3 DEF FreshInv, AskedInv, CommandInv
<1> QED
  BY <1>5, <1>6 DEF FreshInv

LEMMA FreshStep == ASSUME ~ MayFail, CacheInv, FreshInv, [Next]_vars PROVE FreshInv'
<1>1. ASSUME NEW p \in Procs, QuietStep(p) PROVE FreshInv'
  BY <1>1, QuietSteps, QuietOthers, QuietKeepsFresh DEF CacheInv
<1>2. ASSUME NEW p \in Procs, CopyIn(p) PROVE FreshInv'
  <2>1. UNCHANGED <<uptodate, dirt, request, reqbh, io, rw, hold>> /\ \A q \in Procs : Asks(q)' => Asks(q)
    BY <1>2 DEF CacheInv, TypeOK, CopyIn, At, Goto, Asks, dev
  <2> QED
    BY <2>1, PlainKeepsFresh
<1>3. ASSUME NEW p \in Procs, KernelStep(p) PROVE FreshInv'
  BY <1>1, <1>2, <1>3, TakeVictimKeeps, TakeVictimKeepsFresh, LockBufferKeeps, LockBufferKeepsFresh,
     QueueRequestKeeps, QueueRequestKeepsFresh, NoRequestKeeps, NoRequestKeepsFresh
     DEF KernelStep, QuietStep
<1>4. ASSUME NEW p \in Procs, Call(p) PROVE FreshInv'
  BY <1>1, <1>4, ModifyBufferKeeps, FileWriteKeeps, ModifyKeepsFresh DEF Call, QuietStep
<1>5. ASSUME NEW p \in Procs, Schedule(p) PROVE FreshInv'
  BY <1>5, PlainKeepsFresh DEF Schedule, bufs, dev, regs, Asks
<1>6. ASSUME NEW p \in Procs, Release(p) PROVE FreshInv'
  BY <1>1, <1>6 DEF QuietStep
<1>7. ASSUME Transfer \/ UNCHANGED vars PROVE FreshInv'
  BY <1>7, PlainKeepsFresh DEF Transfer, vars, bufs, dev, regs, Asks
<1> QED
  BY <1>3, <1>4, <1>5, <1>6, <1>7, EndRequestKeepsFresh DEF Next, Finished, Device

-----------------------------------------------------------------------------

\* What a reader of block n sees.
ContentIs ==
    \A n \in Blocks :
       /\ \A b \in Buffers : blocknr[b] = n /\ uptodate[b] => Content[n] = data[b]
       /\ (\A b \in Buffers : blocknr[b] = n => ~ uptodate[b]) => Content[n] = disk[n]

LEMMA CacheContent == CacheInv => ContentIs
<1> SUFFICES ASSUME CacheInv, NEW n \in Blocks
             PROVE  /\ \A b \in Buffers : blocknr[b] = n /\ uptodate[b] => Content[n] = data[b]
                    /\ (\A b \in Buffers : blocknr[b] = n => ~ uptodate[b]) => Content[n] = disk[n]
  BY DEF ContentIs
<1>1. n # NULL
  BY NullIsNoBuffer
<1>2. ASSUME NEW b \in Buffers, blocknr[b] = n, uptodate[b] PROVE Content[n] = data[b]
  <2>1. (CHOOSE c \in FoundAt(n) : uptodate[c]) = b
    BY <1>1, <1>2 DEF CacheInv, OneBufferPerBlock, FoundAt
  <2>2. \E c \in FoundAt(n) : uptodate[c]
    BY <1>2 DEF FoundAt
  <2> QED
    BY <2>1, <2>2 DEF Content
<1>3. ASSUME \A b \in Buffers : blocknr[b] = n => ~ uptodate[b] PROVE Content[n] = disk[n]
  BY <1>3 DEF Content, FoundAt
<1> QED
  BY <1>2, <1>3

LEMMA ContentOfBlock ==
    ASSUME CacheInv
    PROVE  \A n \in Blocks :
             /\ \A b \in Buffers : blocknr[b] = n /\ uptodate[b] => Content[n] = data[b]
             /\ (\A b \in Buffers : blocknr[b] = n => ~ uptodate[b]) => Content[n] = disk[n]
  BY CacheContent DEF ContentIs

LEMMA ContentOfBlockNext ==
    ASSUME CacheInv'
    PROVE  \A n \in Blocks :
             /\ \A b \in Buffers : blocknr'[b] = n /\ uptodate'[b] => Content'[n] = data'[b]
             /\ (\A b \in Buffers : blocknr'[b] = n => ~ uptodate'[b]) => Content'[n] = disk'[n]
<1>1. CacheInv' => ContentIs'
  BY CacheContent, PTL
<1> QED
  BY <1>1 DEF ContentIs

LEMMA ContentStays ==
    ASSUME UNCHANGED <<blocknr, uptodate, data, disk>> PROVE Content' = Content
  BY DEF Content, FoundAt

\* It is enough to compare block by block.
LEMMA ContentSame ==
    ASSUME \A n \in Blocks : Content'[n] = Content[n] PROVE Content' = Content
<1>1. Content = [n \in Blocks |-> Content[n]]
  BY DEF Content
<1>2. Content' = [n \in Blocks |-> Content'[n]]
  BY DEF Content
<1> QED
  BY <1>1, <1>2

\* New data in a valid buffer.
LEMMA ContentModified ==
    ASSUME CacheInv, CacheInv', NEW b \in Buffers, uptodate[b], blocknr[b] \in Blocks,
           UNCHANGED <<blocknr, uptodate, disk>>, data' = [data EXCEPT ![b] = data[b] + 1]
    PROVE  Store!Modify(blocknr[b])
<1> DEFINE k == blocknr[b]
<1>1. data'[b] = data[b] + 1 /\ \A c \in Buffers : c # b => data'[c] = data[c]
  BY DEF CacheInv, TypeOK
<1>2. Content[k] = data[b] /\ Content'[k] = data[b] + 1
  BY <1>1, ContentOfBlock, ContentOfBlockNext
<1>3. ASSUME NEW m \in Blocks, m # k PROVE Content'[m] = Content[m]
  <2>1. CASE \E c \in Buffers : blocknr[c] = m /\ uptodate[c]
    <3>1. PICK c \in Buffers : blocknr[c] = m /\ uptodate[c]
      BY <2>1
    <3>2. c # b
      BY <1>3, <3>1
    <3> QED
      BY <1>1, <3>1, <3>2, ContentOfBlock, ContentOfBlockNext
  <2>2. CASE \A c \in Buffers : blocknr[c] = m => ~ uptodate[c]
    BY <2>2, ContentOfBlock, ContentOfBlockNext
  <2> QED
    BY <2>1, <2>2
<1> HIDE DEF k
<1>4. k \in Blocks
  BY DEF k
<1>5. Content = [n \in Blocks |-> Content[n]] /\ Content' = [n \in Blocks |-> Content'[n]]
  <2>1. Content = [n \in Blocks |-> Content[n]]
    BY DEF Content
  <2>2. Content' = [n \in Blocks |-> Content'[n]]
    BY DEF Content
  <2> QED
    BY <2>1, <2>2
<1>6. Content' = [Content EXCEPT ![k] = Content[k] + 1]
  BY <1>2, <1>3, <1>4, <1>5
<1> QED
  BY <1>6 DEF Store!Modify, k

\* Taking a buffer over, a transfer and its end change no content.
LEMMA TakeVictimContent ==
    ASSUME CacheInv, CacheInv', DataInv, NEW p \in Procs, TakeVictim(p) PROVE Content' = Content
<1> DEFINE b == bh[p]
<1>1. /\ b \in Buffers /\ ~ lock[b] /\ ~ dirt[b] /\ ~ uptodate'[b]
      /\ blocknr'[b] = block[p] /\ \A c \in Buffers : blocknr[c] # block[p]
      /\ \A c \in Buffers : c # b => blocknr'[c] = blocknr[c] /\ uptodate'[c] = uptodate[c]
      /\ UNCHANGED <<data, disk>>
  BY DEF CacheInv, TypeOK, Shape, TakeVictim, At, Asleep, Awaited, FoundAt, dev
<1> HIDE DEF b
<1>2. \A n \in Blocks : n # NULL
  BY NullIsNoBuffer
<1>3. ASSUME NEW n \in Blocks PROVE Content'[n] = Content[n]
  <2>1. CASE n = block[p]
    BY <1>1, <2>1, ContentOfBlock, ContentOfBlockNext
  <2>2. CASE n = blocknr[b]
    <3>1. \A c \in Buffers : c # b => blocknr[c] # n
      BY <1>1, <1>2, <2>2 DEF CacheInv, OneBufferPerBlock
    <3>2. Content'[n] = disk[n]
      BY <1>1, <2>2, <3>1, ContentOfBlockNext
    <3>3. CASE uptodate[b]
      BY <1>1, <1>2, <2>2, <3>2, <3>3, ContentOfBlock DEF DataInv, CleanMatchesDisk
    <3>4. CASE ~ uptodate[b]
      BY <3>1, <3>2, <3>4, ContentOfBlock
    <3> QED
      BY <3>3, <3>4
  <2>3. CASE n # block[p] /\ n # blocknr[b]
    <3>1. CASE \E c \in Buffers : blocknr[c] = n /\ uptodate[c]
      BY <1>1, <2>3, <3>1, ContentOfBlock, ContentOfBlockNext
    <3>2. CASE \A c \in Buffers : blocknr[c] = n => ~ uptodate[c]
      BY <1>1, <2>3, <3>2, ContentOfBlock, ContentOfBlockNext
    <3> QED
      BY <3>1, <3>2
  <2> QED
    BY <2>1, <2>2, <2>3
<1> QED
  BY <1>3, ContentSame

LEMMA TransferContent ==
    ASSUME CacheInv, CacheInv', FreshInv, Transfer PROVE Content' = Content
<1> DEFINE s == Head(queue)
           b == reqbh[s]
           n == request[s].sector \div 2
<1>1. /\ s \in RQ!Slots /\ request[s] # NULL /\ request[s].cmd \in {RQ!READ, RQ!WRITE}
      /\ b \in Buffers /\ blocknr[b] \in Blocks /\ request[s].sector = 2 * blocknr[b]
  BY FirstRequest DEF Transfer, RQ!Requests
<1>2. n = blocknr[b]
  <2>1. \A k \in Nat : (2 * k) \div 2 = k
    OBVIOUS
  <2>2. blocknr[b] \in Nat
    BY <1>1, BlocksAreNumbers
  <2> QED
    BY <1>1, <2>1, <2>2
<1>3. /\ IF uptodate[b] THEN disk' = [disk EXCEPT ![n] = data[b]] /\ UNCHANGED data
                        ELSE data' = [data EXCEPT ![b] = disk[n]] /\ UNCHANGED disk
      /\ UNCHANGED <<blocknr, uptodate>>
  BY <1>1 DEF Transfer, FreshInv, CommandInv, RQ!READ, RQ!WRITE
<1> HIDE DEF s, b, n
<1>4. ASSUME NEW m \in Blocks PROVE Content'[m] = Content[m]
  <2>1. CASE \E c \in Buffers : blocknr[c] = m /\ uptodate[c]
    <3>1. PICK c \in Buffers : blocknr[c] = m /\ uptodate[c]
      BY <2>1
    <3>2. data'[c] = data[c]
      BY <1>1, <1>3, <3>1 DEF CacheInv, TypeOK
    <3> QED
      BY <1>3, <3>1, <3>2, ContentOfBlock, ContentOfBlockNext
  <2>2. CASE \A c \in Buffers : blocknr[c] = m => ~ uptodate[c]
    <3>1. disk'[m] = disk[m]
      BY <1>1, <1>2, <1>3, <2>2 DEF CacheInv, TypeOK
    <3> QED
      BY <1>3, <2>2, <3>1, ContentOfBlock, ContentOfBlockNext
  <2> QED
    BY <2>1, <2>2
<1> QED
  BY <1>4, ContentSame

LEMMA EndRequestContent ==
    ASSUME ~ MayFail, CacheInv, CacheInv', DataInv, FreshInv, NEW ok \in BOOLEAN, EndRequest(ok)
    PROVE  Content' = Content
<1> DEFINE b == reqbh[Head(queue)]
<1>1. b \in Buffers /\ blocknr[b] \in Blocks /\ queue # <<>>
  BY FirstRequest DEF EndRequest
<1>2. /\ uptodate'[b] /\ moved
      /\ \A c \in Buffers : c # b => uptodate'[c] = uptodate[c]
      /\ UNCHANGED <<blocknr, data, disk>>
  BY <1>1 DEF CacheInv, TypeOK, EndRequest
<1> HIDE DEF b
<1>3. ~ uptodate[b] => data[b] = disk[blocknr[b]]
  BY <1>1, <1>2 DEF DataInv, MovedInv, FreshInv, DirtyInv, b
<1>4. ASSUME NEW n \in Blocks PROVE Content'[n] = Content[n]
  <2>1. CASE n = blocknr[b]
    <3>1. Content'[n] = data[b]
      BY <1>1, <1>2, <2>1, ContentOfBlockNext
    <3>2. CASE uptodate[b]
      BY <1>1, <2>1, <3>1, <3>2, ContentOfBlock
    <3>3. CASE ~ uptodate[b]
      <4>1. \A c \in Buffers : blocknr[c] = n => c = b
        BY <1>1, <2>1, NullIsNoBuffer DEF CacheInv, OneBufferPerBlock
      <4> QED
        BY <1>3, <2>1, <3>1, <3>3, <4>1, ContentOfBlock
    <3> QED
      BY <3>2, <3>3
  <2>2. CASE n # blocknr[b]
    <3>1. CASE \E c \in Buffers : blocknr[c] = n /\ uptodate[c]
      BY <1>2, <2>2, <3>1, ContentOfBlock, ContentOfBlockNext
    <3>2. CASE \A c \in Buffers : blocknr[c] = n => ~ uptodate[c]
      BY <1>2, <2>2, <3>2, ContentOfBlock, ContentOfBlockNext
    <3> QED
      BY <3>1, <3>2
  <2> QED
    BY <2>1, <2>2
<1> QED
  BY <1>4, ContentSame

\* Modifying a buffer one holds is a modification of its block.
LEMMA HeldModified ==
    ASSUME CacheInv, CacheInv', FreshInv, NEW p \in Procs, NEW b \in hold[p],
           UNCHANGED <<blocknr, uptodate, disk>>, data' = [data EXCEPT ![b] = data[b] + 1]
    PROVE  Store!Next
<1>1. b \in Buffers /\ uptodate[b]
  BY DEF CacheInv, TypeOK, FreshInv, HeldInv
<1>2. blocknr[b] \in Blocks
  BY <1>1 DEF CacheInv, BlocksNamed, TypeOK
<1>3. Store!Modify(blocknr[b])
  BY <1>1, <1>2, ContentModified
<1> QED
  BY <1>2, <1>3 DEF Store!Next

LEMMA StoreStep ==
    ASSUME ~ MayFail, CacheInv, CacheInv', DataInv, FreshInv, [Next]_vars
    PROVE  [Store!Next]_Content
<1>1. ASSUME NEW p \in Procs,
             QuietStep(p) \/ Schedule(p) \/ LockBuffer(p) \/ QueueRequest(p) \/ NoRequest(p)
      PROVE  Content' = Content
  BY <1>1, QuietSteps, ContentStays
     DEF CacheInv, Quiet, Schedule, LockBuffer, QueueRequest, NoRequest,
     bufs, dev
<1>2. ASSUME NEW p \in Procs, CopyIn(p) PROVE Store!Next
  <2>1. bh[p] \in hold[p]
    BY <1>2 DEF CacheInv, Knows, CopyIn, At
  <2> QED
    BY <1>2, <2>1, HeldModified DEF CopyIn, dev
<1>3. ASSUME NEW p \in Procs, KernelStep(p) PROVE [Store!Next]_Content
  BY <1>1, <1>2, <1>3, TakeVictimContent DEF KernelStep, QuietStep
<1>4. ASSUME NEW p \in Procs, NEW b \in hold[p], ModifyBuffer(p, b) PROVE Store!Next
  BY <1>4, HeldModified DEF ModifyBuffer, dev
<1>5. ASSUME NEW p \in Procs, NEW b \in hold[p], FileWrite(p, b) PROVE Content' = Content
  BY <1>5, ContentStays DEF FileWrite, dev
<1>6. ASSUME NEW p \in Procs, Call(p) PROVE [Store!Next]_Content
  BY <1>1, <1>4, <1>5, <1>6 DEF Call, QuietStep
<1>7. ASSUME NEW p \in Procs, Schedule(p) \/ Release(p) PROVE Content' = Content
  BY <1>1, <1>7 DEF QuietStep
<1>8. ASSUME Device PROVE Content' = Content
  BY <1>8, TransferContent, EndRequestContent DEF Device
<1>9. ASSUME UNCHANGED vars PROVE Content' = Content
  BY <1>9, ContentStays DEF vars, bufs, dev
<1> QED
  BY <1>3, <1>6, <1>7, <1>8, <1>9 DEF Next, Finished

\* Replacing, syncing, reading and reading ahead change nothing for those who read the
\* blocks through the cache, and a modification takes effect once and at once.
THEOREM CacheImplementsStore ==
    ASSUME ~ MayFault, ~ MayFail PROVE Spec => ImplementsBlockStore
<1>1. Init => DataInv /\ FreshInv /\ Store!Init
  BY
     DEF Init, RQ!Init, DataInv, CopyInv, CleanMatchesDisk, MovedInv, FreshInv, HeldInv, DirtyInv, AskedInv,
     CommandInv, Asks, Store!Init, Content, FoundAt
<1>2. CacheInv /\ DataInv /\ [Next]_vars => DataInv'
  BY DataStep
<1>3. CacheInv /\ FreshInv /\ [Next]_vars => FreshInv'
  BY FreshStep
<1>4. CacheInv /\ CacheInv' /\ DataInv /\ FreshInv /\ [Next]_vars => [Store!Next]_Content
  BY StoreStep
<1> QED
  BY <1>1, <1>2, <1>3, <1>4, CacheIsConsistent, PTL DEF Spec, ImplementsBlockStore, Store!Spec

==============================================================================
