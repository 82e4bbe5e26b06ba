---------------------------- MODULE MemoryProofs ----------------------------
(***************************************************************************)
(* Proofs about memory management, whatever the number of processes and    *)
(* pages: the counts of mem_map are exact, a page that a process can write *)
(* to is used by nobody else, and what a process sees is what              *)
(* ProcessMemory allows.                                                   *)
(***************************************************************************)
EXTENDS Memory, DataLemmas

-----------------------------------------------------------------------------
(* What names a page f.                                                    *)

TaskUses(f) == {p \in Slots : task[p] = f}
HeldUses(f) == {p \in Slots : held[p] = f}
PteUses(f) == {u \in Slots \X Pages : Present(u[1], u[2]) /\ pte[u[1]][u[2]].page = f}
DirUses(f) == {u \in Slots \X Dirs : dir[u[1]][u[2]] = f}

Total(f) == Cardinality(TaskUses(f)) + Cardinality(HeldUses(f))
            + Cardinality(PteUses(f)) + Cardinality(DirUses(f))

\* The part of it in the page tables of p.
PtesOf(p, f) == {a \in Pages : Present(p, a) /\ pte[p][a].page = f}
DirsOf(p, f) == {d \in Dirs : dir[p][d] = f}

\* Entry a of p names f.
Names(p, a, f) == Present(p, a) /\ pte[p][a].page = f

-----------------------------------------------------------------------------
(* The invariant.                                                          *)

\* What the kernel itself uses is used once: task structures, page tables and
\* the pages that a sleeping handler holds.
KernelPagesPrivate ==
    \A p \in Slots :
        /\ task[p] # LOW => mem_map[task[p]] = 1
        /\ held[p] # LOW => mem_map[held[p]] = 1
        /\ \A d \in Dirs : dir[p][d] # LOW => mem_map[dir[p][d]] = 1

\* What process p has, where it is.
PlaceOK(p) ==
    /\ pc[p] = "none" => task[p] = LOW
    /\ pc[p] \in {"none", "zombie"} => TablesOf(p) = {} /\ \A a \in Pages : ~ Present(p, a)
    /\ pc[p] \notin {"none", "zombie"} => TablesOf(p) # {}
    /\ held[p] # LOW <=> pc[p] \in {"load", "sysLoad", "exec", "close"}
    /\ pc[p] \in {"load", "sysLoad"} =>
            at[p] \in DataPages /\ ~ Present(p, at[p]) /\ executable[p] # NULL
    /\ pc[p] = "exec" => at[p] \in Files
    /\ pc[p] \in {"retry", "store"} => at[p] \in Pages

PlacesOK == \A p \in Slots : PlaceOK(p)

MemInv ==
    /\ TypeOK
    /\ CountIsUses
    /\ WritableIsPrivate
    /\ KernelPagesPrivate
    /\ PlacesOK

-----------------------------------------------------------------------------
(* How the uses of a page change.                                          *)

LEMMA Finite == IsFiniteSet(Slots) /\ IsFiniteSet(Pages) /\ IsFiniteSet(Dirs)
<1>1. IsFiniteSet(Slots)
  BY TasksAndPages, FS_Interval DEF Slots
<1>2. IsFiniteSet(Dirs)
  <2>2. IsFiniteSet({1}) /\ IsFiniteSet({1} \cup {2})
    BY FS_Singleton, FS_AddElement
  <2> QED
    BY <2>2 DEF Dirs
<1> QED
  BY <1>1, <1>2, PagesAreFinite

LEMMA CountsAreNat ==
    ASSUME NEW f
    PROVE  /\ Cardinality(TaskUses(f)) \in Nat /\ Cardinality(HeldUses(f)) \in Nat
           /\ Cardinality(PteUses(f)) \in Nat /\ Cardinality(DirUses(f)) \in Nat
           /\ IsFiniteSet(TaskUses(f)) /\ IsFiniteSet(HeldUses(f))
           /\ IsFiniteSet(PteUses(f)) /\ IsFiniteSet(DirUses(f))
           /\ Total(f) \in Nat
<1>1. IsFiniteSet(Slots \X Pages) /\ IsFiniteSet(Slots \X Dirs)
  BY Finite, FS_Product
<1>2. /\ TaskUses(f) \in SUBSET Slots /\ HeldUses(f) \in SUBSET Slots
      /\ PteUses(f) \in SUBSET (Slots \X Pages) /\ DirUses(f) \in SUBSET (Slots \X Dirs)
  BY DEF TaskUses, HeldUses, PteUses, DirUses
<1>3. /\ IsFiniteSet(TaskUses(f)) /\ IsFiniteSet(HeldUses(f))
      /\ IsFiniteSet(PteUses(f)) /\ IsFiniteSet(DirUses(f))
  BY <1>1, <1>2, Finite, FS_Subset
<1> QED
  BY <1>3, FS_CardinalityType DEF Total

LEMMA CountsAreNatAfter ==
    ASSUME NEW f
    PROVE  /\ Cardinality(TaskUses(f)') \in Nat /\ Cardinality(HeldUses(f)') \in Nat
           /\ Cardinality(PteUses(f)') \in Nat /\ Cardinality(DirUses(f)') \in Nat
           /\ Total(f)' \in Nat
<1>1. IsFiniteSet(Slots \X Pages) /\ IsFiniteSet(Slots \X Dirs)
  BY Finite, FS_Product
<1>2. /\ TaskUses(f)' \in SUBSET Slots /\ HeldUses(f)' \in SUBSET Slots
      /\ PteUses(f)' \in SUBSET (Slots \X Pages) /\ DirUses(f)' \in SUBSET (Slots \X Dirs)
  BY DEF TaskUses, HeldUses, PteUses, DirUses
<1>3. /\ IsFiniteSet(TaskUses(f)') /\ IsFiniteSet(HeldUses(f)')
      /\ IsFiniteSet(PteUses(f)') /\ IsFiniteSet(DirUses(f)')
  BY <1>1, <1>2, Finite, FS_Subset
<1> QED
  BY <1>3, FS_CardinalityType DEF Total

LEMMA TaskChange ==
    ASSUME NEW p \in Slots, NEW f, \A q \in Slots \ {p} : task'[q] = task[q]
    PROVE  Cardinality(TaskUses(f)')
             = Cardinality(TaskUses(f)) + One(task'[p] = f) - One(task[p] = f)
<1>1. TaskUses(f) \ {p} = TaskUses(f)' \ {p}
  BY DEF TaskUses
<1>2. IsFiniteSet(TaskUses(f))
  BY CountsAreNat
<1>3. (p \in TaskUses(f) <=> task[p] = f) /\ (p \in TaskUses(f)' <=> task'[p] = f)
  BY DEF TaskUses
<1>4. Cardinality(TaskUses(f)') = Cardinality(TaskUses(f)) + One(p \in TaskUses(f)') - One(p \in TaskUses(f))
  BY <1>1, <1>2, OneDiffers, Zenon
<1>5. One(p \in TaskUses(f)') = One(task'[p] = f) /\ One(p \in TaskUses(f)) = One(task[p] = f)
  BY <1>3 DEF One
<1> QED
  BY <1>4, <1>5

LEMMA HeldChange ==
    ASSUME NEW p \in Slots, NEW f, \A q \in Slots \ {p} : held'[q] = held[q]
    PROVE  Cardinality(HeldUses(f)')
             = Cardinality(HeldUses(f)) + One(held'[p] = f) - One(held[p] = f)
<1>1. HeldUses(f) \ {p} = HeldUses(f)' \ {p}
  BY DEF HeldUses
<1>2. IsFiniteSet(HeldUses(f))
  BY CountsAreNat
<1>3. (p \in HeldUses(f) <=> held[p] = f) /\ (p \in HeldUses(f)' <=> held'[p] = f)
  BY DEF HeldUses
<1>4. Cardinality(HeldUses(f)') = Cardinality(HeldUses(f)) + One(p \in HeldUses(f)') - One(p \in HeldUses(f))
  BY <1>1, <1>2, OneDiffers, Zenon
<1>5. One(p \in HeldUses(f)') = One(held'[p] = f) /\ One(p \in HeldUses(f)) = One(held[p] = f)
  BY <1>3 DEF One
<1> QED
  BY <1>4, <1>5

\* The page tables of p change.
LEMMA PtesChange ==
    ASSUME NEW p \in Slots, NEW f,
           \A q \in Slots \ {p}, a \in Pages : Names(q, a, f)' <=> Names(q, a, f)
    PROVE  /\ Cardinality(PteUses(f)') = Cardinality(PteUses(f)) - Cardinality(PtesOf(p, f))
                                          + Cardinality(PtesOf(p, f)')
           /\ Cardinality(PtesOf(p, f)) \in Nat /\ Cardinality(PtesOf(p, f)') \in Nat
<1>1. /\ PteUses(f) \in SUBSET (Slots \X Pages) /\ PteUses(f)' \in SUBSET (Slots \X Pages)
      /\ \A u \in Slots \X Pages : u[1] # p => (u \in PteUses(f) <=> u \in PteUses(f)')
  BY DEF PteUses, Names
<1>2. PtesOf(p, f) = Row(PteUses(f), Pages, p) /\ PtesOf(p, f)' = Row(PteUses(f)', Pages, p)
  BY DEF PteUses, PtesOf, Row
<1> QED
  BY <1>1, <1>2, Finite, RowChange

LEMMA DirsChange ==
    ASSUME NEW p \in Slots, NEW f, \A q \in Slots \ {p} : dir'[q] = dir[q]
    PROVE  /\ Cardinality(DirUses(f)') = Cardinality(DirUses(f)) - Cardinality(DirsOf(p, f))
                                          + Cardinality(DirsOf(p, f)')
           /\ Cardinality(DirsOf(p, f)) \in Nat /\ Cardinality(DirsOf(p, f)') \in Nat
<1>1. /\ DirUses(f) \in SUBSET (Slots \X Dirs) /\ DirUses(f)' \in SUBSET (Slots \X Dirs)
      /\ \A u \in Slots \X Dirs : u[1] # p => (u \in DirUses(f) <=> u \in DirUses(f)')
  BY DEF DirUses
<1>2. DirsOf(p, f) = Row(DirUses(f), Dirs, p) /\ DirsOf(p, f)' = Row(DirUses(f)', Dirs, p)
  BY DEF DirUses, DirsOf, Row
<1> QED
  BY <1>1, <1>2, Finite, RowChange

\* Only entry a of p changes.
LEMMA EntryChange ==
    ASSUME NEW p \in Slots, NEW a \in Pages, NEW f,
           \A q \in Slots, b \in Pages : <<q, b>> # <<p, a>> => (Names(q, b, f)' <=> Names(q, b, f))
    PROVE  Cardinality(PteUses(f)')
             = Cardinality(PteUses(f)) + One(Names(p, a, f)') - One(Names(p, a, f))
<1>1. PteUses(f) \ {<<p, a>>} = PteUses(f)' \ {<<p, a>>}
  BY DEF PteUses, Names
<1>2. IsFiniteSet(PteUses(f))
  BY CountsAreNat
<1>3. (<<p, a>> \in PteUses(f) <=> Names(p, a, f)) /\ (<<p, a>> \in PteUses(f)' <=> Names(p, a, f)')
  BY DEF PteUses, Names
<1>4. Cardinality(PteUses(f)') = Cardinality(PteUses(f)) + One(<<p, a>> \in PteUses(f)')
                                  - One(<<p, a>> \in PteUses(f))
  BY <1>1, <1>2, OneDiffers, Zenon
<1>5. One(<<p, a>> \in PteUses(f)') = One(Names(p, a, f)') /\ One(<<p, a>> \in PteUses(f)) = One(Names(p, a, f))
  BY <1>3 DEF One
<1> QED
  BY <1>4, <1>5

\* Only page table d of p changes.
LEMMA TableChange ==
    ASSUME NEW p \in Slots, NEW d \in Dirs, NEW f,
           \A q \in Slots, c \in Dirs : <<q, c>> # <<p, d>> => dir'[q][c] = dir[q][c]
    PROVE  Cardinality(DirUses(f)')
             = Cardinality(DirUses(f)) + One(dir'[p][d] = f) - One(dir[p][d] = f)
<1>1. DirUses(f) \ {<<p, d>>} = DirUses(f)' \ {<<p, d>>}
  BY DEF DirUses
<1>2. IsFiniteSet(DirUses(f))
  BY CountsAreNat
<1>3. (<<p, d>> \in DirUses(f) <=> dir[p][d] = f) /\ (<<p, d>> \in DirUses(f)' <=> dir'[p][d] = f)
  BY DEF DirUses
<1>4. Cardinality(DirUses(f)') = Cardinality(DirUses(f)) + One(<<p, d>> \in DirUses(f)')
                                  - One(<<p, d>> \in DirUses(f))
  BY <1>1, <1>2, OneDiffers, Zenon
<1>5. One(<<p, d>> \in DirUses(f)') = One(dir'[p][d] = f) /\ One(<<p, d>> \in DirUses(f)) = One(dir[p][d] = f)
  BY <1>3 DEF One
<1> QED
  BY <1>4, <1>5

-----------------------------------------------------------------------------
(* What the invariant says of a page.                                      *)

Counted(f) == mem_map[f] = Total(f) \/ (mem_map[f] = USED /\ Total(f) = 0)

LEMMA CountedIs == CountIsUses <=> \A f \in Frames : Counted(f)
BY DEF CountIsUses, Counted, Total, TaskUses, HeldUses, PteUses, DirUses

\* If the counts change as the uses do, they remain exact.
LEMMA CountStep ==
    ASSUME TypeOK, CountIsUses, DOMAIN mem_map' = Frames, mem_map' = [f \in Frames |-> mem_map'[f]],
           \A f \in Frames : /\ mem_map'[f] = mem_map[f] + Total(f)' - Total(f)
                             /\ mem_map[f] # 0 /\ Total(f) = 0 => Total(f)' = 0
    PROVE  CountIsUses' /\ mem_map' \in [Frames -> Nat]
<1>1. ASSUME NEW f \in Frames PROVE Counted(f)' /\ mem_map'[f] \in Nat
  <2>1. Counted(f) /\ Total(f) \in Nat /\ Total(f)' \in Nat
    BY CountedIs, CountsAreNat, CountsAreNatAfter
  <2>2. /\ mem_map'[f] = mem_map[f] + Total(f)' - Total(f)
        /\ mem_map[f] # 0 /\ Total(f) = 0 => Total(f)' = 0
    OBVIOUS
  <2>3. CASE mem_map[f] = Total(f)
    BY <2>1, <2>2, <2>3 DEF Counted
  <2>4. CASE mem_map[f] = USED /\ Total(f) = 0
    BY <2>1, <2>2, <2>4 DEF Counted, USED
  <2> QED
    BY <2>1, <2>3, <2>4 DEF Counted
<1>2. CountIsUses' <=> \A f \in Frames : Counted(f)'
  BY DEF CountIsUses, Counted, Total, TaskUses, HeldUses, PteUses, DirUses
<1> QED
  BY <1>1, <1>2

\* A page that something names is counted exactly.
Unused(f) ==
    /\ \A p \in Slots : task[p] # f /\ held[p] # f
    /\ \A p \in Slots, a \in Pages : ~ Names(p, a, f)
    /\ \A p \in Slots, d \in Dirs : dir[p][d] # f

LEMMA UnusedIsZero == ASSUME NEW f PROVE Total(f) = 0 <=> Unused(f)
<1>1. Total(f) = 0 <=> TaskUses(f) = {} /\ HeldUses(f) = {} /\ PteUses(f) = {} /\ DirUses(f) = {}
  <2>1. /\ Cardinality(TaskUses(f)) = 0 <=> TaskUses(f) = {}
        /\ Cardinality(HeldUses(f)) = 0 <=> HeldUses(f) = {}
        /\ Cardinality(PteUses(f)) = 0 <=> PteUses(f) = {}
        /\ Cardinality(DirUses(f)) = 0 <=> DirUses(f) = {}
    BY CountsAreNat, FS_EmptySet
  <2>2. Total(f) = 0 <=> /\ Cardinality(TaskUses(f)) = 0 /\ Cardinality(HeldUses(f)) = 0
                         /\ Cardinality(PteUses(f)) = 0 /\ Cardinality(DirUses(f)) = 0
    BY CountsAreNat DEF Total
  <2> QED
    BY <2>1, <2>2
<1>2. /\ TaskUses(f) = {} <=> \A p \in Slots : task[p] # f
      /\ HeldUses(f) = {} <=> \A p \in Slots : held[p] # f
      /\ PteUses(f) = {} <=> \A p \in Slots, a \in Pages : ~ Names(p, a, f)
      /\ DirUses(f) = {} <=> \A p \in Slots, d \in Dirs : dir[p][d] # f
  <2>1. PteUses(f) = {} <=> \A p \in Slots, a \in Pages : ~ Names(p, a, f)
    <3>1. \A p \in Slots, a \in Pages : <<p, a>> \in PteUses(f) <=> Names(p, a, f)
      BY DEF PteUses, Names
    <3>2. \A u \in PteUses(f) : u[1] \in Slots /\ u[2] \in Pages /\ Names(u[1], u[2], f)
      BY DEF PteUses, Names
    <3> QED
      BY <3>1, <3>2
  <2>2. DirUses(f) = {} <=> \A p \in Slots, d \in Dirs : dir[p][d] # f
    <3>1. \A p \in Slots, d \in Dirs : <<p, d>> \in DirUses(f) <=> dir[p][d] = f
      BY DEF DirUses
    <3>2. \A u \in DirUses(f) : u[1] \in Slots /\ u[2] \in Dirs /\ dir[u[1]][u[2]] = f
      BY DEF DirUses
    <3> DEFINE D == DirUses(f)
    <3>3. /\ \A p \in Slots, d \in Dirs : <<p, d>> \in D <=> dir[p][d] = f
          /\ \A u \in D : u[1] \in Slots /\ u[2] \in Dirs /\ dir[u[1]][u[2]] = f
      BY <3>1, <3>2
    <3> HIDE DEF D
    <3>4. ASSUME D # {} PROVE \E p \in Slots, d \in Dirs : dir[p][d] = f
      BY <3>3, <3>4
    <3>5. ASSUME NEW p \in Slots, NEW d \in Dirs, dir[p][d] = f PROVE D # {}
      BY <3>3, <3>5
    <3> QED
      BY <3>4, <3>5 DEF D
  <2> QED
    BY <2>1, <2>2 DEF TaskUses, HeldUses
<1> QED
  BY <1>1, <1>2 DEF Unused

LEMMA UnusedIsZeroAfter == ASSUME NEW f PROVE (Total(f)' = 0 <=> Unused(f)')
<1>1. Total(f) = 0 <=> Unused(f)
  BY UnusedIsZero
<1>2. (Total(f) = 0 <=> Unused(f))'
  BY <1>1, PTL
<1> QED
  BY <1>2

\* A free page is not used, a used page is counted.
LEMMA FreeIsUnused ==
    ASSUME TypeOK, CountIsUses, NEW f \in Frames
    PROVE  /\ mem_map[f] = 0 => Unused(f)
           /\ ~ Unused(f) => mem_map[f] = Total(f) /\ Total(f) > 0
BY CountedIs, UnusedIsZero, CountsAreNat DEF Counted, USED

\* A page whose count is one has at most one use.
OnlyUse(f) ==
    /\ \A p, q \in Slots : task[p] = f /\ task[q] = f => p = q
    /\ \A p, q \in Slots : held[p] = f /\ held[q] = f => p = q
    /\ \A p, q \in Slots, a, b \in Pages : Names(p, a, f) /\ Names(q, b, f) => p = q /\ a = b
    /\ \A p, q \in Slots, c, d \in Dirs : dir[p][c] = f /\ dir[q][d] = f => p = q /\ c = d
    /\ \A p, q \in Slots : ~ (task[p] = f /\ held[q] = f)
    /\ \A p, q \in Slots, a \in Pages : ~ (task[p] = f /\ Names(q, a, f)) /\ ~ (held[p] = f /\ Names(q, a, f))
    /\ \A p, q \in Slots, d \in Dirs : ~ (task[p] = f /\ dir[q][d] = f) /\ ~ (held[p] = f /\ dir[q][d] = f)
    /\ \A p, q \in Slots, a \in Pages, d \in Dirs : ~ (Names(p, a, f) /\ dir[q][d] = f)

LEMMA SingleUse ==
    ASSUME TypeOK, CountIsUses, NEW f \in Frames, mem_map[f] = 1
    PROVE  OnlyUse(f)
<1> DEFINE A == TaskUses(f)
           B == HeldUses(f)
           C == PteUses(f)
           D == DirUses(f)
<1>1. Total(f) = 1
  BY CountedIs DEF Counted, USED
<1>2. /\ IsFiniteSet(A) /\ IsFiniteSet(B) /\ IsFiniteSet(C) /\ IsFiniteSet(D)
      /\ Cardinality(A) \in Nat /\ Cardinality(B) \in Nat /\ Cardinality(C) \in Nat /\ Cardinality(D) \in Nat
      /\ Cardinality(A) + Cardinality(B) + Cardinality(C) + Cardinality(D) = 1
  BY <1>1, CountsAreNat DEF Total
<1>3. /\ \A p \in Slots : (p \in A <=> task[p] = f) /\ (p \in B <=> held[p] = f)
      /\ \A p \in Slots, a \in Pages : <<p, a>> \in C <=> Names(p, a, f)
      /\ \A p \in Slots, d \in Dirs : <<p, d>> \in D <=> dir[p][d] = f
  BY DEF TaskUses, HeldUses, PteUses, DirUses, Names
<1> HIDE DEF A, B, C, D
<1>4. ASSUME NEW S \in {A, B, C, D} PROVE (Cardinality(S) = 0 => S = {}) /\ (Cardinality(S) = 1 => \E x : S = {x})
  BY <1>2, FS_EmptySet, FS_Singleton
<1>5. \A x, y : /\ x \in A /\ y \in A => x = y
                /\ x \in B /\ y \in B => x = y
                /\ x \in C /\ y \in C => x = y
                /\ x \in D /\ y \in D => x = y
                /\ ~ (x \in A /\ y \in B) /\ ~ (x \in A /\ y \in C) /\ ~ (x \in A /\ y \in D)
                /\ ~ (x \in B /\ y \in C) /\ ~ (x \in B /\ y \in D) /\ ~ (x \in C /\ y \in D)
  <2>1. CASE Cardinality(A) = 1
    BY <1>2, <1>4, <2>1
  <2>2. CASE Cardinality(B) = 1
    BY <1>2, <1>4, <2>2
  <2>3. CASE Cardinality(C) = 1
    BY <1>2, <1>4, <2>3
  <2>4. CASE Cardinality(D) = 1
    BY <1>2, <1>4, <2>4
  <2> QED
    BY <1>2, <2>1, <2>2, <2>3, <2>4
<1>6. /\ \A p, q \in Slots, a, b \in Pages : Names(p, a, f) /\ Names(q, b, f) => p = q /\ a = b
      /\ \A p, q \in Slots, c, d \in Dirs : dir[p][c] = f /\ dir[q][d] = f => p = q /\ c = d
  <2>1. ASSUME NEW p \in Slots, NEW q \in Slots, NEW a \in Pages, NEW b \in Pages,
               Names(p, a, f), Names(q, b, f)
        PROVE  p = q /\ a = b
    <3>1. <<p, a>> \in C /\ <<q, b>> \in C
      BY <1>3, <2>1
    <3>2. <<p, a>> = <<q, b>>
      BY <1>5, <3>1, Zenon
    <3> QED
      BY <3>2
  <2>2. ASSUME NEW p \in Slots, NEW q \in Slots, NEW c \in Dirs, NEW d \in Dirs,
               dir[p][c] = f, dir[q][d] = f
        PROVE  p = q /\ c = d
    <3>1. <<p, c>> \in D /\ <<q, d>> \in D
      BY <1>3, <2>2
    <3>2. <<p, c>> = <<q, d>>
      BY <1>5, <3>1, Zenon
    <3> QED
      BY <3>2
  <2> QED
    BY <2>1, <2>2
<1>7. /\ \A p, q \in Slots : task[p] = f /\ task[q] = f => p = q
      /\ \A p, q \in Slots : held[p] = f /\ held[q] = f => p = q
      /\ \A p, q \in Slots : ~ (task[p] = f /\ held[q] = f)
  BY <1>3, <1>5
<1>8. /\ \A p, q \in Slots, a \in Pages : ~ (task[p] = f /\ Names(q, a, f)) /\ ~ (held[p] = f /\ Names(q, a, f))
      /\ \A p, q \in Slots, d \in Dirs : ~ (task[p] = f /\ dir[q][d] = f) /\ ~ (held[p] = f /\ dir[q][d] = f)
      /\ \A p, q \in Slots, a \in Pages, d \in Dirs : ~ (Names(p, a, f) /\ dir[q][d] = f)
  <2>1. ASSUME NEW p \in Slots, NEW q \in Slots, NEW a \in Pages, Names(q, a, f)
        PROVE  task[p] # f /\ held[p] # f
    <3>1. <<q, a>> \in C
      BY <1>3, <2>1
    <3> QED
      BY <1>3, <1>5, <3>1
  <2>2. ASSUME NEW p \in Slots, NEW q \in Slots, NEW d \in Dirs, dir[q][d] = f
        PROVE  task[p] # f /\ held[p] # f
    <3>1. <<q, d>> \in D
      BY <1>3, <2>2
    <3> QED
      BY <1>3, <1>5, <3>1
  <2>3. ASSUME NEW p \in Slots, NEW q \in Slots, NEW a \in Pages, NEW d \in Dirs,
               Names(p, a, f), dir[q][d] = f
        PROVE  FALSE
    <3>1. <<p, a>> \in C /\ <<q, d>> \in D
      BY <1>3, <2>3
    <3> QED
      BY <1>5, <3>1
  <2> QED
    BY <2>1, <2>2, <2>3
<1> QED
  BY <1>6, <1>7, <1>8 DEF OnlyUse

-----------------------------------------------------------------------------
(* The pages that get_free_page returns.                                   *)

LEMMA GetFreePage ==
    ASSUME TypeOK, NEW n \in Nat \ {0}, n <= Cardinality(FreePages)
    PROVE  /\ get_free_page(n) \in FreePages
           /\ Cardinality({g \in FreePages : g >= get_free_page(n)}) = n
<1>1. FreePages \in SUBSET (1 .. NR_PAGES) /\ NR_PAGES \in Nat
  BY TasksAndPages DEF FreePages, Frames
<1> HIDE DEF FreePages
<1>2. \E f \in FreePages : Cardinality(UpFrom(FreePages, f)) = n
  BY <1>1, NthLast
<1>3. \E f \in FreePages : Cardinality({g \in FreePages : g >= f}) = n
  BY <1>2 DEF UpFrom
<1> QED
  BY <1>3 DEF get_free_page

LEMMA OneFree == ASSUME TypeOK, FreePages # {} PROVE get_free_page(1) \in FreePages /\ Cardinality(FreePages) >= 1
<1>1. IsFiniteSet(FreePages)
  <2>1. FreePages \in SUBSET (1 .. NR_PAGES) /\ IsFiniteSet(1 .. NR_PAGES)
    BY TasksAndPages, FS_Interval DEF FreePages, Frames
  <2> QED
    BY <2>1, FS_Subset
<1>2. Cardinality(FreePages) \in Nat /\ Cardinality(FreePages) # 0
  <2>1. Cardinality(FreePages) \in Nat
    BY <1>1, FS_CardinalityType
  <2>2. Cardinality(FreePages) # 0
    BY <1>1, FS_EmptySet
  <2> QED
    BY <2>1, <2>2
<1>3. 1 <= Cardinality(FreePages) /\ 1 \in Nat \ {0}
  BY <1>2
<1>4. get_free_page(1) \in FreePages
  BY <1>3, GetFreePage
<1> QED
  BY <1>2, <1>4

-----------------------------------------------------------------------------
(* A process exits.                                                        *)

LEMMA UsesAre == ASSUME NEW p, NEW f PROVE Uses(p, f) = Cardinality(PtesOf(p, f)) + Cardinality(DirsOf(p, f))
BY DEF Uses, PtesOf, DirsOf

LEMMA UsesAreNat ==
    ASSUME NEW p, NEW f
    PROVE  /\ Cardinality(PtesOf(p, f)) \in Nat /\ Cardinality(DirsOf(p, f)) \in Nat
           /\ Uses(p, f) \in Nat
<1>1. PtesOf(p, f) \in SUBSET Pages /\ DirsOf(p, f) \in SUBSET Dirs
  BY DEF PtesOf, DirsOf
<1>2. IsFiniteSet(PtesOf(p, f)) /\ IsFiniteSet(DirsOf(p, f))
  BY <1>1, Finite, FS_Subset
<1> QED
  BY <1>2, UsesAre, FS_CardinalityType

LEMMA NoUses ==
    ASSUME NEW p, NEW f, \A a \in Pages : ~ Names(p, a, f), \A d \in Dirs : dir[p][d] # f
    PROVE  Uses(p, f) = 0
<1>1. PtesOf(p, f) = {} /\ DirsOf(p, f) = {}
  BY DEF PtesOf, DirsOf, Names
<1> QED
  BY <1>1, UsesAre, FS_EmptySet

\* The page tables and the page in hand are given up.
LEMMA FreedUses ==
    ASSUME TypeOK, NEW p \in Slots, NEW f \in Frames,
           UNCHANGED task, held' = [held EXCEPT ![p] = LOW],
           dir' = [dir EXCEPT ![p] = [d \in Dirs |-> LOW]],
           pte' = [pte EXCEPT ![p] = [a \in Pages |-> NULL]]
    PROVE  Total(f)' = Total(f) - Uses(p, f) - One(held[p] = f)
<1>1. f # LOW
  BY DEF Frames, LOW
<1>2. Cardinality(TaskUses(f)') = Cardinality(TaskUses(f))
  BY DEF TaskUses
<1>3. Cardinality(HeldUses(f)') = Cardinality(HeldUses(f)) - One(held[p] = f)
  <2>1. \A q \in Slots \ {p} : held'[q] = held[q]
    BY DEF TypeOK
  <2>2. held'[p] # f
    BY <1>1 DEF TypeOK
  <2>3. Cardinality(HeldUses(f)') = Cardinality(HeldUses(f)) + One(held'[p] = f) - One(held[p] = f)
    BY <2>1, HeldChange
  <2> QED
    BY <2>2, <2>3, CountsAreNat DEF One
<1>4. Cardinality(PteUses(f)') = Cardinality(PteUses(f)) - Cardinality(PtesOf(p, f))
  <2>1. \A q \in Slots \ {p}, a \in Pages : Names(q, a, f)' <=> Names(q, a, f)
    BY DEF TypeOK, Names, Present
  <2>2. PtesOf(p, f)' = {}
    BY DEF TypeOK, PtesOf, Present
  <2>3. Cardinality(PtesOf(p, f)') = 0
    BY <2>2, FS_EmptySet
  <2> QED
    BY <2>1, <2>3, PtesChange, CountsAreNat
<1>5. Cardinality(DirUses(f)') = Cardinality(DirUses(f)) - Cardinality(DirsOf(p, f))
  <2>1. \A q \in Slots \ {p} : dir'[q] = dir[q]
    BY DEF TypeOK
  <2>2. DirsOf(p, f)' = {}
    BY <1>1 DEF TypeOK, DirsOf
  <2>3. Cardinality(DirsOf(p, f)') = 0
    BY <2>2, FS_EmptySet
  <2> QED
    BY <2>1, <2>3, DirsChange, CountsAreNat
<1> QED
  BY <1>2, <1>3, <1>4, <1>5, CountsAreNat, UsesAre, UsesAreNat DEF Total, One

LEMMA DoExitKeepsInv ==
    ASSUME MemInv, NEW p \in Slots, pc[p] # "none", do_exit(p)
    PROVE  MemInv'
<1> USE DEF MemInv
<1>1. /\ dir' = [dir EXCEPT ![p] = [d \in Dirs |-> LOW]]
      /\ pte' = [pte EXCEPT ![p] = [a \in Pages |-> NULL]]
      /\ executable' = [executable EXCEPT ![p] = NULL]
      /\ pc' = [pc EXCEPT ![p] = "zombie"]
      /\ held' = [held EXCEPT ![p] = LOW]
      /\ at' = [at EXCEPT ![p] = NULL]
      /\ UNCHANGED <<content, task>>
      /\ mem_map' = [f \in Frames |-> mem_map[f] - Uses(p, f) - OneIf(held[p] = f)]
  BY DEF do_exit
<1>2. ASSUME NEW f \in Frames
      PROVE  /\ mem_map'[f] = mem_map[f] + Total(f)' - Total(f)
             /\ Total(f) = 0 => Total(f)' = 0
             /\ Total(f)' <= Total(f)
  <2>1. Total(f)' = Total(f) - Uses(p, f) - One(held[p] = f)
    BY <1>1, FreedUses
  <2>2. mem_map'[f] = mem_map[f] - Uses(p, f) - One(held[p] = f)
    BY <1>1 DEF OneIf, One
  <2>3. Uses(p, f) \in Nat /\ Total(f) \in Nat /\ Total(f)' \in Nat /\ mem_map[f] \in Nat
    BY UsesAreNat, CountsAreNat, CountsAreNatAfter DEF TypeOK
  <2> QED
    BY <2>1, <2>2, <2>3 DEF One
<1>3. CountIsUses' /\ mem_map' \in [Frames -> Nat]
  <2>1. DOMAIN mem_map' = Frames /\ mem_map' = [f \in Frames |-> mem_map'[f]]
    BY <1>1
  <2> QED
    BY <1>2, <2>1, CountStep
<1>4. TypeOK'
  <2>1. /\ dir' \in [Slots -> [Dirs -> Frames \cup {LOW}]]
        /\ pte' \in [Slots -> [Pages -> Entry \cup {NULL}]]
    BY <1>1 DEF TypeOK
  <2>2. /\ executable' \in [Slots -> Files \cup {NULL}] /\ pc' \in [Slots -> Places]
        /\ held' \in [Slots -> Frames \cup {LOW}] /\ at' \in [Slots -> Pages \cup Files \cup {NULL}]
    BY <1>1 DEF TypeOK, Places
  <2> QED
    BY <1>1, <1>3, <2>1, <2>2 DEF TypeOK
<1>5. ASSUME NEW f \in Frames, mem_map[f] = 1, Total(f)' > 0 PROVE mem_map'[f] = 1
  <2>1. Total(f) = 1
    BY <1>5, CountedIs DEF Counted, USED
  <2> QED
    BY <1>2, <1>5, <2>1, CountsAreNatAfter
<1>6. ASSUME NEW f \in Frames, ~ Unused(f)' PROVE Total(f)' > 0
  BY <1>6, UnusedIsZeroAfter, CountsAreNatAfter
<1>7. WritableIsPrivate'
  <2> SUFFICES ASSUME NEW q \in Slots, NEW a \in Pages, Present(q, a)', pte'[q][a].rw
               PROVE  pte'[q][a].page # LOW /\ mem_map'[pte'[q][a].page] = 1
    BY DEF WritableIsPrivate
  <2>1. q # p /\ pte'[q] = pte[q]
    BY <1>1 DEF Present, TypeOK
  <2>2. PICK f \in Frames : f = pte[q][a].page /\ mem_map[f] = 1
    BY <2>1 DEF WritableIsPrivate, Present, TypeOK, Entry
  <2>3. ~ Unused(f)'
    BY <2>1, <2>2 DEF Unused, Names, Present
  <2>4. mem_map'[f] = 1
    BY <1>5, <1>6, <2>2, <2>3
  <2> QED
    BY <2>1, <2>2, <2>4 DEF Frames, LOW
<1>8. KernelPagesPrivate'
  <2>1. ASSUME NEW q \in Slots, task'[q] # LOW PROVE mem_map'[task'[q]] = 1
    <3>1. task[q] \in Frames /\ mem_map[task[q]] = 1
      BY <1>1, <2>1 DEF KernelPagesPrivate, TypeOK
    <3>2. ~ Unused(task[q])'
      BY <1>1 DEF Unused
    <3> QED
      BY <1>1, <1>5, <1>6, <3>1, <3>2
  <2>2. ASSUME NEW q \in Slots, held'[q] # LOW PROVE mem_map'[held'[q]] = 1
    <3>1. q # p /\ held'[q] = held[q]
      BY <1>1, <2>2 DEF TypeOK
    <3>2. held[q] \in Frames /\ mem_map[held[q]] = 1
      BY <2>2, <3>1 DEF KernelPagesPrivate, TypeOK
    <3>3. ~ Unused(held[q])'
      BY <3>1 DEF Unused
    <3> QED
      BY <1>5, <1>6, <3>1, <3>2, <3>3
  <2>3. ASSUME NEW q \in Slots, NEW d \in Dirs, dir'[q][d] # LOW PROVE mem_map'[dir'[q][d]] = 1
    <3>1. q # p /\ dir'[q] = dir[q]
      BY <1>1, <2>3 DEF TypeOK
    <3>2. dir[q][d] \in Frames /\ mem_map[dir[q][d]] = 1
      BY <2>3, <3>1 DEF KernelPagesPrivate, TypeOK
    <3>3. ~ Unused(dir[q][d])'
      BY <3>1 DEF Unused
    <3> QED
      BY <1>5, <1>6, <3>1, <3>2, <3>3
  <2> QED
    BY <2>1, <2>2, <2>3 DEF KernelPagesPrivate
<1>9. PlacesOK'
  <2> SUFFICES ASSUME NEW q \in Slots PROVE PlaceOK(q)'
    BY DEF PlacesOK
  <2>1. CASE q = p
    BY <1>1, <2>1 DEF PlaceOK, TypeOK, TablesOf, Present
  <2>2. CASE q # p
    <3>1. /\ pte'[q] = pte[q] /\ dir'[q] = dir[q] /\ pc'[q] = pc[q] /\ held'[q] = held[q]
          /\ at'[q] = at[q] /\ executable'[q] = executable[q] /\ task'[q] = task[q]
      BY <1>1, <2>2 DEF TypeOK
    <3> QED
      BY <3>1 DEF PlacesOK, PlaceOK, TablesOf, Present
  <2> QED
    BY <2>1, <2>2
<1> QED
  BY <1>3, <1>4, <1>7, <1>8, <1>9

-----------------------------------------------------------------------------
(* Steps that name the same pages as before.                               *)

LEMMA SamePages ==
    ASSUME MemInv, UNCHANGED <<mem_map, task, held, dir>>,
           \A q \in Slots, a \in Pages :
             /\ Present(q, a)' <=> Present(q, a)
             /\ Present(q, a) => /\ pte'[q][a].page = pte[q][a].page
                                 /\ pte'[q][a].rw => pte[q][a].rw \/ (pte[q][a].page # LOW /\ mem_map[pte[q][a].page] = 1)
    PROVE  CountIsUses' /\ WritableIsPrivate' /\ KernelPagesPrivate'
<1>1. CountIsUses'
  <2>1. ASSUME NEW f \in Frames PROVE Counted(f)'
    <3>1. PteUses(f)' = PteUses(f)
      BY DEF PteUses
    <3>2. Total(f)' = Total(f)
      BY <3>1 DEF Total, TaskUses, HeldUses, DirUses
    <3> QED
      BY <3>2, CountedIs DEF MemInv, Counted
  <2>2. CountIsUses' <=> \A f \in Frames : Counted(f)'
    BY DEF CountIsUses, Counted, Total, TaskUses, HeldUses, PteUses, DirUses
  <2> QED
    BY <2>1, <2>2
<1>2. WritableIsPrivate'
  BY DEF MemInv, WritableIsPrivate, Present
<1>3. KernelPagesPrivate'
  BY DEF MemInv, KernelPagesPrivate
<1> QED
  BY <1>1, <1>2, <1>3

\* What process q has does not change.
Same(q) ==
    /\ task'[q] = task[q] /\ held'[q] = held[q] /\ dir'[q] = dir[q] /\ pc'[q] = pc[q]
    /\ at'[q] = at[q] /\ executable'[q] = executable[q]
    /\ \A a \in Pages : Present(q, a)' <=> Present(q, a)

LEMMA SamePlace == ASSUME PlacesOK, NEW q \in Slots, Same(q), TypeOK PROVE PlaceOK(q)'
<1>1. PlaceOK(q)
  BY DEF PlacesOK
<1>2. TablesOf(q)' = TablesOf(q)
  BY DEF Same, TablesOf
<1>3. pc[q] \in {"load", "sysLoad"} => at[q] \in Pages
  BY <1>1 DEF PlaceOK, Pages
<1> QED
  BY <1>1, <1>2, <1>3 DEF Same, PlaceOK

LEMMA StoreKeepsInv ==
    ASSUME MemInv, NEW p \in Slots, NEW a \in Pages, StoreTo(p, a), Present(p, a),
           pc[p] \in {"user", "retry", "store"}
    PROVE  MemInv'
<1>1. pte[p][a] \in Entry
  BY DEF MemInv, TypeOK, Present
<1>2. /\ pte' \in [Slots -> [Pages -> Entry \cup {NULL}]]
      /\ \A q \in Slots, b \in Pages : <<q, b>> # <<p, a>> => pte'[q][b] = pte[q][b]
      /\ pte'[p][a] \in Entry /\ pte'[p][a].page = pte[p][a].page /\ pte'[p][a].rw = pte[p][a].rw
  BY <1>1 DEF StoreTo, MemInv, TypeOK, Entry
<1>3. TypeOK'
  <2>1. content' \in [Frames \cup {LOW} -> Slots \cup Files \cup {ZERO, KERNEL}]
    BY <1>1 DEF StoreTo, MemInv, TypeOK
  <2> QED
    BY <1>2, <2>1 DEF StoreTo, MemInv, TypeOK, Places
<1>4. \A q \in Slots, b \in Pages : /\ Present(q, b)' <=> Present(q, b)
                                    /\ Present(q, b) => /\ pte'[q][b].page = pte[q][b].page
                                                        /\ pte'[q][b].rw = pte[q][b].rw
  BY <1>1, <1>2, NullIsNothing DEF Present
<1>5. CountIsUses' /\ WritableIsPrivate' /\ KernelPagesPrivate'
  BY <1>4, SamePages DEF StoreTo
<1>6. PlacesOK'
  <2> SUFFICES ASSUME NEW q \in Slots PROVE PlaceOK(q)'
    BY DEF PlacesOK
  <2>1. CASE q = p
    <3>1. PlaceOK(p) /\ TablesOf(p)' = TablesOf(p) /\ held'[p] = held[p] /\ pc'[p] = "user" /\ task' = task
      BY DEF MemInv, PlacesOK, StoreTo, TablesOf, TypeOK
    <3> QED
      BY <2>1, <3>1 DEF PlaceOK
  <2>2. CASE q # p
    BY <1>4, <2>2, SamePlace DEF Same, MemInv, TypeOK, StoreTo
  <2> QED
    BY <2>1, <2>2
<1> QED
  BY <1>3, <1>5, <1>6 DEF MemInv

LEMMA NoStoreKeepsInv == ASSUME MemInv, NEW p \in Slots, no_store(p) PROVE MemInv'
<1>1. /\ pc[p] = "store" /\ pc'[p] = "user" /\ \A q \in Slots \ {p} : pc'[q] = pc[q] /\ at'[q] = at[q]
      /\ UNCHANGED <<mem_map, content, task, dir, pte, executable, held>>
  BY DEF no_store, At, MemInv, TypeOK
<1>2. TypeOK'
  BY DEF no_store, MemInv, TypeOK, Places
<1>3. CountIsUses' /\ WritableIsPrivate' /\ KernelPagesPrivate'
  BY <1>1, SamePages DEF Present
<1>4. PlacesOK'
  <2> SUFFICES ASSUME NEW q \in Slots PROVE PlaceOK(q)'
    BY DEF PlacesOK
  <2>1. CASE q = p
    <3>1. PlaceOK(p) /\ TablesOf(p)' = TablesOf(p)
      BY <1>1 DEF MemInv, PlacesOK, TablesOf
    <3> QED
      BY <1>1, <2>1, <3>1 DEF PlaceOK
  <2>2. CASE q # p
    BY <1>1, <2>2, SamePlace DEF Same, MemInv, Present
  <2> QED
    BY <2>1, <2>2
<1> QED
  BY <1>2, <1>3, <1>4 DEF MemInv

LEMMA ForkFailsKeepsInv == ASSUME MemInv, NEW p \in Slots, ForkFails(p) PROVE MemInv'
<1>1. PICK copied \in SUBSET Dirs : pte' = [pte EXCEPT ![p] = ProtectIn(p, copied)]
  BY DEF ForkFails, TablesOf
<1>2. \A a \in Pages : /\ pte[p][a] \in Entry \cup {NULL}
                       /\ pte'[p][a] \in Entry \cup {NULL}
                       /\ Present(p, a)' <=> Present(p, a)
                       /\ Present(p, a) => /\ pte'[p][a].page = pte[p][a].page
                                           /\ pte'[p][a].rw => pte[p][a].rw
  <2> SUFFICES ASSUME NEW a \in Pages
               PROVE  /\ pte[p][a] \in Entry \cup {NULL}
                      /\ pte'[p][a] \in Entry \cup {NULL}
                      /\ Present(p, a)' <=> Present(p, a)
                      /\ Present(p, a) => /\ pte'[p][a].page = pte[p][a].page
                                          /\ pte'[p][a].rw => pte[p][a].rw
    OBVIOUS
  <2>1. pte[p][a] \in Entry \cup {NULL}
    BY DEF MemInv, TypeOK
  <2>2. \/ pte'[p][a] = pte[p][a]
        \/ Present(p, a) /\ pte'[p][a] = [pte[p][a] EXCEPT !.rw = FALSE]
    BY <1>1 DEF MemInv, TypeOK, ProtectIn
  <2>3. CASE pte'[p][a] = pte[p][a]
    BY <2>1, <2>3 DEF Present
  <2>4. CASE Present(p, a) /\ pte'[p][a] = [pte[p][a] EXCEPT !.rw = FALSE]
    <3>1. /\ pte'[p][a] \in Entry /\ pte'[p][a].page = pte[p][a].page
          /\ pte'[p][a].rw = FALSE
      BY <2>1, <2>4 DEF Present, Entry
    <3> QED
      BY <2>1, <2>4, <3>1, NullIsNothing DEF Present
  <2> QED
    BY <2>2, <2>3, <2>4
<1>3. /\ pte' \in [Slots -> [Pages -> Entry \cup {NULL}]]
      /\ \A q \in Slots \ {p} : pte'[q] = pte[q]
  <2>1. pte'[p] \in [Pages -> Entry \cup {NULL}]
    BY <1>1, <1>2 DEF MemInv, TypeOK, ProtectIn
  <2> QED
    BY <1>1, <2>1 DEF MemInv, TypeOK
<1>4. TypeOK'
  BY <1>3 DEF ForkFails, MemInv, TypeOK
<1>5. \A q \in Slots, b \in Pages : /\ Present(q, b)' <=> Present(q, b)
                                    /\ Present(q, b) => /\ pte'[q][b].page = pte[q][b].page
                                                        /\ pte'[q][b].rw => pte[q][b].rw
  BY <1>2, <1>3 DEF Present
<1>6. CountIsUses' /\ WritableIsPrivate' /\ KernelPagesPrivate'
  BY <1>5, SamePages DEF ForkFails
<1>7. PlacesOK'
  BY <1>5, SamePlace DEF ForkFails, Same, MemInv, PlacesOK
<1> QED
  BY <1>4, <1>6, <1>7 DEF MemInv

LEMMA ExecSwitchKeepsInv == ASSUME MemInv, NEW p \in Slots, ExecSwitch(p) PROVE MemInv'
<1>1. at[p] \in Files /\ pc[p] = "exec"
  BY DEF MemInv, PlacesOK, PlaceOK, ExecSwitch, At
<1>2. TypeOK'
  BY <1>1 DEF ExecSwitch, MemInv, TypeOK, Places
<1>3. CountIsUses' /\ WritableIsPrivate' /\ KernelPagesPrivate'
  BY SamePages DEF ExecSwitch, Present
<1>4. PlacesOK'
  <2> SUFFICES ASSUME NEW q \in Slots PROVE PlaceOK(q)'
    BY DEF PlacesOK
  <2>1. CASE q = p
    <3>1. PlaceOK(p) /\ TablesOf(p)' = TablesOf(p) /\ held' = held /\ pc'[p] = "close" /\ task' = task
      BY DEF MemInv, PlacesOK, ExecSwitch, TablesOf, TypeOK
    <3> QED
      BY <1>1, <2>1, <3>1 DEF PlaceOK
  <2>2. CASE q # p
    BY <2>2, SamePlace DEF Same, MemInv, TypeOK, ExecSwitch, Present
  <2> QED
    BY <2>1, <2>2
<1> QED
  BY <1>2, <1>3, <1>4 DEF MemInv

-----------------------------------------------------------------------------
(* Steps that get or give back one page.                                   *)

\* Only the page in hand changes.
LEMMA HeldUsesChange ==
    ASSUME NEW p \in Slots, NEW f, UNCHANGED <<task, dir, pte>>, \A q \in Slots \ {p} : held'[q] = held[q]
    PROVE  Total(f)' = Total(f) + One(held'[p] = f) - One(held[p] = f)
<1>1. TaskUses(f)' = TaskUses(f) /\ PteUses(f)' = PteUses(f) /\ DirUses(f)' = DirUses(f)
  BY DEF TaskUses, PteUses, DirUses, Present
<1> QED
  BY <1>1, HeldChange, CountsAreNat DEF Total, One

\* A page that was free is taken in hand.
LEMMA TakeInHand ==
    ASSUME MemInv, NEW p \in Slots, NEW n \in FreePages,
           held[p] = LOW, held' = [held EXCEPT ![p] = n],
           mem_map' = [mem_map EXCEPT ![n] = 1], UNCHANGED <<task, dir, pte>>
    PROVE  /\ CountIsUses' /\ WritableIsPrivate' /\ KernelPagesPrivate'
           /\ mem_map' \in [Frames -> Nat] /\ held' \in [Slots -> Frames \cup {LOW}]
<1>1. n \in Frames /\ mem_map[n] = 0 /\ Total(n) = 0
  BY FreeIsUnused, UnusedIsZero DEF FreePages, MemInv
<1>2. ASSUME NEW f \in Frames PROVE Total(f)' = Total(f) + One(n = f)
  <2>1. Total(f)' = Total(f) + One(held'[p] = f) - One(held[p] = f)
    BY HeldUsesChange DEF MemInv, TypeOK
  <2>2. held'[p] = n /\ held[p] # f
    BY DEF MemInv, TypeOK, Frames, LOW
  <2> QED
    BY <2>1, <2>2, CountsAreNat DEF One
<1>3. CountIsUses' /\ mem_map' \in [Frames -> Nat]
  <2>1. DOMAIN mem_map' = Frames /\ mem_map' = [f \in Frames |-> mem_map'[f]]
    BY DEF MemInv, TypeOK
  <2>2. ASSUME NEW f \in Frames
        PROVE  /\ mem_map'[f] = mem_map[f] + Total(f)' - Total(f)
               /\ mem_map[f] # 0 /\ Total(f) = 0 => Total(f)' = 0
    BY <1>1, <1>2, CountsAreNat DEF MemInv, TypeOK, One
  <2> QED
    BY <2>1, <2>2, CountStep DEF MemInv
<1>4. mem_map'[n] = 1 /\ \A f \in Frames : mem_map[f] = 1 => mem_map'[f] = 1
  BY <1>1 DEF MemInv, TypeOK
<1>5. WritableIsPrivate'
  <2> SUFFICES ASSUME NEW q \in Slots, NEW a \in Pages, Present(q, a), pte[q][a].rw
               PROVE  pte[q][a].page # LOW /\ mem_map'[pte[q][a].page] = 1
    BY DEF WritableIsPrivate, Present
  <2>1. pte[q][a].page \in Frames /\ mem_map[pte[q][a].page] = 1
    BY DEF MemInv, WritableIsPrivate, TypeOK, Present, Entry
  <2> QED
    BY <1>4, <2>1 DEF Frames, LOW
<1>6. KernelPagesPrivate'
  <2>1. ASSUME NEW q \in Slots, held'[q] # LOW PROVE mem_map'[held'[q]] = 1
    <3>1. CASE q = p
      BY <1>4, <3>1 DEF MemInv, TypeOK
    <3>2. CASE q # p
      BY <1>4, <2>1, <3>2 DEF MemInv, TypeOK, KernelPagesPrivate
    <3> QED
      BY <3>1, <3>2
  <2>2. ASSUME NEW q \in Slots PROVE task[q] # LOW => mem_map'[task[q]] = 1
    BY <1>4 DEF MemInv, TypeOK, KernelPagesPrivate
  <2>3. ASSUME NEW q \in Slots, NEW d \in Dirs PROVE dir[q][d] # LOW => mem_map'[dir[q][d]] = 1
    BY <1>4 DEF MemInv, TypeOK, KernelPagesPrivate
  <2> QED
    BY <2>1, <2>2, <2>3 DEF KernelPagesPrivate
<1> QED
  BY <1>1, <1>3, <1>5, <1>6 DEF MemInv, TypeOK

\* get_free_page(1).
LEMMA TakeOne ==
    ASSUME TypeOK, FreePages # {}
    PROVE  /\ get_free_page(1) \in FreePages
           /\ Taken({get_free_page(1)}) = [mem_map EXCEPT ![get_free_page(1)] = 1]
<1>1. get_free_page(1) \in FreePages
  BY OneFree
<1>2. get_free_page(1) \in Frames
  BY <1>1 DEF FreePages
<1> QED
  BY <1>1, <1>2 DEF Taken, TypeOK

LEMMA ClearedTyped ==
    ASSUME TypeOK, NEW fs PROVE Cleared(fs) \in [Frames \cup {LOW} -> Slots \cup Files \cup {ZERO, KERNEL}]
BY DEF Cleared, TypeOK

LEMMA ExecKeepsInv == ASSUME MemInv, NEW p \in Slots, NEW file \in Files, Exec(p, file) PROVE MemInv'
<1> DEFINE n == get_free_page(1)
<1>1. n \in FreePages /\ n \in Frames
  BY TakeOne DEF Exec, MemInv, FreePages
<1>2. pc[p] = "user" /\ held[p] = LOW /\ PlaceOK(p)
  BY DEF Exec, At, MemInv, PlacesOK, PlaceOK
<1>3. /\ mem_map' = [mem_map EXCEPT ![n] = 1] /\ content' = [content EXCEPT ![n] = p]
      /\ held' = [held EXCEPT ![p] = n] /\ at' = [at EXCEPT ![p] = file]
      /\ pc' = [pc EXCEPT ![p] = "exec"] /\ UNCHANGED <<task, dir, pte, executable>>
  BY DEF Exec
<1> HIDE DEF n
<1>4. /\ CountIsUses' /\ WritableIsPrivate' /\ KernelPagesPrivate'
      /\ mem_map' \in [Frames -> Nat] /\ held' \in [Slots -> Frames \cup {LOW}]
  BY <1>1, <1>2, <1>3, TakeInHand
<1>5. TypeOK'
  BY <1>1, <1>3, <1>4 DEF MemInv, TypeOK, Places
<1>6. PlacesOK'
  <2> SUFFICES ASSUME NEW q \in Slots PROVE PlaceOK(q)'
    BY DEF PlacesOK
  <2>1. CASE q = p
    <3>1. TablesOf(p)' = TablesOf(p) /\ held'[p] # LOW /\ pc'[p] = "exec" /\ at'[p] \in Files
      BY <1>1, <1>3 DEF MemInv, TablesOf, TypeOK, Frames, LOW
    <3> QED
      BY <1>2, <2>1, <3>1 DEF PlaceOK
  <2>2. CASE q # p
    BY <1>3, <2>2, SamePlace DEF Same, MemInv, TypeOK, Present
  <2> QED
    BY <2>1, <2>2
<1> QED
  BY <1>4, <1>5, <1>6 DEF MemInv

LEMMA LoadKeepsInv == ASSUME MemInv, NEW p \in Slots, NEW a \in Pages, LoadPage(p, a) PROVE MemInv'
<1> DEFINE n == get_free_page(1)
<1>1. /\ pc[p] \in {"user", "store"} /\ ~ Present(p, a) /\ a \in DataPages /\ executable[p] # NULL
      /\ PlaceOK(p)
  BY DEF LoadPage, NoPage, At, FromFile, MemInv, PlacesOK
<1>2. CASE FreePages = {}
  BY <1>1, <1>2, DoExitKeepsInv DEF LoadPage
<1>3. CASE FreePages # {}
  <2>1. n \in FreePages /\ n \in Frames /\ held[p] = LOW
    BY <1>1, <1>3, TakeOne DEF MemInv, FreePages, PlaceOK
  <2>2. /\ mem_map' = [mem_map EXCEPT ![n] = 1] /\ content' = Cleared({n})
        /\ held' = [held EXCEPT ![p] = n] /\ at' = [at EXCEPT ![p] = a]
        /\ pc' = [pc EXCEPT ![p] = IF @ = "user" THEN "load" ELSE "sysLoad"]
        /\ UNCHANGED <<task, dir, pte, executable>>
    BY <1>3, TakeOne DEF LoadPage, MemInv
  <2> HIDE DEF n
  <2>3. /\ CountIsUses' /\ WritableIsPrivate' /\ KernelPagesPrivate'
        /\ mem_map' \in [Frames -> Nat] /\ held' \in [Slots -> Frames \cup {LOW}]
    BY <2>1, <2>2, TakeInHand
  <2>4. TypeOK'
    <3>1. content' \in [Frames \cup {LOW} -> Slots \cup Files \cup {ZERO, KERNEL}]
      BY <2>2, ClearedTyped DEF MemInv
    <3> QED
      BY <2>2, <2>3, <3>1 DEF MemInv, TypeOK, Places
  <2>5. PlacesOK'
    <3> SUFFICES ASSUME NEW q \in Slots PROVE PlaceOK(q)'
      BY DEF PlacesOK
    <3>1. CASE q = p
      <4>1. /\ TablesOf(p)' = TablesOf(p) /\ held'[p] # LOW /\ pc'[p] \in {"load", "sysLoad"} /\ at'[p] = a
            /\ ~ Present(p, a)' /\ executable'[p] # NULL
        BY <1>1, <2>1, <2>2 DEF MemInv, TablesOf, TypeOK, Frames, LOW, Present
      <4> QED
        BY <1>1, <3>1, <4>1 DEF PlaceOK
    <3>2. CASE q # p
      BY <2>2, <3>2, SamePlace DEF Same, MemInv, TypeOK, Present
    <3> QED
      BY <3>1, <3>2
  <2> QED
    BY <2>3, <2>4, <2>5 DEF MemInv
<1> QED
  BY <1>2, <1>3

LEMMA ExecFailsKeepsInv == ASSUME MemInv, NEW p \in Slots, ExecFails(p) PROVE MemInv'
<1>1. PICK n : n = held[p]
  OBVIOUS
<1>2. pc[p] = "exec" /\ PlaceOK(p) /\ n # LOW /\ n \in Frames /\ mem_map[n] = 1
  BY <1>1 DEF ExecFails, At, MemInv, PlacesOK, PlaceOK, KernelPagesPrivate, TypeOK
<1>3. /\ mem_map' = [mem_map EXCEPT ![n] = 0]
      /\ held' = [held EXCEPT ![p] = LOW] /\ at' = [at EXCEPT ![p] = NULL]
      /\ pc' = [pc EXCEPT ![p] = "user"] /\ UNCHANGED <<content, task, dir, pte, executable>>
  BY <1>1, <1>2 DEF ExecFails, MemInv, TypeOK
<1>4. OnlyUse(n)
  BY <1>2, SingleUse DEF MemInv
<1>5. ASSUME NEW f \in Frames PROVE Total(f)' = Total(f) - One(n = f)
  <2>1. Total(f)' = Total(f) + One(held'[p] = f) - One(held[p] = f)
    BY <1>3, HeldUsesChange DEF MemInv, TypeOK
  <2>2. held'[p] # f
    BY <1>3 DEF MemInv, TypeOK, Frames, LOW
  <2> QED
    BY <1>1, <2>1, <2>2, CountsAreNat DEF One
<1>6. CountIsUses' /\ mem_map' \in [Frames -> Nat]
  <2>1. DOMAIN mem_map' = Frames /\ mem_map' = [f \in Frames |-> mem_map'[f]]
    BY <1>3 DEF MemInv, TypeOK
  <2>2. ASSUME NEW f \in Frames
        PROVE  /\ mem_map'[f] = mem_map[f] + Total(f)' - Total(f)
               /\ mem_map[f] # 0 /\ Total(f) = 0 => Total(f)' = 0
    <3>1. Total(f)' \in Nat /\ Total(f) \in Nat
      BY CountsAreNat, CountsAreNatAfter
    <3> QED
      BY <1>2, <1>3, <1>5, <3>1 DEF MemInv, TypeOK, One
  <2> QED
    BY <2>1, <2>2, CountStep DEF MemInv
<1>7. \A f \in Frames : f # n => mem_map'[f] = mem_map[f]
  BY <1>3 DEF MemInv, TypeOK
<1>8. WritableIsPrivate'
  <2> SUFFICES ASSUME NEW q \in Slots, NEW a \in Pages, Present(q, a), pte[q][a].rw
               PROVE  pte[q][a].page # LOW /\ mem_map'[pte[q][a].page] = 1
    BY <1>3 DEF WritableIsPrivate, Present
  <2>1. pte[q][a].page \in Frames /\ mem_map[pte[q][a].page] = 1 /\ pte[q][a].page # n
    BY <1>1, <1>4 DEF MemInv, WritableIsPrivate, TypeOK, Present, Entry, OnlyUse, Names
  <2> QED
    BY <1>7, <2>1 DEF Frames, LOW
<1>9. KernelPagesPrivate'
  <2>1. ASSUME NEW q \in Slots, held'[q] # LOW PROVE mem_map'[held'[q]] = 1
    <3>1. q # p /\ held'[q] = held[q] /\ held[q] # n
      BY <1>1, <1>3, <1>4, <2>1 DEF MemInv, TypeOK, OnlyUse
    <3> QED
      BY <1>7, <2>1, <3>1 DEF MemInv, TypeOK, KernelPagesPrivate
  <2>2. ASSUME NEW q \in Slots PROVE task[q] # LOW => mem_map'[task[q]] = 1
    BY <1>1, <1>4, <1>7 DEF MemInv, TypeOK, KernelPagesPrivate, OnlyUse
  <2>3. ASSUME NEW q \in Slots, NEW d \in Dirs PROVE dir[q][d] # LOW => mem_map'[dir[q][d]] = 1
    BY <1>1, <1>4, <1>7 DEF MemInv, TypeOK, KernelPagesPrivate, OnlyUse
  <2> QED
    BY <1>3, <2>1, <2>2, <2>3 DEF KernelPagesPrivate
<1>10. TypeOK'
  <2>1. held' \in [Slots -> Frames \cup {LOW}] /\ at' \in [Slots -> Pages \cup Files \cup {NULL}]
    BY <1>3 DEF MemInv, TypeOK
  <2> QED
    BY <1>3, <1>6, <2>1 DEF MemInv, TypeOK, Places
<1>11. PlacesOK'
  <2> SUFFICES ASSUME NEW q \in Slots PROVE PlaceOK(q)'
    BY DEF PlacesOK
  <2>1. CASE q = p
    <3>1. TablesOf(p)' = TablesOf(p) /\ held'[p] = LOW /\ pc'[p] = "user"
      BY <1>3 DEF MemInv, TablesOf, TypeOK
    <3> QED
      BY <1>2, <2>1, <3>1 DEF PlaceOK
  <2>2. CASE q # p
    BY <1>3, <2>2, SamePlace DEF Same, MemInv, TypeOK, Present
  <2> QED
    BY <2>1, <2>2
<1> QED
  BY <1>6, <1>8, <1>9, <1>10, <1>11 DEF MemInv

\* The page of the task structure is freed.
LEMMA ReleaseKeepsInv == ASSUME MemInv, NEW p \in Slots, release(p) PROVE MemInv'
<1>1. PICK n : n = task[p]
  OBVIOUS
<1>2. /\ pc[p] = "zombie" /\ PlaceOK(p) /\ n \in Frames \cup {LOW}
      /\ n # LOW => n \in Frames /\ mem_map[n] = 1
  BY <1>1 DEF release, MemInv, PlacesOK, PlaceOK, KernelPagesPrivate, TypeOK
<1>3. /\ mem_map' = [f \in Frames |-> mem_map[f] - One(n = f)]
      /\ task' = [task EXCEPT ![p] = LOW]
      /\ pc' = [pc EXCEPT ![p] = "none"] /\ UNCHANGED <<content, held, dir, pte, executable, at>>
  <2>1. mem_map' = [mem_map EXCEPT ![n] = @ - 1]
    BY <1>1 DEF release
  <2>2. mem_map' = [f \in Frames |-> mem_map[f] - One(n = f)]
    <3>1. mem_map \in [Frames -> Nat]
      BY DEF MemInv, TypeOK
    <3>2. CASE n = LOW
      <4>1. mem_map' = mem_map
        BY <2>1, <3>1, <3>2 DEF Frames, LOW
      <4>2. \A f \in Frames : n # f
        BY <3>2 DEF Frames, LOW
      <4>3. \A f \in Frames : mem_map[f] - One(n = f) = mem_map[f]
        BY <3>1, <4>2 DEF One
      <4> QED
        BY <3>1, <4>1, <4>3
    <3>3. CASE n \in Frames
      <4>1. \A f \in Frames : mem_map'[f] = mem_map[f] - One(n = f)
        BY <2>1, <3>1, <3>3 DEF One
      <4>2. DOMAIN mem_map' = Frames /\ mem_map' = [f \in Frames |-> mem_map'[f]]
        BY <2>1, <3>1
      <4> QED
        BY <4>1, <4>2
    <3> QED
      BY <1>2, <3>2, <3>3
  <2> QED
    BY <2>2 DEF release
<1>4. n # LOW => OnlyUse(n)
  BY <1>2, SingleUse DEF MemInv
<1>5. ASSUME NEW f \in Frames PROVE Total(f)' = Total(f) - One(n = f)
  <2>1. Cardinality(TaskUses(f)') = Cardinality(TaskUses(f)) + One(task'[p] = f) - One(task[p] = f)
    BY <1>3, TaskChange DEF MemInv, TypeOK
  <2>2. task'[p] # f
    BY <1>3 DEF MemInv, TypeOK, Frames, LOW
  <2>3. HeldUses(f)' = HeldUses(f) /\ PteUses(f)' = PteUses(f) /\ DirUses(f)' = DirUses(f)
    BY <1>3 DEF HeldUses, PteUses, DirUses, Present
  <2> QED
    BY <1>1, <2>1, <2>2, <2>3, CountsAreNat DEF One, Total
<1>6. CountIsUses' /\ mem_map' \in [Frames -> Nat]
  <2>1. DOMAIN mem_map' = Frames /\ mem_map' = [f \in Frames |-> mem_map'[f]]
    BY <1>3 DEF MemInv, TypeOK
  <2>2. ASSUME NEW f \in Frames
        PROVE  /\ mem_map'[f] = mem_map[f] + Total(f)' - Total(f)
               /\ mem_map[f] # 0 /\ Total(f) = 0 => Total(f)' = 0
    <3>1. Total(f)' \in Nat /\ Total(f) \in Nat
      BY CountsAreNat, CountsAreNatAfter
    <3> QED
      BY <1>2, <1>3, <1>5, <3>1 DEF MemInv, TypeOK, One
  <2> QED
    BY <2>1, <2>2, CountStep DEF MemInv
<1>7. \A f \in Frames : f # n => mem_map'[f] = mem_map[f]
  BY <1>3 DEF MemInv, TypeOK, One
<1>8. WritableIsPrivate'
  <2> SUFFICES ASSUME NEW q \in Slots, NEW a \in Pages, Present(q, a), pte[q][a].rw
               PROVE  pte[q][a].page # LOW /\ mem_map'[pte[q][a].page] = 1
    BY <1>3 DEF WritableIsPrivate, Present
  <2>1. pte[q][a].page \in Frames /\ mem_map[pte[q][a].page] = 1 /\ pte[q][a].page # n
    BY <1>1, <1>4 DEF MemInv, WritableIsPrivate, TypeOK, Present, Entry, OnlyUse, Names
  <2> QED
    BY <1>7, <2>1 DEF Frames, LOW
<1>9. KernelPagesPrivate'
  <2>1. ASSUME NEW q \in Slots, task'[q] # LOW PROVE mem_map'[task'[q]] = 1
    <3>1. q # p /\ task'[q] = task[q] /\ (task[q] # n)
      BY <1>1, <1>3, <1>4, <2>1 DEF MemInv, TypeOK, OnlyUse
    <3> QED
      BY <1>7, <2>1, <3>1 DEF MemInv, TypeOK, KernelPagesPrivate
  <2>2. ASSUME NEW q \in Slots PROVE held[q] # LOW => mem_map'[held[q]] = 1
    BY <1>1, <1>4, <1>7 DEF MemInv, TypeOK, KernelPagesPrivate, OnlyUse
  <2>3. ASSUME NEW q \in Slots, NEW d \in Dirs PROVE dir[q][d] # LOW => mem_map'[dir[q][d]] = 1
    BY <1>1, <1>4, <1>7 DEF MemInv, TypeOK, KernelPagesPrivate, OnlyUse
  <2> QED
    BY <1>3, <2>1, <2>2, <2>3 DEF KernelPagesPrivate
<1>10. TypeOK'
  <2>1. task' \in [Slots -> Frames \cup {LOW}]
    BY <1>3 DEF MemInv, TypeOK
  <2> QED
    BY <1>3, <1>6, <2>1 DEF MemInv, TypeOK, Places
<1>11. PlacesOK'
  <2> SUFFICES ASSUME NEW q \in Slots PROVE PlaceOK(q)'
    BY DEF PlacesOK
  <2>1. CASE q = p
    <3>1. TablesOf(p)' = TablesOf(p) /\ held'[p] = held[p] /\ pc'[p] = "none" /\ task'[p] = LOW /\ pte' = pte
      BY <1>3 DEF MemInv, TablesOf, TypeOK
    <3> QED
      BY <1>2, <2>1, <3>1 DEF PlaceOK, Present
  <2>2. CASE q # p
    BY <1>3, <2>2, SamePlace DEF Same, MemInv, TypeOK, Present
  <2> QED
    BY <2>1, <2>2
<1> QED
  BY <1>6, <1>8, <1>9, <1>10, <1>11 DEF MemInv

-----------------------------------------------------------------------------
(* put_page: a page is entered, with a new page table if there is none.    *)

\* The page table for a is there, or t becomes it.
TableStep(p, a, T) ==
    \/ ~ NoTable(p, a) /\ T = {} /\ dir' = dir
    \/ \E t \in FreePages : NoTable(p, a) /\ T = {t} /\ dir' = [dir EXCEPT ![p][Dir(a)] = t]

\* Page x is new, or shared with s, or was in hand.
Fresh(p, x, T) ==
    /\ x \in FreePages \ T
    /\ held' = held
    /\ mem_map' = [f \in Frames |-> mem_map[f] + One(f \in T) + One(x = f)]

Shared(s, a, x, T) ==
    /\ Names(s, a, x) /\ Present(s, a)' /\ pte'[s][a].rw = FALSE
    /\ held' = held
    /\ mem_map' = [f \in Frames |-> mem_map[f] + One(f \in T) + One(x = f)]

InHand(p, x, T) ==
    /\ x = held[p] /\ held' = [held EXCEPT ![p] = LOW]
    /\ mem_map' = [f \in Frames |-> mem_map[f] + One(f \in T)]

LEMMA DirOf == ASSUME NEW a PROVE Dir(a) \in Dirs
BY DEF Dir, Dirs

LEMMA TableUses ==
    ASSUME TypeOK, NEW p \in Slots, NEW a \in Pages, NEW T, TableStep(p, a, T), NEW f \in Frames
    PROVE  Cardinality(DirUses(f)') = Cardinality(DirUses(f)) + One(f \in T)
<1>1. CASE ~ NoTable(p, a) /\ T = {} /\ dir' = dir
  <2>1. DirUses(f)' = DirUses(f)
    BY <1>1 DEF DirUses
  <2> QED
    BY <1>1, <2>1, CountsAreNat DEF One
<1>2. ASSUME NEW t \in FreePages, NoTable(p, a), T = {t}, dir' = [dir EXCEPT ![p][Dir(a)] = t]
      PROVE  Cardinality(DirUses(f)') = Cardinality(DirUses(f)) + One(f \in T)
  <2>1. dir \in [Slots -> [Dirs -> Frames \cup {LOW}]] /\ Dir(a) \in Dirs
    BY DirOf DEF TypeOK
  <2>2. \A q \in Slots, c \in Dirs : <<q, c>> # <<p, Dir(a)>> => dir'[q][c] = dir[q][c]
    BY <1>2, <2>1
  <2>3. Cardinality(DirUses(f)')
          = Cardinality(DirUses(f)) + One(dir'[p][Dir(a)] = f) - One(dir[p][Dir(a)] = f)
    BY <2>1, <2>2, TableChange
  <2>4. dir'[p][Dir(a)] = t /\ dir[p][Dir(a)] = LOW /\ f # LOW
    BY <1>2, <2>1 DEF NoTable, Frames, LOW
  <2> QED
    BY <1>2, <2>3, <2>4, CountsAreNat DEF One
<1> QED
  BY <1>1, <1>2 DEF TableStep

LEMMA TableTyped ==
    ASSUME TypeOK, NEW p \in Slots, NEW a \in Pages, NEW T, TableStep(p, a, T)
    PROVE  /\ dir' \in [Slots -> [Dirs -> Frames \cup {LOW}]] /\ T \in SUBSET FreePages
           /\ \A q \in Slots, d \in Dirs : dir'[q][d] = dir[q][d] \/ (q = p /\ dir'[q][d] \in T)
           /\ TablesOf(p)' # {} /\ \A q \in Slots \ {p} : dir'[q] = dir[q]
<1>1. dir \in [Slots -> [Dirs -> Frames \cup {LOW}]] /\ Dir(a) \in Dirs
  BY DirOf DEF TypeOK
<1>2. CASE ~ NoTable(p, a) /\ T = {} /\ dir' = dir
  BY <1>1, <1>2 DEF NoTable, TablesOf
<1>3. ASSUME NEW t \in FreePages, T = {t}, dir' = [dir EXCEPT ![p][Dir(a)] = t]
      PROVE  /\ dir' \in [Slots -> [Dirs -> Frames \cup {LOW}]] /\ T \in SUBSET FreePages
             /\ \A q \in Slots, d \in Dirs : dir'[q][d] = dir[q][d] \/ (q = p /\ dir'[q][d] \in T)
             /\ TablesOf(p)' # {} /\ \A q \in Slots \ {p} : dir'[q] = dir[q]
  <2>1. t \in Frames /\ t # LOW
    BY DEF FreePages, Frames, LOW
  <2>2. dir' \in [Slots -> [Dirs -> Frames \cup {LOW}]]
    BY <1>1, <1>3, <2>1
  <2>3. \A q \in Slots, d \in Dirs : dir'[q][d] = dir[q][d] \/ (q = p /\ dir'[q][d] \in T)
    BY <1>1, <1>3
  <2>4. dir'[p][Dir(a)] = t /\ \A q \in Slots \ {p} : dir'[q] = dir[q]
    BY <1>1, <1>3
  <2> QED
    BY <1>1, <1>3, <2>1, <2>2, <2>3, <2>4 DEF TablesOf
<1> QED
  BY <1>2, <1>3 DEF TableStep

\* Everything but p's entry for a names what it named.
OthersNamed(p, a, x) ==
    /\ \A q \in Slots, b \in Pages : <<q, b>> # <<p, a>> =>
          /\ Present(q, b)' <=> Present(q, b)
          /\ Present(q, b) => /\ pte'[q][b].page = pte[q][b].page
                              /\ pte'[q][b].rw => pte[q][b].rw
    /\ Present(p, a)' /\ pte'[p][a].page = x

LEMMA PutPage ==
    ASSUME MemInv, NEW p \in Slots, NEW a \in Pages, ~ Present(p, a), NEW x \in Frames,
           OthersNamed(p, a, x), NEW T, TableStep(p, a, T), UNCHANGED task,
           \/ Fresh(p, x, T)
           \/ pte'[p][a].rw = FALSE /\ \E s \in Slots : Shared(s, a, x, T)
           \/ InHand(p, x, T)
    PROVE  /\ CountIsUses' /\ WritableIsPrivate' /\ KernelPagesPrivate'
           /\ mem_map' \in [Frames -> Nat] /\ held' \in [Slots -> Frames \cup {LOW}]
<1> USE DEF MemInv
<1>1. /\ T \in SUBSET FreePages
      /\ \A q \in Slots, d \in Dirs : dir'[q][d] = dir[q][d] \/ (q = p /\ dir'[q][d] \in T)
      /\ dir' \in [Slots -> [Dirs -> Frames \cup {LOW}]]
  BY TableTyped
<1>2. \A f \in T : f \in Frames /\ mem_map[f] = 0 /\ Unused(f)
  BY <1>1, FreeIsUnused DEF FreePages
<1>3. x \notin T
  <2>1. ASSUME NEW s \in Slots, Shared(s, a, x, T) PROVE x \notin T
    BY <1>2, <2>1 DEF Shared, Unused
  <2>2. ASSUME InHand(p, x, T) PROVE x \notin T
    BY <1>2, <2>2 DEF InHand, Unused
  <2> QED
    BY <2>1, <2>2 DEF Fresh
<1>4. ASSUME NEW f \in Frames
      PROVE  /\ mem_map'[f] = mem_map[f] + One(f \in T) + One(x = f) - One(InHand(p, x, T) /\ x = f)
             /\ Total(f)' = Total(f) + One(f \in T) + One(x = f) - One(InHand(p, x, T) /\ x = f)
  <2>1. TaskUses(f)' = TaskUses(f)
    BY DEF TaskUses
  <2>2. Cardinality(DirUses(f)') = Cardinality(DirUses(f)) + One(f \in T)
    BY TableUses
  <2>3. Cardinality(PteUses(f)') = Cardinality(PteUses(f)) + One(x = f)
    <3>1. \A q \in Slots, b \in Pages : <<q, b>> # <<p, a>> => (Names(q, b, f)' <=> Names(q, b, f))
      BY DEF OthersNamed, Names
    <3>2. (Names(p, a, f)' <=> x = f) /\ ~ Names(p, a, f)
      BY DEF OthersNamed, Names
    <3>3. Cardinality(PteUses(f)') = Cardinality(PteUses(f)) + One(Names(p, a, f)') - One(Names(p, a, f))
      BY <3>1, EntryChange
    <3> QED
      BY <3>2, <3>3, CountsAreNat DEF One
  <2>4. CASE InHand(p, x, T)
    <3>1. Cardinality(HeldUses(f)') = Cardinality(HeldUses(f)) + One(held'[p] = f) - One(held[p] = f)
      BY <2>4, HeldChange DEF InHand, TypeOK
    <3>2. held'[p] # f /\ (held[p] = f <=> x = f)
      BY <2>4 DEF InHand, TypeOK, Frames, LOW
    <3>3. Cardinality(HeldUses(f)') = Cardinality(HeldUses(f)) - One(x = f)
      BY <3>1, <3>2, CountsAreNat DEF One
    <3>4. Total(f)' = Total(f) + One(f \in T) + One(x = f) - One(InHand(p, x, T) /\ x = f)
      BY <2>1, <2>2, <2>3, <2>4, <3>3, CountsAreNat DEF Total, One
    <3>5. mem_map'[f] = mem_map[f] + One(f \in T)
      BY <2>4 DEF InHand
    <3> QED
      BY <2>4, <3>4, <3>5 DEF One, TypeOK
  <2>5. CASE ~ InHand(p, x, T)
    <3>1. held' = held /\ mem_map'[f] = mem_map[f] + One(f \in T) + One(x = f)
      BY <2>5 DEF Fresh, Shared
    <3>2. HeldUses(f)' = HeldUses(f)
      BY <3>1 DEF HeldUses
    <3>3. Total(f)' = Total(f) + One(f \in T) + One(x = f)
      BY <2>1, <2>2, <2>3, <3>2, CountsAreNat DEF Total, One
    <3> QED
      BY <2>5, <3>1, <3>3, CountsAreNat DEF One, TypeOK
  <2> QED
    BY <2>4, <2>5
<1>5. mem_map[x] = 0 \/ Total(x) > 0
  <2>1. ASSUME NEW s \in Slots, Shared(s, a, x, T) PROVE ~ Unused(x)
    BY <2>1 DEF Shared, Unused
  <2>2. ASSUME InHand(p, x, T) PROVE ~ Unused(x)
    BY <2>2 DEF InHand, Unused
  <2>3. CASE Fresh(p, x, T)
    BY <2>3 DEF Fresh, FreePages
  <2> QED
    BY <2>1, <2>2, <2>3, FreeIsUnused
<1>6. CountIsUses' /\ mem_map' \in [Frames -> Nat]
  <2>1. DOMAIN mem_map' = Frames /\ mem_map' = [f \in Frames |-> mem_map'[f]]
    BY DEF Fresh, Shared, InHand
  <2>2. ASSUME NEW f \in Frames
        PROVE  /\ mem_map'[f] = mem_map[f] + Total(f)' - Total(f)
               /\ mem_map[f] # 0 /\ Total(f) = 0 => Total(f)' = 0
    <3>1. Total(f)' \in Nat /\ Total(f) \in Nat /\ mem_map[f] \in Nat
      BY CountsAreNat, CountsAreNatAfter DEF TypeOK
    <3>2. mem_map[f] # 0 /\ Total(f) = 0 => f \notin T /\ x # f
      BY <1>2, <1>5
    <3> QED
      BY <1>4, <3>1, <3>2 DEF One
  <2> QED
    BY <2>1, <2>2, CountStep
<1>7. \A f \in Frames : f # x /\ f \notin T => mem_map'[f] = mem_map[f]
  BY <1>4 DEF One, TypeOK
<1>8. \A f \in T : f \in Frames /\ mem_map'[f] = 1
  BY <1>2, <1>3, <1>4 DEF One
<1>9. Fresh(p, x, T) \/ InHand(p, x, T) => mem_map'[x] = 1
  <2>1. CASE InHand(p, x, T)
    <3>1. mem_map[x] = 1
      BY <2>1 DEF InHand, KernelPagesPrivate, Frames, LOW
    <3> QED
      BY <1>3, <1>4, <2>1, <3>1 DEF One
  <2>2. CASE Fresh(p, x, T) /\ ~ InHand(p, x, T)
    BY <1>3, <1>4, <2>2 DEF One, Fresh, FreePages
  <2> QED
    BY <2>1, <2>2
<1>10. WritableIsPrivate'
  <2> SUFFICES ASSUME NEW q \in Slots, NEW b \in Pages, Present(q, b)', pte'[q][b].rw
               PROVE  pte'[q][b].page # LOW /\ mem_map'[pte'[q][b].page] = 1
    BY DEF WritableIsPrivate
  <2>1. CASE <<q, b>> = <<p, a>>
    <3>1. Fresh(p, x, T) \/ InHand(p, x, T)
      BY <2>1
    <3> QED
      BY <1>9, <2>1, <3>1 DEF OthersNamed, Frames, LOW
  <2>2. CASE <<q, b>> # <<p, a>>
    <3>1. Present(q, b) /\ pte'[q][b].page = pte[q][b].page /\ pte[q][b].rw
      BY <2>2 DEF OthersNamed
    <3>2. PICK f \in Frames : f = pte[q][b].page /\ mem_map[f] = 1 /\ Names(q, b, f)
      BY <3>1 DEF WritableIsPrivate, TypeOK, Present, Entry, Names
    <3>3. f \notin T
      BY <1>2, <3>2
    <3>4. CASE f # x
      BY <1>7, <3>1, <3>2, <3>3, <3>4 DEF Frames, LOW
    <3>5. CASE f = x
      <4>1. OnlyUse(x)
        BY <3>2, <3>5, SingleUse
      <4>2. ASSUME NEW s \in Slots, Shared(s, a, x, T) PROVE FALSE
        <5>1. s = q /\ a = b
          BY <3>2, <3>5, <4>1, <4>2 DEF OnlyUse, Shared
        <5> QED
          BY <4>2, <5>1 DEF Shared
      <4> QED
        BY <1>9, <3>1, <3>2, <3>5, <4>2 DEF Frames, LOW
    <3> QED
      BY <3>4, <3>5
  <2> QED
    BY <2>1, <2>2
<1>11. KernelPagesPrivate'
  <2>1. ASSUME NEW f \in Frames, mem_map[f] = 1,
               \/ \E q \in Slots : task[q] = f \/ held[q] = f
               \/ \E q \in Slots, d \in Dirs : dir[q][d] = f
        PROVE  mem_map'[f] = 1
    <3>1. f \notin T /\ OnlyUse(f)
      BY <1>2, <2>1, SingleUse
    <3>2. ASSUME NEW s \in Slots, Shared(s, a, x, T) PROVE f # x
      BY <2>1, <3>1, <3>2 DEF OnlyUse, Shared
    <3>3. CASE f = x
      <4>1. Fresh(p, x, T) \/ InHand(p, x, T)
        BY <3>2, <3>3
      <4> QED
        BY <1>9, <3>3, <4>1
    <3>4. CASE f # x
      BY <1>7, <2>1, <3>1, <3>4
    <3> QED
      BY <3>3, <3>4
  <2>2. ASSUME NEW q \in Slots, task'[q] # LOW PROVE mem_map'[task'[q]] = 1
    <3>1. task[q] \in Frames /\ mem_map[task[q]] = 1
      BY <2>2 DEF KernelPagesPrivate, TypeOK
    <3> QED
      BY <2>1, <3>1
  <2>3. ASSUME NEW q \in Slots, held'[q] # LOW PROVE mem_map'[held'[q]] = 1
    <3>1. held'[q] = held[q]
      BY <2>3 DEF Fresh, Shared, InHand, TypeOK
    <3>2. held[q] \in Frames /\ mem_map[held[q]] = 1
      BY <2>3, <3>1 DEF KernelPagesPrivate, TypeOK
    <3> QED
      BY <2>1, <3>1, <3>2
  <2>4. ASSUME NEW q \in Slots, NEW d \in Dirs, dir'[q][d] # LOW PROVE mem_map'[dir'[q][d]] = 1
    <3>1. CASE dir'[q][d] \in T
      BY <1>8, <3>1
    <3>2. CASE dir'[q][d] = dir[q][d]
      <4>1. dir[q][d] \in Frames /\ mem_map[dir[q][d]] = 1
        BY <2>4, <3>2 DEF KernelPagesPrivate, TypeOK
      <4> QED
        BY <2>1, <3>2, <4>1
    <3> QED
      BY <1>1, <3>1, <3>2
  <2> QED
    BY <2>2, <2>3, <2>4 DEF KernelPagesPrivate
<1>12. held' \in [Slots -> Frames \cup {LOW}]
  BY DEF Fresh, Shared, InHand, TypeOK
<1> QED
  BY <1>6, <1>10, <1>11, <1>12

\* The pages that NewTable gets, after one page for the entry or none.
LEMMA NewTableStep ==
    ASSUME TypeOK, NEW p \in Slots, NEW a \in Pages, NEW n \in Nat \ {0},
           Cardinality(FreePages) >= n \/ ~ NoTable(p, a), dir' = WithTable(p, a, n)
    PROVE  TableStep(p, a, NewTable(p, a, n)) /\ NewTable(p, a, n) \in SUBSET FreePages
<1>1. CASE NoTable(p, a)
  <2>1. get_free_page(n) \in FreePages
    <3>1. IsFiniteSet(FreePages)
      <4>1. FreePages \in SUBSET (1 .. NR_PAGES) /\ IsFiniteSet(1 .. NR_PAGES)
        BY TasksAndPages, FS_Interval DEF FreePages, Frames
      <4> QED
        BY <4>1, FS_Subset
    <3>2. Cardinality(FreePages) \in Nat
      BY <3>1, FS_CardinalityType
    <3>3. n <= Cardinality(FreePages)
      BY <1>1, <3>2
    <3> QED
      BY <3>3, GetFreePage
  <2> QED
    BY <1>1, <2>1 DEF TableStep, NewTable, WithTable
<1>2. CASE ~ NoTable(p, a)
  BY <1>2 DEF TableStep, NewTable, WithTable
<1> QED
  BY <1>1, <1>2

\* The pages that are taken.
LEMMA TakenIs ==
    ASSUME TypeOK, NEW fs \in SUBSET FreePages
    PROVE  Taken(fs) = [f \in Frames |-> mem_map[f] + One(f \in fs)]
BY DEF Taken, TypeOK, FreePages, One

\* What the place of p demands if only an entry and a table were added.
LEMMA EntryPlace ==
    ASSUME MemInv, NEW p \in Slots, NEW a \in Pages, PlaceOK(p), TablesOf(p)' # {},
           UNCHANGED task, held'[p] # LOW <=> pc'[p] \in {"load", "sysLoad", "exec", "close"},
           pc'[p] \in {"user", "store"}, pc'[p] = "store" => at'[p] = a
    PROVE  PlaceOK(p)'
BY DEF PlaceOK

LEMMA EmptyPageKeepsInv ==
    ASSUME MemInv, NEW p \in Slots, NEW a \in Pages, get_empty_page(p, a) PROVE MemInv'
<1> DEFINE x == get_free_page(1)
           T == NewTable(p, a, 2)
           e == [page |-> x, rw |-> TRUE, dirty |-> FALSE]
<1>1. /\ ~ Present(p, a) /\ PlaceOK(p) /\ TypeOK
      /\ pc[p] = "user" \/ (pc[p] = "store" /\ at[p] = a)
  BY DEF get_empty_page, NoPage, At, MemInv, PlacesOK
<1>2. CASE Cardinality(FreePages) < 1 + OneIf(NoTable(p, a))
  <2>1. do_exit(p)
    BY <1>2 DEF get_empty_page
  <2>2. pc[p] # "none"
    BY <1>1
  <2> QED
    BY <2>1, <2>2, DoExitKeepsInv
<1>3. CASE ~ (Cardinality(FreePages) < 1 + OneIf(NoTable(p, a)))
  <2>1. /\ dir' = WithTable(p, a, 2)
        /\ mem_map' = Taken({x} \cup T)
        /\ content' = Cleared({x} \cup T)
        /\ pte' = [pte EXCEPT ![p][a] = e]
        /\ UNCHANGED <<task, executable, pc, held, at>>
    BY <1>3 DEF get_empty_page
  <2>2. FreePages # {} /\ (Cardinality(FreePages) >= 2 \/ ~ NoTable(p, a))
    <3>1. IsFiniteSet(FreePages)
      <4>1. FreePages \in SUBSET (1 .. NR_PAGES) /\ IsFiniteSet(1 .. NR_PAGES)
        BY TasksAndPages, FS_Interval DEF FreePages, Frames
      <4> QED
        BY <4>1, FS_Subset
    <3>2. Cardinality(FreePages) \in Nat /\ (FreePages = {} => Cardinality(FreePages) = 0)
      BY <3>1, FS_CardinalityType, FS_EmptySet
    <3> QED
      BY <1>3, <3>2 DEF OneIf
  <2>3. x \in FreePages /\ x \in Frames
    BY <1>1, <2>2, OneFree DEF FreePages
  <2>4. TableStep(p, a, T) /\ T \in SUBSET FreePages
    BY <1>1, <2>1, <2>2, NewTableStep
  <2>5. x \notin T
    <3>1. ASSUME NoTable(p, a) PROVE get_free_page(2) # get_free_page(1)
      <4>1. 2 <= Cardinality(FreePages) /\ 1 <= Cardinality(FreePages)
        BY <1>1, <2>2, <3>1, OneFree
      <4>2. /\ Cardinality({g \in FreePages : g >= get_free_page(2)}) = 2
            /\ Cardinality({g \in FreePages : g >= get_free_page(1)}) = 1
        BY <1>1, <4>1, GetFreePage
      <4> QED
        BY <4>2
    <3> QED
      BY <3>1 DEF NewTable
  <2>6. mem_map' = [f \in Frames |-> mem_map[f] + One(f \in T) + One(x = f)]
    <3>1. mem_map' = [f \in Frames |-> mem_map[f] + One(f \in {x} \cup T)]
      BY <1>1, <2>1, <2>3, <2>4, TakenIs
    <3>2. \A f \in Frames : mem_map[f] + One(f \in {x} \cup T) = mem_map[f] + One(f \in T) + One(x = f)
      BY <1>1, <2>5 DEF One, TypeOK
    <3> QED
      BY <3>1, <3>2
  <2>7. Fresh(p, x, T)
    BY <2>1, <2>3, <2>5, <2>6 DEF Fresh
  <2>8. e \in Entry /\ e.page = x
    BY <2>3 DEF Entry
  <2> HIDE DEF x, T, e
  <2>9. pte' \in [Slots -> [Pages -> Entry \cup {NULL}]] /\ pte'[p][a] = e
        /\ \A q \in Slots, b \in Pages : <<q, b>> # <<p, a>> => pte'[q][b] = pte[q][b]
    BY <1>1, <2>1, <2>8 DEF TypeOK
  <2>10. OthersNamed(p, a, x)
    BY <2>8, <2>9, NullIsNothing DEF OthersNamed, Present
  <2>11. /\ CountIsUses' /\ WritableIsPrivate' /\ KernelPagesPrivate'
         /\ mem_map' \in [Frames -> Nat] /\ held' \in [Slots -> Frames \cup {LOW}]
    BY <1>1, <2>1, <2>3, <2>4, <2>7, <2>10, PutPage
  <2>12. TablesOf(p)' # {} /\ \A q \in Slots \ {p} : dir'[q] = dir[q]
    BY <1>1, <2>4, TableTyped
  <2>13. TypeOK'
    <3>1. dir' \in [Slots -> [Dirs -> Frames \cup {LOW}]]
      BY <1>1, <2>4, TableTyped
    <3>2. content' \in [Frames \cup {LOW} -> Slots \cup Files \cup {ZERO, KERNEL}]
      BY <1>1, <2>1, ClearedTyped
    <3> QED
      BY <1>1, <2>1, <2>9, <2>11, <3>1, <3>2 DEF TypeOK
  <2>14. PlacesOK'
    <3> SUFFICES ASSUME NEW q \in Slots PROVE PlaceOK(q)'
      BY DEF PlacesOK
    <3>1. CASE q = p
      <4>1. PlaceOK(p)'
        BY <1>1, <2>1, <2>12, EntryPlace DEF PlaceOK
      <4> QED
        BY <3>1, <4>1
    <3>2. CASE q # p
      BY <2>1, <2>9, <2>12, <3>2, SamePlace DEF Same, MemInv, Present
    <3> QED
      BY <3>1, <3>2
  <2> QED
    BY <2>11, <2>13, <2>14 DEF MemInv
<1> QED
  BY <1>2, <1>3

\* The process that share_page shares with.
LEMMA SharerIs ==
    ASSUME TypeOK, NEW p \in Slots, NEW a \in Pages, Sharers(p, a) # {}
    PROVE  /\ Max(Sharers(p, a)) \in Sharers(p, a)
           /\ \A q \in Sharers(p, a) : q <= Max(Sharers(p, a))
<1>1. Sharers(p, a) \in SUBSET (0 .. NR_TASKS) /\ NR_TASKS \in Nat
  BY TasksAndPages DEF Sharers, Slots
<1> HIDE DEF Sharers
<1> QED
  BY <1>1, MaxIsGreatest

LEMMA OneOrMore == ASSUME TypeOK, FreePages # {} PROVE Cardinality(FreePages) >= 1
BY OneFree

LEMMA SharePageKeepsInv ==
    ASSUME MemInv, NEW p \in Slots, NEW a \in Pages, share_page(p, a) PROVE MemInv'
<1>0. PICK s \in Sharers(p, a) : s = Max(Sharers(p, a))
  BY SharerIs DEF share_page, MemInv
<1> DEFINE T == NewTable(p, a, 1)
           e == [pte[s][a] EXCEPT !.rw = FALSE]
           x == pte[s][a].page
<1>1. /\ ~ Present(p, a) /\ PlaceOK(p) /\ TypeOK
      /\ pc[p] = "user" \/ (pc[p] = "store" /\ at[p] = a)
  BY DEF share_page, NoPage, At, MemInv, PlacesOK
<1>2. CASE NoTable(p, a) /\ FreePages = {}
  <2>1. do_exit(p)
    BY <1>2 DEF share_page
  <2>2. pc[p] # "none"
    BY <1>1
  <2> QED
    BY <2>1, <2>2, DoExitKeepsInv
<1>3. CASE ~ (NoTable(p, a) /\ FreePages = {})
  <2>1. s \in Slots /\ s # p /\ Present(s, a) /\ x # LOW
    BY DEF Sharers
  <2>2. pte[s][a] \in Entry /\ e \in Entry /\ e.page = x /\ e.rw = FALSE /\ x \in Frames
    <3>1. pte[s][a] \in Entry
      BY <1>1, <2>1 DEF Present, TypeOK
    <3>2. \A r \in Entry : LET r0 == [r EXCEPT !.rw = FALSE] IN
              r0 \in Entry /\ r0.page = r.page /\ r0.rw = FALSE /\ r.page \in Frames \cup {LOW}
      BY DEF Entry
    <3> QED
      BY <2>1, <3>1, <3>2
  <2>3. /\ dir' = WithTable(p, a, 1)
        /\ pte' = [pte EXCEPT ![s][a] = e, ![p][a] = e]
        /\ mem_map' = [Taken(T) EXCEPT ![e.page] = @ + 1]
        /\ content' = Cleared(T)
        /\ UNCHANGED <<task, executable, pc, held, at>>
    BY <1>0, <1>3 DEF share_page
  <2>4. TableStep(p, a, T) /\ T \in SUBSET FreePages
    <3>1. Cardinality(FreePages) >= 1 \/ ~ NoTable(p, a)
      BY <1>1, <1>3, OneOrMore
    <3> QED
      BY <1>1, <2>3, <3>1, NewTableStep
  <2> HIDE DEF T, e, x
  <2>5. mem_map' = [f \in Frames |-> mem_map[f] + One(f \in T) + One(x = f)]
    <3>1. Taken(T) = [f \in Frames |-> mem_map[f] + One(f \in T)]
      BY <1>1, <2>4, TakenIs
    <3>2. \A f \in Frames : Taken(T)[f] \in Nat
      BY <1>1, <3>1 DEF One, TypeOK
    <3>3. \A f \in Frames : mem_map'[f] = mem_map[f] + One(f \in T) + One(x = f)
      BY <1>1, <2>2, <2>3, <3>1, <3>2 DEF One, TypeOK
    <3>4. mem_map' = [f \in Frames |-> mem_map'[f]]
      BY <2>3, <3>1
    <3> QED
      BY <3>3, <3>4
  <2>6. /\ pte' \in [Slots -> [Pages -> Entry \cup {NULL}]] /\ pte'[p][a] = e /\ pte'[s][a] = e
        /\ \A q \in Slots, b \in Pages : <<q, b>> # <<p, a>> /\ <<q, b>> # <<s, a>> => pte'[q][b] = pte[q][b]
    BY <1>1, <2>1, <2>2, <2>3 DEF TypeOK
  <2>7. Shared(s, a, x, T)
    <3>1. Names(s, a, x)
      BY <2>1 DEF Names, x
    <3>2. Present(s, a)' /\ pte'[s][a].rw = FALSE
      <4>1. e # NULL /\ e.rw = FALSE /\ pte'[s][a] = e
        BY <2>2, <2>6, NullIsNothing
      <4>2. pte'[s][a].rw = e.rw /\ pte'[s][a] # NULL
        BY <4>1
      <4>3. pte'[s][a].rw = FALSE
        BY <4>1, <4>2, Zenon
      <4>4. Present(s, a)'
        BY <4>2 DEF Present
      <4> QED
        BY <4>3, <4>4, Zenon
    <3> QED
      BY <2>3, <2>5, <3>1, <3>2 DEF Shared
  <2>8. OthersNamed(p, a, x)
    <3>1. Present(p, a)' /\ pte'[p][a].page = x
      BY <2>2, <2>6, NullIsNothing DEF Present
    <3>2. ASSUME NEW q \in Slots, NEW b \in Pages, <<q, b>> # <<p, a>>
          PROVE  /\ Present(q, b)' <=> Present(q, b)
                 /\ Present(q, b) => /\ pte'[q][b].page = pte[q][b].page
                                     /\ pte'[q][b].rw => pte[q][b].rw
      <4>1. CASE <<q, b>> = <<s, a>>
        BY <2>1, <2>2, <2>6, <4>1, NullIsNothing DEF Present, x
      <4>2. CASE <<q, b>> # <<s, a>>
        BY <2>6, <3>2, <4>2 DEF Present
      <4> QED
        BY <4>1, <4>2
    <3> QED
      BY <3>1, <3>2 DEF OthersNamed
  <2>9. /\ CountIsUses' /\ WritableIsPrivate' /\ KernelPagesPrivate'
        /\ mem_map' \in [Frames -> Nat] /\ held' \in [Slots -> Frames \cup {LOW}]
    <3>1. pte'[p][a].rw = FALSE
      BY <2>2, <2>6
    <3> QED
      BY <1>1, <2>1, <2>2, <2>3, <2>4, <2>7, <2>8, <3>1, PutPage
  <2>10. TablesOf(p)' # {} /\ \A q \in Slots \ {p} : dir'[q] = dir[q]
    BY <1>1, <2>4, TableTyped
  <2>11. TypeOK'
    <3>1. dir' \in [Slots -> [Dirs -> Frames \cup {LOW}]]
      BY <1>1, <2>4, TableTyped
    <3>2. content' \in [Frames \cup {LOW} -> Slots \cup Files \cup {ZERO, KERNEL}]
      BY <1>1, <2>3, ClearedTyped
    <3> QED
      BY <1>1, <2>3, <2>6, <2>9, <3>1, <3>2 DEF TypeOK
  <2>12. PlacesOK'
    <3> SUFFICES ASSUME NEW q \in Slots PROVE PlaceOK(q)'
      BY DEF PlacesOK
    <3>1. CASE q = p
      <4>1. PlaceOK(p)'
        BY <1>1, <2>3, <2>10, EntryPlace DEF PlaceOK
      <4> QED
        BY <3>1, <4>1
    <3>2. CASE q # p
      <4>1. \A b \in Pages : Present(q, b)' <=> Present(q, b)
        BY <2>8, <3>2 DEF OthersNamed
      <4> QED
        BY <2>3, <2>10, <3>2, <4>1, SamePlace DEF Same, MemInv
    <3> QED
      BY <3>1, <3>2
  <2> QED
    BY <2>9, <2>11, <2>12 DEF MemInv
<1> QED
  BY <1>2, <1>3

LEMMA PageLoadedKeepsInv == ASSUME MemInv, NEW p \in Slots, PageLoaded(p) PROVE MemInv'
<1>1. PICK a : a = at[p]
  OBVIOUS
<1>2. PICK x : x = held[p]
  OBVIOUS
<1> DEFINE T == NewTable(p, a, 1)
           e == [page |-> x, rw |-> TRUE, dirty |-> FALSE]
<1>3. pc[p] \in {"load", "sysLoad"} /\ PlaceOK(p) /\ TypeOK
  BY DEF PageLoaded, At, MemInv, PlacesOK
<1>4. a \in Pages /\ ~ Present(p, a) /\ x \in Frames /\ executable[p] \in Files
  BY <1>1, <1>2, <1>3 DEF PlaceOK, TypeOK, Pages
<1>5. CASE NoTable(p, a) /\ FreePages = {}
  <2>1. do_exit(p)
    BY <1>1, <1>5 DEF PageLoaded
  <2>2. pc[p] # "none"
    BY <1>3
  <2> QED
    BY <2>1, <2>2, DoExitKeepsInv
<1>6. CASE ~ (NoTable(p, a) /\ FreePages = {})
  <2>1. /\ dir' = WithTable(p, a, 1)
        /\ pte' = [pte EXCEPT ![p][a] = e]
        /\ mem_map' = Taken(T)
        /\ content' = [Cleared(T) EXCEPT ![x] = executable[p]]
        /\ held' = [held EXCEPT ![p] = LOW]
        /\ pc' = [pc EXCEPT ![p] = IF @ = "load" THEN "user" ELSE "store"]
        /\ at' = [at EXCEPT ![p] = IF pc[p] = "load" THEN NULL ELSE a]
        /\ UNCHANGED <<task, executable>>
    BY <1>1, <1>2, <1>6 DEF PageLoaded
  <2>2. TableStep(p, a, T) /\ T \in SUBSET FreePages
    <3>1. Cardinality(FreePages) >= 1 \/ ~ NoTable(p, a)
      BY <1>3, <1>6, OneOrMore
    <3> QED
      BY <1>3, <1>4, <2>1, <3>1, NewTableStep
  <2>3. e \in Entry /\ e.page = x
    BY <1>4 DEF Entry
  <2> HIDE DEF T, e
  <2>4. /\ pte' \in [Slots -> [Pages -> Entry \cup {NULL}]] /\ pte'[p][a] = e
        /\ \A q \in Slots, b \in Pages : <<q, b>> # <<p, a>> => pte'[q][b] = pte[q][b]
    BY <1>3, <1>4, <2>1, <2>3 DEF TypeOK
  <2>5. OthersNamed(p, a, x)
    BY <2>3, <2>4, NullIsNothing DEF OthersNamed, Present
  <2>6. InHand(p, x, T)
    BY <1>2, <1>3, <2>1, <2>2, TakenIs DEF InHand
  <2>7. /\ CountIsUses' /\ WritableIsPrivate' /\ KernelPagesPrivate'
        /\ mem_map' \in [Frames -> Nat] /\ held' \in [Slots -> Frames \cup {LOW}]
    BY <1>4, <2>1, <2>2, <2>5, <2>6, PutPage
  <2>8. TablesOf(p)' # {} /\ \A q \in Slots \ {p} : dir'[q] = dir[q]
    BY <1>3, <1>4, <2>2, TableTyped
  <2>9. TypeOK'
    <3>1. dir' \in [Slots -> [Dirs -> Frames \cup {LOW}]]
      BY <1>3, <1>4, <2>2, TableTyped
    <3>2. content' \in [Frames \cup {LOW} -> Slots \cup Files \cup {ZERO, KERNEL}]
      BY <1>3, <1>4, <2>1, ClearedTyped
    <3>3. at' \in [Slots -> Pages \cup Files \cup {NULL}] /\ pc' \in [Slots -> Places]
      BY <1>3, <1>4, <2>1 DEF TypeOK, Places
    <3> QED
      BY <1>3, <2>1, <2>4, <2>7, <3>1, <3>2, <3>3 DEF TypeOK
  <2>10. PlacesOK'
    <3> SUFFICES ASSUME NEW q \in Slots PROVE PlaceOK(q)'
      BY DEF PlacesOK
    <3>1. CASE q = p
      <4>1. /\ pc'[p] \in {"user", "store"} /\ (pc'[p] = "store" => at'[p] = a)
            /\ held'[p] = LOW
        BY <1>3, <2>1 DEF TypeOK
      <4>2. PlaceOK(p)'
        BY <1>3, <1>4, <2>1, <2>8, <4>1, EntryPlace
      <4> QED
        BY <3>1, <4>2
    <3>2. CASE q # p
      BY <1>3, <2>1, <2>4, <2>8, <3>2, SamePlace DEF Same, MemInv, Present, TypeOK
    <3> QED
      BY <3>1, <3>2
  <2> QED
    BY <2>7, <2>9, <2>10 DEF MemInv
<1> QED
  BY <1>5, <1>6

-----------------------------------------------------------------------------
(* un_wp_page: the entry is made writable, or the page is copied.          *)

LEMMA UnprotectKeeps ==
    ASSUME MemInv, NEW p \in Slots, NEW a \in Pages, Present(p, a), ~ pte[p][a].rw,
           ~ CannotCopy(p, a), un_wp_page(p, a), UNCHANGED <<task, dir, held>>
    PROVE  /\ CountIsUses' /\ WritableIsPrivate' /\ KernelPagesPrivate'
           /\ mem_map' \in [Frames -> Nat]
           /\ content' \in [Frames \cup {LOW} -> Slots \cup Files \cup {ZERO, KERNEL}]
           /\ pte' \in [Slots -> [Pages -> Entry \cup {NULL}]]
           /\ \A q \in Slots, b \in Pages : Present(q, b)' <=> Present(q, b)
<1> USE DEF MemInv
<1>1. PICK r \in Entry : r = pte[p][a]
  BY DEF TypeOK, Present
<1>2. PICK old \in Frames \cup {LOW} : old = r.page
  BY <1>1 DEF Entry
<1>3. CASE old # LOW /\ mem_map[old] = 1
  <2>1. pte' = [pte EXCEPT ![p][a].rw = TRUE] /\ UNCHANGED <<mem_map, content>>
    BY <1>1, <1>2, <1>3 DEF un_wp_page
  <2>2. LET r1 == [r EXCEPT !.rw = TRUE] IN r1 \in Entry /\ r1.page = old
    BY <1>2 DEF Entry
  <2>3. /\ pte' \in [Slots -> [Pages -> Entry \cup {NULL}]]
        /\ pte'[p][a] \in Entry /\ pte'[p][a].page = old
        /\ \A q \in Slots, b \in Pages : <<q, b>> # <<p, a>> => pte'[q][b] = pte[q][b]
    <3>1. pte' = [pte EXCEPT ![p][a] = [r EXCEPT !.rw = TRUE]]
      BY <1>1, <2>1 DEF TypeOK
    <3> QED
      BY <2>2, <3>1 DEF TypeOK
  <2>4. \A q \in Slots, b \in Pages :
          /\ Present(q, b)' <=> Present(q, b)
          /\ Present(q, b) => /\ pte'[q][b].page = pte[q][b].page
                              /\ pte'[q][b].rw => pte[q][b].rw \/ (pte[q][b].page # LOW /\ mem_map[pte[q][b].page] = 1)
    <3> SUFFICES ASSUME NEW q \in Slots, NEW b \in Pages
                 PROVE  /\ Present(q, b)' <=> Present(q, b)
                        /\ Present(q, b) => /\ pte'[q][b].page = pte[q][b].page
                                            /\ pte'[q][b].rw => pte[q][b].rw \/ (pte[q][b].page # LOW /\ mem_map[pte[q][b].page] = 1)
      OBVIOUS
    <3>1. CASE <<q, b>> = <<p, a>>
      BY <1>1, <1>2, <1>3, <2>3, <3>1, NullIsNothing DEF Present
    <3>2. CASE <<q, b>> # <<p, a>>
      BY <2>3, <3>2 DEF Present
    <3> QED
      BY <3>1, <3>2
  <2>5. CountIsUses' /\ WritableIsPrivate' /\ KernelPagesPrivate'
    BY <2>1, <2>4, SamePages
  <2> QED
    BY <2>1, <2>3, <2>4, <2>5 DEF TypeOK
<1>4. CASE ~ (old # LOW /\ mem_map[old] = 1)
  <2>1. PICK new : new = get_free_page(1)
    OBVIOUS
  <2>2. new \in FreePages /\ new \in Frames /\ mem_map[new] = 0 /\ Unused(new)
    <3>1. FreePages # {}
      BY <1>1, <1>2, <1>4 DEF CannotCopy
    <3>2. new \in FreePages
      BY <2>1, <3>1, OneFree
    <3> QED
      BY <3>2, FreeIsUnused DEF FreePages
  <2> DEFINE e == [page |-> new, rw |-> TRUE, dirty |-> FALSE]
  <2>3. /\ mem_map' = [f \in Frames |-> IF f = new THEN 1 ELSE mem_map[f] - OneIf(f = old)]
        /\ content' = [content EXCEPT ![new] = content[old]]
        /\ pte' = [pte EXCEPT ![p][a] = e]
    BY <1>1, <1>2, <1>4, <2>1 DEF un_wp_page
  <2>4. new # old
    BY <1>1, <1>2, <2>2 DEF Unused, Names
  <2>5. e \in Entry /\ e.page = new
    BY <2>2 DEF Entry
  <2> HIDE DEF e
  <2>6. /\ pte' \in [Slots -> [Pages -> Entry \cup {NULL}]] /\ pte'[p][a] = e
        /\ \A q \in Slots, b \in Pages : <<q, b>> # <<p, a>> => pte'[q][b] = pte[q][b]
    BY <2>3, <2>5 DEF TypeOK
  <2>7. \A q \in Slots, b \in Pages : Present(q, b)' <=> Present(q, b)
    BY <2>5, <2>6, NullIsNothing DEF Present
  <2>8. ASSUME NEW f \in Frames PROVE Total(f)' = Total(f) + One(new = f) - One(old = f)
    <3>1. \A q \in Slots, b \in Pages : <<q, b>> # <<p, a>> => (Names(q, b, f)' <=> Names(q, b, f))
      BY <2>6 DEF Names, Present
    <3>2. (Names(p, a, f)' <=> new = f) /\ (Names(p, a, f) <=> old = f)
      <4>1. Names(p, a, f)' <=> new = f
        BY <2>5, <2>6, NullIsNothing DEF Names, Present
      <4>2. Names(p, a, f) <=> old = f
        BY <1>1, <1>2 DEF Names
      <4> QED
        BY <4>1, <4>2
    <3>3. Cardinality(PteUses(f)') = Cardinality(PteUses(f)) + One(Names(p, a, f)') - One(Names(p, a, f))
      BY <3>1, EntryChange
    <3>4. Cardinality(PteUses(f)') = Cardinality(PteUses(f)) + One(new = f) - One(old = f)
      BY <3>2, <3>3 DEF One
    <3>5. TaskUses(f)' = TaskUses(f) /\ HeldUses(f)' = HeldUses(f) /\ DirUses(f)' = DirUses(f)
      BY DEF TaskUses, HeldUses, DirUses
    <3> QED
      BY <3>4, <3>5, CountsAreNat DEF Total, One
  <2>9. old # LOW => mem_map[old] = Total(old) /\ Total(old) > 0
    <3>1. ~ Unused(old)
      BY <1>1, <1>2 DEF Unused, Names
    <3> QED
      BY <3>1, FreeIsUnused
  <2>10. CountIsUses' /\ mem_map' \in [Frames -> Nat]
    <3>1. DOMAIN mem_map' = Frames /\ mem_map' = [f \in Frames |-> mem_map'[f]]
      BY <2>3
    <3>2. ASSUME NEW f \in Frames
          PROVE  /\ mem_map'[f] = mem_map[f] + Total(f)' - Total(f)
                 /\ mem_map[f] # 0 /\ Total(f) = 0 => Total(f)' = 0
      <4>1. Total(f)' \in Nat /\ Total(f) \in Nat /\ mem_map[f] \in Nat
        BY CountsAreNat, CountsAreNatAfter DEF TypeOK
      <4>2. mem_map'[f] = mem_map[f] + One(new = f) - One(old = f)
        BY <2>2, <2>3, <2>4, <4>1 DEF One, OneIf
      <4> QED
        BY <2>2, <2>8, <4>1, <4>2 DEF One
    <3> QED
      BY <3>1, <3>2, CountStep
  <2>11. mem_map'[new] = 1 /\ \A f \in Frames : mem_map[f] = 1 => mem_map'[f] = 1
    BY <1>4, <2>2, <2>3 DEF OneIf, Frames, LOW, TypeOK
  <2>12. WritableIsPrivate'
    <3> SUFFICES ASSUME NEW q \in Slots, NEW b \in Pages, Present(q, b)', pte'[q][b].rw
                 PROVE  pte'[q][b].page # LOW /\ mem_map'[pte'[q][b].page] = 1
      BY DEF WritableIsPrivate
    <3>1. CASE <<q, b>> = <<p, a>>
      BY <2>2, <2>5, <2>6, <2>11, <3>1 DEF Frames, LOW
    <3>2. CASE <<q, b>> # <<p, a>>
      <4>1. pte'[q][b] = pte[q][b] /\ Present(q, b)
        BY <2>6, <2>7, <3>2
      <4>2. pte[q][b].page \in Frames /\ mem_map[pte[q][b].page] = 1
        BY <4>1 DEF WritableIsPrivate, TypeOK, Present, Entry
      <4> QED
        BY <2>11, <4>1, <4>2 DEF Frames, LOW
    <3> QED
      BY <3>1, <3>2
  <2>13. KernelPagesPrivate'
    BY <2>11 DEF KernelPagesPrivate, TypeOK
  <2>14. content' \in [Frames \cup {LOW} -> Slots \cup Files \cup {ZERO, KERNEL}]
    BY <2>3 DEF TypeOK
  <2> QED
    BY <2>6, <2>7, <2>10, <2>12, <2>13, <2>14
<1> QED
  BY <1>3, <1>4

LEMMA WriteFaultKeepsInv ==
    ASSUME MemInv, NEW p \in Slots, NEW a \in Pages, do_wp_page(p, a) PROVE MemInv'
<1>1. /\ Present(p, a) /\ ~ pte[p][a].rw /\ PlaceOK(p) /\ TypeOK
      /\ pc[p] \in {"user", "retry"}
  BY DEF do_wp_page, Writing, At, MemInv, PlacesOK
<1>2. CASE CannotCopy(p, a)
  BY <1>1, <1>2, DoExitKeepsInv DEF do_wp_page
<1>3. CASE ~ CannotCopy(p, a)
  <2>1. un_wp_page(p, a) /\ pc' = [pc EXCEPT ![p] = "retry"] /\ at' = [at EXCEPT ![p] = a]
        /\ UNCHANGED <<task, dir, executable, held>>
    BY <1>3 DEF do_wp_page
  <2>2. /\ CountIsUses' /\ WritableIsPrivate' /\ KernelPagesPrivate'
        /\ mem_map' \in [Frames -> Nat]
        /\ content' \in [Frames \cup {LOW} -> Slots \cup Files \cup {ZERO, KERNEL}]
        /\ pte' \in [Slots -> [Pages -> Entry \cup {NULL}]]
        /\ \A q \in Slots, b \in Pages : Present(q, b)' <=> Present(q, b)
    BY <1>1, <1>3, <2>1, UnprotectKeeps
  <2>3. TypeOK'
    BY <1>1, <2>1, <2>2 DEF TypeOK, Places
  <2>4. PlacesOK'
    <3> SUFFICES ASSUME NEW q \in Slots PROVE PlaceOK(q)'
      BY DEF PlacesOK
    <3>1. CASE q = p
      <4>1. TablesOf(p)' = TablesOf(p) /\ pc'[p] = "retry" /\ at'[p] = a
        BY <1>1, <2>1 DEF TablesOf, TypeOK
      <4> QED
        BY <1>1, <2>1, <3>1, <4>1 DEF PlaceOK
    <3>2. CASE q # p
      BY <1>1, <2>1, <2>2, <3>2, SamePlace DEF Same, MemInv, TypeOK
    <3> QED
      BY <3>1, <3>2
  <2> QED
    BY <2>2, <2>3, <2>4 DEF MemInv
<1> QED
  BY <1>2, <1>3

LEMMA VerifyAreaKeepsInv ==
    ASSUME MemInv, NEW p \in Slots, NEW a \in Pages, verify_area(p, a) PROVE MemInv'
<1> DEFINE protected == Present(p, a) /\ ~ pte[p][a].rw
<1>1. PlaceOK(p) /\ TypeOK /\ pc[p] = "user"
  BY DEF verify_area, At, MemInv, PlacesOK
<1>2. CASE protected /\ CannotCopy(p, a)
  BY <1>1, <1>2, DoExitKeepsInv DEF verify_area
<1>3. CASE ~ (protected /\ CannotCopy(p, a))
  <2>1. /\ IF protected THEN un_wp_page(p, a) ELSE UNCHANGED <<mem_map, content, pte>>
        /\ pc' = [pc EXCEPT ![p] = "store"] /\ at' = [at EXCEPT ![p] = a]
        /\ UNCHANGED <<task, dir, executable, held>>
    BY <1>3 DEF verify_area
  <2>2. /\ CountIsUses' /\ WritableIsPrivate' /\ KernelPagesPrivate'
        /\ mem_map' \in [Frames -> Nat]
        /\ content' \in [Frames \cup {LOW} -> Slots \cup Files \cup {ZERO, KERNEL}]
        /\ pte' \in [Slots -> [Pages -> Entry \cup {NULL}]]
        /\ \A q \in Slots, b \in Pages : Present(q, b)' <=> Present(q, b)
    <3>1. CASE protected
      <4>1. un_wp_page(p, a)
        BY <2>1, <3>1
      <4> QED
        BY <1>3, <2>1, <3>1, <4>1, UnprotectKeeps
    <3>2. CASE ~ protected
      <4>1. UNCHANGED <<mem_map, content, pte>>
        BY <2>1, <3>2
      <4>2. CountIsUses' /\ WritableIsPrivate' /\ KernelPagesPrivate'
        BY <2>1, <4>1, SamePages DEF Present
      <4> QED
        BY <1>1, <4>1, <4>2 DEF TypeOK, Present
    <3> QED
      BY <3>1, <3>2
  <2>3. TypeOK'
    BY <1>1, <2>1, <2>2 DEF TypeOK, Places
  <2>4. PlacesOK'
    <3> SUFFICES ASSUME NEW q \in Slots PROVE PlaceOK(q)'
      BY DEF PlacesOK
    <3>1. CASE q = p
      <4>1. TablesOf(p)' = TablesOf(p) /\ pc'[p] = "store" /\ at'[p] = a
        BY <1>1, <2>1 DEF TablesOf, TypeOK
      <4> QED
        BY <1>1, <2>1, <3>1, <4>1 DEF PlaceOK
    <3>2. CASE q # p
      BY <1>1, <2>1, <2>2, <3>2, SamePlace DEF Same, MemInv, TypeOK
    <3> QED
      BY <3>1, <3>2
  <2> QED
    BY <2>2, <2>3, <2>4 DEF MemInv
<1> QED
  BY <1>2, <1>3

-----------------------------------------------------------------------------
(* The end of exec, and fork.                                              *)

\* The page table of the stack takes a page that is free now: at least the one
\* of a page table that p gives up.
LEMMA ExecDoneStep ==
    ASSUME MemInv, NEW p \in Slots, ExecDone(p)
    PROVE  \E new \in Frames :
              /\ mem_map[new] - Uses(p, new) = 0
              /\ mem_map' = [f \in Frames |-> IF f = new THEN 1 ELSE mem_map[f] - Uses(p, f)]
              /\ dir' = [dir EXCEPT ![p] = [d \in Dirs |-> IF d = 2 THEN new ELSE LOW]]
              /\ pte' = [pte EXCEPT ![p] = [a \in Pages |-> IF a = Stack
                           THEN [page |-> held[p], rw |-> TRUE, dirty |-> TRUE] ELSE NULL]]
              /\ content' = Cleared({new})
<1> USE DEF MemInv
<1> DEFINE left == [f \in Frames |-> mem_map[f] - Uses(p, f)]
           empty == {f \in Frames : left[f] = 0}
<1>1. empty # {}
  <2>1. PICK d \in Dirs : dir[p][d] # LOW
    BY DEF PlacesOK, PlaceOK, TablesOf, ExecDone, At
  <2>2. PICK t \in Frames : t = dir[p][d] /\ mem_map[t] = 1
    BY <2>1 DEF KernelPagesPrivate, TypeOK
  <2>3. OnlyUse(t)
    BY <2>2, SingleUse
  <2>4. PtesOf(p, t) = {} /\ DirsOf(p, t) = {d}
    BY <2>2, <2>3 DEF PtesOf, DirsOf, OnlyUse, Names
  <2>5. Uses(p, t) = 1
    BY <2>4, UsesAre, FS_EmptySet, FS_Singleton
  <2>6. left[t] = mem_map[t] - Uses(p, t)
    BY <2>2
  <2>7. left[t] = 0
    BY <2>2, <2>5, <2>6
  <2> HIDE DEF left
  <2> QED
    BY <2>2, <2>7
<1>2. PICK new \in Frames : new = Max(empty) /\ left[new] = 0
  <2>1. empty \in SUBSET (0 .. NR_PAGES) /\ NR_PAGES \in Nat
    BY TasksAndPages DEF Frames
  <2>2. Max(empty) \in empty
    <3> HIDE DEF empty
    <3> QED
      BY <1>1, <2>1, MaxIsGreatest
  <2> QED
    BY <2>2
<1>3. /\ mem_map' = [f \in Frames |-> IF f = new THEN 1 ELSE left[f]]
      /\ dir' = [dir EXCEPT ![p] = [d \in Dirs |-> IF d = 2 THEN new ELSE LOW]]
      /\ pte' = [pte EXCEPT ![p] = [a \in Pages |-> IF a = Stack
                   THEN [page |-> held[p], rw |-> TRUE, dirty |-> TRUE] ELSE NULL]]
      /\ content' = Cleared({new})
  BY <1>1, <1>2 DEF ExecDone
<1>4. \A f \in Frames : left[f] = mem_map[f] - Uses(p, f)
  OBVIOUS
<1> HIDE DEF left, empty
<1>5. mem_map' = [f \in Frames |-> IF f = new THEN 1 ELSE mem_map[f] - Uses(p, f)]
  BY <1>3, <1>4
<1> QED
  BY <1>2, <1>3, <1>4, <1>5

LEMMA ExecDoneKeepsInv == ASSUME MemInv, NEW p \in Slots, ExecDone(p) PROVE MemInv'
<1> USE DEF MemInv
<1> DEFINE left == [f \in Frames |-> mem_map[f] - Uses(p, f)]
<1>1. PICK h : h = held[p]
  OBVIOUS
<1>2. pc[p] = "close" /\ PlaceOK(p) /\ h \in Frames /\ mem_map[h] = 1 /\ OnlyUse(h)
  <2>1. pc[p] = "close" /\ PlaceOK(p)
    BY DEF ExecDone, At, PlacesOK
  <2>2. h # LOW /\ h \in Frames /\ mem_map[h] = 1
    BY <1>1, <2>1 DEF PlaceOK, KernelPagesPrivate, TypeOK
  <2> QED
    BY <2>1, <2>2, SingleUse
<1> DEFINE e == [page |-> h, rw |-> TRUE, dirty |-> TRUE]
<1>4. PICK new \in Frames :
         /\ mem_map[new] - Uses(p, new) = 0
         /\ mem_map' = [f \in Frames |-> IF f = new THEN 1 ELSE mem_map[f] - Uses(p, f)]
         /\ dir' = [dir EXCEPT ![p] = [d \in Dirs |-> IF d = 2 THEN new ELSE LOW]]
         /\ pte' = [pte EXCEPT ![p] = [a \in Pages |-> IF a = Stack
                      THEN [page |-> held[p], rw |-> TRUE, dirty |-> TRUE] ELSE NULL]]
         /\ content' = Cleared({new})
  BY ExecDoneStep
<1>5. /\ mem_map' = [f \in Frames |-> IF f = new THEN 1 ELSE left[f]] /\ left[new] = 0
      /\ dir' = [dir EXCEPT ![p] = [d \in Dirs |-> IF d = 2 THEN new ELSE LOW]]
      /\ pte' = [pte EXCEPT ![p] = [a \in Pages |-> IF a = Stack THEN e ELSE NULL]]
      /\ held' = [held EXCEPT ![p] = LOW] /\ pc' = [pc EXCEPT ![p] = "user"]
      /\ content' = Cleared({new}) /\ UNCHANGED <<task, executable, at>>
  <2>1. /\ held' = [held EXCEPT ![p] = LOW] /\ pc' = [pc EXCEPT ![p] = "user"]
        /\ UNCHANGED <<task, executable, at>>
    BY DEF ExecDone
  <2>2. mem_map' = [f \in Frames |-> IF f = new THEN 1 ELSE left[f]] /\ left[new] = 0
    BY <1>4
  <2> QED
    BY <1>1, <1>4, <2>1, <2>2
<1>6. e \in Entry /\ e.page = h /\ e # NULL /\ h # LOW /\ new # LOW
  <2>1. e \in Entry
    BY <1>2 DEF Entry
  <2>2. h # LOW /\ new # LOW
    BY <1>2, <1>4 DEF Frames, LOW
  <2> HIDE DEF Entry
  <2>3. e # NULL
    BY <2>1, NullIsNothing, Zenon
  <2> QED
    BY <2>1, <2>2, <2>3
<1>7. Stack \in Pages /\ 2 \in Dirs
  BY DEF Pages, Dirs
<1>8. \A f \in Frames : left[f] = mem_map[f] - Uses(p, f)
  OBVIOUS
<1> HIDE DEF e, left
<1>9. /\ pte' \in [Slots -> [Pages -> Entry \cup {NULL}]] /\ pte'[p][Stack] = e
      /\ \A a \in Pages \ {Stack} : pte'[p][a] = NULL
      /\ \A q \in Slots \ {p} : pte'[q] = pte[q]
  BY <1>5, <1>6, <1>7 DEF TypeOK
<1>10. /\ dir' \in [Slots -> [Dirs -> Frames \cup {LOW}]] /\ dir'[p][2] = new
       /\ \A d \in Dirs \ {2} : dir'[p][d] = LOW
       /\ \A q \in Slots \ {p} : dir'[q] = dir[q]
  BY <1>5, <1>7 DEF TypeOK
<1>11. /\ held' \in [Slots -> Frames \cup {LOW}] /\ held'[p] = LOW
       /\ \A q \in Slots \ {p} : held'[q] = held[q]
  BY <1>5 DEF TypeOK
<1>12. ASSUME NEW f \in Frames PROVE Total(f)' = Total(f) - Uses(p, f) + One(new = f)
  <2>1. f # LOW
    BY DEF Frames, LOW
  <2>2. TaskUses(f)' = TaskUses(f)
    BY <1>5 DEF TaskUses
  <2>3. Cardinality(HeldUses(f)') = Cardinality(HeldUses(f)) - One(h = f)
    <3>1. Cardinality(HeldUses(f)') = Cardinality(HeldUses(f)) + One(held'[p] = f) - One(held[p] = f)
      BY <1>11, HeldChange
    <3> QED
      BY <1>1, <1>11, <2>1, <3>1, CountsAreNat DEF One
  <2>4. Cardinality(PteUses(f)') = Cardinality(PteUses(f)) - Cardinality(PtesOf(p, f)) + One(h = f)
    <3>1. \A q \in Slots \ {p}, a \in Pages : Names(q, a, f)' <=> Names(q, a, f)
      BY <1>9 DEF Names, Present
    <3>2. PtesOf(p, f)' = IF h = f THEN {Stack} ELSE {}
      BY <1>6, <1>7, <1>9 DEF PtesOf, Present
    <3>3. Cardinality(PtesOf(p, f)') = One(h = f)
      BY <3>2, FS_EmptySet, FS_Singleton DEF One
    <3> QED
      BY <3>1, <3>3, PtesChange, CountsAreNat
  <2>5. Cardinality(DirUses(f)') = Cardinality(DirUses(f)) - Cardinality(DirsOf(p, f)) + One(new = f)
    <3>1. DirsOf(p, f)' = IF new = f THEN {2} ELSE {}
      BY <1>7, <1>10, <2>1 DEF DirsOf
    <3>2. Cardinality(DirsOf(p, f)') = One(new = f)
      BY <3>1, FS_EmptySet, FS_Singleton DEF One
    <3> QED
      BY <1>10, <3>2, DirsChange, CountsAreNat
  <2> QED
    BY <2>2, <2>3, <2>4, <2>5, CountsAreNat, UsesAre, UsesAreNat DEF Total, One
<1>13. ASSUME NEW f \in Frames, Total(f) = 0 PROVE Uses(p, f) = 0
  <2>1. Unused(f)
    BY <1>13, UnusedIsZero
  <2> QED
    BY <2>1, NoUses DEF Unused
<1>14. \A f \in Frames : mem_map[f] \in Nat /\ Uses(p, f) \in Nat
  BY UsesAreNat DEF TypeOK
<1>15. CountIsUses' /\ mem_map' \in [Frames -> Nat]
  <2>1. DOMAIN mem_map' = Frames /\ mem_map' = [f \in Frames |-> mem_map'[f]]
    BY <1>5
  <2>2. ASSUME NEW f \in Frames
        PROVE  /\ mem_map'[f] = mem_map[f] + Total(f)' - Total(f)
               /\ mem_map[f] # 0 /\ Total(f) = 0 => Total(f)' = 0
    <3>1. Total(f)' \in Nat /\ Total(f) \in Nat
      BY CountsAreNat, CountsAreNatAfter
    <3>2. mem_map'[f] = left[f] + One(new = f)
      BY <1>4, <1>5, <1>8, <1>14 DEF One
    <3>3. mem_map[f] # 0 /\ Total(f) = 0 => new # f
      BY <1>4, <1>8, <1>13, <1>14
    <3> QED
      BY <1>8, <1>12, <1>13, <1>14, <3>1, <3>2, <3>3 DEF One
  <2> QED
    BY <2>1, <2>2, CountStep
<1>16. ASSUME NEW f \in Frames, mem_map[f] = 1, Uses(p, f) = 0 PROVE mem_map'[f] = 1
  <2>1. left[f] = 1
    BY <1>8, <1>16
  <2> QED
    BY <1>4, <1>5, <2>1
<1>17. mem_map'[new] = 1
  BY <1>5
<1>18. WritableIsPrivate'
  <2> SUFFICES ASSUME NEW q \in Slots, NEW a \in Pages, Present(q, a)', pte'[q][a].rw
               PROVE  pte'[q][a].page # LOW /\ mem_map'[pte'[q][a].page] = 1
    BY DEF WritableIsPrivate
  <2>1. CASE q = p
    <3>1. pte'[q][a].page = h
      BY <1>6, <1>9, <2>1 DEF Present
    <3>2. Uses(p, h) = 0
      BY <1>1, <1>2, NoUses DEF OnlyUse
    <3> QED
      BY <1>2, <1>6, <1>16, <3>1, <3>2
  <2>2. CASE q # p
    <3>1. pte'[q][a] = pte[q][a] /\ Present(q, a)
      BY <1>9, <2>2 DEF Present
    <3>2. PICK f \in Frames : f = pte[q][a].page /\ mem_map[f] = 1 /\ Names(q, a, f)
      BY <3>1 DEF WritableIsPrivate, TypeOK, Present, Entry, Names
    <3>3. Uses(p, f) = 0
      BY <2>2, <3>2, SingleUse, NoUses DEF OnlyUse
    <3> QED
      BY <1>16, <3>1, <3>2, <3>3 DEF Frames, LOW
  <2> QED
    BY <2>1, <2>2
<1>19. KernelPagesPrivate'
  <2>1. ASSUME NEW q \in Slots, task'[q] # LOW PROVE mem_map'[task'[q]] = 1
    <3>1. PICK f \in Frames : f = task[q] /\ task' = task /\ mem_map[f] = 1
      BY <1>5, <2>1 DEF KernelPagesPrivate, TypeOK
    <3>2. Uses(p, f) = 0
      BY <3>1, SingleUse, NoUses DEF OnlyUse
    <3> QED
      BY <1>16, <3>1, <3>2
  <2>2. ASSUME NEW q \in Slots, held'[q] # LOW PROVE mem_map'[held'[q]] = 1
    <3>1. q # p /\ held'[q] = held[q]
      BY <1>11, <2>2
    <3>2. PICK f \in Frames : f = held[q] /\ mem_map[f] = 1
      BY <2>2, <3>1 DEF KernelPagesPrivate, TypeOK
    <3>3. Uses(p, f) = 0
      BY <3>2, SingleUse, NoUses DEF OnlyUse
    <3> QED
      BY <1>16, <3>1, <3>2, <3>3
  <2>3. ASSUME NEW q \in Slots, NEW d \in Dirs, dir'[q][d] # LOW PROVE mem_map'[dir'[q][d]] = 1
    <3>1. CASE q = p
      BY <1>10, <1>17, <2>3, <3>1
    <3>2. CASE q # p
      <4>1. PICK f \in Frames : f = dir[q][d] /\ mem_map[f] = 1 /\ dir'[q][d] = f
        BY <1>10, <2>3, <3>2 DEF KernelPagesPrivate, TypeOK
      <4>2. Uses(p, f) = 0
        BY <3>2, <4>1, SingleUse, NoUses DEF OnlyUse
      <4> QED
        BY <1>16, <4>1, <4>2
    <3> QED
      BY <3>1, <3>2
  <2> QED
    BY <2>1, <2>2, <2>3 DEF KernelPagesPrivate
<1>20. TypeOK'
  <2>1. content' \in [Frames \cup {LOW} -> Slots \cup Files \cup {ZERO, KERNEL}]
    BY <1>5, ClearedTyped
  <2> QED
    BY <1>5, <1>9, <1>10, <1>11, <1>15, <2>1 DEF TypeOK, Places
<1>21. PlacesOK'
  <2> SUFFICES ASSUME NEW q \in Slots PROVE PlaceOK(q)'
    BY DEF PlacesOK
  <2>1. CASE q = p
    <3>1. 2 \in TablesOf(p)' /\ pc'[p] = "user" /\ held'[p] = LOW /\ task' = task
      BY <1>5, <1>6, <1>7, <1>10, <1>11 DEF TablesOf, TypeOK
    <3> QED
      BY <1>2, <2>1, <3>1 DEF PlaceOK
  <2>2. CASE q # p
    <3>1. pc'[q] = pc[q] /\ task' = task /\ executable' = executable /\ at' = at
      BY <1>5, <2>2 DEF TypeOK
    <3>2. Same(q)
      BY <1>9, <1>10, <1>11, <2>2, <3>1 DEF Same, Present
    <3> QED
      BY <3>2, SamePlace
  <2> QED
    BY <2>1, <2>2
<1> QED
  BY <1>15, <1>18, <1>19, <1>20, <1>21

\* Fork takes different pages for the task structure and for each page table.
LEMMA ForkPages ==
    ASSUME TypeOK, NEW p \in Slots, Cardinality(FreePages) > Cardinality(TablesOf(p))
    PROVE  LET first == get_free_page(1)
               TableFor(d) == get_free_page(1 + Cardinality({c \in TablesOf(p) : c <= d}))
           IN  /\ first \in FreePages
               /\ \A d \in TablesOf(p) : TableFor(d) \in FreePages /\ TableFor(d) # first
               /\ \A c, d \in TablesOf(p) : TableFor(c) = TableFor(d) => c = d
<1> DEFINE T == TablesOf(p)
           Upto(d) == {c \in T : c <= d}
           k(d) == Cardinality(Upto(d))
           Above(f) == Cardinality({g \in FreePages : g >= f})
<1>1. T \in SUBSET Dirs /\ IsFiniteSet(T) /\ Cardinality(T) \in Nat
  <2>1. T \in SUBSET Dirs
    BY DEF TablesOf
  <2> HIDE DEF T
  <2> QED
    BY <2>1, Finite, FS_Subset, FS_CardinalityType
<1>2. Cardinality(FreePages) \in Nat
  <2>1. FreePages \in SUBSET (1 .. NR_PAGES) /\ IsFiniteSet(1 .. NR_PAGES)
    BY TasksAndPages, FS_Interval DEF FreePages, Frames
  <2> QED
    BY <2>1, FS_Subset, FS_CardinalityType
<1>3. ASSUME NEW d \in T PROVE k(d) \in Nat \ {0} /\ k(d) <= Cardinality(T)
  <2>1. Upto(d) \in SUBSET T /\ d \in Upto(d)
    BY <1>1 DEF Dirs
  <2> HIDE DEF Upto, T
  <2>2. IsFiniteSet(Upto(d)) /\ k(d) \in Nat /\ k(d) <= Cardinality(T)
    BY <1>1, <2>1, FS_Subset, FS_CardinalityType
  <2>3. k(d) # 0
    BY <2>1, <2>2, FS_EmptySet
  <2> QED
    BY <2>2, <2>3
<1>4. ASSUME NEW c \in T, NEW d \in T, c < d PROVE k(c) < k(d)
  <2>1. Upto(c) \in SUBSET Upto(d) /\ d \in Upto(d) /\ d \notin Upto(c) /\ Upto(d) \in SUBSET T
    BY <1>1, <1>4 DEF Dirs
  <2> HIDE DEF Upto, T
  <2>2. IsFiniteSet(Upto(d))
    BY <1>1, <2>1, FS_Subset
  <2> QED
    BY <2>1, <2>2, FS_Subset, FS_CardinalityType
<1>5. ASSUME NEW n \in Nat \ {0}, n <= Cardinality(T) + 1
      PROVE  get_free_page(n) \in FreePages /\ Above(get_free_page(n)) = n
  <2>1. n <= Cardinality(FreePages)
    BY <1>1, <1>2, <1>5
  <2> QED
    BY <2>1, GetFreePage
<1> DEFINE first == get_free_page(1)
           TableFor(d) == get_free_page(1 + k(d))
<1>6. first \in FreePages /\ Above(first) = 1
  <2>1. 1 \in Nat \ {0} /\ 1 <= Cardinality(T) + 1
    BY <1>1
  <2> HIDE DEF T, Above
  <2> QED
    BY <1>5, <2>1
<1>7. ASSUME NEW d \in T PROVE TableFor(d) \in FreePages /\ Above(TableFor(d)) = 1 + k(d)
  <2>1. k(d) \in Nat \ {0} /\ k(d) <= Cardinality(T)
    BY <1>3
  <2> HIDE DEF k, T, Above
  <2>2. 1 + k(d) \in Nat \ {0} /\ 1 + k(d) <= Cardinality(T) + 1
    BY <1>1, <2>1
  <2> QED
    BY <1>5, <2>2
<1>8. ASSUME NEW d \in T PROVE TableFor(d) # first
  <2>1. Above(TableFor(d)) = 1 + k(d) /\ k(d) \in Nat \ {0}
    BY <1>3, <1>7
  <2> HIDE DEF k, Above, TableFor, first
  <2> QED
    BY <1>6, <2>1
<1>9. ASSUME NEW c \in T, NEW d \in T, TableFor(c) = TableFor(d) PROVE c = d
  <2>1. Above(TableFor(c)) = 1 + k(c) /\ Above(TableFor(d)) = 1 + k(d) /\ k(c) \in Nat /\ k(d) \in Nat
    BY <1>3, <1>7
  <2>2. c \in Int /\ d \in Int
    BY <1>1 DEF Dirs
  <2>3. (c < d => k(c) < k(d)) /\ (d < c => k(d) < k(c))
    BY <1>4
  <2> HIDE DEF k, Above, TableFor, T
  <2>4. k(c) = k(d)
    BY <1>9, <2>1
  <2> QED
    BY <2>1, <2>2, <2>3, <2>4
<1> HIDE DEF first, TableFor, T
<1>10. /\ first \in FreePages
       /\ \A d \in T : TableFor(d) \in FreePages /\ TableFor(d) # first
       /\ \A c, d \in T : TableFor(c) = TableFor(d) => c = d
  BY <1>6, <1>7, <1>8, <1>9
<1> QED
  BY <1>10 DEF first, TableFor, T

LEMMA ForkKeepsInv == ASSUME MemInv, NEW p \in Slots, Fork(p) PROVE MemInv'
<1> USE DEF MemInv
<1> DEFINE TableFor(d) == get_free_page(1 + Cardinality({c \in TablesOf(p) : c <= d}))
           tables1 == [d \in Dirs |-> IF d \in TablesOf(p) THEN TableFor(d) ELSE LOW]
           new == {get_free_page(1)} \cup {TableFor(d) : d \in TablesOf(p)}
           child == [a \in Pages |-> IF Present(p, a) THEN [pte[p][a] EXCEPT !.rw = FALSE] ELSE NULL]
           father == ProtectIn(p, Dirs)
<1>1. PICK q \in Slots : q = Min(EmptySlots) /\ pc[q] = "none" /\ q # p
  <2>1. EmptySlots \in SUBSET Nat /\ EmptySlots # {}
    BY DEF EmptySlots, Slots, Fork
  <2>2. Min(EmptySlots) \in EmptySlots
    <3> HIDE DEF EmptySlots
    <3> QED
      BY <2>1, MinIsLeast
  <2> QED
    BY <2>2 DEF EmptySlots, Fork, At
<1>2. /\ task[q] = LOW /\ held[q] = LOW /\ TablesOf(q) = {} /\ PlaceOK(p) /\ pc[p] = "user" /\ TablesOf(p) # {}
      /\ \A a \in Pages : ~ Present(q, a)
  BY <1>1 DEF PlacesOK, PlaceOK, Fork, At
<1>3. PICK first : first = get_free_page(1)
  OBVIOUS
<1>4. PICK table : table = tables1
  OBVIOUS
<1>5. /\ first \in FreePages /\ table \in [Dirs -> FreePages \cup {LOW}]
      /\ \A d \in Dirs : /\ d \in TablesOf(p) <=> table[d] # LOW
                         /\ table[d] # first
      /\ \A c, d \in Dirs : table[c] = table[d] /\ table[c] # LOW => c = d
      /\ new = {first} \cup {table[d] : d \in TablesOf(p)}
  <2>1. LOW \notin FreePages /\ TablesOf(p) \in SUBSET Dirs
    BY DEF FreePages, Frames, LOW, TablesOf
  <2>2. /\ first \in FreePages
        /\ \A d \in TablesOf(p) : TableFor(d) \in FreePages /\ TableFor(d) # first
        /\ \A c, d \in TablesOf(p) : TableFor(c) = TableFor(d) => c = d
    BY <1>3, ForkPages DEF Fork
  <2> HIDE DEF TableFor
  <2>3. \A d \in Dirs : table[d] = IF d \in TablesOf(p) THEN TableFor(d) ELSE LOW
    BY <1>4
  <2>4. table \in [Dirs -> FreePages \cup {LOW}]
    BY <1>4, <2>2
  <2> QED
    BY <1>3, <2>1, <2>2, <2>3, <2>4
<1> HIDE DEF tables1, TableFor
<1>6. /\ task' = [task EXCEPT ![q] = first] /\ dir' = [dir EXCEPT ![q] = table]
      /\ pte' = [pte EXCEPT ![p] = father, ![q] = child]
      /\ mem_map' = [f \in Frames |-> Taken(new)[f] + Cardinality(PtesOf(p, f))]
      /\ content' = Cleared(new) /\ executable' = [executable EXCEPT ![q] = executable[p]]
      /\ pc' = [pc EXCEPT ![q] = "user"] /\ UNCHANGED <<held, at>>
  BY <1>1, <1>3, <1>4 DEF Fork, PtesOf, tables1, TableFor
<1> HIDE DEF new
<1>7. \A a \in Pages :
         /\ father[a] \in Entry \cup {NULL} /\ child[a] \in Entry \cup {NULL}
         /\ (father[a] # NULL <=> Present(p, a)) /\ (child[a] # NULL <=> Present(p, a))
         /\ Present(p, a) => /\ father[a].page = pte[p][a].page /\ child[a].page = pte[p][a].page
                             /\ father[a].rw => pte[p][a].rw /\ pte[p][a].page = LOW
                             /\ ~ child[a].rw
  <2> SUFFICES ASSUME NEW a \in Pages
               PROVE  /\ father[a] \in Entry \cup {NULL} /\ child[a] \in Entry \cup {NULL}
                      /\ (father[a] # NULL <=> Present(p, a)) /\ (child[a] # NULL <=> Present(p, a))
                      /\ Present(p, a) => /\ father[a].page = pte[p][a].page /\ child[a].page = pte[p][a].page
                                          /\ father[a].rw => pte[p][a].rw /\ pte[p][a].page = LOW
                                          /\ ~ child[a].rw
    OBVIOUS
  <2>1. pte[p][a] \in Entry \cup {NULL} /\ Dir(a) \in Dirs
    BY DirOf DEF TypeOK
  <2>2. CASE Present(p, a)
    <3> DEFINE low == [pte[p][a] EXCEPT !.rw = FALSE]
    <3>1. pte[p][a] \in Entry
      BY <2>1, <2>2 DEF Present
    <3>2. low \in Entry /\ low.page = pte[p][a].page /\ ~ low.rw
      BY <3>1 DEF Entry
    <3>3. child[a] = low /\ father[a] = IF pte[p][a].page # LOW THEN low ELSE pte[p][a]
      BY <2>1, <2>2 DEF ProtectIn
    <3> HIDE DEF low, child, father
    <3> QED
      BY <2>2, <3>1, <3>2, <3>3, NullIsNothing
  <2>3. CASE ~ Present(p, a)
    BY <2>1, <2>3 DEF ProtectIn, Present
  <2> QED
    BY <2>2, <2>3
<1>8. /\ pte' \in [Slots -> [Pages -> Entry \cup {NULL}]]
      /\ pte'[p] = father /\ pte'[q] = child
      /\ \A x \in Slots \ {p, q} : pte'[x] = pte[x]
  <2>1. father \in [Pages -> Entry \cup {NULL}] /\ child \in [Pages -> Entry \cup {NULL}]
    BY <1>7 DEF ProtectIn
  <2> HIDE DEF father, child
  <2> QED
    BY <1>1, <1>6, <2>1 DEF TypeOK
<1> HIDE DEF father, child
<1>9. /\ task' \in [Slots -> Frames \cup {LOW}] /\ task'[q] = first
      /\ \A x \in Slots \ {q} : task'[x] = task[x]
  BY <1>5, <1>6 DEF TypeOK, FreePages
<1>10. /\ dir' \in [Slots -> [Dirs -> Frames \cup {LOW}]] /\ dir'[q] = table
       /\ \A x \in Slots \ {q} : dir'[x] = dir[x]
  BY <1>5, <1>6 DEF TypeOK, FreePages
<1>11. \A x \in Slots, a \in Pages : Present(x, a)' <=> IF x = q THEN Present(p, a) ELSE Present(x, a)
  BY <1>7, <1>8 DEF Present
<1>12. \A x \in Slots, a \in Pages, f \in Frames : Names(x, a, f)' <=> IF x = q THEN Names(p, a, f) ELSE Names(x, a, f)
  BY <1>1, <1>7, <1>8, <1>11 DEF Names
<1>13. ASSUME NEW f \in Frames
       PROVE  Total(f)' = Total(f) + One(first = f) + One(f \in {table[d] : d \in TablesOf(p)})
                            + Cardinality(PtesOf(p, f))
  <2>1. f # LOW /\ HeldUses(f)' = HeldUses(f)
    BY <1>6 DEF Frames, LOW, HeldUses
  <2>2. Cardinality(TaskUses(f)') = Cardinality(TaskUses(f)) + One(first = f)
    <3>1. Cardinality(TaskUses(f)') = Cardinality(TaskUses(f)) + One(task'[q] = f) - One(task[q] = f)
      BY <1>9, TaskChange
    <3> QED
      BY <1>2, <1>9, <2>1, <3>1, CountsAreNat DEF One
  <2>3. Cardinality(PteUses(f)') = Cardinality(PteUses(f)) + Cardinality(PtesOf(p, f))
    <3>1. \A x \in Slots \ {q}, a \in Pages : Names(x, a, f)' <=> Names(x, a, f)
      BY <1>12
    <3>2. PtesOf(q, f)' = PtesOf(p, f)
      <4>1. PtesOf(q, f)' = {a \in Pages : Names(q, a, f)'}
        BY DEF PtesOf, Names
      <4>2. PtesOf(p, f) = {a \in Pages : Names(p, a, f)}
        BY DEF PtesOf, Names
      <4> QED
        BY <1>12, <4>1, <4>2
    <3>3. PtesOf(q, f) = {}
      BY <1>2 DEF PtesOf
    <3>4. /\ Cardinality(PteUses(f)') = Cardinality(PteUses(f)) - Cardinality(PtesOf(q, f))
                                          + Cardinality(PtesOf(q, f)')
      BY <3>1, PtesChange
    <3>5. Cardinality(PtesOf(q, f)) = 0 /\ Cardinality(PtesOf(q, f)') = Cardinality(PtesOf(p, f))
      BY <3>2, <3>3, FS_EmptySet
    <3> QED
      BY <3>4, <3>5, CountsAreNat, UsesAreNat
  <2>4. Cardinality(DirUses(f)') = Cardinality(DirUses(f)) + One(f \in {table[d] : d \in TablesOf(p)})
    <3>1. DirsOf(q, f) = {}
      BY <1>2, <2>1 DEF DirsOf, TablesOf
    <3>2. DirsOf(q, f)' = {d \in Dirs : table[d] = f}
      BY <1>10 DEF DirsOf
    <3> DEFINE D == {d \in Dirs : table[d] = f}
    <3>3. (D # {}) <=> f \in {table[d] : d \in TablesOf(p)}
      BY <1>5, <2>1 DEF TablesOf
    <3>4. \A c, d \in D : c = d
      BY <1>5, <2>1
    <3>5. Cardinality(D) = One(f \in {table[d] : d \in TablesOf(p)})
      <4> HIDE DEF D
      <4>1. Cardinality(D) = One(D # {})
        BY <3>4, AtMostOne, Zenon
      <4> QED
        BY <3>3, <4>1 DEF One
    <3>6. /\ Cardinality(DirUses(f)') = Cardinality(DirUses(f)) - Cardinality(DirsOf(q, f))
                                          + Cardinality(DirsOf(q, f)')
          /\ Cardinality(DirsOf(q, f)') \in Nat
      BY <1>10, DirsChange
    <3>7. Cardinality(DirsOf(q, f)) = 0 /\ Cardinality(DirsOf(q, f)') = Cardinality(D)
      BY <3>1, <3>2, FS_EmptySet
    <3> HIDE DEF D
    <3> QED
      BY <3>5, <3>6, <3>7, CountsAreNat
  <2> QED
    BY <2>1, <2>2, <2>3, <2>4, CountsAreNat, UsesAreNat DEF Total, One
<1>14. ASSUME NEW f \in Frames
       PROVE  /\ Cardinality(PtesOf(p, f)) \in Nat
              /\ Unused(f) => PtesOf(p, f) = {} /\ Cardinality(PtesOf(p, f)) = 0
              /\ f \in new => mem_map[f] = 0 /\ Unused(f)
              /\ f \in new <=> f = first \/ f \in {table[d] : d \in TablesOf(p)}
              /\ ~ (f = first /\ f \in {table[d] : d \in TablesOf(p)})
  <2>1. f \in new <=> f = first \/ f \in {table[d] : d \in TablesOf(p)}
    BY <1>5
  <2>2. f \in new => f \in FreePages
    BY <1>5, <2>1 DEF TablesOf, Frames, LOW
  <2>3. f \in new => mem_map[f] = 0 /\ Unused(f)
    BY <2>2, FreeIsUnused DEF FreePages
  <2>4. Unused(f) => PtesOf(p, f) = {}
    BY DEF Unused, PtesOf, Names
  <2>5. ~ (f = first /\ f \in {table[d] : d \in TablesOf(p)})
    BY <1>5 DEF TablesOf
  <2> QED
    BY <2>1, <2>3, <2>4, <2>5, FS_EmptySet, UsesAreNat
<1>15. ASSUME NEW f \in Frames
       PROVE  mem_map'[f] = (IF f \in new THEN 1 ELSE mem_map[f]) + Cardinality(PtesOf(p, f))
  BY <1>6 DEF Taken
<1>16. CountIsUses' /\ mem_map' \in [Frames -> Nat]
  <2>1. DOMAIN mem_map' = Frames /\ mem_map' = [f \in Frames |-> mem_map'[f]]
    BY <1>6
  <2>2. ASSUME NEW f \in Frames
        PROVE  /\ mem_map'[f] = mem_map[f] + Total(f)' - Total(f)
               /\ mem_map[f] # 0 /\ Total(f) = 0 => Total(f)' = 0
    <3>1. Total(f)' \in Nat /\ Total(f) \in Nat /\ mem_map[f] \in Nat
      BY CountsAreNat, CountsAreNatAfter DEF TypeOK
    <3>2. Total(f) = 0 <=> Unused(f)
      BY UnusedIsZero
    <3> QED
      BY <1>13, <1>14, <1>15, <3>1, <3>2 DEF One
  <2> QED
    BY <2>1, <2>2, CountStep
<1>17. ASSUME NEW f \in Frames, mem_map[f] = 1, PtesOf(p, f) = {} PROVE mem_map'[f] = 1
  <2>1. Cardinality(PtesOf(p, f)) = 0
    BY <1>17, FS_EmptySet
  <2>2. f \notin new
    BY <1>14, <1>17
  <2> QED
    BY <1>15, <1>17, <2>1, <2>2
<1>18. ASSUME NEW f \in new, f \in Frames PROVE mem_map'[f] = 1
  BY <1>14, <1>15, <1>18
<1>19. WritableIsPrivate'
  <2> SUFFICES ASSUME NEW x \in Slots, NEW a \in Pages, Present(x, a)', pte'[x][a].rw
               PROVE  pte'[x][a].page # LOW /\ mem_map'[pte'[x][a].page] = 1
    BY DEF WritableIsPrivate
  <2>1. x # p /\ x # q
    <3>1. CASE x = p
      <4>1. Present(p, a) /\ pte[p][a].rw /\ pte[p][a].page = LOW
        BY <1>1, <1>7, <1>8, <1>11, <3>1
      <4> QED
        BY <4>1 DEF WritableIsPrivate
    <3>2. CASE x = q
      BY <1>7, <1>8, <1>11, <3>2
    <3> QED
      BY <3>1, <3>2
  <2>2. pte'[x][a] = pte[x][a] /\ Present(x, a)
    BY <1>8, <1>11, <2>1
  <2>3. PICK f \in Frames : f = pte[x][a].page /\ mem_map[f] = 1 /\ Names(x, a, f)
    BY <2>2 DEF WritableIsPrivate, TypeOK, Present, Entry, Names
  <2>4. PtesOf(p, f) = {}
    BY <2>1, <2>3, SingleUse DEF OnlyUse, PtesOf, Names
  <2> QED
    BY <1>17, <2>2, <2>3, <2>4 DEF Frames, LOW
<1>20. KernelPagesPrivate'
  <2>1. ASSUME NEW x \in Slots, task'[x] # LOW PROVE mem_map'[task'[x]] = 1
    <3>1. CASE x = q
      BY <1>5, <1>9, <1>18, <3>1 DEF FreePages
    <3>2. CASE x # q
      <4>1. PICK f \in Frames : f = task[x] /\ task'[x] = f /\ mem_map[f] = 1
        BY <1>9, <2>1, <3>2 DEF KernelPagesPrivate, TypeOK
      <4>2. PtesOf(p, f) = {}
        BY <4>1, SingleUse DEF OnlyUse, PtesOf, Names
      <4> QED
        BY <1>17, <4>1, <4>2
    <3> QED
      BY <3>1, <3>2
  <2>2. ASSUME NEW x \in Slots, held'[x] # LOW PROVE mem_map'[held'[x]] = 1
    <3>1. PICK f \in Frames : f = held[x] /\ held' = held /\ mem_map[f] = 1
      BY <1>6, <2>2 DEF KernelPagesPrivate, TypeOK
    <3>2. PtesOf(p, f) = {}
      BY <3>1, SingleUse DEF OnlyUse, PtesOf, Names
    <3> QED
      BY <1>17, <3>1, <3>2
  <2>3. ASSUME NEW x \in Slots, NEW d \in Dirs, dir'[x][d] # LOW PROVE mem_map'[dir'[x][d]] = 1
    <3>1. CASE x = q
      <4>1. dir'[x][d] = table[d] /\ table[d] \in FreePages /\ d \in TablesOf(p)
        BY <1>5, <1>10, <2>3, <3>1
      <4>2. table[d] \in new /\ table[d] \in Frames
        BY <1>5, <4>1 DEF FreePages
      <4> QED
        BY <1>18, <4>1, <4>2
    <3>2. CASE x # q
      <4>1. PICK f \in Frames : f = dir[x][d] /\ dir'[x][d] = f /\ mem_map[f] = 1
        BY <1>10, <2>3, <3>2 DEF KernelPagesPrivate, TypeOK
      <4>2. PtesOf(p, f) = {}
        BY <4>1, SingleUse DEF OnlyUse, PtesOf, Names
      <4> QED
        BY <1>17, <4>1, <4>2
    <3> QED
      BY <3>1, <3>2
  <2> QED
    BY <2>1, <2>2, <2>3 DEF KernelPagesPrivate
<1>21. TypeOK'
  <2>1. content' \in [Frames \cup {LOW} -> Slots \cup Files \cup {ZERO, KERNEL}]
    BY <1>6, ClearedTyped
  <2> QED
    BY <1>6, <1>8, <1>9, <1>10, <1>16, <2>1 DEF TypeOK, Places
<1>22. PlacesOK'
  <2> SUFFICES ASSUME NEW x \in Slots PROVE PlaceOK(x)'
    BY DEF PlacesOK
  <2>1. CASE x = q
    <3>1. TablesOf(q)' # {}
      <4>1. PICK d \in Dirs : table[d] # LOW
        BY <1>2, <1>5 DEF TablesOf
      <4> QED
        BY <1>10, <4>1 DEF TablesOf
    <3>2. pc'[q] = "user" /\ held'[q] = LOW
      BY <1>2, <1>6 DEF TypeOK
    <3> QED
      BY <2>1, <3>1, <3>2 DEF PlaceOK
  <2>2. CASE x # q
    <3>1. Same(x)
      BY <1>6, <1>9, <1>10, <1>11, <2>2 DEF Same, TypeOK
    <3> QED
      BY <3>1, SamePlace
  <2> QED
    BY <2>1, <2>2
<1> QED
  BY <1>16, <1>19, <1>20, <1>21, <1>22

-----------------------------------------------------------------------------
(* The theorems.                                                           *)

LEMMA InitHasInv == ASSUME Init PROVE MemInv
<1>1. PICK start \in Starts :
         mem_map = [f \in Frames |-> IF f < start THEN USED ELSE OneIf(f >= NR_PAGES - 1)]
  BY DEF Init
<1>2. /\ start \in Int /\ start <= NR_PAGES - 1 /\ start >= 1 /\ NR_PAGES \in Nat
      /\ NR_PAGES \in Frames /\ NR_PAGES - 1 \in Frames /\ NR_PAGES - 1 # LOW /\ NR_PAGES # LOW
      /\ 1 \in Slots /\ 1 \in Dirs
  BY InitFits, TasksAndPages DEF Frames, LOW, Slots, Dirs
<1>3. \A f \in Frames : /\ f \in Int /\ f <= NR_PAGES /\ f # LOW
                        /\ mem_map[f] = IF f < start THEN USED ELSE IF f >= NR_PAGES - 1 THEN 1 ELSE 0
  BY <1>1, <1>2 DEF OneIf, Frames, LOW
<1> DEFINE code == [page |-> LOW, rw |-> FALSE, dirty |-> FALSE]
<1>4. /\ \A p \in Slots : task[p] = (IF p = 1 THEN NR_PAGES ELSE LOW) /\ held[p] = LOW
      /\ \A p \in Slots, d \in Dirs : dir[p][d] = IF p = 1 /\ d = 1 THEN NR_PAGES - 1 ELSE LOW
      /\ \A p \in Slots, a \in Pages : pte[p][a] = IF p = 1 /\ a \in DataPages THEN code ELSE NULL
      /\ \A p \in Slots : pc[p] = IF p = 1 THEN "user" ELSE "none"
  BY DEF Init
<1>5. code \in Entry /\ ~ code.rw /\ code.page = LOW
  BY DEF Entry
<1> HIDE DEF code
<1>6. TypeOK
  <2>1. mem_map \in [Frames -> Nat]
    BY <1>1, <1>3 DEF USED, OneIf
  <2>2. content \in [Frames \cup {LOW} -> Slots \cup Files \cup {ZERO, KERNEL}]
    BY DEF Init
  <2>3. task \in [Slots -> Frames \cup {LOW}] /\ dir \in [Slots -> [Dirs -> Frames \cup {LOW}]]
    BY <1>2 DEF Init
  <2>4. pte \in [Slots -> [Pages -> Entry \cup {NULL}]]
    BY <1>5 DEF Init, code
  <2>5. /\ executable \in [Slots -> Files \cup {NULL}] /\ pc \in [Slots -> Places]
        /\ held \in [Slots -> Frames \cup {LOW}] /\ at \in [Slots -> Pages \cup Files \cup {NULL}]
    BY DEF Init, Places
  <2> QED
    BY <2>1, <2>2, <2>3, <2>4, <2>5 DEF TypeOK
<1>7. CountIsUses
  <2>1. ASSUME NEW f \in Frames PROVE Counted(f)
    <3>1. HeldUses(f) = {} /\ PteUses(f) = {}
      BY <1>3, <1>4, <1>5 DEF HeldUses, PteUses, Present
    <3>2. TaskUses(f) = IF f = NR_PAGES THEN {1} ELSE {}
      BY <1>2, <1>3, <1>4 DEF TaskUses
    <3>3. DirUses(f) = IF f = NR_PAGES - 1 THEN {<<1, 1>>} ELSE {}
      <4>1. \A u \in Slots \X Dirs : dir[u[1]][u[2]] = f <=> u = <<1, 1>> /\ f = NR_PAGES - 1
        BY <1>2, <1>3, <1>4
      <4>2. <<1, 1>> \in Slots \X Dirs
        BY <1>2
      <4> QED
        BY <4>1, <4>2 DEF DirUses
    <3>4. /\ Cardinality(HeldUses(f)) = 0 /\ Cardinality(PteUses(f)) = 0
          /\ Cardinality(TaskUses(f)) = One(f = NR_PAGES)
          /\ Cardinality(DirUses(f)) = One(f = NR_PAGES - 1)
      BY <3>1, <3>2, <3>3, FS_EmptySet, FS_Singleton DEF One
    <3>5. Total(f) = IF f >= NR_PAGES - 1 THEN 1 ELSE 0
      BY <1>2, <1>3, <3>4 DEF Total, One
    <3> QED
      BY <1>2, <1>3, <3>5 DEF Counted
  <2> QED
    BY <2>1, CountedIs
<1>8. WritableIsPrivate
  BY <1>4, <1>5 DEF WritableIsPrivate, Present
<1>9. KernelPagesPrivate
  BY <1>2, <1>3, <1>4 DEF KernelPagesPrivate
<1>10. PlacesOK
  <2> SUFFICES ASSUME NEW p \in Slots PROVE PlaceOK(p)
    BY DEF PlacesOK
  <2>1. CASE p = 1
    <3>1. 1 \in TablesOf(p)
      BY <1>2, <1>4, <2>1 DEF TablesOf
    <3> QED
      BY <1>4, <2>1, <3>1 DEF PlaceOK
  <2>2. CASE p # 1
    BY <1>4, <2>2 DEF PlaceOK, TablesOf, Present
  <2> QED
    BY <2>1, <2>2
<1> QED
  BY <1>6, <1>7, <1>8, <1>9, <1>10 DEF MemInv

LEMMA NextKeepsInv == ASSUME MemInv, [Next]_vars PROVE MemInv'
<1>1. ASSUME NEW p \in Slots, Fault(p) PROVE MemInv'
  <2>1. ASSUME NEW a \in Pages, get_empty_page(p, a) PROVE MemInv'
    BY <2>1, EmptyPageKeepsInv
  <2>2. ASSUME NEW a \in Pages, share_page(p, a) PROVE MemInv'
    BY <2>2, SharePageKeepsInv
  <2>3. ASSUME NEW a \in Pages, LoadPage(p, a) PROVE MemInv'
    BY <2>3, LoadKeepsInv
  <2>4. ASSUME NEW a \in Pages, do_wp_page(p, a) PROVE MemInv'
    BY <2>4, WriteFaultKeepsInv
  <2>5. ASSUME PageLoaded(p) PROVE MemInv'
    BY <2>5, PageLoadedKeepsInv
  <2> QED
    BY <1>1, <2>1, <2>2, <2>3, <2>4, <2>5 DEF Fault
<1>2. ASSUME NEW p \in Slots, Access(p) PROVE MemInv'
  <2>1. ASSUME NEW a \in Pages, verify_area(p, a) PROVE MemInv'
    BY <2>1, VerifyAreaKeepsInv
  <2>2. ASSUME NEW a \in Pages, Write(p, a) PROVE MemInv'
    <3>1. StoreTo(p, a) /\ Present(p, a) /\ pc[p] \in {"user", "retry", "store"}
      BY <2>2 DEF Write, Writing, At
    <3> QED
      BY <3>1, StoreKeepsInv
  <2>3. ASSUME put_fs(p) PROVE MemInv'
    <3>1. StoreTo(p, at[p]) /\ Present(p, at[p]) /\ pc[p] = "store" /\ at[p] \in Pages
      BY <2>3 DEF put_fs, At, MemInv, PlacesOK, PlaceOK
    <3> QED
      BY <3>1, StoreKeepsInv
  <2>4. ASSUME no_store(p) PROVE MemInv'
    BY <2>4, NoStoreKeepsInv
  <2> QED
    BY <1>2, <2>1, <2>2, <2>3, <2>4 DEF Access
<1>3. ASSUME NEW p \in Slots, Call(p) PROVE MemInv'
  <2>1. ASSUME Exit(p) PROVE MemInv'
    BY <2>1, DoExitKeepsInv DEF Exit, At
  <2>2. ASSUME NEW file \in Files, Exec(p, file) PROVE MemInv'
    BY <2>2, ExecKeepsInv
  <2>3. CASE Fork(p)
    BY <2>3, ForkKeepsInv
  <2>4. CASE ForkFails(p)
    BY <2>4, ForkFailsKeepsInv
  <2>5. CASE release(p)
    BY <2>5, ReleaseKeepsInv
  <2>6. CASE ExecFails(p)
    BY <2>6, ExecFailsKeepsInv
  <2>7. CASE ExecSwitch(p)
    BY <2>7, ExecSwitchKeepsInv
  <2>8. CASE ExecDone(p)
    BY <2>8, ExecDoneKeepsInv
  <2> QED
    BY <1>3, <2>1, <2>2, <2>3, <2>4, <2>5, <2>6, <2>7, <2>8 DEF Call
<1>4. CASE UNCHANGED vars
  <2>1. UNCHANGED <<mem_map, content, task, dir, pte, executable, pc, held, at>>
    BY <1>4 DEF vars
  <2>2. TypeOK'
    BY <2>1 DEF MemInv, TypeOK
  <2>3. CountIsUses' /\ WritableIsPrivate' /\ KernelPagesPrivate'
    BY <2>1, SamePages DEF Present
  <2>4. PlacesOK'
    BY <2>1, SamePlace DEF Same, PlacesOK, MemInv, Present
  <2> QED
    BY <2>2, <2>3, <2>4 DEF MemInv
<1> QED
  BY <1>1, <1>2, <1>3, <1>4 DEF Next

LEMMA InvHolds == Spec => []MemInv
<1>1. Init => MemInv
  BY InitHasInv
<1>2. MemInv /\ [Next]_vars => MemInv'
  BY NextKeepsInv
<1> QED
  BY <1>1, <1>2, PTL DEF Spec

\* The state of memory management always has its type; in particular no count
\* of mem_map, which free_page decrements, falls below zero.
THEOREM TypeCorrect == Spec => []TypeOK
<1>1. MemInv => TypeOK
  BY DEF MemInv
<1> QED
  BY <1>1, InvHolds, PTL

\* mem_map counts the uses of every page, through fork, exec, exit, demand
\* loading, sharing and copy-on-write, also where memory runs out in the middle
\* of one of them: no page is lost and none is freed while it is used.
THEOREM CountsExact == Spec => []CountIsUses
<1>1. MemInv => CountIsUses
  BY DEF MemInv
<1> QED
  BY <1>1, InvHolds, PTL

\* A page that a page table lets its process write to is used by nobody else:
\* no process, no page table, no task structure.
THEOREM WritablePrivate == Spec => []WritableIsPrivate
<1>1. MemInv => WritableIsPrivate
  BY DEF MemInv
<1> QED
  BY <1>1, InvHolds, PTL

-----------------------------------------------------------------------------
(* What the processes see.                                                 *)

\* What a system call is about to store to is private, or a page of the file;
\* a process in exec holds the page of its arguments.
FileOK(p) ==
    /\ pc[p] = "store" /\ Present(p, at[p]) =>
          /\ pte[p][at[p]].page # LOW
          /\ pte[p][at[p]].rw \/ FromFile(p, at[p])
    /\ pc[p] = "close" => executable[p] # NULL
    /\ pc[p] \in {"exec", "close"} => content[held[p]] = p

FilesOK == \A p \in Slots : FileOK(p)

\* A page has the same address wherever it is used.
SameAddress ==
    \A p \in Slots, q \in Slots, a \in Pages, b \in Pages :
        Present(p, a) /\ Present(q, b) /\ pte[p][a].page = pte[q][b].page /\ pte[p][a].page # LOW
            => a = b

ViewInv == MemInv /\ FilesOK /\ SameAddress

Good == FilesOK /\ SameAddress

\* Process q does not use page f for its contents.
NotIn(q, f) == held[q] # f /\ \A a \in Pages : ~ Names(q, a, f)

\* The entries of q keep their pages.
SameEntries(q) ==
    \A a \in Pages : /\ Present(q, a)' <=> Present(q, a)
                     /\ Present(q, a) => pte'[q][a].page = pte[q][a].page

\* The executables and who is in exec do not change.
SameFiles == executable' = executable /\ Leaving' = Leaving

\* A step that nobody sees.
Unseen == Space' = Space /\ SameFiles

LEMMA LeavingIs ==
    /\ (\A q \in Slots : pc'[q] = "close" <=> pc[q] = "close") => Leaving' = Leaving
    /\ \A p \in Slots : p \in Leaving <=> pc[p] = "close"
BY DEF Leaving

\* Where every use of a page is one that somebody had at the address, or is that
\* of a page which was used nowhere else.
Addressed(x, a) ==
    /\ x = LOW \/ \A q \in Slots, b \in Pages : Names(q, b, x) => b = a
    /\ \A q \in Slots, b \in Pages :
          Present(q, b)' /\ pte'[q][b].page # LOW =>
             \/ \E s \in Slots : Names(s, b, pte'[q][b].page)
             \/ pte'[q][b].page = x /\ b = a

LEMMA AddressKept == ASSUME ViewInv, NEW x, NEW a \in Pages, Addressed(x, a) PROVE SameAddress'
<1> SUFFICES ASSUME NEW p \in Slots, NEW q \in Slots, NEW b \in Pages, NEW c \in Pages,
                    Present(p, b)', Present(q, c)', pte'[p][b].page = pte'[q][c].page,
                    pte'[p][b].page # LOW
             PROVE  b = c
  BY DEF SameAddress
<1> DEFINE f == pte'[p][b].page
<1>1. (\E s \in Slots : Names(s, b, f)) \/ (f = x /\ b = a)
  BY DEF Addressed
<1>2. (\E s \in Slots : Names(s, c, f)) \/ (f = x /\ c = a)
  BY DEF Addressed
<1>3. \A s \in Slots, r \in Slots : Names(s, b, f) /\ Names(r, c, f) => b = c
  BY DEF Addressed, ViewInv, SameAddress, Names
<1>4. f = x => \A s \in Slots, d \in Pages : Names(s, d, f) => d = a
  BY DEF Addressed
<1> QED
  BY <1>1, <1>2, <1>3, <1>4

LEMMA AddressShrinks ==
    ASSUME ViewInv,
           \A q \in Slots, b \in Pages : Present(q, b)' /\ pte'[q][b].page # LOW =>
              \E s \in Slots : Names(s, b, pte'[q][b].page)
    PROVE  SameAddress'
<1>1. Stack \in Pages
  BY DEF Pages
<1> QED
  BY <1>1, AddressKept DEF Addressed

\* All entries keep their pages.
LEMMA AddressSame == ASSUME ViewInv, \A q \in Slots : SameEntries(q) PROVE SameAddress'
<1>1. ASSUME NEW q \in Slots, NEW b \in Pages, Present(q, b)' PROVE Names(q, b, pte'[q][b].page)
  BY <1>1 DEF SameEntries, Names
<1> QED
  BY <1>1, AddressShrinks

LEMMA ProcessKept ==
    ASSUME ViewInv, NEW q \in Slots, SameEntries(q), executable'[q] = executable[q],
           \A a \in Pages : Present(q, a) => content'[pte[q][a].page] = content[pte[q][a].page],
           pc'[q] \notin {"store", "close"},
           pc'[q] = "exec" => content'[held'[q]] = q
    PROVE  FileOK(q)' /\ \A a \in Pages : View(q, a)' = View(q, a)
<1>1. FileOK(q)'
  BY DEF FileOK
<1>2. ASSUME NEW a \in Pages PROVE View(q, a)' = View(q, a)
  <2>1. CASE Present(q, a)
    <3>1. View(q, a) = content[pte[q][a].page] /\ View(q, a)' = content'[pte'[q][a].page]
      BY <2>1 DEF View, SameEntries
    <3> QED
      BY <2>1, <3>1 DEF SameEntries
  <2>2. CASE ~ Present(q, a)
    BY <2>2 DEF View, SameEntries, FromFile
  <2> QED
    BY <2>1, <2>2
<1> QED
  BY <1>1, <1>2

\* What a step of p leaves alone of q: only a page of the file may become
\* write-protected while a system call is about to store to it.
Untouched(q) ==
    /\ SameEntries(q)
    /\ executable'[q] = executable[q] /\ pc'[q] = pc[q] /\ held'[q] = held[q] /\ at'[q] = at[q]
    /\ \A a \in Pages : pc[q] = "store" /\ Present(q, a) /\ pte[q][a].rw =>
          pte'[q][a].rw \/ FromFile(q, a)

\* A step of others, which changes only pages that q does not use.
LEMMA OtherKept ==
    ASSUME ViewInv, NEW q \in Slots, Untouched(q),
           \A f \in Frames \cup {LOW} : content'[f] = content[f] \/ (f # LOW /\ NotIn(q, f))
    PROVE  FileOK(q)' /\ \A a \in Pages : View(q, a)' = View(q, a)
<1>1. FileOK(q) /\ PlaceOK(q) /\ TypeOK
  BY DEF ViewInv, FilesOK, MemInv, PlacesOK
<1>2. ASSUME NEW a \in Pages, Present(q, a) PROVE content'[pte[q][a].page] = content[pte[q][a].page]
  <2>1. PICK f \in Frames \cup {LOW} : f = pte[q][a].page
    BY <1>1, <1>2 DEF TypeOK, Present, Entry
  <2>2. ~ NotIn(q, f)
    BY <1>2, <2>1 DEF NotIn, Names
  <2> QED
    BY <2>1, <2>2
<1>3. content'[held[q]] = content[held[q]]
  <2>1. PICK f \in Frames \cup {LOW} : f = held[q]
    BY <1>1 DEF TypeOK
  <2>2. ~ NotIn(q, f)
    BY <2>1 DEF NotIn
  <2> QED
    BY <2>1, <2>2
<1>4. pc[q] = "store" => at[q] \in Pages
  BY <1>1 DEF PlaceOK
<1>5. FileOK(q)'
  <2>1. ASSUME pc'[q] = "store", Present(q, at[q])'
        PROVE  pte'[q][at[q]].page # LOW /\ (pte'[q][at[q]].rw \/ FromFile(q, at[q]))
    BY <1>1, <1>4, <2>1 DEF FileOK, Untouched, SameEntries
  <2> QED
    BY <1>1, <1>3, <2>1 DEF FileOK, Untouched, FromFile
<1>6. ASSUME NEW a \in Pages PROVE View(q, a)' = View(q, a)
  <2>1. CASE Present(q, a)
    <3>1. View(q, a) = content[pte[q][a].page] /\ View(q, a)' = content'[pte'[q][a].page]
      BY <2>1 DEF View, Untouched, SameEntries
    <3> QED
      BY <1>2, <2>1, <3>1 DEF Untouched, SameEntries
  <2>2. CASE ~ Present(q, a)
    BY <2>2 DEF View, Untouched, SameEntries, FromFile
  <2> QED
    BY <2>1, <2>2
<1> QED
  BY <1>5, <1>6

\* A page that nothing uses, or whose only use is known, is in no other process.
LEMMA UnusedIsNotIn == ASSUME NEW q \in Slots, NEW f, Unused(f) PROVE NotIn(q, f)
BY DEF Unused, NotIn

LEMMA FreeIsNotIn == ASSUME MemInv, NEW q \in Slots, NEW f \in FreePages PROVE f \in Frames /\ NotIn(q, f)
BY FreeIsUnused, UnusedIsNotIn DEF FreePages, MemInv

LEMMA PrivateIsNotIn ==
    ASSUME MemInv, NEW p \in Slots, NEW f \in Frames, mem_map[f] = 1,
           held[p] = f \/ \E a \in Pages : Names(p, a, f), NEW q \in Slots \ {p}
    PROVE  NotIn(q, f)
BY SingleUse DEF MemInv, OnlyUse, NotIn

LEMMA SpaceKept ==
    ASSUME \A q \in Slots : /\ pc'[q] \in Gone <=> pc[q] \in Gone
                            /\ pc[q] \notin Gone => \A a \in Pages : View(q, a)' = View(q, a)
    PROVE  Space' = Space
<1> DEFINE one(q) == IF pc[q] \in Gone THEN NULL ELSE [a \in Pages |-> View(q, a)]
           two(q) == IF pc'[q] \in Gone THEN NULL ELSE [a \in Pages |-> View(q, a)']
<1>1. ASSUME NEW q \in Slots PROVE two(q) = one(q)
  <2>1. CASE pc[q] \in Gone
    BY <2>1
  <2>2. CASE pc[q] \notin Gone
    <3>1. \A a \in Pages : View(q, a)' = View(q, a)
      BY <2>2
    <3> HIDE DEF View
    <3> QED
      BY <2>2, <3>1
  <2> QED
    BY <2>1, <2>2
<1>2. Space = [q \in Slots |-> one(q)] /\ Space' = [q \in Slots |-> two(q)]
  BY DEF Space
<1> HIDE DEF one, two
<1> QED
  BY <1>1, <1>2

\* The step of p changes contents only where nobody else looks.
Aside(p) ==
    /\ \A q \in Slots \ {p} : Untouched(q)
    /\ \A f \in Frames \cup {LOW} :
          content'[f] = content[f] \/ (f # LOW /\ \A q \in Slots \ {p} : NotIn(q, f))

LEMMA OthersKept ==
    ASSUME ViewInv, NEW p \in Slots, Aside(p), NEW q \in Slots \ {p}
    PROVE  FileOK(q)' /\ (\A a \in Pages : View(q, a)' = View(q, a)) /\ pc'[q] = pc[q]
BY OtherKept DEF Aside, Untouched

\* A step that nobody sees.
LEMMA StepKept ==
    ASSUME ViewInv, NEW p \in Slots, Aside(p), FileOK(p)',
           pc'[p] \in Gone <=> pc[p] \in Gone,
           pc[p] \notin Gone => \A a \in Pages : View(p, a)' = View(p, a)
    PROVE  FilesOK' /\ Space' = Space
<1>1. \A q \in Slots \ {p} : FileOK(q)' /\ (\A a \in Pages : View(q, a)' = View(q, a)) /\ pc'[q] = pc[q]
  BY OthersKept
<1>2. FilesOK'
  BY <1>1 DEF FilesOK
<1>3. Space' = Space
  <2> HIDE DEF View
  <2>1. ASSUME NEW q \in Slots
        PROVE  /\ pc'[q] \in Gone <=> pc[q] \in Gone
               /\ pc[q] \notin Gone => \A a \in Pages : View(q, a)' = View(q, a)
    BY <1>1
  <2> QED
    BY <2>1, SpaceKept
<1> QED
  BY <1>2, <1>3

\* A step after which p has the space v.
LEMMA StepChanges ==
    ASSUME ViewInv, NEW p \in Slots, Aside(p), FileOK(p)', NEW v,
           (IF pc'[p] \in Gone THEN NULL ELSE [a \in Pages |-> View(p, a)']) = v
    PROVE  FilesOK' /\ Space' = [Space EXCEPT ![p] = v]
<1>1. \A q \in Slots \ {p} : FileOK(q)' /\ (\A a \in Pages : View(q, a)' = View(q, a)) /\ pc'[q] = pc[q]
  BY OthersKept
<1>2. FilesOK'
  BY <1>1 DEF FilesOK
<1> DEFINE one(q) == IF pc[q] \in Gone THEN NULL ELSE [a \in Pages |-> View(q, a)]
           two(q) == IF pc'[q] \in Gone THEN NULL ELSE [a \in Pages |-> View(q, a)']
<1>3. ASSUME NEW q \in Slots \ {p} PROVE two(q) = one(q)
  <2>1. (\A a \in Pages : View(q, a)' = View(q, a)) /\ pc'[q] = pc[q]
    BY <1>1
  <2>2. [a \in Pages |-> View(q, a)'] = [a \in Pages |-> View(q, a)]
    <3> HIDE DEF View
    <3> QED
      BY <2>1
  <2> QED
    BY <2>1, <2>2
<1>4. two(p) = v
  OBVIOUS
<1>5. Space = [q \in Slots |-> one(q)] /\ Space' = [q \in Slots |-> two(q)]
  BY DEF Space
<1> HIDE DEF one, two
<1> QED
  BY <1>2, <1>3, <1>4, <1>5

\* The space of a process that is there is a space.
LEMMA ViewTyped ==
    ASSUME ViewInv, NEW p \in Slots, NEW a \in Pages, pc[p] \notin Gone
    PROVE  View(p, a) \in Slots \cup Files \cup {ZERO, KERNEL}
<1>1. TypeOK
  BY DEF ViewInv, MemInv
<1>2. Present(p, a) => content[pte[p][a].page] \in Slots \cup Files \cup {ZERO, KERNEL}
  BY <1>1 DEF TypeOK, Present, Entry
<1>3. FromFile(p, a) => executable[p] \in Files
  BY <1>1 DEF TypeOK, FromFile
<1> QED
  BY <1>2, <1>3 DEF View

LEMMA SpaceIsThere == ASSUME ViewInv, NEW p \in Slots, pc[p] \notin Gone PROVE Space[p] # NULL
<1>1. Space[p] = [a \in Pages |-> View(p, a)]
  BY DEF Space
<1>2. \A a \in Pages : View(p, a) \in Slots \cup Files \cup {ZERO, KERNEL}
  BY ViewTyped
<1>3. [a \in Pages |-> View(p, a)] \in [Pages -> Slots \cup Files \cup {ZERO, KERNEL}]
  <2> HIDE DEF View
  <2> QED
    BY <1>2
<1> QED
  BY <1>1, <1>3, NullIsNoSpace

-----------------------------------------------------------------------------
(* Steps that nobody sees.                                                 *)

\* A step of p that leaves all entries and contents alone.
LEMMA NothingSeen ==
    ASSUME ViewInv, NEW p \in Slots, UNCHANGED <<content, executable, pte>>,
           pc'[p] \notin {"store", "close", "exec"}, pc[p] # "close", pc'[p] \in Gone <=> pc[p] \in Gone,
           \A q \in Slots \ {p} : pc'[q] = pc[q] /\ held'[q] = held[q] /\ at'[q] = at[q]
    PROVE  Good' /\ Unseen
<1>1. SameEntries(p) /\ Aside(p)
  BY DEF Aside, Untouched, SameEntries, Present
<1>2. FileOK(p)' /\ \A a \in Pages : View(p, a)' = View(p, a)
  BY <1>1, ProcessKept
<1>3. FilesOK' /\ Space' = Space
  BY <1>1, <1>2, StepKept
<1>4. SameAddress'
  BY AddressSame DEF SameEntries, Present
<1>5. SameFiles
  BY LeavingIs DEF SameFiles
<1> QED
  BY <1>3, <1>4, <1>5 DEF Good, Unseen

LEMMA NoStoreViews == ASSUME ViewInv, NEW p \in Slots, no_store(p) PROVE Good' /\ Unseen
<1>1. TypeOK /\ pc[p] = "store" /\ UNCHANGED <<content, executable, pte, held>>
  BY DEF ViewInv, MemInv, no_store, At
<1>2. pc'[p] = "user" /\ \A q \in Slots \ {p} : pc'[q] = pc[q] /\ at'[q] = at[q]
  BY <1>1 DEF no_store, TypeOK
<1> QED
  BY <1>1, <1>2, NothingSeen DEF Gone

LEMMA ReleaseViews == ASSUME ViewInv, NEW p \in Slots, release(p) PROVE Good' /\ Unseen
<1>1. TypeOK /\ pc[p] = "zombie" /\ UNCHANGED <<content, executable, pte, held, at>>
  BY DEF ViewInv, MemInv, release
<1>2. pc'[p] = "none" /\ \A q \in Slots \ {p} : pc'[q] = pc[q]
  BY <1>1 DEF release, TypeOK
<1> QED
  BY <1>1, <1>2, NothingSeen DEF Gone

LEMMA ExecFailsViews == ASSUME ViewInv, NEW p \in Slots, ExecFails(p) PROVE Good' /\ Unseen
<1>1. TypeOK /\ pc[p] = "exec" /\ UNCHANGED <<content, executable, pte>>
  BY DEF ViewInv, MemInv, ExecFails, At
<1>2. pc'[p] = "user" /\ \A q \in Slots \ {p} : pc'[q] = pc[q] /\ held'[q] = held[q] /\ at'[q] = at[q]
  BY <1>1 DEF ExecFails, TypeOK
<1> QED
  BY <1>1, <1>2, NothingSeen DEF Gone

LEMMA ForkFailsViews ==
    ASSUME ViewInv, NEW p \in Slots, ForkFails(p) PROVE Good' /\ Unseen
<1>1. PICK copied \in SUBSET Dirs : pte' = [pte EXCEPT ![p] = ProtectIn(p, copied)]
  BY DEF ForkFails, TablesOf
<1>2. TypeOK /\ pc[p] = "user" /\ UNCHANGED <<content, executable, pc, held, at>>
  BY DEF ViewInv, MemInv, ForkFails, At
<1>3. SameEntries(p)
  <2> SUFFICES ASSUME NEW a \in Pages
               PROVE  /\ Present(p, a)' <=> Present(p, a)
                      /\ Present(p, a) => pte'[p][a].page = pte[p][a].page
    BY DEF SameEntries
  <2>1. pte[p][a] \in Entry \cup {NULL}
    BY <1>2 DEF TypeOK
  <2>2. \/ pte'[p][a] = pte[p][a]
        \/ Present(p, a) /\ pte'[p][a] = [pte[p][a] EXCEPT !.rw = FALSE]
    BY <1>1, <1>2 DEF TypeOK, ProtectIn
  <2>3. CASE pte'[p][a] = pte[p][a]
    BY <2>3 DEF Present
  <2>4. CASE Present(p, a) /\ pte'[p][a] = [pte[p][a] EXCEPT !.rw = FALSE]
    <3>1. pte'[p][a] \in Entry /\ pte'[p][a].page = pte[p][a].page
      BY <2>1, <2>4 DEF Present, Entry
    <3> QED
      BY <2>4, <3>1, NullIsNothing DEF Present
  <2> QED
    BY <2>2, <2>3, <2>4
<1>4. Aside(p)
  <2>1. ASSUME NEW q \in Slots \ {p} PROVE Untouched(q)
    BY <1>1, <1>2 DEF TypeOK, Untouched, SameEntries, Present
  <2> QED
    BY <1>2, <2>1 DEF Aside
<1>5. FileOK(p)' /\ \A a \in Pages : View(p, a)' = View(p, a)
  BY <1>2, <1>3, ProcessKept
<1>6. FilesOK' /\ Space' = Space
  BY <1>2, <1>4, <1>5, StepKept
<1>7. SameAddress'
  BY <1>3, <1>4, AddressSame DEF Aside, Untouched
<1>8. SameFiles
  BY <1>2, LeavingIs DEF SameFiles
<1> QED
  BY <1>6, <1>7, <1>8 DEF Good, Unseen

\* Pages that are taken and cleared were free.
LEMMA ClearedIs ==
    ASSUME MemInv, NEW fs \in SUBSET FreePages, content' = Cleared(fs)
    PROVE  /\ \A f \in fs : content'[f] = ZERO
           /\ \A f \in Frames \cup {LOW} :
                 content'[f] = content[f] \/ (f \in fs /\ f # LOW /\ \A q \in Slots : NotIn(q, f))
<1>1. \A f \in Frames \cup {LOW} : content'[f] = IF f \in fs THEN ZERO ELSE content[f]
  BY DEF Cleared
<1>2. \A f \in fs : f \in Frames /\ f # LOW /\ \A q \in Slots : NotIn(q, f)
  BY FreeIsNotIn DEF FreePages, Frames, LOW
<1> QED
  BY <1>1, <1>2

\* What q uses does not change.
LEMMA UsedIsKept ==
    ASSUME MemInv, NEW q \in Slots,
           \A f \in Frames \cup {LOW} : content'[f] = content[f] \/ (f # LOW /\ NotIn(q, f))
    PROVE  /\ \A a \in Pages : Present(q, a) => content'[pte[q][a].page] = content[pte[q][a].page]
           /\ content'[held[q]] = content[held[q]]
<1>1. ASSUME NEW a \in Pages, Present(q, a) PROVE content'[pte[q][a].page] = content[pte[q][a].page]
  <2>1. PICK f \in Frames \cup {LOW} : f = pte[q][a].page
    BY <1>1 DEF MemInv, TypeOK, Present, Entry
  <2>2. ~ NotIn(q, f)
    BY <1>1, <2>1 DEF NotIn, Names
  <2> QED
    BY <2>1, <2>2
<1>2. content'[held[q]] = content[held[q]]
  <2>1. PICK f \in Frames \cup {LOW} : f = held[q]
    BY DEF MemInv, TypeOK
  <2>2. ~ NotIn(q, f)
    BY <2>1 DEF NotIn
  <2> QED
    BY <2>1, <2>2
<1> QED
  BY <1>1, <1>2

LEMMA ExecViews ==
    ASSUME ViewInv, NEW p \in Slots, NEW file \in Files, Exec(p, file)
    PROVE  Good' /\ Unseen
<1>1. TypeOK /\ MemInv /\ pc[p] = "user" /\ UNCHANGED <<executable, pte>> /\ FreePages # {}
  BY DEF ViewInv, MemInv, Exec, At
<1>2. PICK n \in FreePages : n = get_free_page(1) /\ n \in Frames /\ n # LOW /\ \A q \in Slots : NotIn(q, n)
  BY <1>1, OneFree, FreeIsNotIn DEF Frames, LOW
<1>3. /\ content'[n] = p /\ \A f \in Frames \cup {LOW} : f # n => content'[f] = content[f]
      /\ held'[p] = n /\ pc'[p] = "exec"
      /\ \A q \in Slots \ {p} : held'[q] = held[q] /\ pc'[q] = pc[q] /\ at'[q] = at[q]
  BY <1>1, <1>2 DEF Exec, TypeOK
<1>4. SameEntries(p)
  BY <1>1 DEF SameEntries, Present
<1>5. Aside(p)
  BY <1>1, <1>2, <1>3 DEF Aside, Untouched, SameEntries, Present
<1>6. \A a \in Pages : Present(p, a) => content'[pte[p][a].page] = content[pte[p][a].page]
  BY <1>1, <1>2, <1>3, UsedIsKept
<1>7. FileOK(p)' /\ \A a \in Pages : View(p, a)' = View(p, a)
  BY <1>1, <1>3, <1>4, <1>6, ProcessKept
<1>8. FilesOK' /\ Space' = Space
  BY <1>1, <1>3, <1>5, <1>7, StepKept DEF Gone
<1>9. SameAddress'
  BY <1>4, <1>5, AddressSame DEF Aside, Untouched
<1>10. SameFiles
  BY <1>1, <1>3, LeavingIs DEF SameFiles
<1> QED
  BY <1>8, <1>9, <1>10 DEF Good, Unseen

\* do_exit is the end of the space of p.
Ends(p) == Processes!Exit(p)

LEMMA ExitViews ==
    ASSUME ViewInv, NEW p \in Slots, pc[p] \notin Gone, pc[p] # "close", do_exit(p)
    PROVE  Good' /\ Ends(p)
<1>1. TypeOK
  BY DEF ViewInv, MemInv
<1>2. /\ \A a \in Pages : ~ Present(p, a)'
      /\ pc'[p] = "zombie" /\ executable' = [executable EXCEPT ![p] = NULL]
      /\ \A q \in Slots \ {p} : /\ pte'[q] = pte[q] /\ executable'[q] = executable[q]
                                /\ pc'[q] = pc[q] /\ held'[q] = held[q] /\ at'[q] = at[q]
  BY <1>1 DEF do_exit, TypeOK, Present
<1>3. Aside(p)
  BY <1>2 DEF Aside, Untouched, SameEntries, Present, do_exit
<1>4. FileOK(p)'
  BY <1>2 DEF FileOK
<1>5. (IF pc'[p] \in Gone THEN NULL ELSE [a \in Pages |-> View(p, a)']) = NULL
  BY <1>2 DEF Gone
<1>6. FilesOK' /\ Space' = [Space EXCEPT ![p] = NULL]
  BY <1>3, <1>4, <1>5, StepChanges
<1>7. SameAddress'
  <2>1. ASSUME NEW q \in Slots, NEW b \in Pages, Present(q, b)' PROVE Names(q, b, pte'[q][b].page)
    BY <1>2, <2>1 DEF Names, Present
  <2> QED
    BY <2>1, AddressShrinks
<1>8. Leaving' = Leaving /\ p \notin Leaving
  BY <1>2, LeavingIs
<1> QED
  BY <1>2, <1>6, <1>7, <1>8, SpaceIsThere DEF Good, Ends, Processes!Exit, Processes!Lives

-----------------------------------------------------------------------------
(* Faults: nobody sees them, or there is no memory and the process ends.   *)

\* The entry for a shows what p saw there before.
LEMMA EntryAdded ==
    ASSUME ViewInv, NEW p \in Slots, NEW a \in Pages, ~ Present(p, a),
           pc'[p] \in {"user", "store"}, executable'[p] = executable[p],
           pc'[p] = "store" => at'[p] = a, pte'[p][a].rw \/ FromFile(p, a),
           pte'[p][a] \in Entry, pte'[p][a].page # LOW,
           content'[pte'[p][a].page] = (IF FromFile(p, a) THEN executable[p] ELSE ZERO),
           \A b \in Pages \ {a} : pte'[p][b] = pte[p][b],
           \A b \in Pages : Present(p, b) => content'[pte[p][b].page] = content[pte[p][b].page]
    PROVE  FileOK(p)' /\ \A b \in Pages : View(p, b)' = View(p, b)
<1>1. Present(p, a)'
  BY NullIsNothing DEF Present
<1>2. \A b \in Pages \ {a} : Present(p, b)' <=> Present(p, b)
  BY DEF Present
<1>3. FileOK(p)'
  BY DEF FileOK, FromFile
<1>4. ASSUME NEW b \in Pages PROVE View(p, b)' = View(p, b)
  <2>1. CASE b = a
    <3>1. View(p, a) = IF FromFile(p, a) THEN executable[p] ELSE ZERO
      BY DEF View
    <3>2. View(p, a)' = content'[pte'[p][a].page]
      BY <1>1 DEF View
    <3> QED
      BY <2>1, <3>1, <3>2
  <2>2. CASE b # a
    BY <1>2, <2>2 DEF View, FromFile
  <2> QED
    BY <2>1, <2>2
<1> QED
  BY <1>3, <1>4

\* What the steps that serve a missing page have in common.
LEMMA PageAdded ==
    ASSUME ViewInv, NEW p \in Slots, NEW a \in Pages, Aside(p), FileOK(p)',
           \A b \in Pages : View(p, b)' = View(p, b),
           pc[p] \notin Gone, pc[p] # "close", pc'[p] \in {"user", "store"}, UNCHANGED executable,
           \A b \in Pages \ {a} : pte'[p][b] = pte[p][b],
           \A q \in Slots, b \in Pages : Names(q, b, pte'[p][a].page) => b = a
    PROVE  Good' /\ Unseen
<1>1. \A q \in Slots \ {p} : Untouched(q)
  BY DEF Aside
<1>2. FilesOK' /\ Space' = Space
  BY StepKept DEF Gone
<1>3. SameAddress'
  <2>1. ASSUME NEW q \in Slots, NEW b \in Pages, Present(q, b)'
        PROVE  (\E s \in Slots : Names(s, b, pte'[q][b].page)) \/ (pte'[q][b].page = pte'[p][a].page /\ b = a)
    <3>1. CASE q = p /\ b = a
      BY <3>1
    <3>2. CASE q = p /\ b # a
      BY <2>1, <3>2 DEF Names, Present
    <3>3. CASE q # p
      BY <1>1, <2>1, <3>3 DEF Untouched, SameEntries, Names
    <3> QED
      BY <3>1, <3>2, <3>3
  <2> QED
    BY <2>1, AddressKept DEF Addressed
<1>4. SameFiles
  BY <1>1, LeavingIs DEF Untouched, SameFiles
<1> QED
  BY <1>2, <1>3, <1>4 DEF Good, Unseen

\* A missing page is served for user code, or for a store of the kernel.
LEMMA NoPageIn ==
    ASSUME ViewInv, NEW p \in Slots, NEW a \in Pages, NoPage(p, a)
    PROVE  /\ pc[p] \in {"user", "store"} /\ (pc[p] = "store" => at[p] = a)
           /\ ~ Present(p, a)
BY DEF NoPage, At

LEMMA EmptyPageViews ==
    ASSUME ViewInv, NEW p \in Slots, NEW a \in Pages, get_empty_page(p, a)
    PROVE  Good' /\ (Unseen \/ Ends(p))
<1> DEFINE x == get_free_page(1)
           T == NewTable(p, a, 2)
           e == [page |-> x, rw |-> TRUE, dirty |-> FALSE]
<1>1. /\ pc[p] \in {"user", "store"} /\ (pc[p] = "store" => at[p] = a)
      /\ ~ Present(p, a) /\ ~ FromFile(p, a) /\ TypeOK /\ MemInv
  BY NoPageIn DEF get_empty_page, ViewInv, MemInv
<1>2. CASE Cardinality(FreePages) < 1 + OneIf(NoTable(p, a))
  BY <1>1, <1>2, ExitViews DEF get_empty_page, Ends, Gone
<1>3. CASE ~ (Cardinality(FreePages) < 1 + OneIf(NoTable(p, a)))
  <2>1. /\ dir' = WithTable(p, a, 2)
        /\ content' = Cleared({x} \cup T)
        /\ pte' = [pte EXCEPT ![p][a] = e]
        /\ UNCHANGED <<executable, pc, held, at>>
    BY <1>3 DEF get_empty_page
  <2>2. FreePages # {} /\ (Cardinality(FreePages) >= 2 \/ ~ NoTable(p, a))
    <3>1. FreePages \in SUBSET (1 .. NR_PAGES) /\ IsFiniteSet(1 .. NR_PAGES)
      BY TasksAndPages, FS_Interval DEF FreePages, Frames
    <3>2. IsFiniteSet(FreePages)
      BY <3>1, FS_Subset
    <3>3. Cardinality(FreePages) \in Nat /\ (FreePages = {} => Cardinality(FreePages) = 0)
      BY <3>2, FS_CardinalityType, FS_EmptySet
    <3> QED
      BY <1>3, <3>3 DEF OneIf
  <2>3. x \in FreePages /\ T \in SUBSET FreePages
    BY <1>1, <2>1, <2>2, OneFree, NewTableStep
  <2>4. x \in Frames /\ x # LOW /\ e \in Entry /\ e.page = x /\ e.rw
    BY <2>3 DEF FreePages, Frames, LOW, Entry
  <2> HIDE DEF x, T, e
  <2>5. /\ content'[x] = ZERO
        /\ \A f \in Frames \cup {LOW} : content'[f] = content[f] \/ (f # LOW /\ \A q \in Slots : NotIn(q, f))
    BY <1>1, <2>1, <2>3, ClearedIs
  <2>6. /\ pte'[p][a] = e /\ \A b \in Pages \ {a} : pte'[p][b] = pte[p][b]
        /\ \A q \in Slots \ {p} : pte'[q] = pte[q]
    BY <1>1, <2>1 DEF TypeOK
  <2>7. Aside(p)
    <3>1. ASSUME NEW q \in Slots \ {p} PROVE Untouched(q)
      BY <2>1, <2>6 DEF Untouched, SameEntries, Present
    <3> QED
      BY <1>1, <2>5, <3>1 DEF Aside
  <2>8. \A b \in Pages : Present(p, b) => content'[pte[p][b].page] = content[pte[p][b].page]
    BY <1>1, <2>5, UsedIsKept
  <2>9. FileOK(p)' /\ \A b \in Pages : View(p, b)' = View(p, b)
    <3>1. /\ pc'[p] \in {"user", "store"} /\ (pc'[p] = "store" => at'[p] = a) /\ executable'[p] = executable[p]
          /\ pte'[p][a].rw /\ pte'[p][a] \in Entry /\ pte'[p][a].page # LOW
      BY <1>1, <2>1, <2>4, <2>6
    <3>2. content'[pte'[p][a].page] = IF FromFile(p, a) THEN executable[p] ELSE ZERO
      BY <1>1, <2>4, <2>5, <2>6
    <3> QED
      BY <1>1, <2>6, <2>8, <3>1, <3>2, EntryAdded
  <2>10. \A q \in Slots, b \in Pages : Names(q, b, pte'[p][a].page) => b = a
    BY <1>1, <2>3, <2>4, <2>6, FreeIsNotIn DEF NotIn
  <2> QED
    BY <1>1, <2>1, <2>6, <2>7, <2>9, <2>10, PageAdded DEF Gone
<1> QED
  BY <1>2, <1>3

LEMMA LoadViews ==
    ASSUME ViewInv, NEW p \in Slots, NEW a \in Pages, LoadPage(p, a)
    PROVE  Good' /\ (Unseen \/ Ends(p))
<1> DEFINE x == get_free_page(1)
<1>1. pc[p] \in {"user", "store"} /\ ~ Present(p, a) /\ TypeOK /\ MemInv
  BY NoPageIn DEF LoadPage, ViewInv, MemInv
<1>2. CASE FreePages = {}
  BY <1>1, <1>2, ExitViews DEF LoadPage, Ends, Gone
<1>3. CASE FreePages # {}
  <2>1. /\ content' = Cleared({x}) /\ held' = [held EXCEPT ![p] = x] /\ UNCHANGED <<pte, executable>>
        /\ pc'[p] \in {"load", "sysLoad"} /\ \A q \in Slots \ {p} : pc'[q] = pc[q] /\ at'[q] = at[q]
    BY <1>1, <1>3 DEF LoadPage, TypeOK
  <2>2. x \in FreePages
    BY <1>1, <1>3, OneFree
  <2> HIDE DEF x
  <2>3. \A f \in Frames \cup {LOW} : content'[f] = content[f] \/ (f # LOW /\ \A q \in Slots : NotIn(q, f))
    BY <1>1, <2>1, <2>2, ClearedIs
  <2>4. SameEntries(p) /\ Aside(p)
    BY <1>1, <2>1, <2>3 DEF Aside, Untouched, SameEntries, Present, TypeOK
  <2>5. \A b \in Pages : Present(p, b) => content'[pte[p][b].page] = content[pte[p][b].page]
    BY <1>1, <2>3, UsedIsKept
  <2>6. FileOK(p)' /\ \A b \in Pages : View(p, b)' = View(p, b)
    BY <1>1, <2>1, <2>4, <2>5, ProcessKept
  <2>7. FilesOK' /\ Space' = Space
    BY <1>1, <2>1, <2>4, <2>6, StepKept DEF Gone
  <2>8. SameAddress'
    BY <2>4, AddressSame DEF Aside, Untouched
  <2>9. SameFiles
    BY <1>1, <2>1, LeavingIs DEF SameFiles
  <2> QED
    BY <2>7, <2>8, <2>9 DEF Good, Unseen
<1> QED
  BY <1>2, <1>3

\* p gets what another process that runs the file has at a.
Shares(p) == \E q \in Slots, a \in DataPages : Processes!Share(p, q, a)

LEMMA SharePageViews ==
    ASSUME ViewInv, NEW p \in Slots, NEW a \in Pages, share_page(p, a)
    PROVE  Good' /\ (Unseen \/ Ends(p) \/ Shares(p))
<1>1. /\ pc[p] \in {"user", "store"} /\ (pc[p] = "store" => at[p] = a)
      /\ ~ Present(p, a) /\ FromFile(p, a) /\ a \in DataPages
      /\ TypeOK /\ MemInv
  BY NoPageIn DEF share_page, ViewInv, MemInv, FromFile
<1>2. PICK s \in Sharers(p, a) : s = Max(Sharers(p, a))
  BY <1>1, SharerIs DEF share_page
<1> DEFINE T == NewTable(p, a, 1)
           e == [pte[s][a] EXCEPT !.rw = FALSE]
           x == pte[s][a].page
<1>3. CASE NoTable(p, a) /\ FreePages = {}
  BY <1>1, <1>3, ExitViews DEF share_page, Ends, Gone
<1>4. CASE ~ (NoTable(p, a) /\ FreePages = {})
  <2>1. s \in Slots \ {p} /\ Present(s, a) /\ x # LOW /\ executable[s] = executable[p]
    BY DEF Sharers
  <2>2. pte[s][a] \in Entry /\ e \in Entry /\ e.page = x /\ e # NULL
    <3>1. pte[s][a] \in Entry
      BY <1>1, <2>1 DEF Present, TypeOK
    <3>2. \A r \in Entry : LET r0 == [r EXCEPT !.rw = FALSE] IN
              r0 \in Entry /\ r0.page = r.page
      BY DEF Entry
    <3> QED
      BY <3>1, <3>2, NullIsNothing
  <2>3. /\ dir' = WithTable(p, a, 1)
        /\ pte' = [pte EXCEPT ![s][a] = e, ![p][a] = e]
        /\ content' = Cleared(T)
        /\ UNCHANGED <<task, executable, pc, held, at>>
    BY <1>2, <1>4 DEF share_page
  <2>4. T \in SUBSET FreePages
    <3>1. Cardinality(FreePages) >= 1 \/ ~ NoTable(p, a)
      BY <1>1, <1>4, OneOrMore
    <3> QED
      BY <1>1, <2>3, <3>1, NewTableStep
  <2> HIDE DEF T, e, x
  <2>5. \A f \in Frames \cup {LOW} : content'[f] = content[f] \/ (f # LOW /\ \A q \in Slots : NotIn(q, f))
    BY <1>1, <2>3, <2>4, ClearedIs
  <2>6. /\ pte'[p][a] = e /\ pte'[s][a] = e
        /\ \A q \in Slots, b \in Pages : <<q, b>> # <<p, a>> /\ <<q, b>> # <<s, a>> => pte'[q][b] = pte[q][b]
    BY <1>1, <2>1, <2>2, <2>3 DEF TypeOK
  <2>7. content'[x] = content[x]
    <3>1. \A b \in Pages : Present(s, b) => content'[pte[s][b].page] = content[pte[s][b].page]
      BY <1>1, <2>1, <2>5, UsedIsKept
    <3> QED
      BY <2>1, <3>1 DEF x
  <2>8. Aside(p)
    <3>1. ASSUME NEW q \in Slots \ {p} PROVE Untouched(q)
      <4>1. ASSUME NEW b \in Pages
            PROVE  /\ Present(q, b)' <=> Present(q, b)
                   /\ Present(q, b) => /\ pte'[q][b].page = pte[q][b].page
                                       /\ pte[q][b].rw => pte'[q][b].rw \/ FromFile(q, b)
        <5>1. CASE <<q, b>> = <<s, a>>
          <6>1. FromFile(q, b)
            BY <1>1, <2>1, <5>1 DEF FromFile
          <6> QED
            BY <2>1, <2>2, <2>6, <5>1, <6>1 DEF Present, x
        <5>2. CASE <<q, b>> # <<s, a>>
          BY <2>6, <5>2 DEF Present
        <5> QED
          BY <5>1, <5>2
      <4> QED
        BY <2>3, <4>1 DEF Untouched, SameEntries
    <3> QED
      BY <2>5, <3>1 DEF Aside
  <2>9. FileOK(p)'
    BY <1>1, <2>1, <2>2, <2>3, <2>6 DEF FileOK, FromFile
  <2>10. \A b \in Pages : View(p, b)' = IF b = a THEN content[x] ELSE View(p, b)
    <3>1. Present(p, a)' /\ pte'[p][a].page = x
      BY <2>2, <2>6 DEF Present
    <3>2. View(p, a)' = content[x]
      BY <2>7, <3>1 DEF View
    <3>3. ASSUME NEW b \in Pages \ {a} PROVE View(p, b)' = View(p, b)
      <4>1. pte'[p][b] = pte[p][b]
        BY <2>1, <2>6
      <4>2. Present(p, b) => content'[pte[p][b].page] = content[pte[p][b].page]
        BY <1>1, <2>5, UsedIsKept
      <4> QED
        BY <2>3, <4>1, <4>2 DEF View, Present, FromFile
    <3> QED
      BY <3>2, <3>3
  <2>11. SameAddress'
    <3>1. ASSUME NEW q \in Slots, NEW b \in Pages, Present(q, b)'
          PROVE  \E r \in Slots : Names(r, b, pte'[q][b].page)
      <4>1. CASE b = a /\ q \in {p, s}
        BY <2>1, <2>2, <2>6, <4>1 DEF Names, x
      <4>2. CASE ~ (b = a /\ q \in {p, s})
        BY <2>6, <3>1, <4>2 DEF Names, Present
      <4> QED
        BY <4>1, <4>2
    <3> QED
      BY <3>1, AddressShrinks
  <2>12. SameFiles
    BY <2>3, LeavingIs DEF SameFiles
  <2>13. Space[p] # NULL /\ Space[p] = [b \in Pages |-> View(p, b)] /\ Space[s] # NULL /\ Space[s][a] = content[x]
    <3>1. pc[p] \notin Gone
      BY <1>1 DEF Gone
    <3>2. pc[s] \notin Gone
      BY <2>1 DEF ViewInv, MemInv, PlacesOK, PlaceOK, Gone
    <3>3. Space[p] = [b \in Pages |-> View(p, b)] /\ Space[s] = [b \in Pages |-> View(s, b)]
      BY <2>1, <3>1, <3>2 DEF Space
    <3>4. View(s, a) = content[x]
      BY <2>1 DEF View, x
    <3> QED
      BY <2>1, <3>1, <3>2, <3>3, <3>4, SpaceIsThere
  <2>14. (IF pc'[p] \in Gone THEN NULL ELSE [b \in Pages |-> View(p, b)']) = [Space[p] EXCEPT ![a] = content[x]]
    <3>1. pc'[p] \notin Gone
      BY <1>1, <2>3 DEF Gone
    <3> HIDE DEF View
    <3>2. [b \in Pages |-> View(p, b)'] = [Space[p] EXCEPT ![a] = content[x]]
      BY <2>10, <2>13
    <3> QED
      BY <3>1, <3>2
  <2>15. FilesOK' /\ Space' = [Space EXCEPT ![p] = [Space[p] EXCEPT ![a] = content[x]]]
    BY <2>8, <2>9, <2>14, StepChanges
  <2>16. Space' = [Space EXCEPT ![p][a] = Space[s][a]]
    BY <2>13, <2>15
  <2>17. executable[p] # NULL /\ executable[p] = executable[s] /\ p \notin Leaving /\ Space[p][a] = executable[p]
    <3>1. View(p, a) = executable[p] /\ executable[p] # NULL
      BY <1>1 DEF View, FromFile
    <3> QED
      BY <1>1, <2>1, <2>13, <3>1, LeavingIs
  <2>18. Shares(p)
    BY <1>1, <2>1, <2>12, <2>13, <2>16, <2>17 DEF Shares, Processes!Share, Processes!Lives, SameFiles
  <2> QED
    BY <2>11, <2>15, <2>18 DEF Good
<1> QED
  BY <1>3, <1>4

LEMMA PageLoadedViews ==
    ASSUME ViewInv, NEW p \in Slots, PageLoaded(p)
    PROVE  Good' /\ (Unseen \/ Ends(p))
<1>1. PICK a : a = at[p]
  OBVIOUS
<1>2. PICK x : x = held[p]
  OBVIOUS
<1> DEFINE T == NewTable(p, a, 1)
           e == [page |-> x, rw |-> TRUE, dirty |-> FALSE]
<1>3. pc[p] \in {"load", "sysLoad"} /\ PlaceOK(p) /\ TypeOK /\ MemInv
  BY DEF ViewInv, MemInv, PlacesOK, PageLoaded, At
<1>4. /\ a \in Pages /\ a \in DataPages /\ ~ Present(p, a) /\ x \in Frames /\ x # LOW
      /\ executable[p] \in Files /\ executable[p] # NULL
  BY <1>1, <1>2, <1>3 DEF PlaceOK, TypeOK, Pages, Frames, LOW
<1>5. CASE NoTable(p, a) /\ FreePages = {}
  BY <1>1, <1>3, <1>5, ExitViews DEF PageLoaded, Ends, Gone
<1>6. CASE ~ (NoTable(p, a) /\ FreePages = {})
  <2>1. /\ dir' = WithTable(p, a, 1)
        /\ pte' = [pte EXCEPT ![p][a] = e]
        /\ content' = [Cleared(T) EXCEPT ![x] = executable[p]]
        /\ held' = [held EXCEPT ![p] = LOW]
        /\ pc' = [pc EXCEPT ![p] = IF @ = "load" THEN "user" ELSE "store"]
        /\ at' = [at EXCEPT ![p] = IF pc[p] = "load" THEN NULL ELSE a]
        /\ UNCHANGED <<task, executable>>
    BY <1>1, <1>2, <1>6 DEF PageLoaded
  <2>2. T \in SUBSET FreePages
    <3>1. Cardinality(FreePages) >= 1 \/ ~ NoTable(p, a)
      BY <1>3, <1>6, OneOrMore
    <3> QED
      BY <1>3, <1>4, <2>1, <3>1, NewTableStep
  <2>3. e \in Entry /\ e.page = x /\ e.rw
    BY <1>4 DEF Entry
  <2> HIDE DEF T, e
  <2>4. /\ content'[x] = executable[p]
        /\ \A f \in Frames \cup {LOW} : f # x =>
              content'[f] = content[f] \/ (f # LOW /\ \A q \in Slots : NotIn(q, f))
    <3>1. \A f \in T : f # LOW /\ f \in Frames /\ \A q \in Slots : NotIn(q, f)
      BY <1>3, <2>2, FreeIsNotIn DEF FreePages, Frames, LOW
    <3>2. \A f \in Frames \cup {LOW} : content'[f] = IF f = x THEN executable[p]
                                                     ELSE IF f \in T THEN ZERO ELSE content[f]
      BY <1>4, <2>1 DEF Cleared
    <3> QED
      BY <1>4, <3>1, <3>2
  <2>5. (\A q \in Slots \ {p} : NotIn(q, x)) /\ \A b \in Pages : ~ Names(p, b, x)
    <3>1. mem_map[x] = 1
      BY <1>2, <1>3, <1>4 DEF MemInv, KernelPagesPrivate
    <3>2. OnlyUse(x)
      BY <1>3, <1>4, <3>1, SingleUse DEF MemInv
    <3> QED
      BY <1>2, <3>2 DEF OnlyUse, NotIn
  <2>6. /\ pte'[p][a] = e /\ \A b \in Pages \ {a} : pte'[p][b] = pte[p][b]
        /\ \A q \in Slots \ {p} : pte'[q] = pte[q]
        /\ pc'[p] \in {"user", "store"} /\ (pc'[p] = "store" => at'[p] = a)
        /\ \A q \in Slots \ {p} : pc'[q] = pc[q] /\ held'[q] = held[q] /\ at'[q] = at[q]
    BY <1>3, <1>4, <2>1 DEF TypeOK
  <2>7. Aside(p)
    <3>1. ASSUME NEW q \in Slots \ {p} PROVE Untouched(q)
      BY <2>1, <2>6 DEF Untouched, SameEntries, Present
    <3>2. \A f \in Frames \cup {LOW} :
             content'[f] = content[f] \/ (f # LOW /\ \A q \in Slots \ {p} : NotIn(q, f))
      BY <1>4, <2>4, <2>5
    <3> QED
      BY <1>3, <3>1, <3>2 DEF Aside
  <2>8. ASSUME NEW b \in Pages, Present(p, b) PROVE content'[pte[p][b].page] = content[pte[p][b].page]
    <3>1. PICK f \in Frames \cup {LOW} : f = pte[p][b].page
      BY <1>3, <2>8 DEF TypeOK, Present, Entry
    <3>2. ~ NotIn(p, f) /\ f # x
      BY <2>5, <2>8, <3>1 DEF NotIn, Names
    <3> QED
      BY <2>4, <3>1, <3>2
  <2>9. FileOK(p)' /\ \A b \in Pages : View(p, b)' = View(p, b)
    <3>1. /\ pc'[p] \in {"user", "store"} /\ (pc'[p] = "store" => at'[p] = a) /\ executable'[p] = executable[p]
          /\ pte'[p][a].rw /\ pte'[p][a] \in Entry /\ pte'[p][a].page = x /\ x # LOW
      BY <1>3, <1>4, <2>1, <2>3, <2>6
    <3>2. content'[pte'[p][a].page] = IF FromFile(p, a) THEN executable[p] ELSE ZERO
      BY <1>4, <2>4, <3>1 DEF FromFile
    <3> QED
      BY <1>4, <2>6, <2>8, <3>1, <3>2, EntryAdded
  <2>10. \A q \in Slots, b \in Pages : Names(q, b, pte'[p][a].page) => b = a
    BY <2>3, <2>5, <2>6 DEF NotIn
  <2> QED
    BY <1>3, <1>4, <2>1, <2>6, <2>7, <2>9, <2>10, PageAdded DEF Gone
<1> QED
  BY <1>5, <1>6

-----------------------------------------------------------------------------
(* Writing: a copy shows what the page showed, a store is one store.       *)

\* The entry for a is made ready for a store of p.
LEMMA ReadyViews ==
    ASSUME ViewInv, NEW p \in Slots, NEW a \in Pages, Present(p, a),
           pc'[p] \in {"retry", "store"}, at'[p] = a, executable'[p] = executable[p],
           pte'[p][a] \in Entry, pte'[p][a].rw, pte'[p][a].page # LOW,
           content'[pte'[p][a].page] = content[pte[p][a].page],
           \A b \in Pages \ {a} : pte'[p][b] = pte[p][b],
           \A b \in Pages : Present(p, b) => content'[pte[p][b].page] = content[pte[p][b].page]
    PROVE  FileOK(p)' /\ \A b \in Pages : View(p, b)' = View(p, b)
<1>1. Present(p, a)'
  BY NullIsNothing DEF Present
<1>2. \A b \in Pages \ {a} : Present(p, b)' <=> Present(p, b)
  BY DEF Present
<1>3. FileOK(p)'
  BY DEF FileOK
<1>4. ASSUME NEW b \in Pages PROVE View(p, b)' = View(p, b)
  <2>1. CASE b = a
    BY <1>1, <2>1 DEF View
  <2>2. CASE b # a
    BY <1>2, <2>2 DEF View, FromFile
  <2> QED
    BY <2>1, <2>2
<1> QED
  BY <1>3, <1>4

LEMMA UnprotectViews ==
    ASSUME ViewInv, NEW p \in Slots, NEW a \in Pages, Present(p, a), ~ pte[p][a].rw,
           ~ CannotCopy(p, a), un_wp_page(p, a), pc[p] \in {"user", "retry"},
           pc'[p] \in {"retry", "store"}, at'[p] = a, UNCHANGED <<executable, held>>,
           \A q \in Slots \ {p} : pc'[q] = pc[q] /\ at'[q] = at[q]
    PROVE  Good' /\ Unseen
<1>0. TypeOK /\ MemInv
  BY DEF ViewInv, MemInv
<1>1. PICK r \in Entry : r = pte[p][a]
  BY <1>0 DEF TypeOK, Present
<1>2. PICK old \in Frames \cup {LOW} : old = r.page
  BY <1>1 DEF Entry
<1>3. /\ \A f \in Frames \cup {LOW} : content'[f] = content[f] \/ (f # LOW /\ \A q \in Slots : NotIn(q, f))
      /\ pte'[p][a] \in Entry /\ pte'[p][a].rw /\ pte'[p][a].page # LOW
      /\ content'[pte'[p][a].page] = content[old]
      /\ pte'[p][a].page = old \/ \A q \in Slots : NotIn(q, pte'[p][a].page)
      /\ \A b \in Pages \ {a} : pte'[p][b] = pte[p][b]
      /\ \A q \in Slots \ {p} : pte'[q] = pte[q]
  <2>1. CASE old # LOW /\ mem_map[old] = 1
    <3>1. pte' = [pte EXCEPT ![p][a] = [r EXCEPT !.rw = TRUE]] /\ content' = content
      BY <1>0, <1>1, <1>2, <2>1 DEF un_wp_page, TypeOK
    <3>2. LET e == [r EXCEPT !.rw = TRUE] IN e \in Entry /\ e.page = old /\ e.rw
      BY <1>2 DEF Entry
    <3>3. PICK e \in Entry : e = [r EXCEPT !.rw = TRUE] /\ e.page = old /\ e.rw
      BY <3>2
    <3>4. /\ pte'[p][a] = e /\ \A b \in Pages \ {a} : pte'[p][b] = pte[p][b]
          /\ \A q \in Slots \ {p} : pte'[q] = pte[q]
      <4>1. pte' = [pte EXCEPT ![p][a] = e]
        BY <3>1, <3>3
      <4> QED
        BY <1>0, <4>1 DEF TypeOK
    <3> QED
      BY <2>1, <3>1, <3>3, <3>4
  <2>2. CASE ~ (old # LOW /\ mem_map[old] = 1)
    <3>1. FreePages # {}
      BY <1>1, <1>2, <2>2 DEF CannotCopy
    <3>2. PICK n \in FreePages : n = get_free_page(1)
      BY <1>0, <3>1, OneFree
    <3>3. n \in Frames /\ n # LOW /\ \A q \in Slots : NotIn(q, n)
      BY <1>0, FreeIsNotIn DEF Frames, LOW
    <3>4. /\ content' = [content EXCEPT ![n] = content[old]]
          /\ pte' = [pte EXCEPT ![p][a] = [page |-> n, rw |-> TRUE, dirty |-> FALSE]]
      BY <1>1, <1>2, <2>2, <3>2 DEF un_wp_page
    <3>5. LET e == [page |-> n, rw |-> TRUE, dirty |-> FALSE] IN e \in Entry /\ e.page = n /\ e.rw
      BY <3>3 DEF Entry
    <3>6. PICK e \in Entry : e = [page |-> n, rw |-> TRUE, dirty |-> FALSE] /\ e.page = n /\ e.rw
      BY <3>5
    <3>7. /\ pte'[p][a] = e /\ \A b \in Pages \ {a} : pte'[p][b] = pte[p][b]
          /\ \A q \in Slots \ {p} : pte'[q] = pte[q]
      <4>1. pte' = [pte EXCEPT ![p][a] = e]
        BY <3>4, <3>6
      <4> QED
        BY <1>0, <4>1 DEF TypeOK
    <3>8. content'[n] = content[old] /\ \A f \in Frames \cup {LOW} : f # n => content'[f] = content[f]
      BY <1>0, <3>3, <3>4 DEF TypeOK
    <3> QED
      BY <3>3, <3>6, <3>7, <3>8
  <2> QED
    BY <2>1, <2>2
<1>4. Aside(p)
  <2>1. ASSUME NEW q \in Slots \ {p} PROVE Untouched(q)
    BY <1>3 DEF Untouched, SameEntries, Present
  <2> QED
    BY <1>3, <2>1 DEF Aside
<1>5. \A b \in Pages : Present(p, b) => content'[pte[p][b].page] = content[pte[p][b].page]
  BY <1>0, <1>3, UsedIsKept
<1>6. FileOK(p)' /\ \A b \in Pages : View(p, b)' = View(p, b)
  <2>1. content'[pte'[p][a].page] = content[pte[p][a].page] /\ executable'[p] = executable[p]
    BY <1>1, <1>2, <1>3
  <2> QED
    BY <1>3, <1>5, <2>1, ReadyViews
<1>7. FilesOK' /\ Space' = Space
  BY <1>4, <1>6, StepKept DEF Gone
<1>8. SameAddress'
  <2> DEFINE x == IF pte'[p][a].page = old THEN LOW ELSE pte'[p][a].page
  <2>1. x = LOW \/ \A q \in Slots, b \in Pages : Names(q, b, x) => b = a
    BY <1>3 DEF NotIn
  <2>2. ASSUME NEW q \in Slots, NEW b \in Pages, Present(q, b)', pte'[q][b].page # LOW
        PROVE  (\E s \in Slots : Names(s, b, pte'[q][b].page)) \/ (pte'[q][b].page = x /\ b = a)
    <3>1. CASE q = p /\ b = a
      BY <1>1, <1>2, <3>1 DEF Names
    <3>2. CASE ~ (q = p /\ b = a)
      BY <1>3, <2>2, <3>2 DEF Names, Present
    <3> QED
      BY <3>1, <3>2
  <2> HIDE DEF x
  <2> QED
    BY <2>1, <2>2, AddressKept DEF Addressed
<1>9. SameFiles
  BY LeavingIs DEF SameFiles
<1> QED
  BY <1>7, <1>8, <1>9 DEF Good, Unseen

LEMMA WriteFaultViews ==
    ASSUME ViewInv, NEW p \in Slots, NEW a \in Pages, do_wp_page(p, a)
    PROVE  Good' /\ (Unseen \/ Ends(p))
<1>1. TypeOK /\ Present(p, a) /\ ~ pte[p][a].rw
  BY DEF ViewInv, MemInv, do_wp_page
<1>2. pc[p] \in {"user", "retry"}
  BY DEF do_wp_page, Writing, At
<1>3. CASE CannotCopy(p, a)
  BY <1>2, <1>3, ExitViews DEF do_wp_page, Ends, Gone
<1>4. CASE ~ CannotCopy(p, a)
  <2>1. /\ un_wp_page(p, a) /\ pc'[p] = "retry" /\ at'[p] = a /\ UNCHANGED <<executable, held>>
        /\ \A q \in Slots \ {p} : pc'[q] = pc[q] /\ at'[q] = at[q]
    BY <1>1, <1>4 DEF do_wp_page, TypeOK
  <2> QED
    BY <1>1, <1>2, <1>4, <2>1, UnprotectViews
<1> QED
  BY <1>3, <1>4

LEMMA VerifyAreaViews ==
    ASSUME ViewInv, NEW p \in Slots, NEW a \in Pages, verify_area(p, a)
    PROVE  Good' /\ (Unseen \/ Ends(p))
<1>1. TypeOK /\ MemInv /\ pc[p] = "user"
  BY DEF ViewInv, MemInv, verify_area, At
<1> DEFINE protected == Present(p, a) /\ ~ pte[p][a].rw
<1>2. CASE protected /\ CannotCopy(p, a)
  BY <1>1, <1>2, ExitViews DEF verify_area, Gone
<1>3. CASE ~ (protected /\ CannotCopy(p, a))
  <2>1. /\ pc'[p] = "store" /\ at'[p] = a /\ UNCHANGED <<executable, held>>
        /\ \A q \in Slots \ {p} : pc'[q] = pc[q] /\ at'[q] = at[q]
        /\ IF protected THEN un_wp_page(p, a) ELSE UNCHANGED <<content, pte>>
    BY <1>1, <1>3 DEF verify_area, TypeOK
  <2>2. CASE protected
    BY <1>1, <1>3, <2>1, <2>2, UnprotectViews
  <2>3. CASE ~ protected
    <3>1. UNCHANGED <<content, pte, executable>>
      BY <2>1, <2>3
    <3>2. Aside(p) /\ SameEntries(p)
      BY <1>1, <2>1, <3>1 DEF Aside, Untouched, SameEntries, Present
    <3>3. Present(p, a) => pte[p][a].rw /\ pte[p][a].page # LOW
      BY <1>1, <2>3 DEF MemInv, WritableIsPrivate
    <3>4. FileOK(p)'
      BY <2>1, <3>1, <3>3 DEF FileOK, Present
    <3>5. \A b \in Pages : View(p, b)' = View(p, b)
      BY <3>1 DEF View, Present, FromFile
    <3>6. FilesOK' /\ Space' = Space
      BY <1>1, <2>1, <3>2, <3>4, <3>5, StepKept DEF Gone
    <3>7. SameAddress'
      BY <3>2, AddressSame DEF Aside, Untouched
    <3>8. SameFiles
      BY <1>1, <2>1, LeavingIs DEF SameFiles
    <3> QED
      BY <3>6, <3>7, <3>8 DEF Good, Unseen
  <2> QED
    BY <2>2, <2>3
<1> QED
  BY <1>2, <1>3

\* A store of p to its page a.
Stores(p) == \E a \in Pages : Processes!Store(p, a) \/ Processes!KernelStore(p, a)

LEMMA StoreViews ==
    ASSUME ViewInv, NEW p \in Slots, NEW a \in Pages, StoreTo(p, a), Present(p, a), pte[p][a].rw,
           pc[p] \in {"user", "retry", "store"}
    PROVE  Good' /\ Stores(p)
<1>1. TypeOK /\ MemInv
  BY DEF ViewInv, MemInv
<1>2. PICK x \in Frames : x = pte[p][a].page /\ mem_map[x] = 1
  BY <1>1 DEF TypeOK, Present, MemInv, WritableIsPrivate, Entry
<1>3. x # LOW /\ (\A q \in Slots \ {p} : NotIn(q, x)) /\ \A b \in Pages \ {a} : ~ Names(p, b, x)
  <2>1. OnlyUse(x)
    BY <1>1, <1>2, SingleUse DEF MemInv
  <2>2. Names(p, a, x)
    BY <1>2 DEF Names
  <2> QED
    BY <1>2, <2>1, <2>2 DEF OnlyUse, NotIn, Frames, LOW
<1>4. /\ content'[x] = p /\ \A f \in Frames \cup {LOW} : f # x => content'[f] = content[f]
      /\ pc'[p] = "user" /\ \A q \in Slots \ {p} : pc'[q] = pc[q] /\ at'[q] = at[q]
      /\ UNCHANGED <<executable, held>>
  BY <1>1, <1>2 DEF StoreTo, TypeOK
<1>5. /\ Present(p, a)' /\ pte'[p][a].page = x
      /\ \A b \in Pages \ {a} : pte'[p][b] = pte[p][b]
      /\ \A q \in Slots \ {p} : pte'[q] = pte[q]
  <2>1. pte[p][a] \in Entry
    BY <1>1 DEF TypeOK, Present
  <2>2. LET e == [pte[p][a] EXCEPT !.dirty = TRUE] IN e \in Entry /\ e.page = x
    BY <1>2, <2>1 DEF Entry
  <2>3. PICK e \in Entry : e = [pte[p][a] EXCEPT !.dirty = TRUE] /\ e.page = x
    BY <2>2
  <2>4. pte' = [pte EXCEPT ![p][a] = e]
    BY <1>1, <2>3 DEF StoreTo, TypeOK
  <2>5. /\ pte'[p][a] = e /\ \A b \in Pages \ {a} : pte'[p][b] = pte[p][b]
        /\ \A q \in Slots \ {p} : pte'[q] = pte[q]
    BY <1>1, <2>4 DEF TypeOK
  <2> QED
    BY <2>3, <2>5, NullIsNothing DEF Present
<1>6. Aside(p)
  <2>1. ASSUME NEW q \in Slots \ {p} PROVE Untouched(q)
    BY <1>4, <1>5 DEF Untouched, SameEntries, Present
  <2>2. \A f \in Frames \cup {LOW} :
           content'[f] = content[f] \/ (f # LOW /\ \A q \in Slots \ {p} : NotIn(q, f))
    BY <1>3, <1>4
  <2> QED
    BY <2>1, <2>2 DEF Aside
<1>7. ASSUME NEW b \in Pages \ {a}
      PROVE  /\ Present(p, b)' <=> Present(p, b)
             /\ Present(p, b) => content'[pte'[p][b].page] = content[pte[p][b].page]
  <2>1. Present(p, b)' <=> Present(p, b)
    BY <1>5 DEF Present
  <2>2. ASSUME Present(p, b) PROVE content'[pte'[p][b].page] = content[pte[p][b].page]
    <3>1. PICK f \in Frames \cup {LOW} : f = pte[p][b].page
      BY <1>1, <2>2 DEF TypeOK, Present, Entry
    <3>2. f # x
      BY <1>3, <2>2, <3>1 DEF Names
    <3> QED
      BY <1>4, <1>5, <3>1, <3>2
  <2> QED
    BY <2>1, <2>2
<1>8. FileOK(p)'
  BY <1>4 DEF FileOK
<1>9. \A b \in Pages : View(p, b)' = IF b = a THEN p ELSE View(p, b)
  <2>1. View(p, a)' = p
    BY <1>4, <1>5 DEF View
  <2>2. \A b \in Pages \ {a} : View(p, b)' = View(p, b)
    BY <1>4, <1>7 DEF View, FromFile
  <2> QED
    BY <2>1, <2>2
<1>10. Space[p] # NULL /\ Space[p] = [b \in Pages |-> View(p, b)]
  <2>1. pc[p] \notin Gone
    BY DEF Gone
  <2> QED
    BY <2>1, SpaceIsThere DEF Space
<1>11. (IF pc'[p] \in Gone THEN NULL ELSE [b \in Pages |-> View(p, b)']) = [Space[p] EXCEPT ![a] = p]
  <2>1. pc'[p] \notin Gone
    BY <1>4 DEF Gone
  <2> HIDE DEF View
  <2>2. [b \in Pages |-> View(p, b)'] = [Space[p] EXCEPT ![a] = p]
    BY <1>9, <1>10
  <2> QED
    BY <2>1, <2>2
<1>12. FilesOK' /\ Space' = [Space EXCEPT ![p] = [Space[p] EXCEPT ![a] = p]]
  BY <1>6, <1>8, <1>11, StepChanges
<1>13. [Space EXCEPT ![p] = [Space[p] EXCEPT ![a] = p]] = [Space EXCEPT ![p][a] = p]
  OBVIOUS
<1>14. SameAddress'
  <2>1. \A q \in Slots : SameEntries(q)
    BY <1>2, <1>5 DEF SameEntries, Present
  <2> QED
    BY <2>1, AddressSame
<1>15. SameFiles /\ p \notin Leaving
  BY <1>4, LeavingIs DEF SameFiles
<1> QED
  BY <1>10, <1>12, <1>13, <1>14, <1>15 DEF Good, Stores, Processes!Store, Processes!Lives, SameFiles

LEMMA WriteViews == ASSUME ViewInv, NEW p \in Slots, NEW a \in Pages, Write(p, a) PROVE Good' /\ Stores(p)
<1>1. pc[p] \in {"user", "retry", "store"}
  BY DEF Write, Writing, At
<1> QED
  BY <1>1, StoreViews DEF Write

\* The kernel stores to a page that is not private: it is a page of the file, and
\* whoever uses it has it at the same address and sees the same there.
LEMMA KernelStoreViews ==
    ASSUME ViewInv, NEW p \in Slots, NEW a \in Pages, StoreTo(p, a), Present(p, a), ~ pte[p][a].rw,
           pc[p] = "store", at[p] = a
    PROVE  Good' /\ Stores(p)
<1>1. TypeOK /\ MemInv /\ FileOK(p)
  BY DEF ViewInv, MemInv, FilesOK
<1>2. PICK x \in Frames : x = pte[p][a].page /\ x # LOW
  BY <1>1 DEF TypeOK, Present, Entry, FileOK
<1>3. FromFile(p, a) /\ executable[p] # NULL /\ a \in DataPages
  BY <1>1 DEF FileOK, FromFile
<1>4. /\ content'[x] = p /\ \A f \in Frames \cup {LOW} : f # x => content'[f] = content[f]
      /\ pc'[p] = "user" /\ \A q \in Slots \ {p} : pc'[q] = pc[q] /\ at'[q] = at[q]
      /\ UNCHANGED <<executable, held>>
  BY <1>1, <1>2 DEF StoreTo, TypeOK
<1>5. ASSUME NEW q \in Slots, NEW b \in Pages
      PROVE  /\ Present(q, b)' <=> Present(q, b)
             /\ Present(q, b) => pte'[q][b].page = pte[q][b].page /\ pte'[q][b].rw = pte[q][b].rw
  <2>1. pte[p][a] \in Entry
    BY <1>1 DEF TypeOK, Present
  <2>2. LET e == [pte[p][a] EXCEPT !.dirty = TRUE] IN
            e \in Entry /\ e.page = pte[p][a].page /\ e.rw = pte[p][a].rw
    BY <2>1 DEF Entry
  <2>3. PICK e \in Entry : /\ e = [pte[p][a] EXCEPT !.dirty = TRUE]
                           /\ e.page = pte[p][a].page /\ e.rw = pte[p][a].rw
    BY <2>2
  <2>4. pte' = [pte EXCEPT ![p][a] = e]
    BY <1>1, <2>3 DEF StoreTo, TypeOK
  <2>5. pte'[q][b] = IF q = p /\ b = a THEN e ELSE pte[q][b]
    BY <1>1, <2>4 DEF TypeOK
  <2> QED
    BY <2>3, <2>5, NullIsNothing DEF Present
<1>6. ASSUME NEW q \in Slots, NEW b \in Pages, Names(q, b, x) PROVE b = a
  BY <1>2, <1>6 DEF ViewInv, SameAddress, Names
<1>7. \A q \in Slots : held[q] # x
  <2>1. ASSUME NEW q \in Slots, held[q] = x PROVE FALSE
    <3>1. mem_map[x] = 1
      BY <1>1, <1>2, <2>1 DEF MemInv, KernelPagesPrivate
    <3>2. OnlyUse(x)
      BY <1>1, <3>1, SingleUse DEF MemInv
    <3> QED
      BY <1>2, <2>1, <3>2 DEF OnlyUse, Names
  <2> QED
    BY <2>1
<1>8. ASSUME NEW q \in Slots, NEW b \in Pages
      PROVE  View(q, b)' = IF Names(q, a, x) /\ b = a THEN p ELSE View(q, b)
  <2>1. CASE ~ Present(q, b)
    <3>1. View(q, b)' = View(q, b)
      BY <1>4, <1>5, <2>1 DEF View, FromFile
    <3> QED
      BY <2>1, <3>1 DEF Names
  <2>2. CASE Present(q, b)
    <3>1. View(q, b) = content[pte[q][b].page] /\ View(q, b)' = content'[pte[q][b].page]
      BY <1>5, <2>2 DEF View
    <3>2. pte[q][b].page \in Frames \cup {LOW}
      BY <1>1, <2>2 DEF TypeOK, Present, Entry
    <3>3. CASE pte[q][b].page = x
      <4>1. Names(q, b, x) /\ b = a
        BY <1>6, <2>2, <3>3 DEF Names
      <4> QED
        BY <1>4, <3>1, <3>3, <4>1
    <3>4. CASE pte[q][b].page # x
      <4>1. ~ (Names(q, a, x) /\ b = a)
        BY <3>4 DEF Names
      <4> QED
        BY <1>4, <3>1, <3>2, <3>4, <4>1
    <3> QED
      BY <3>3, <3>4
  <2> QED
    BY <2>1, <2>2
<1>9. FilesOK'
  <2> SUFFICES ASSUME NEW q \in Slots PROVE FileOK(q)'
    BY DEF FilesOK
  <2>1. CASE q = p
    BY <1>4, <2>1 DEF FileOK
  <2>2. CASE q # p
    <3>1. FileOK(q) /\ (pc[q] = "store" => at[q] \in Pages) /\ held[q] \in Frames \cup {LOW}
      BY <1>1 DEF ViewInv, FilesOK, MemInv, PlacesOK, PlaceOK, TypeOK
    <3>2. content'[held[q]] = content[held[q]]
      BY <1>4, <1>7, <3>1
    <3>3. pc'[q] = pc[q] /\ at'[q] = at[q] /\ UNCHANGED <<executable, held>>
      BY <1>4, <2>2
    <3>4. ASSUME pc'[q] = "store", Present(q, at[q])'
          PROVE  pte'[q][at[q]].page # LOW /\ (pte'[q][at[q]].rw \/ FromFile(q, at[q]))
      BY <1>5, <3>1, <3>3, <3>4 DEF FileOK
    <3> QED
      BY <3>1, <3>2, <3>3, <3>4 DEF FileOK, FromFile
  <2> QED
    BY <2>1, <2>2
<1>10. SameAddress'
  <2>1. \A q \in Slots : SameEntries(q)
    BY <1>5 DEF SameEntries
  <2> QED
    BY <2>1, AddressSame
<1>11. SameFiles /\ p \notin Leaving
  BY <1>4, LeavingIs DEF SameFiles
<1> DEFINE S == {q \in Slots : Names(q, a, x)}
<1>12. ASSUME NEW q \in Slots, q \in S
       PROVE  pc[q] \notin Gone /\ Space[q] # NULL /\ Space[q] = [b \in Pages |-> View(q, b)] /\ View(q, a) = content[x]
  <2>1. pc[q] \notin Gone
    BY <1>1, <1>12 DEF MemInv, PlacesOK, PlaceOK, Gone, Names
  <2>2. View(q, a) = content[x]
    BY <1>12 DEF Names, View
  <2> QED
    BY <2>1, <2>2, SpaceIsThere DEF Space
<1>13. p \in S
  BY <1>2 DEF Names
<1>14. Space[p] # NULL /\ \A q \in S : Space[q] # NULL /\ Space[q][a] = Space[p][a]
  <2> HIDE DEF View, S
  <2> QED
    BY <1>12, <1>13 DEF S
<1>15. Space' = [q \in Slots |-> IF q \in S \cup {p} THEN [Space[q] EXCEPT ![a] = p] ELSE Space[q]]
  <2> DEFINE two(q) == IF pc'[q] \in Gone THEN NULL ELSE [b \in Pages |-> View(q, b)']
             three(q) == IF q \in S \cup {p} THEN [Space[q] EXCEPT ![a] = p] ELSE Space[q]
  <2>1. ASSUME NEW q \in Slots PROVE two(q) = three(q)
    <3>1. (pc'[q] \in Gone <=> pc[q] \in Gone)
      BY <1>4 DEF Gone
    <3>2. CASE q \in S
      <4>1. pc'[q] \notin Gone /\ Space[q] = [b \in Pages |-> View(q, b)]
        BY <1>12, <3>1, <3>2
      <4>2. \A b \in Pages : View(q, b)' = IF b = a THEN p ELSE View(q, b)
        BY <1>8, <3>2
      <4> HIDE DEF View, S
      <4>3. [b \in Pages |-> View(q, b)'] = [Space[q] EXCEPT ![a] = p]
        BY <4>1, <4>2
      <4> QED
        BY <3>2, <4>1, <4>3
    <3>3. CASE q \notin S
      <4>1. \A b \in Pages : View(q, b)' = View(q, b)
        BY <1>8, <3>3
      <4>2. Space[q] = IF pc[q] \in Gone THEN NULL ELSE [b \in Pages |-> View(q, b)]
        BY DEF Space
      <4> HIDE DEF View, S
      <4>3. [b \in Pages |-> View(q, b)'] = [b \in Pages |-> View(q, b)]
        BY <4>1
      <4> QED
        BY <1>13, <3>1, <3>3, <4>2, <4>3
    <3> QED
      BY <3>2, <3>3
  <2>2. Space' = [q \in Slots |-> two(q)]
    BY DEF Space
  <2> HIDE DEF two, three
  <2>3. Space' = [q \in Slots |-> three(q)]
    BY <2>1, <2>2
  <2> QED
    BY <2>3 DEF three
<1> HIDE DEF S
<1>16. S \in SUBSET Processes!Sees(p, a)
  BY <1>14 DEF S, Processes!Sees, Processes!Slots, Slots
<1>17. Processes!KernelStore(p, a)
  BY <1>3, <1>11, <1>14, <1>15, <1>16
     DEF Processes!KernelStore, Processes!Lives, Processes!Slots, Slots, SameFiles
<1> QED
  BY <1>9, <1>10, <1>17 DEF Good, Stores

LEMMA PutFsViews == ASSUME ViewInv, NEW p \in Slots, put_fs(p) PROVE Good' /\ Stores(p)
<1>1. pc[p] = "store" /\ PlaceOK(p)
  BY DEF put_fs, At, ViewInv, MemInv, PlacesOK
<1>2. PICK a \in Pages : a = at[p]
  BY <1>1 DEF PlaceOK
<1>3. StoreTo(p, a) /\ Present(p, a)
  BY <1>2 DEF put_fs
<1> QED
  BY <1>1, <1>2, <1>3, StoreViews, KernelStoreViews

-----------------------------------------------------------------------------
(* Exec and fork.                                                          *)

\* p has another file, and shows the pages that it had.
Leaves(p) == \E file \in Files : Processes!Leave(p, file)

LEMMA ExecSwitchViews == ASSUME ViewInv, NEW p \in Slots, ExecSwitch(p) PROVE Good' /\ Leaves(p)
<1>1. TypeOK /\ FileOK(p) /\ PlaceOK(p) /\ pc[p] = "exec"
  BY DEF ViewInv, MemInv, FilesOK, PlacesOK, ExecSwitch, At
<1>2. PICK file \in Files : file = at[p]
  BY <1>1 DEF PlaceOK
<1>3. /\ executable' = [executable EXCEPT ![p] = file] /\ executable'[p] = file /\ file # NULL
      /\ pc'[p] = "close" /\ UNCHANGED <<content, pte, held>>
      /\ \A q \in Slots \ {p} : executable'[q] = executable[q] /\ pc'[q] = pc[q] /\ at'[q] = at[q]
  BY <1>1, <1>2, NullIsNothing DEF ExecSwitch, TypeOK
<1>4. Aside(p)
  BY <1>1, <1>3 DEF Aside, Untouched, SameEntries, Present
<1>5. FileOK(p)'
  BY <1>1, <1>3 DEF FileOK
<1> DEFINE D == {a \in DataPages : ~ Present(p, a)}
<1>6. \A a \in Pages : View(p, a)' = IF a \in D THEN file ELSE View(p, a)
  BY <1>3 DEF View, Present, FromFile
<1>7. Space[p] # NULL /\ Space[p] = [a \in Pages |-> View(p, a)]
  <2>1. pc[p] \notin Gone
    BY <1>1 DEF Gone
  <2> QED
    BY <2>1, SpaceIsThere DEF Space
<1> HIDE DEF D
<1>8. (IF pc'[p] \in Gone THEN NULL ELSE [a \in Pages |-> View(p, a)'])
         = [a \in Pages |-> IF a \in D THEN file ELSE Space[p][a]]
  <2>1. pc'[p] \notin Gone
    BY <1>3 DEF Gone
  <2> HIDE DEF View
  <2>2. [a \in Pages |-> View(p, a)'] = [a \in Pages |-> IF a \in D THEN file ELSE Space[p][a]]
    BY <1>6, <1>7
  <2> QED
    BY <2>1, <2>2
<1>9. FilesOK' /\ Space' = [Space EXCEPT ![p] = [a \in Pages |-> IF a \in D THEN file ELSE Space[p][a]]]
  BY <1>4, <1>5, <1>8, StepChanges
<1>10. SameAddress'
  BY <1>3, AddressSame DEF SameEntries, Present
<1>11. p \notin Leaving /\ Leaving' = Leaving \cup {p}
  BY <1>1, <1>3 DEF Leaving
<1>12. Processes!Leave(p, file)
  <2>1. D \in SUBSET DataPages
    BY DEF D
  <2> QED
    BY <1>3, <1>7, <1>9, <1>11, <2>1 DEF Processes!Leave, Processes!Lives, Processes!Pages, Pages
<1> QED
  BY <1>9, <1>10, <1>12 DEF Good, Leaves

LEMMA SingleUseAfter ==
    ASSUME NEW f \in Frames PROVE TypeOK' /\ CountIsUses' /\ mem_map'[f] = 1 => OnlyUse(f)'
<1>1. TypeOK /\ CountIsUses /\ mem_map[f] = 1 => OnlyUse(f)
  BY SingleUse
<1>2. (TypeOK /\ CountIsUses /\ mem_map[f] = 1 => OnlyUse(f))'
  BY <1>1, PTL
<1> QED
  BY <1>2

LEMMA ExecDoneViews == ASSUME ViewInv, NEW p \in Slots, ExecDone(p) PROVE Good' /\ Processes!Enter(p)
<1>1. TypeOK /\ MemInv /\ FileOK(p) /\ PlaceOK(p) /\ pc[p] = "close"
  BY DEF ViewInv, MemInv, FilesOK, PlacesOK, ExecDone, At
<1>2. PICK h \in Frames : h = held[p] /\ h # LOW
  BY <1>1 DEF PlaceOK, TypeOK
<1>3. PICK new \in Frames :
         /\ content' = Cleared({new}) /\ dir'[p][2] = new
         /\ pte' = [pte EXCEPT ![p] = [a \in Pages |-> IF a = Stack
                      THEN [page |-> held[p], rw |-> TRUE, dirty |-> TRUE] ELSE NULL]]
         /\ mem_map'[new] = 1
  <2>1. PICK new \in Frames :
           /\ content' = Cleared({new})
           /\ mem_map' = [f \in Frames |-> IF f = new THEN 1 ELSE mem_map[f] - Uses(p, f)]
           /\ dir' = [dir EXCEPT ![p] = [d \in Dirs |-> IF d = 2 THEN new ELSE LOW]]
           /\ pte' = [pte EXCEPT ![p] = [a \in Pages |-> IF a = Stack
                        THEN [page |-> held[p], rw |-> TRUE, dirty |-> TRUE] ELSE NULL]]
    BY <1>1, ExecDoneStep
  <2>2. mem_map'[new] = 1 /\ dir'[p][2] = new
    BY <1>1, <2>1 DEF TypeOK, Dirs
  <2> QED
    BY <2>1, <2>2
<1> DEFINE e == [page |-> h, rw |-> TRUE, dirty |-> TRUE]
<1>4. e \in Entry /\ e.page = h /\ e.dirty /\ e # NULL
  <2>1. e \in Entry /\ e.page = h /\ e.dirty
    BY DEF Entry
  <2> QED
    BY <2>1, NullIsNothing
<1>5. pte' = [pte EXCEPT ![p] = [a \in Pages |-> IF a = Stack THEN e ELSE NULL]]
  BY <1>2, <1>3
<1> HIDE DEF e
<1>6. /\ pte'[p][Stack] = e /\ \A a \in Pages \ {Stack} : pte'[p][a] = NULL
      /\ \A q \in Slots \ {p} : pte'[q] = pte[q]
      /\ pc'[p] = "user" /\ executable' = executable
      /\ \A q \in Slots \ {p} : pc'[q] = pc[q] /\ held'[q] = held[q] /\ at'[q] = at[q]
  <2>1. Stack \in Pages
    BY DEF Pages
  <2>2. /\ pte'[p][Stack] = e /\ \A a \in Pages \ {Stack} : pte'[p][a] = NULL
        /\ \A q \in Slots \ {p} : pte'[q] = pte[q]
    BY <1>1, <1>5, <2>1 DEF TypeOK
  <2>3. /\ pc'[p] = "user" /\ executable' = executable
        /\ \A q \in Slots \ {p} : pc'[q] = pc[q] /\ held'[q] = held[q] /\ at'[q] = at[q]
    BY <1>1 DEF TypeOK, ExecDone
  <2> QED
    BY <2>2, <2>3
<1>7. Present(p, Stack)' /\ Names(p, Stack, h)' /\ \A a \in Pages \ {Stack} : ~ Present(p, a)'
  BY <1>4, <1>6 DEF Names, Present
<1>8. OnlyUse(new)'
  BY <1>1, <1>3, ExecDoneKeepsInv, SingleUseAfter DEF MemInv
<1>9. new # LOW /\ new # h /\ \A q \in Slots \ {p} : NotIn(q, new)
  <2>1. new # LOW /\ 2 \in Dirs /\ Stack \in Pages
    BY DEF Frames, LOW, Dirs, Pages
  <2>2. new # h
    BY <1>3, <1>7, <1>8, <2>1 DEF OnlyUse
  <2>3. ASSUME NEW q \in Slots \ {p} PROVE NotIn(q, new)
    <3>1. held'[q] # new /\ \A a \in Pages : ~ Names(q, a, new)'
      BY <1>3, <1>8, <2>1 DEF OnlyUse
    <3> QED
      BY <1>6, <3>1 DEF NotIn, Names, Present
  <2> QED
    BY <2>1, <2>2, <2>3
<1>10. content'[h] = content[h] /\ \A f \in Frames \cup {LOW} : f # new => content'[f] = content[f]
  BY <1>3, <1>9 DEF Cleared
<1>11. Aside(p)
  <2>1. ASSUME NEW q \in Slots \ {p} PROVE Untouched(q)
    BY <1>6 DEF Untouched, SameEntries, Present
  <2> QED
    BY <1>1, <1>9, <1>10, <2>1 DEF Aside
<1>12. FileOK(p)'
  BY <1>6 DEF FileOK
<1>13. \A a \in Pages : View(p, a)' = IF a \in DataPages THEN executable[p] ELSE IF a = Stack THEN p ELSE ZERO
  <2>1. content'[h] = p /\ executable[p] # NULL
    BY <1>1, <1>2, <1>10 DEF FileOK
  <2>2. View(p, Stack)' = p
    BY <1>4, <1>6, <1>7, <2>1 DEF View
  <2>3. \A a \in Pages \ {Stack} : View(p, a)' = IF a \in DataPages THEN executable[p] ELSE ZERO
    BY <1>6, <1>7, <2>1 DEF View, FromFile
  <2> QED
    BY <2>2, <2>3, StackIsItsOwn
<1>14. (IF pc'[p] \in Gone THEN NULL ELSE [a \in Pages |-> View(p, a)']) = Processes!Image(executable[p], p)
  <2>1. pc'[p] \notin Gone
    BY <1>6 DEF Gone
  <2> HIDE DEF View
  <2>2. [a \in Pages |-> View(p, a)'] = Processes!Image(executable[p], p)
    BY <1>13 DEF Processes!Image, Processes!Pages, Pages
  <2> QED
    BY <2>1, <2>2
<1>15. FilesOK' /\ Space' = [Space EXCEPT ![p] = Processes!Image(executable[p], p)]
  BY <1>11, <1>12, <1>14, StepChanges
<1>16. SameAddress'
  <2>1. \A q \in Slots, b \in Pages : Names(q, b, h) => b = Stack
    <3>1. mem_map[h] = 1
      BY <1>1, <1>2 DEF MemInv, KernelPagesPrivate
    <3>2. OnlyUse(h)
      BY <1>1, <3>1, SingleUse DEF MemInv
    <3> QED
      BY <1>2, <3>2 DEF OnlyUse
  <2>2. ASSUME NEW q \in Slots, NEW b \in Pages, Present(q, b)'
        PROVE  (\E s \in Slots : Names(s, b, pte'[q][b].page)) \/ (pte'[q][b].page = h /\ b = Stack)
    <3>1. CASE q = p
      BY <1>4, <1>6, <1>7, <2>2, <3>1
    <3>2. CASE q # p
      BY <1>6, <2>2, <3>2 DEF Names, Present
    <3> QED
      BY <3>1, <3>2
  <2>3. \A q \in Slots, b \in Pages :
           Present(q, b)' /\ pte'[q][b].page # LOW =>
              \/ \E s \in Slots : Names(s, b, pte'[q][b].page)
              \/ pte'[q][b].page = h /\ b = Stack
    BY <2>2
  <2>4. Stack \in Pages
    BY DEF Pages
  <2>5. Addressed(h, Stack)
    BY <2>1, <2>3 DEF Addressed
  <2> QED
    BY <2>4, <2>5, AddressKept
<1>17. p \in Leaving /\ Leaving' = Leaving \ {p}
  BY <1>1, <1>6 DEF Leaving
<1> QED
  BY <1>6, <1>15, <1>16, <1>17 DEF Good, Processes!Enter

\* A process gets a copy of the space of p.
Forks(p) == \E q \in Slots : Processes!Fork(p, q)

LEMMA ForkViews == ASSUME ViewInv, NEW p \in Slots, Fork(p) PROVE Good' /\ Forks(p)
<1> DEFINE TableFor(d) == get_free_page(1 + Cardinality({c \in TablesOf(p) : c <= d}))
           new == {get_free_page(1)} \cup {TableFor(d) : d \in TablesOf(p)}
           child == [a \in Pages |-> IF Present(p, a) THEN [pte[p][a] EXCEPT !.rw = FALSE] ELSE NULL]
           father == ProtectIn(p, Dirs)
<1>1. TypeOK /\ MemInv /\ pc[p] = "user"
  BY DEF ViewInv, MemInv, Fork, At
<1>2. PICK q \in Slots : q = Min(EmptySlots) /\ pc[q] = "none" /\ q # p
  <2>1. EmptySlots \in SUBSET Nat /\ EmptySlots # {}
    BY DEF EmptySlots, Slots, Fork
  <2>2. Min(EmptySlots) \in EmptySlots
    <3> HIDE DEF EmptySlots
    <3> QED
      BY <2>1, MinIsLeast
  <2> QED
    BY <1>1, <2>2 DEF EmptySlots
<1>3. /\ pte' = [pte EXCEPT ![p] = father, ![q] = child]
      /\ content' = Cleared(new) /\ executable' = [executable EXCEPT ![q] = executable[p]]
      /\ pc' = [pc EXCEPT ![q] = "user"] /\ UNCHANGED <<held, at>>
  BY <1>2 DEF Fork
<1>4. new \in SUBSET FreePages
  <2>1. /\ get_free_page(1) \in FreePages
        /\ \A d \in TablesOf(p) : TableFor(d) \in FreePages
    BY <1>1, ForkPages DEF Fork
  <2> HIDE DEF TableFor
  <2> QED
    BY <2>1
<1> HIDE DEF new, TableFor
<1>5. \A a \in Pages :
         /\ (father[a] # NULL <=> Present(p, a)) /\ (child[a] # NULL <=> Present(p, a))
         /\ Present(p, a) => /\ father[a].page = pte[p][a].page /\ child[a].page = pte[p][a].page
  <2> SUFFICES ASSUME NEW a \in Pages
               PROVE  /\ (father[a] # NULL <=> Present(p, a)) /\ (child[a] # NULL <=> Present(p, a))
                      /\ Present(p, a) =>
                            /\ father[a].page = pte[p][a].page /\ child[a].page = pte[p][a].page
    OBVIOUS
  <2>1. CASE Present(p, a)
    <3> DEFINE low == [pte[p][a] EXCEPT !.rw = FALSE]
    <3>1. pte[p][a] \in Entry
      BY <1>1, <2>1 DEF TypeOK, Present
    <3>2. low \in Entry /\ low.page = pte[p][a].page
      BY <3>1 DEF Entry
    <3>3. child[a] = low /\ (father[a] = low \/ father[a] = pte[p][a])
      BY <2>1 DEF ProtectIn
    <3> HIDE DEF low, child, father
    <3> QED
      BY <2>1, <3>1, <3>2, <3>3, NullIsNothing
  <2>2. CASE ~ Present(p, a)
    BY <2>2 DEF ProtectIn, Present
  <2> QED
    BY <2>1, <2>2
<1> HIDE DEF child, father
<1>6. /\ pte'[p] = father /\ pte'[q] = child /\ \A x \in Slots \ {p, q} : pte'[x] = pte[x]
      /\ pc'[q] = "user" /\ executable'[q] = executable[p]
      /\ \A x \in Slots \ {q} : executable'[x] = executable[x] /\ pc'[x] = pc[x]
  BY <1>1, <1>2, <1>3 DEF TypeOK
<1>7. /\ \A f \in Frames \cup {LOW} : content'[f] = content[f] \/ (f # LOW /\ \A x \in Slots : NotIn(x, f))
      /\ \A a \in Pages : Present(p, a) => content'[pte[p][a].page] = content[pte[p][a].page]
  <2>1. \A f \in Frames \cup {LOW} : content'[f] = content[f] \/ (f # LOW /\ \A x \in Slots : NotIn(x, f))
    BY <1>1, <1>3, <1>4, ClearedIs
  <2> QED
    BY <1>1, <2>1, UsedIsKept
<1>8. Aside(q)
  <2>1. ASSUME NEW x \in Slots \ {q} PROVE Untouched(x)
    <3>1. CASE x = p
      BY <1>1, <1>2, <1>3, <1>5, <1>6, <3>1 DEF Untouched, SameEntries, Present
    <3>2. CASE x # p
      BY <1>3, <1>6, <3>2 DEF Untouched, SameEntries, Present
    <3> QED
      BY <3>1, <3>2
  <2> QED
    BY <1>7, <2>1 DEF Aside
<1>9. \A a \in Pages : /\ Present(q, a)' <=> Present(p, a)
                       /\ Present(p, a) => /\ pte'[q][a].page = pte[p][a].page
                                           /\ content'[pte'[q][a].page] = content[pte[p][a].page]
  BY <1>5, <1>6, <1>7 DEF Present
<1>10. FileOK(q)'
  BY <1>6 DEF FileOK
<1>11. \A a \in Pages : View(q, a)' = View(p, a)
  BY <1>1, <1>6, <1>9 DEF View, FromFile
<1>12. Space[p] = [a \in Pages |-> View(p, a)] /\ Space[p] # NULL /\ Space[q] = NULL
  <2>1. pc[p] \notin Gone /\ pc[q] \in Gone
    BY <1>1, <1>2 DEF Gone
  <2> QED
    BY <2>1, SpaceIsThere DEF Space
<1>13. (IF pc'[q] \in Gone THEN NULL ELSE [a \in Pages |-> View(q, a)']) = Space[p]
  <2>1. pc'[q] \notin Gone
    BY <1>6 DEF Gone
  <2> HIDE DEF View
  <2> QED
    BY <1>11, <1>12, <2>1
<1>14. FilesOK' /\ Space' = [Space EXCEPT ![q] = Space[p]]
  BY <1>8, <1>10, <1>13, StepChanges
<1>15. SameAddress'
  <2>1. ASSUME NEW x \in Slots, NEW b \in Pages, Present(x, b)'
        PROVE  \E s \in Slots : Names(s, b, pte'[x][b].page)
    <3>1. CASE x = q
      BY <1>9, <2>1, <3>1 DEF Names
    <3>2. CASE x # q
      BY <1>8, <2>1, <3>2 DEF Aside, Untouched, SameEntries, Names
    <3> QED
      BY <3>1, <3>2
  <2> QED
    BY <2>1, AddressShrinks
<1>16. Leaving' = Leaving /\ p \notin Leaving
  <2>1. \A x \in Slots : pc'[x] = "close" <=> pc[x] = "close"
    BY <1>2, <1>6
  <2> QED
    BY <1>1, <2>1, LeavingIs
<1> QED
  BY <1>3, <1>12, <1>14, <1>15, <1>16 DEF Good, Forks, Processes!Fork, Processes!Lives

-----------------------------------------------------------------------------
(* The refinement.                                                         *)

LEMMA InitViews == ASSUME Init PROVE ViewInv /\ Processes!Init
<1>1. /\ content[LOW] = KERNEL /\ executable = [p \in Slots |-> NULL]
      /\ pc = [p \in Slots |-> IF p = 1 THEN "user" ELSE "none"]
      /\ \A p \in Slots, a \in Pages :
            /\ Present(p, a) <=> p = 1 /\ a \in DataPages
            /\ Present(p, a) => pte[p][a].page = LOW
  <2> DEFINE code == [page |-> LOW, rw |-> FALSE, dirty |-> FALSE]
  <2>1. code # NULL /\ code.page = LOW
    <3>1. code \in Entry /\ code.page = LOW
      BY DEF Entry
    <3> QED
      BY <3>1, NullIsNothing
  <2>2. \A p \in Slots, a \in Pages : pte[p][a] = IF p = 1 /\ a \in DataPages THEN code ELSE NULL
    BY DEF Init
  <2> HIDE DEF code
  <2>3. \A p \in Slots, a \in Pages : /\ Present(p, a) <=> p = 1 /\ a \in DataPages
                                      /\ Present(p, a) => pte[p][a].page = LOW
    BY <2>1, <2>2 DEF Present
  <2> QED
    BY <2>3 DEF Init
<1>2. FilesOK /\ SameAddress
  BY <1>1 DEF FilesOK, FileOK, SameAddress
<1>3. Space = [p \in Slots |-> IF p = 1 THEN Processes!Image(KERNEL, ZERO) ELSE NULL]
  <2>1. ASSUME NEW p \in Slots
        PROVE  (IF pc[p] \in Gone THEN NULL ELSE [a \in Pages |-> View(p, a)])
                 = IF p = 1 THEN Processes!Image(KERNEL, ZERO) ELSE NULL
    <3>1. CASE p = 1
      <4>1. pc[p] = "user" /\ executable[p] = NULL
        BY <1>1, <3>1
      <4>2. ASSUME NEW a \in Pages
            PROVE  View(p, a) = IF a \in DataPages THEN KERNEL ELSE IF a = Stack THEN ZERO ELSE ZERO
        BY <1>1, <3>1, <4>1 DEF View, FromFile
      <4> HIDE DEF View
      <4> QED
        BY <3>1, <4>1, <4>2 DEF Gone, Processes!Image, Processes!Pages, Pages
    <3>2. CASE p # 1
      BY <1>1, <3>2 DEF Gone
    <3> QED
      BY <3>1, <3>2
  <2> DEFINE v(p) == IF pc[p] \in Gone THEN NULL ELSE [a \in Pages |-> View(p, a)]
             w(p) == IF p = 1 THEN Processes!Image(KERNEL, ZERO) ELSE NULL
  <2>2. Space = [p \in Slots |-> v(p)] /\ \A p \in Slots : v(p) = w(p)
    BY <2>1 DEF Space
  <2> HIDE DEF v
  <2>3. Space = [p \in Slots |-> w(p)]
    BY <2>2
  <2> QED
    BY <2>3
<1>4. Leaving = {}
  BY <1>1 DEF Leaving
<1>5. Processes!Init
  BY <1>1, <1>3, <1>4 DEF Processes!Init, Processes!Slots, Slots
<1> QED
  BY <1>2, <1>5, InitHasInv DEF ViewInv

Seen == Processes!Next \/ UNCHANGED <<Space, executable, Leaving>>

LEMMA NextViews == ASSUME ViewInv, [Next]_vars PROVE Good' /\ Seen
<1> DEFINE Does(p) == \/ Ends(p) \/ Stores(p) \/ Shares(p) \/ Forks(p) \/ Leaves(p)
                      \/ Processes!Enter(p) \/ Unseen
<1>1. ASSUME NEW p \in Slots, Does(p) PROVE Seen
  <2>1. Processes!Slots = Slots /\ Processes!Pages = Pages
    BY DEF Processes!Slots, Slots, Processes!Pages, Pages
  <2>2. CASE Unseen
    BY <2>2 DEF Unseen, SameFiles, Seen
  <2>3. CASE Processes!Step(p)
    BY <2>1, <2>3 DEF Seen, Processes!Next
  <2>4. Ends(p) \/ Stores(p) \/ Shares(p) \/ Forks(p) \/ Leaves(p) \/ Processes!Enter(p) => Processes!Step(p)
    BY <2>1 DEF Ends, Stores, Shares, Forks, Leaves, Processes!Step
  <2> QED
    BY <1>1, <2>2, <2>3, <2>4
<1>2. ASSUME NEW p \in Slots, Fault(p) \/ Access(p) \/ Call(p) PROVE Good' /\ Does(p)
  <2>1. ASSUME NEW a \in Pages, get_empty_page(p, a) \/ share_page(p, a) \/ LoadPage(p, a) \/ do_wp_page(p, a)
        PROVE  Good' /\ Does(p)
    BY <2>1, EmptyPageViews, SharePageViews, LoadViews, WriteFaultViews
  <2>2. CASE PageLoaded(p)
    BY <2>2, PageLoadedViews
  <2>3. CASE Access(p)
    BY <2>3, VerifyAreaViews, WriteViews, PutFsViews, NoStoreViews DEF Access
  <2>4. CASE Call(p)
    <3>1. CASE Exit(p)
      <4>1. pc[p] \notin Gone /\ pc[p] # "close" /\ do_exit(p)
        BY <3>1 DEF Exit, At, Gone
      <4> QED
        BY <4>1, ExitViews
    <3>2. CASE Fork(p)
      BY <3>2, ForkViews
    <3>3. CASE ExecSwitch(p)
      BY <3>3, ExecSwitchViews
    <3>4. CASE ForkFails(p) \/ release(p) \/ (\E file \in Files : Exec(p, file)) \/ ExecFails(p)
      BY <3>4, ForkFailsViews, ReleaseViews, ExecViews, ExecFailsViews
    <3>5. CASE ExecDone(p)
      BY <3>5, ExecDoneViews
    <3> QED
      BY <2>4, <3>1, <3>2, <3>3, <3>4, <3>5 DEF Call
  <2> QED
    BY <1>2, <2>1, <2>2, <2>3, <2>4 DEF Fault
<1> HIDE DEF Does
<1>3. CASE Next
  BY <1>1, <1>2, <1>3 DEF Next
<1>4. CASE UNCHANGED vars
  <2>1. UNCHANGED <<content, pte, executable, pc, held, at>>
    BY <1>4 DEF vars
  <2>2. FilesOK' /\ SameAddress'
    BY <2>1 DEF ViewInv, FilesOK, FileOK, FromFile, SameAddress, Present
  <2>3. Space' = Space
    <3>1. \A q \in Slots, a \in Pages : View(q, a)' = View(q, a)
      BY <2>1 DEF View, Present, FromFile
    <3> QED
      BY <2>1, <3>1, SpaceKept
  <2>4. Leaving' = Leaving
    BY <2>1 DEF Leaving
  <2> QED
    BY <2>1, <2>2, <2>3, <2>4 DEF Good, Seen
<1> QED
  BY <1>3, <1>4

\* Demand loading, page sharing and copy-on-write stay within what a process
\* may notice of them, whoever runs between a write fault and the retry of the
\* instruction, between verify_area and the store, or while do_execve closes
\* files: heap and stack of a process change by its own stores only, and so do
\* the pages of its file, but for what ProcessMemory lets through.
THEOREM SharingIsBounded == Spec => ImplementsProcessMemory
<1>1. Init => ViewInv /\ Processes!Init
  BY InitViews
<1>2. ViewInv /\ [Next]_vars => ViewInv' /\ Seen
  BY NextViews, NextKeepsInv DEF ViewInv, Good
<1>3. Seen => [Processes!Next]_(Processes!vars)
  BY DEF Seen, Processes!vars
<1> QED
  BY <1>1, <1>2, <1>3, PTL DEF Spec, ImplementsProcessMemory, Processes!Spec

=============================================================================
