----------------------------- MODULE DataLemmas -----------------------------
(***************************************************************************)
(* Facts about the data the models are built from: the least and the       *)
(* greatest element of a set of numbers, a list with an element put in,    *)
(* and cardinalities of sets that differ in one element.                   *)
(***************************************************************************)
EXTENDS Integers, FiniteSets, FiniteSetsExt, SequenceTheorems, FiniteSetTheorems,
        WellFoundedInduction, TLAPS

\* A set of numbers has a least element.
LEMMA LeastExists == ASSUME NEW S \in SUBSET Nat, S # {} PROVE \E x \in S : \A y \in S : x <= y
<1> DEFINE R == {ss \in Nat \X Nat : ss[1] < ss[2]}
<1>1. IsWellFoundedOn(R, Nat)
  BY NatLessThanWellFounded DEF OpToRel
<1>2. PICK x \in S : \A y \in S : <<y, x>> \notin R
  <2> HIDE DEF R
  <2> QED
    BY <1>1, WFMin
<1>3. ASSUME NEW y \in S, ~ (x <= y) PROVE FALSE
  <2>1. x \in Nat /\ y \in Nat /\ y < x
    BY <1>3
  <2>2. <<y, x>> \in R
    BY <2>1
  <2> QED
    BY <1>2, <2>2
<1> QED
  BY <1>3

\* Min and Max of the community modules are what their names say.
LEMMA MinIsLeast ==
  ASSUME NEW S \in SUBSET Nat, S # {} PROVE Min(S) \in S /\ \A y \in S : Min(S) <= y
BY LeastExists DEF Min

LEMMA MaxIsGreatest ==
  ASSUME NEW n \in Nat, NEW S \in SUBSET (0 .. n), S # {} PROVE Max(S) \in S /\ \A y \in S : y <= Max(S)
<1> DEFINE T == {y \in Nat : n - y \in S}
<1>1. T \in SUBSET Nat /\ T # {}
  <2>1. PICK x \in S : x \in 0 .. n
    OBVIOUS
  <2>2. n - x \in Nat /\ n - (n - x) = x
    BY <2>1
  <2>3. n - x \in T
    BY <2>2
  <2> QED
    BY <2>3
<1>2. PICK t \in T : \A y \in T : t <= y
  <2> HIDE DEF T
  <2> QED
  BY <1>1, LeastExists
<1> DEFINE x == n - t
<1>3. t \in Nat /\ x \in S
  BY <1>2
<1>4. \A y \in S : x >= y
  <2> SUFFICES ASSUME NEW y \in S PROVE x >= y
    OBVIOUS
  <2>1. n - y \in Nat /\ n - (n - y) = y /\ y \in 0 .. n
    OBVIOUS
  <2>2. n - y \in T
    BY <2>1
  <2> QED
    BY <1>2, <1>3, <2>1, <2>2
<1> QED
  BY <1>4 DEF Max
-----------------------------------------------------------------------------

InsertedAt(q, i, e) == SubSeq(q, 1, i - 1) \o <<e>> \o SubSeq(q, i, Len(q))

\* A list with e put in at place i.
IsInserted(S, q, i, e, r) ==
    /\ r \in Seq(S)
    /\ Len(r) = Len(q) + 1
    /\ \A k \in 1 .. Len(q) + 1 : r[k] = IF k < i THEN q[k] ELSE IF k = i THEN e ELSE q[k - 1]

LEMMA Inserted ==
    ASSUME NEW S, NEW q \in Seq(S), NEW i \in 1 .. Len(q) + 1, NEW e \in S
    PROVE  IsInserted(S, q, i, e, InsertedAt(q, i, e))
<1> DEFINE n == Len(q)
           a == SubSeq(q, 1, i - 1)
           b == SubSeq(q, i, n)
           c == <<e>>
<1>1. n \in Nat /\ \A k \in 1 .. n : q[k] \in S
  BY LenProperties, ElementOfSeq
<1>2. i - 1 \in Int /\ i \in Int /\ i >= 1 /\ i <= n + 1
  BY <1>1
<1>3. a \in Seq(S) /\ Len(a) = i - 1 /\ \A k \in 1 .. i - 1 : a[k] = q[k]
  <2>1. \A k \in 1 .. i - 1 : q[k] \in S
    BY <1>1, <1>2
  <2>2. a \in Seq(S) /\ Len(a) = IF 1 <= i - 1 THEN (i - 1) - 1 + 1 ELSE 0
    BY <1>2, <2>1, SubSeqProperties
  <2>3. \A k \in 1 .. (i - 1) - 1 + 1 : a[k] = q[1 + k - 1]
    BY <1>2, <2>1, SubSeqProperties
  <2> QED
    BY <1>2, <2>2, <2>3
<1>4. b \in Seq(S) /\ Len(b) = n + 1 - i /\ \A k \in 1 .. n + 1 - i : b[k] = q[i + k - 1]
  <2>1. \A k \in i .. n : q[k] \in S
    BY <1>1, <1>2
  <2>2. b \in Seq(S) /\ Len(b) = IF i <= n THEN n - i + 1 ELSE 0
    BY <1>1, <1>2, <2>1, SubSeqProperties
  <2>3. \A k \in 1 .. n - i + 1 : b[k] = q[i + k - 1]
    BY <1>1, <1>2, <2>1, SubSeqProperties
  <2> QED
    BY <1>1, <1>2, <2>2, <2>3
<1>5. c \in Seq(S) /\ Len(c) = 1 /\ c[1] = e
  OBVIOUS
<1> DEFINE ac == a \o c
           r == ac \o b
<1>6. r = InsertedAt(q, i, e)
  BY DEF InsertedAt
<1> HIDE DEF a, b, c, n
<1>7. ac \in Seq(S) /\ Len(ac) = i /\ \A k \in 1 .. i : ac[k] = IF k <= i - 1 THEN a[k] ELSE c[k - (i - 1)]
  <2>1. /\ ac \in Seq(S) /\ Len(ac) = Len(a) + Len(c)
        /\ \A k \in 1 .. Len(a) + Len(c) : ac[k] = IF k <= Len(a) THEN a[k] ELSE c[k - Len(a)]
    BY <1>3, <1>5, ConcatProperties
  <2>2. Len(a) = i - 1 /\ Len(c) = 1 /\ (i - 1) + 1 = i
    BY <1>2, <1>3, <1>5
  <2> QED
    BY <2>1, <2>2
<1>8. \A k \in 1 .. i : ac[k] = IF k < i THEN q[k] ELSE e
  <2>1. ASSUME NEW k \in 1 .. i, k < i PROVE ac[k] = q[k]
    <3>1. k \in 1 .. i - 1 /\ k <= i - 1
      BY <1>2, <2>1
    <3> QED
      BY <1>3, <1>7, <3>1
  <2>2. ac[i] = e
    <3>1. i \in 1 .. i /\ ~ (i <= i - 1) /\ i - (i - 1) = 1
      BY <1>2
    <3>2. ac[i] = c[i - (i - 1)]
      BY <1>7, <3>1
    <3> QED
      BY <1>5, <3>1, <3>2
  <2>3. \A k \in 1 .. i : k < i \/ k = i
    BY <1>2
  <2> QED
    BY <2>1, <2>2, <2>3
<1> HIDE DEF ac
<1>9. /\ r \in Seq(S) /\ Len(r) = n + 1
      /\ \A k \in 1 .. n + 1 : r[k] = IF k <= i THEN ac[k] ELSE b[k - i]
  <2>1. /\ r \in Seq(S) /\ Len(r) = Len(ac) + Len(b)
        /\ \A k \in 1 .. Len(ac) + Len(b) : r[k] = IF k <= Len(ac) THEN ac[k] ELSE b[k - Len(ac)]
    BY <1>4, <1>7, ConcatProperties
  <2>2. Len(ac) = i /\ Len(ac) + Len(b) = n + 1
    BY <1>1, <1>2, <1>4, <1>7
  <2> QED
    BY <2>1, <2>2
<1> HIDE DEF r
<1>10. ASSUME NEW k \in 1 .. n + 1
       PROVE  r[k] = IF k < i THEN q[k] ELSE IF k = i THEN e ELSE q[k - 1]
  <2>1. CASE k <= i
    BY <1>1, <1>2, <1>8, <1>9, <2>1
  <2>2. CASE k > i
    <3>1. k - i \in 1 .. n + 1 - i /\ i + (k - i) - 1 = k - 1
      BY <1>1, <1>2, <2>2
    <3>2. b[k - i] = q[k - 1]
      BY <1>4, <3>1
    <3> QED
      BY <1>1, <1>2, <1>9, <2>2, <3>2
  <2> QED
    BY <1>1, <1>2, <2>1, <2>2
<1> QED
  BY <1>6, <1>9, <1>10 DEF n, IsInserted

One(P) == IF P THEN 1 ELSE 0

\* Two sets that differ in one element only.
LEMMA OneDiffers ==
    ASSUME NEW S, NEW T, IsFiniteSet(S), NEW p, S \ {p} = T \ {p}
    PROVE  /\ IsFiniteSet(T) /\ Cardinality(S) \in Nat /\ Cardinality(T) \in Nat
           /\ Cardinality(T) = Cardinality(S) + One(p \in T) - One(p \in S)
<1> DEFINE R == S \ {p}
<1>1. IsFiniteSet(R) /\ Cardinality(R) = Cardinality(S) - One(p \in S)
  BY FS_RemoveElement, FS_CardinalityType DEF One
<1>2. Cardinality(S) \in Nat /\ Cardinality(R) \in Nat
  BY <1>1, FS_CardinalityType
<1>3. CASE p \in T
  <2>1. T = R \cup {p} /\ p \notin R
    BY <1>3
  <2> HIDE DEF R
  <2>2. IsFiniteSet(T) /\ Cardinality(T) = Cardinality(R) + 1
    BY <1>1, <2>1, FS_AddElement
  <2> QED
    BY <1>1, <1>2, <1>3, <2>2 DEF One
<1>4. CASE p \notin T
  <2>1. T = R
    BY <1>4
  <2> QED
    BY <1>1, <1>2, <1>4, <2>1 DEF One
<1> QED
  BY <1>3, <1>4

\* A set with at most one element.
LEMMA AtMostOne ==
    ASSUME NEW S, \A x, y \in S : x = y
    PROVE  Cardinality(S) = One(S # {})
<1>1. CASE S = {}
  BY <1>1, FS_EmptySet DEF One
<1>2. CASE S # {}
  <2>1. PICK x \in S : S = {x}
    BY <1>2
  <2> QED
    BY <1>2, <2>1, FS_Singleton DEF One
<1> QED
  BY <1>1, <1>2

\* The n-th element from above of a finite set of numbers.
UpFrom(S, f) == {g \in S : g >= f}

LEMMA NthLast ==
    ASSUME NEW N \in Nat, NEW S \in SUBSET (1 .. N), NEW n \in Nat \ {0}, n <= Cardinality(S)
    PROVE  \E f \in S : Cardinality(UpFrom(S, f)) = n
<1> USE DEF UpFrom
<1> DEFINE Nth(f, k) == Cardinality({g \in S : g >= f}) = k
           Bad == {k \in Nat \ {0} : k <= Cardinality(S) /\ ~ \E f \in S : Nth(f, k)}
<1>1. IsFiniteSet(S) /\ Cardinality(S) \in Nat /\ \A T \in SUBSET S : IsFiniteSet(T) /\ Cardinality(T) \in Nat
  <2>1. IsFiniteSet(S)
    <3>1. IsFiniteSet(1 .. N)
      BY FS_Interval
    <3> QED
      BY <3>1, FS_Subset
  <2>2. \A T \in SUBSET S : IsFiniteSet(T)
    BY <2>1, FS_Subset
  <2> QED
    BY <2>1, <2>2, FS_CardinalityType
<1>2. \A T \in SUBSET S : T # {} => Max(T) \in T /\ \A y \in T : y <= Max(T)
  <2> SUFFICES ASSUME NEW T \in SUBSET S, T # {} PROVE Max(T) \in T /\ \A y \in T : y <= Max(T)
    OBVIOUS
  <2>1. T \in SUBSET (0 .. N)
    OBVIOUS
  <2> QED
    BY <2>1, MaxIsGreatest
<1>3. SUFFICES ASSUME Bad # {} PROVE FALSE
  OBVIOUS
<1>4. PICK k \in Bad : \A l \in Bad : k <= l
  <2>1. Bad \in SUBSET Nat
    OBVIOUS
  <2> HIDE DEF Bad
  <2> QED
    BY <1>3, <2>1, LeastExists
<1>5. CASE k = 1
  <2> DEFINE m == Max(S)
  <2>1. S # {}
    BY <1>1, <1>4, <1>5, FS_EmptySet
  <2>2. m \in S /\ \A y \in S : y <= m
    BY <1>2, <2>1
  <2>3. {g \in S : g >= m} = {m}
    <3>1. m \in Int /\ \A g \in S : g \in Int
      <4>1. \A g \in S : g \in 1 .. N
        OBVIOUS
      <4> HIDE DEF m
      <4> QED
        BY <2>2, <4>1
    <3>2. \A g \in S : g >= m <=> g = m
      <4> HIDE DEF m
      <4> QED
        BY <2>2, <3>1
    <3> QED
      BY <2>2, <3>2
  <2>4. Nth(m, 1)
    <3>1. Cardinality({m}) = 1
      BY FS_Singleton
    <3> QED
      BY <2>3, <3>1
  <2> QED
    BY <1>4, <1>5, <2>2, <2>4
<1>6. CASE k # 1
  <2>1. k - 1 \in Nat \ {0} /\ k - 1 <= Cardinality(S) /\ k - 1 \notin Bad
    BY <1>1, <1>4, <1>6
  <2>2. PICK f \in S : Nth(f, k - 1)
    BY <2>1
  <2> DEFINE A == {g \in S : g >= f}
             B == {g \in S : g < f}
             m == Max(B)
  <2>3. IsFiniteSet(A) /\ Cardinality(A) = k - 1 /\ S \cap A = A /\ S \ A = B
    <3>1. IsFiniteSet(A) /\ Cardinality(A) = k - 1
      BY <1>1, <2>2
    <3>2. \A g \in S : g \in Int /\ f \in Int
      OBVIOUS
    <3>3. S \cap A = A
      OBVIOUS
    <3>4. \A g \in S : g < f <=> ~ (g >= f)
      BY <3>2
    <3>5. S \ A = B
      BY <3>4
    <3> QED
      BY <3>1, <3>3, <3>5
  <2>4. Cardinality(B) = Cardinality(S) - (k - 1)
    <3> HIDE DEF A, B
    <3> QED
      <4>1. Cardinality(S \ A) = Cardinality(S) - Cardinality(S \cap A)
        BY <1>1, FS_Difference
      <4> QED
        BY <2>3, <4>1
  <2>5. B # {}
    <3>1. Cardinality(B) > 0
      BY <1>1, <1>4, <2>4
    <3> HIDE DEF B
    <3> QED
      BY <3>1, FS_EmptySet
  <2>6. m \in B /\ \A y \in B : y <= m
    BY <1>2, <2>5
  <2>7. {g \in S : g >= m} = A \cup {m} /\ m \notin A
    <3>1. \A g \in S : g \in Int
      OBVIOUS
    <3>2. m \in S /\ m < f /\ \A y \in S : y < f => y <= m
      BY <2>6
    <3> HIDE DEF m
    <3>3. \A g \in S : g >= m <=> (g >= f \/ g = m)
      BY <3>1, <3>2
    <3> QED
      <4> DEFINE C == {g \in S : g >= m}
      <4>1. \A g : g \in C <=> g \in A \cup {m}
        BY <3>2, <3>3
      <4>2. m \notin A
        BY <3>1, <3>2
      <4> QED
        BY <4>1, <4>2
  <2>8. Nth(m, k)
    <3>1. Cardinality(A \cup {m}) = Cardinality(A) + 1
      <4> HIDE DEF A, m
      <4> QED
        BY <2>3, <2>7, FS_AddElement
    <3>2. Cardinality({g \in S : g >= m}) = Cardinality(A \cup {m})
      BY <2>7
    <3>3. k \in Nat
      BY <1>4
    <3> HIDE DEF A, m
    <3> QED
      BY <2>3, <3>1, <3>2, <3>3
  <2> QED
    BY <1>4, <2>6, <2>8
<1> QED
  BY <1>5, <1>6

\* A row of a table changes.
Row(U, T, p) == {a \in T : <<p, a>> \in U}

LEMMA RowIsSet ==
    ASSUME NEW S, NEW T, IsFiniteSet(S), IsFiniteSet(T), NEW p \in S, NEW U \in SUBSET (S \X T)
    PROVE  /\ IsFiniteSet(U) /\ Cardinality(U) \in Nat
           /\ Cardinality(Row(U, T, p)) \in Nat
           /\ Cardinality({u \in U : u[1] # p}) \in Nat
           /\ Cardinality(U) = Cardinality({u \in U : u[1] # p}) + Cardinality(Row(U, T, p))
<1> DEFINE R == Row(U, T, p)
           P == {u \in U : u[1] = p}
           O == {u \in U : u[1] # p}
<1>1. IsFiniteSet(U) /\ IsFiniteSet(P) /\ IsFiniteSet(O) /\ IsFiniteSet(R)
  <2>1. IsFiniteSet(S \X T)
    BY FS_Product
  <2>2. IsFiniteSet(U)
    BY <2>1, FS_Subset
  <2>3. P \in SUBSET U /\ O \in SUBSET U /\ R \in SUBSET T
    BY DEF Row
  <2> HIDE DEF P, O, R
  <2> QED
    BY <2>2, <2>3, FS_Subset
<1>2. Cardinality(P) = Cardinality(R)
  <2> DEFINE b == [a \in R |-> <<p, a>>]
  <2>1. b \in Bijection(R, P)
    <3>1. b \in [R -> P]
      BY DEF Row
    <3>2. \A x, y \in R : b[x] = b[y] => x = y
      OBVIOUS
    <3>3. \A u \in P : \E x \in R : b[x] = u
      <4> SUFFICES ASSUME NEW u \in P PROVE \E x \in R : b[x] = u
        OBVIOUS
      <4>1. u = <<p, u[2]>> /\ u[2] \in R
        BY DEF Row
      <4> QED
        BY <4>1
    <3> HIDE DEF b, R, P
    <3> QED
      <4>1. b \in Injection(R, P)
        BY <3>1, <3>2, Zenon DEF Injection, IsInjective
      <4>2. b \in Surjection(R, P)
        BY <3>1, <3>3 DEF Surjection
      <4> QED
        BY <4>1, <4>2 DEF Bijection
  <2>2. ExistsBijection(R, P)
    BY <2>1 DEF ExistsBijection
  <2> QED
    BY <1>1, <2>2, FS_Bijection
<1>3. U = O \cup P /\ O \cap P = {}
  OBVIOUS
<1>4. Cardinality(U) = Cardinality(O) + Cardinality(P)
  <2> HIDE DEF O, P
  <2> QED
    <3>1. Cardinality(O \cup P) = Cardinality(O) + Cardinality(P) - Cardinality(O \cap P)
      BY <1>1, FS_Union
    <3>2. Cardinality(O \cap P) = 0 /\ Cardinality(O) \in Nat /\ Cardinality(P) \in Nat
      BY <1>1, <1>3, FS_EmptySet, FS_CardinalityType
    <3> QED
      BY <1>3, <3>1, <3>2
<1>5. Cardinality(U) \in Nat /\ Cardinality(R) \in Nat /\ Cardinality(O) \in Nat
  BY <1>1, FS_CardinalityType
<1> QED
  BY <1>1, <1>2, <1>4, <1>5

LEMMA RowChange ==
    ASSUME NEW S, NEW T, IsFiniteSet(S), IsFiniteSet(T), NEW p \in S,
           NEW U \in SUBSET (S \X T), NEW V \in SUBSET (S \X T),
           \A u \in S \X T : u[1] # p => (u \in U <=> u \in V)
    PROVE  /\ Cardinality(U) \in Nat /\ Cardinality(V) \in Nat
           /\ Cardinality(Row(U, T, p)) \in Nat /\ Cardinality(Row(V, T, p)) \in Nat
           /\ Cardinality(V) = Cardinality(U) - Cardinality(Row(U, T, p)) + Cardinality(Row(V, T, p))
<1>1. /\ Cardinality(U) \in Nat /\ Cardinality(Row(U, T, p)) \in Nat
      /\ Cardinality({u \in U : u[1] # p}) \in Nat
      /\ Cardinality(U) = Cardinality({u \in U : u[1] # p}) + Cardinality(Row(U, T, p))
  BY RowIsSet
<1>2. /\ Cardinality(V) \in Nat /\ Cardinality(Row(V, T, p)) \in Nat
      /\ Cardinality(V) = Cardinality({u \in V : u[1] # p}) + Cardinality(Row(V, T, p))
  BY RowIsSet
<1>3. Cardinality({u \in U : u[1] # p}) = Cardinality({u \in V : u[1] # p})
  <2>1. {u \in U : u[1] # p} = {u \in V : u[1] # p}
    OBVIOUS
  <2> QED
    BY <2>1
<1> DEFINE o == Cardinality({u \in U : u[1] # p})
           c == Cardinality(U)
           d == Cardinality(V)
           r == Cardinality(Row(U, T, p))
           t == Cardinality(Row(V, T, p))
<1>4. o \in Nat /\ r \in Nat /\ t \in Nat /\ c \in Nat /\ d \in Nat /\ c = o + r /\ d = o + t
  BY <1>1, <1>2, <1>3
<1>5. d = c - r + t
  <2> HIDE DEF o, c, d, r, t
  <2> QED
    BY <1>4
<1> QED
  BY <1>4, <1>5

=============================================================================
