------------------------------- MODULE Malloc -------------------------------
(***************************************************************************)
(* lib/malloc.c, the allocator of the kernel.  A page, or bucket, holds    *)
(* objects of one size; its descriptor hangs on the chain of that size in  *)
(* bucket_dir, or on free_bucket_desc if it is not in use.                 *)
(*                                                                         *)
(* malloc turns interrupts off before it looks at a chain.  free_s walks   *)
(* the chains with interrupts on: a handler may call both between two      *)
(* steps of the walk.  Handlers have interrupts off.  They empty no bucket *)
(* during a walk unless IrqFrees.  The kernel has no caller of either yet. *)
(***************************************************************************)
EXTENDS Integers, FiniteSets, FiniteSetsExt, Sequences, SequencesExt

CONSTANTS PerPage,       \* the number of objects in a page, for each size
          Pages,         \* what get_free_page may return
          DescsPerPage,  \* of a page of descriptors
          IrqFrees       \* whether handlers free a whole bucket during a walk

VARIABLE ma

NIL == 0
Dirs == 1 .. Len(PerPage)       \* bucket_dir, smallest size first
\* As many as there are when nothing is left for their next page.
Descs == 1 .. DescsPerPage * ((Cardinality(Pages) + DescsPerPage) \div (DescsPerPage + 1))
NoBase == [pc |-> "none", obj |-> <<NIL, NIL>>, dir |-> NIL, prev |-> NIL, desc |-> NIL]

Init ==
    ma = [chain |-> [d \in Dirs |-> NIL],
          next |-> [b \in Descs |-> NIL],
          page |-> [b \in Descs |-> NIL],
          freeptr |-> [b \in Descs |-> <<>>],       \* the list of free objects
          refcnt |-> [b \in Descs |-> 0],
          bucket |-> [b \in Descs |-> NIL],        \* bucket_size
          free_bucket_desc |-> NIL,
          made |-> 0,                               \* pages of descriptors
          pool |-> Pages,                           \* of get_free_page
          user |-> {},                              \* objects that are in use
          base |-> NoBase,                          \* a free_s that is interrupted
          panic |-> "none"]

Turns == [k \in Descs |-> k]     \* as many as a chain can be long

\* The descriptors from b on.
From(s, b) == FoldLeft(LAMBDA seen, k : seen \cup ({s.next[x] : x \in seen} \ {NIL}), {b} \ {NIL}, Turns)

\* The first of them that is in found.
FirstOf(s, b, found) == FoldLeft(LAMBDA x, k : IF x = NIL \/ x \in found THEN x ELSE s.next[x], b, Turns)

Panics(s, why) == [s EXCEPT !.panic = why]

-----------------------------------------------------------------------------

\* A page of new descriptors goes on the list.
init_bucket_desc(s) ==
    IF s.pool = {} THEN Panics(s, "memory")
    ELSE LET new == s.made * DescsPerPage + 1 .. (s.made + 1) * DescsPerPage IN
         [s EXCEPT !.pool = @ \ {Min(s.pool)}, !.made = @ + 1,
                   !.next = [b \in Descs |-> IF b \notin new THEN s.next[b]
                                             ELSE IF b + 1 \in new THEN b + 1 ELSE s.free_bucket_desc],
                   !.free_bucket_desc = s.made * DescsPerPage + 1]

\* A new bucket of size d.
NewBucket(s, d) ==
    LET t == IF s.free_bucket_desc = NIL THEN init_bucket_desc(s) ELSE s
        b == t.free_bucket_desc IN
    IF t.panic # "none" \/ t.pool = {} THEN Panics(t, "memory")
    ELSE [t EXCEPT !.free_bucket_desc = t.next[b],
                   !.refcnt[b] = 0,
                   !.bucket[b] = d,
                   !.page[b] = Min(t.pool), !.pool = @ \ {Min(t.pool)},
                   !.freeptr[b] = [k \in 1 .. PerPage[d] |-> k],
                   !.next[b] = t.chain[d],
                   !.chain[d] = b]

\* The first bucket with a free object gives it away.
malloc(s, d) ==
    LET found == FirstOf(s, s.chain[d], {b \in Descs : s.freeptr[b] # <<>>})
        t == IF found = NIL THEN NewBucket(s, d) ELSE s
        b == IF found = NIL THEN t.chain[d] ELSE found IN
    IF t.panic # "none" THEN t
    ELSE [t EXCEPT !.user = @ \cup {<<t.page[b], Head(t.freeptr[b])>>},
                   !.freeptr[b] = Tail(@),
                   !.refcnt[b] = @ + 1]

-----------------------------------------------------------------------------
(* free_s *)

PreviousAsFound(s, d, prev, b) == prev

\* prev, if it is still the one before b, or else what the chain says.
Previous(s, d, prev, b) ==
    IF IF prev # NIL THEN s.next[prev] = b ELSE s.chain[d] = b THEN prev
    ELSE FirstOf(s, s.chain[d], {x \in Descs : s.next[x] = b})

\* The bucket b of chain d is empty: its page and its descriptor are free.
Unlink(s, d, prev, b) ==
    LET p == Previous(s, d, prev, b) IN
    IF p = NIL /\ s.chain[d] # b THEN Panics(s, "chains")
    ELSE [s EXCEPT !.next = [x \in Descs |-> IF x = b THEN s.free_bucket_desc
                                             ELSE IF x = p THEN s.next[b] ELSE s.next[x]],
                   !.chain[d] = IF p = NIL THEN s.next[b] ELSE @,
                   !.pool = @ \cup {s.page[b]},
                   !.free_bucket_desc = b]

\* From "found" on.
Found(s, obj, d, prev, b) ==
    LET t == [s EXCEPT !.freeptr[b] = <<obj[2]>> \o @, !.refcnt[b] = @ - 1, !.user = @ \ {obj}] IN
    IF t.refcnt[b] = 0 THEN Unlink(t, d, prev, b) ELSE t

\* The whole of it, for a handler: nobody changes the chains meanwhile.
Owner(s, obj) == CHOOSE b \in Descs : s.refcnt[b] > 0 /\ s.page[b] = obj[1]

free_s(s, obj) ==
    LET b == Owner(s, obj)
        d == s.bucket[b] IN
    Found(s, obj, d, FirstOf(s, s.chain[d], {x \in Descs : s.next[x] = b}), b)

WalkFrom(s, d) == [s EXCEPT !.base.dir = d, !.base.prev = NIL, !.base.desc = s.chain[d]]

\* One turn of the loops of free_s.
Walk(s) ==
    LET w == s.base IN
    IF w.desc # NIL
    THEN IF s.page[w.desc] = w.obj[1] THEN [s EXCEPT !.base.pc = "found"]
         ELSE [s EXCEPT !.base.prev = w.desc, !.base.desc = s.next[w.desc]]
    ELSE IF w.dir = Len(PerPage) THEN Panics(s, "address")
         ELSE WalkFrom(s, w.dir + 1)

-----------------------------------------------------------------------------

Running == ma.panic = "none"

\* A call of the kernel, or of a handler while free_s walks.
Malloc == Running /\ \E d \in Dirs : ma' = malloc(ma, d)

\* With the size of the object, or 0 to look at all sizes.
Free ==
    /\ Running /\ ma.base.pc = "none"
    /\ \E obj \in ma.user :
       \E first \in {1, ma.bucket[Owner(ma, obj)]} :
         ma' = WalkFrom([ma EXCEPT !.base.pc = "walk", !.base.obj = obj], first)

FreeWalks == Running /\ ma.base.pc = "walk" /\ ma' = Walk(ma)

FreeFound ==
    LET w == ma.base IN
    /\ Running /\ w.pc = "found"
    /\ ma' = [Found(ma, w.obj, w.dir, w.prev, w.desc) EXCEPT !.base = NoBase]

IrqFree ==
    /\ Running
    /\ \E obj \in ma.user \ {ma.base.obj} :
         /\ IrqFrees \/ ma.base.pc # "walk" \/ ma.refcnt[Owner(ma, obj)] > 1
         /\ ma' = free_s(ma, obj)

Next == Malloc \/ Free \/ FreeWalks \/ FreeFound \/ IrqFree

Spec == Init /\ [][Next]_ma

-----------------------------------------------------------------------------

Objects(b) == {<<ma.page[b], k>> : k \in 1 .. PerPage[ma.bucket[b]]}
InUse == {b \in Descs : ma.refcnt[b] > 0}

\* Nothing is given to two users: every object in use lies in one bucket, whose
\* refcnt counts them; the others of a bucket are on its list, once; no page
\* with an object in use is free.
ObjectsApart ==
    /\ ma.user \subseteq UNION {Objects(b) : b \in InUse}
    /\ \A b \in InUse :
         LET listed == {<<ma.page[b], k>> : k \in ToSet(ma.freeptr[b])} IN
         /\ ma.page[b] \notin ma.pool
         /\ \A c \in InUse : ma.page[c] = ma.page[b] => c = b
         /\ ma.refcnt[b] = Cardinality(Objects(b) \cap ma.user)
         /\ IsInjective(ma.freeptr[b])
         /\ listed = Objects(b) \ ma.user

\* A chain holds the buckets of its size that are in use, the free list all
\* others, and free_s finds what it looks for.
ChainsComplete ==
    /\ ma.panic \in {"none", "memory"}
    /\ \A d \in Dirs : From(ma, ma.chain[d]) = {b \in InUse : ma.bucket[b] = d}
    /\ From(ma, ma.free_bucket_desc) = 1 .. ma.made * DescsPerPage \ InUse

=============================================================================
