---------------------------- MODULE RequestQueue ----------------------------
(***************************************************************************)
(* The request queue of a block device: the table request[], the list that *)
(* starts at blk_dev[major].current_request, the elevator of add_request   *)
(* (kernel/blk_drv/ll_rw_blk.c) and end_request (kernel/blk_drv/blk.h).    *)
(*                                                                         *)
(* The first request of the list is the one the device works on.  Both     *)
(* operations are atomic: add_request disables interrupts and end_request  *)
(* runs in one.                                                            *)
(***************************************************************************)
EXTENDS Naturals, Sequences, FiniteSets, FiniteSetsExt, SequencesExt

CONSTANTS
    NR_REQUEST,
    Devs,          \* device numbers of one major (drives, partitions)
    Sectors,
    NULL           \* a free slot (dev = -1)

READ == 0
WRITE == 1

Slots == 0 .. NR_REQUEST - 1

Requests == [cmd : {READ, WRITE}, dev : Devs, sector : Sectors]

VARIABLES
    request,   \* what each slot of the table asks for, NULL when it is free
    queue      \* the slots on the list, in the order of their next pointers

vars == <<request, queue>>

TypeOK ==
    /\ request \in [Slots -> Requests \cup {NULL}]
    /\ queue \in Seq(Slots)

Init ==
    /\ request = [s \in Slots |-> NULL]
    /\ queue = <<>>

-----------------------------------------------------------------------------

InOrder(r1, r2) ==
    \/ r1.cmd < r2.cmd
    \/ r1.cmd = r2.cmd /\ r1.dev < r2.dev
    \/ r1.cmd = r2.cmd /\ r1.dev = r2.dev /\ r1.sector < r2.sector

\* Slip: the list is kept sorted, reads before writes, without a turn.
PlaceSorted(q, table, r) ==
    LET fits == {i \in 1 .. Len(q) - 1 : InOrder(r, table[q[i + 1]])}
    IN  IF fits = {} THEN Len(q) ELSE Min(fits)

\* The position after which add_request links r into a list that is not empty.
Place(q, table, r) ==
    LET Key(i) == table[q[i]]
        Fits(i) == /\ InOrder(Key(i), r) \/ ~ InOrder(Key(i), Key(i + 1))
                   /\ InOrder(r, Key(i + 1))
        fits == {i \in 1 .. Len(q) - 1 : Fits(i)}
    IN  IF fits = {} THEN Len(q) ELSE Min(fits)

\* add_request: slot s, filled in with r, joins the list.
AddRequest(s, r) ==
    /\ request' = [request EXCEPT ![s] = r]
    /\ queue' = IF queue = <<>> THEN <<s>>
                ELSE InsertAt(queue, Place(queue, request, r) + 1, s)

\* The slots make_request may take: the last third is kept for reads.
FreeSlots(cmd) ==
    {s \in Slots : request[s] = NULL /\ (cmd = WRITE => s < (NR_REQUEST * 2) \div 3)}

(***************************************************************************)
(* make_request with a free slot.  The buffer was locked, so no request    *)
(* for the same block is in the list (BufferCache shows this).             *)
(***************************************************************************)
MakeRequest(r) ==
    /\ FreeSlots(r.cmd) # {}
    /\ \A s \in Slots : request[s] # NULL =>
          <<request[s].dev, request[s].sector>> # <<r.dev, r.sector>>
    /\ AddRequest(Max(FreeSlots(r.cmd)), r)

\* end_request: the slot becomes free and the list goes on to the next one.
EndRequest ==
    /\ queue # <<>>
    /\ request' = [request EXCEPT ![Head(queue)] = NULL]
    /\ queue' = Tail(queue)

Next == EndRequest \/ \E r \in Requests : MakeRequest(r)

Spec == Init /\ [][Next]_vars

\* The device finishes what it has started.
FairSpec == Spec /\ WF_vars(EndRequest)

-----------------------------------------------------------------------------

\* The list and the table agree: a slot is on the list, once, exactly while it
\* is in use, so no request is forgotten and no free slot is executed.
ListIsTable ==
    /\ \A i, j \in 1 .. Len(queue) : i # j => queue[i] # queue[j]
    /\ \A s \in Slots : request[s] # NULL <=> \E i \in 1 .. Len(queue) : queue[i] = s

\* Requests that keep coming cannot keep one that waits from being served,
\* whatever their sectors: neither a write behind reads nor a far sector.
EveryRequestServed == \A s \in Slots : (request[s] # NULL) ~> (request[s] = NULL)

=============================================================================
