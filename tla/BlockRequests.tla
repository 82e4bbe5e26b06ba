---------------------------- MODULE BlockRequests ----------------------------
(***************************************************************************)
(* What kernel/blk_drv/blk.h and ll_rw_blk.c give every block driver, as   *)
(* functions of the driver's state d, a record with at least the fields    *)
(*    request   the table request[], NULL for a free slot                  *)
(*    queue     the slots on the list, the first one is CURRENT            *)
(*    bufs      the buffers the requests are for                           *)
(* The drivers HardDisk and Floppy add their own fields.  A buffer is      *)
(* named by what it holds, a pair of a minor device and a block number.    *)
(***************************************************************************)
EXTENDS Naturals, Sequences, FiniteSets, FiniteSetsExt, SequencesExt

CONSTANTS NR_REQUEST, NULL

LOCAL RQ == INSTANCE RequestQueue
            WITH Devs <- {}, Sectors <- {}, request <- <<>>, queue <- <<>>

Dev(b) == b[1]
Block(b) == b[2]

\* The first list and the first buffers of a driver: nothing is cached.
NoRequests == [s \in 0 .. NR_REQUEST - 1 |-> NULL]
NoBuffer == [lock |-> FALSE, uptodate |-> FALSE, dirt |-> FALSE, data |-> <<>>]

HasCurrent(d) == d.queue # <<>>
CURRENT(d) == d.request[Head(d.queue)]

\* CURRENT with some fields changed by the driver.
WithCurrent(d, r) == [d EXCEPT !.request[Head(d.queue)] = r]
SetBuffer(d, data) == [d EXCEPT !.bufs[CURRENT(d).bh].data = data]

\* The slots a request may take: writes leave the last third to reads.
FreeSlots(d, cmd) ==
    {s \in DOMAIN d.request : /\ d.request[s] = NULL
                              /\ cmd = RQ!WRITE => s < (NR_REQUEST * 2) \div 3}

\* make_request does nothing for a clean write or a read of valid data; it
\* would sleep on a locked buffer and on a full table.
MayRequest(d, b, cmd) ==
    /\ ~ d.bufs[b].lock
    /\ IF cmd = RQ!WRITE THEN d.bufs[b].dirt ELSE ~ d.bufs[b].uptodate
    /\ FreeSlots(d, cmd) # {}

(***************************************************************************)
(* make_request and add_request for buffer b.  The caller starts the       *)
(* device when the list was empty.                                         *)
(***************************************************************************)
add_request(d, b, cmd) ==
    LET s == Max(FreeSlots(d, cmd))
        r == [cmd |-> cmd, dev |-> Dev(b), sector |-> 2 * Block(b),
              nr_sectors |-> 2, errors |-> 0, bh |-> b]
        place == IF d.queue = <<>> THEN 0 ELSE RQ!Place(d.queue, d.request, r)
    IN  [d EXCEPT !.request[s] = r,
                  !.queue = InsertAt(@, place + 1, s),
                  !.bufs[b].lock = TRUE,
                  !.bufs[b].dirt = FALSE]

\* end_request: the buffer is unlocked and the list goes on to the next one.
end_request(d, uptodate) ==
    [d EXCEPT !.bufs[CURRENT(d).bh].uptodate = uptodate,
              !.bufs[CURRENT(d).bh].lock = FALSE,
              !.request[Head(d.queue)] = NULL,
              !.queue = Tail(@)]

(***************************************************************************)
(* What bad_rw_intr and bad_flp_intr read as CURRENT->errors after         *)
(* end_request: the errors of the next request, or, without one, what lies *)
(* at address 8, which is no error count.                                  *)
(***************************************************************************)
ErrorsAfter(d, max) == IF HasCurrent(d) THEN {CURRENT(d).errors} ELSE {0, max}

=============================================================================
