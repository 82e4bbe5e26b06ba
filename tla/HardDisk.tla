------------------------------ MODULE HardDisk ------------------------------
(***************************************************************************)
(* The hard disk driver, kernel/blk_drv/hd.c: requests are carried out     *)
(* sector by sector from the interrupts of the controller, with retries,   *)
(* recalibration and reset.                                                *)
(*                                                                         *)
(* External: the controller raises one interrupt for each sector and for   *)
(* each RESTORE and SPECIFY command, good or bad, or does not ask for the  *)
(* data of a write (DRQ).  It is always ready for a command, so hd_out     *)
(* does not panic.  hd_interrupt (system_call.s) calls do_hd once.         *)
(***************************************************************************)
EXTENDS BlockRequests

CONSTANTS
    Blocks,        \* pairs of a minor device and a block, in and out of range
    HdPart,        \* hd[]: minor device -> [start_sect, nr_sects]
    MAX_ERRORS

VARIABLE hd

READ == 0
WRITE == 1

\* Where the controller finds sector n of a partition.
Absolute(dev, n) == HdPart[dev].start_sect + n

InRange(dev, n) == dev \in DOMAIN HdPart /\ n + 2 <= HdPart[dev].nr_sects

Disk == UNION {{Absolute(dev, n) : n \in 0 .. HdPart[dev].nr_sects - 1} :
               dev \in DOMAIN HdPart}

\* The content of a sector: its place and a version.
Written(n, version) == <<n, version>>

Init ==
    hd = [request |-> NoRequests, queue |-> <<>>,
          bufs |-> [b \in Blocks |-> NoBuffer],
          reset |-> TRUE, recalibrate |-> TRUE,
          do_hd |-> NULL,        \* the handler of the next interrupt
          busy |-> FALSE,        \* will the controller raise an interrupt?
          at |-> NULL,           \* the sector the controller is at
          disk |-> [n \in Disk |-> Written(n, 0)]]

-----------------------------------------------------------------------------

\* hd_out: the command and its handler.
hd_out(d, at, intr) == [d EXCEPT !.do_hd = intr, !.at = at, !.busy = TRUE]

\* The controller gives up a write before it asks for the data; do_hd stays.
NoData(d) == [d EXCEPT !.busy = FALSE]

\* Slip: the retry starts all over, but with what is left of the count.
bad_rw_intr_restarts(d) ==
    LET c == CURRENT(d)
        counted == WithCurrent(d, [c EXCEPT !.errors = @ + 1,
                                            !.sector = 2 * Block(c.bh)])
        ended == IF CURRENT(counted).errors >= MAX_ERRORS
                 THEN end_request(counted, FALSE) ELSE counted
    IN  {[ended EXCEPT !.reset = @ \/ e > MAX_ERRORS \div 2] :
            e \in ErrorsAfter(ended, MAX_ERRORS)}

bad_rw_intr(d) ==
    LET c == CURRENT(d)
        counted == WithCurrent(d, [c EXCEPT !.errors = @ + 1])
        ended == IF CURRENT(counted).errors >= MAX_ERRORS
                 THEN end_request(counted, FALSE) ELSE counted
    IN  {[ended EXCEPT !.reset = @ \/ e > MAX_ERRORS \div 2] :
            e \in ErrorsAfter(ended, MAX_ERRORS)}

\* port_write and port_read: the sector goes through the buffer's half that
\* CURRENT->buffer points to.
Half(r) == 3 - r.nr_sectors

Put(d) ==
    LET c == CURRENT(d) IN [d EXCEPT !.disk[d.at] = d.bufs[c.bh].data[Half(c)]]

Get(d) ==
    LET c == CURRENT(d)
    IN  SetBuffer(d, IF Half(c) = 1 THEN <<d.disk[d.at]>>
                     ELSE <<d.bufs[c.bh].data[1], d.disk[d.at]>>)

(***************************************************************************)
(* do_hd_request: the states it may end in.  It repeats after a request    *)
(* that is out of range and after a write whose data the controller does   *)
(* not ask for; the sector number and the range are those of what is left  *)
(* of the request.                                                         *)
(***************************************************************************)
RECURSIVE do_hd_request(_)
do_hd_request(d) ==
    IF ~ HasCurrent(d) THEN {d}
    ELSE LET c == CURRENT(d)
             at == Absolute(c.dev, c.sector)
         IN  CASE ~ InRange(c.dev, c.sector) -> do_hd_request(end_request(d, FALSE))
               [] d.reset -> {hd_out([d EXCEPT !.reset = FALSE, !.recalibrate = TRUE],
                                     NULL, "recal_intr")}
               [] d.recalibrate -> {hd_out([d EXCEPT !.recalibrate = FALSE],
                                           NULL, "recal_intr")}
               [] c.cmd = READ -> {hd_out(d, at, "read_intr")}
               [] OTHER ->
                    {hd_out(d, at, "write_intr")}
                    \cup UNION {do_hd_request(e) :
                                  e \in bad_rw_intr(NoData(hd_out(d, at, "write_intr")))}

Next_request(states) == UNION {do_hd_request(d) : d \in states}

\* The handlers, after hd_interrupt took do_hd.
Called == [hd EXCEPT !.do_hd = NULL, !.busy = FALSE]

Raised(handler) == hd.busy /\ hd.do_hd = handler

Retry == Next_request(bad_rw_intr(Called))

\* read_intr of a good sector.
read_intr ==
    /\ Raised("read_intr")
    /\ LET d == Get(Called)
           c == [CURRENT(d) EXCEPT !.errors = 0, !.sector = @ + 1, !.nr_sectors = @ - 1]
       IN  IF c.nr_sectors > 0
           THEN hd' = [WithCurrent(d, c) EXCEPT !.do_hd = "read_intr", !.busy = TRUE,
                                          !.at = @ + 1]
           ELSE hd' \in Next_request({end_request(WithCurrent(d, c), TRUE)})

\* write_intr: the sector is on the disk; the next one is handed over.
write_intr ==
    /\ Raised("write_intr")
    /\ LET d == Put(Called)
           c == [CURRENT(d) EXCEPT !.nr_sectors = @ - 1]
       IN  IF c.nr_sectors > 0
           THEN hd' = [WithCurrent(d, [c EXCEPT !.sector = @ + 1])
                         EXCEPT !.do_hd = "write_intr", !.busy = TRUE,
                                !.at = @ + 1]
           ELSE hd' \in Next_request({end_request(WithCurrent(d, c), TRUE)})

\* recal_intr after a RESTORE or SPECIFY that went well.
recal_intr ==
    /\ Raised("recal_intr")
    /\ hd' \in Next_request({Called})

\* win_result reports an error in read_intr, write_intr or recal_intr.
BadResult ==
    /\ hd.busy
    /\ hd' \in Retry

hd_interrupt == read_intr \/ write_intr \/ recal_intr \/ BadResult

\* A process asks for a buffer; an idle device is started.
ll_rw_block(b, cmd) ==
    /\ MayRequest(hd, b, cmd)
    /\ LET d == add_request(hd, b, cmd)
       IN  IF HasCurrent(hd) THEN hd' = d ELSE hd' \in do_hd_request(d)

\* A process changes a valid buffer, which is not locked.
Modify(b) ==
    /\ hd.bufs[b].uptodate /\ ~ hd.bufs[b].lock
    /\ hd' = [hd EXCEPT !.bufs[b].dirt = TRUE,
                        !.bufs[b].data = [i \in 1 .. 2 |-> Written(@[i][1], 1)]]

\* getblk takes a clean buffer over for another block.
Reuse(b) ==
    /\ hd.bufs[b].uptodate /\ ~ hd.bufs[b].lock /\ ~ hd.bufs[b].dirt
    /\ hd' = [hd EXCEPT !.bufs[b] = NoBuffer]

Next ==
    \/ hd_interrupt
    \/ \E b \in Blocks : \/ \E cmd \in {READ, WRITE} : ll_rw_block(b, cmd)
                         \/ Modify(b)
                         \/ Reuse(b)

Fairness == WF_hd(hd_interrupt)

Spec == Init /\ [][Next]_hd /\ Fairness

-----------------------------------------------------------------------------

Queue == INSTANCE RequestQueue
               WITH Devs <- {}, Sectors <- {}, request <- hd.request, queue <- hd.queue

\* The list and the table agree although end_request runs in handlers that
\* read CURRENT again after it.
ListIsTable == Queue!ListIsTable

(***************************************************************************)
(* A buffer that is valid and clean is what the disk has at its place in   *)
(* its partition: no retry, reset or error in the middle of a request      *)
(* leaves a half, repeats one at the wrong sector or reports success.      *)
(***************************************************************************)
ValidIsDisk ==
    \A b \in Blocks :
        LET buf == hd.bufs[b]
            At(i) == Absolute(Dev(b), 2 * Block(b) + i - 1)
        IN  buf.uptodate /\ ~ buf.lock =>
                /\ Len(buf.data) = 2
                /\ \A i \in 1 .. 2 : /\ buf.data[i][1] = At(i)
                                     /\ ~ buf.dirt => buf.data[i] = hd.disk[At(i)]

\* Every request ends, and its buffer is unlocked, whatever the errors and
\* whoever else asks for what: nobody waits for ever in wait_on_buffer.
EveryBufferUnlocked == \A b \in Blocks : hd.bufs[b].lock ~> ~ hd.bufs[b].lock

=============================================================================
