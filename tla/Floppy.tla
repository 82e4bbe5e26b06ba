------------------------------- MODULE Floppy -------------------------------
(***************************************************************************)
(* The floppy driver, kernel/blk_drv/floppy.c: seek, transfer, recalibrate *)
(* and reset as a chain of timers and interrupts, the selection of a drive *)
(* in current_DOR, and the check for a changed floppy, which shares it.    *)
(*                                                                         *)
(* External: the controller carries out the commands it accepts in order,  *)
(* each ends in one interrupt, a reset drops them; a transfer on the wrong *)
(* track or drive is reported as an error.  A timer of add_timer and the   *)
(* start of a motor end some time.  Every block has a track of its own.    *)
(***************************************************************************)
EXTENDS BlockRequests

CONSTANTS
    Blocks,        \* pairs of a drive and a block
    High,          \* those whose buffer lies above 1 MB, out of reach of DMA
    Size,          \* floppy->size, in sectors
    MAX_ERRORS,
    MaxFaults      \* bound: failures that the driver does not count

VARIABLE fd

Drives == {Dev(b) : b \in Blocks}
NoTrack == 255

READ == 0
WRITE == 1

Init ==
    fd = [request |-> NoRequests, queue |-> <<>>,
          bufs |-> [b \in Blocks |-> NoBuffer],
          reset |-> FALSE, recalibrate |-> FALSE, seek |-> FALSE,
          current_drive |-> 0, current_track |-> NoTrack, seek_track |-> 0,
          DOR |-> 0, selected |-> FALSE,
          do_floppy |-> NULL,      \* the handler of the next interrupt
          timer |-> NULL,          \* the function a timer will call
          tmp |-> <<>>,            \* tmp_floppy_area
          ops |-> <<>>,            \* what the controller works on
          pos |-> [n \in Drives |-> 0],
          disk |-> [b \in Blocks |-> <<b, 0>>],
          faults |-> 0,
          check |-> NULL]          \* the drive floppy_change looks at

-----------------------------------------------------------------------------
(* The controller.                                                         *)

MayFault(d) == d.faults < MaxFaults
Faulty(d) == [d EXCEPT !.faults = @ + 1]

IfFaulty(states, d) == IF MayFault(d) THEN states ELSE {}

\* output_byte of a whole command: nothing is sent while reset is set; a
\* controller that does not listen sets it.
output(d, op) ==
    IF d.reset THEN {d}
    ELSE {[d EXCEPT !.ops = @ \o op]}
         \cup IfFaulty({[Faulty(d) EXCEPT !.reset = TRUE]}, d)

floppy_deselect(d) == [d EXCEPT !.selected = FALSE]

ticks_to_floppy_on(d, nr) == IF d.selected THEN d ELSE [d EXCEPT !.DOR = nr]

bad_flp_intr(d) ==
    LET counted == WithCurrent(d, [CURRENT(d) EXCEPT !.errors = @ + 1])
        ended == IF CURRENT(counted).errors > MAX_ERRORS
                 THEN end_request(floppy_deselect(counted), FALSE) ELSE counted
    IN  {IF e > MAX_ERRORS \div 2 THEN [ended EXCEPT !.reset = TRUE]
         ELSE [ended EXCEPT !.recalibrate = TRUE] : e \in ErrorsAfter(ended, MAX_ERRORS)}

-----------------------------------------------------------------------------
(* The steps of a request.                                                 *)

reset_floppy(d) ==
    [d EXCEPT !.reset = FALSE, !.recalibrate = TRUE,
              !.do_floppy = "reset_interrupt", !.ops = <<[op |-> "reset"]>>]

Restarted(states) == {IF d.reset THEN reset_floppy([d EXCEPT !.seek = FALSE]) ELSE d : d \in states}

recalibrate_floppy(d) ==
    Restarted(output([d EXCEPT !.recalibrate = FALSE, !.current_track = 0,
                               !.do_floppy = "recal_interrupt"],
                     <<[op |-> "seek", drive |-> d.current_drive, track |-> 0]>>))

\* The part of do_fd_request behind INIT_REQUEST: a request that is out of
\* range ends at once, and the next one is looked at without clearing seek.
RECURSIVE StartRequest(_)
StartRequest(d) ==
    IF ~ HasCurrent(d) THEN d
    ELSE LET c == CURRENT(d)
             n == [d EXCEPT !.seek = @ \/ d.current_drive # c.dev, !.current_drive = c.dev]
             track == Block(c.bh)
         IN  IF c.sector + 2 > Size THEN StartRequest(end_request(n, FALSE))
             ELSE ticks_to_floppy_on([n EXCEPT !.seek_track = track,
                                               !.seek = @ \/ track # d.current_track,
                                               !.timer = "floppy_on_interrupt"], c.dev)

do_fd_request(d) ==
    LET e == [d EXCEPT !.seek = FALSE]
    IN  CASE e.reset -> {reset_floppy(e)}
          [] ~ e.reset /\ e.recalibrate -> recalibrate_floppy(e)
          [] OTHER -> {StartRequest(e)}

Again(states) == UNION {do_fd_request(d) : d \in states}

\* setup_DMA and setup_rw_floppy.
setup_rw_floppy(d) ==
    LET c == CURRENT(d)
        copied == IF c.bh \in High /\ c.cmd = WRITE
                  THEN [d EXCEPT !.tmp = d.bufs[c.bh].data] ELSE d
    IN  Restarted(output([copied EXCEPT !.do_floppy = "rw_interrupt"],
                         <<[op |-> "rw", drive |-> d.current_drive,
                            track |-> d.seek_track, cmd |-> c.cmd]>>))

transfer(d) ==
    UNION {IF e.reset THEN do_fd_request(e)
           ELSE IF ~ e.seek THEN setup_rw_floppy(e)
           ELSE Restarted(output([e EXCEPT !.do_floppy = "seek_interrupt"],
                                 <<[op |-> "seek", drive |-> e.current_drive,
                                    track |-> e.seek_track]>>)) :
           e \in output(d, <<>>)}      \* FD_SPECIFY has no interrupt

\* Slip: the drive is taken without telling floppy_change.
FloppyOnUnselected ==
    /\ fd.timer = "floppy_on_interrupt"
    /\ LET d == [fd EXCEPT !.timer = NULL]
       IN  IF d.current_drive # d.DOR
           THEN fd' = [d EXCEPT !.DOR = d.current_drive, !.timer = "transfer"]
           ELSE fd' \in transfer(d)

\* floppy_on_interrupt: the drive is forced, unless it is selected already.
FloppyOn ==
    /\ fd.timer = "floppy_on_interrupt"
    /\ LET d == [fd EXCEPT !.timer = NULL, !.selected = TRUE]
       IN  IF d.current_drive # d.DOR
           THEN fd' = [d EXCEPT !.DOR = d.current_drive, !.timer = "transfer"]
           ELSE fd' \in transfer(d)

Transfer ==
    /\ fd.timer = "transfer"
    /\ fd' \in transfer([fd EXCEPT !.timer = NULL])

-----------------------------------------------------------------------------
(* Interrupts.                                                             *)

\* The first of the controller's commands, carried out or failed: the data
\* of a transfer goes to or from the buffer or tmp_floppy_area.
Reachable(op) == fd.pos[op.drive] = op.track /\ fd.DOR = op.drive

Moved(d, op) ==
    LET b == CURRENT(d).bh
        place == <<op.drive, op.track>>
    IN  IF op.cmd = WRITE
        THEN [d EXCEPT !.disk[place] = IF b \in High THEN d.tmp ELSE d.bufs[b].data]
        ELSE IF b \in High THEN [d EXCEPT !.tmp = d.disk[place]]
        ELSE SetBuffer(d, d.disk[place])

Taken == [fd EXCEPT !.ops = Tail(@), !.do_floppy = NULL]

\* rw_interrupt after a transfer that went well.
RwInterrupt ==
    /\ fd.ops # <<>> /\ fd.do_floppy = "rw_interrupt"
    /\ LET op == Head(fd.ops)
       IN  /\ op.op = "rw" /\ Reachable(op)
           /\ LET d == Moved(Taken, op)
                  b == CURRENT(d).bh
                  read == IF b \in High /\ op.cmd = READ THEN SetBuffer(d, d.tmp) ELSE d
              IN  fd' \in do_fd_request(end_request(floppy_deselect(read), TRUE))

\* rw_interrupt finds the floppy write protected.
WriteProtected ==
    /\ fd.ops # <<>> /\ fd.do_floppy = "rw_interrupt"
    /\ Head(fd.ops).op = "rw" /\ Head(fd.ops).cmd = WRITE
    /\ fd' \in do_fd_request(end_request(floppy_deselect(Taken), FALSE))

\* rw_interrupt or seek_interrupt sees an error, or the end of another command.
BadInterrupt ==
    /\ fd.ops # <<>> /\ fd.do_floppy \in {"rw_interrupt", "seek_interrupt"}
    /\ fd' \in Again(bad_flp_intr(Taken))

Arrived(d, op) == IF op.op = "seek" THEN [d EXCEPT !.pos[op.drive] = op.track] ELSE d

SeekInterrupt ==
    /\ fd.ops # <<>> /\ fd.do_floppy = "seek_interrupt"
    /\ Head(fd.ops).op = "seek" /\ Head(fd.ops).track = fd.seek_track
    /\ LET d == Arrived(Taken, Head(fd.ops))
       IN  fd' \in setup_rw_floppy([d EXCEPT !.current_track = d.seek_track])

\* recal_interrupt and unexpected_floppy_interrupt; a reset looks like a
\* recalibration that went well.
SenseInterrupt ==
    /\ fd.ops # <<>> /\ fd.do_floppy \in {"recal_interrupt", NULL}
    /\ LET ok == Arrived(Taken, Head(fd.ops))
           bad == [Faulty(Taken) EXCEPT !.reset = TRUE]
           Answer(d, recalibrate) ==
               {IF d.reset THEN d ELSE [d EXCEPT !.recalibrate = recalibrate]}
           Both(recalibrate) == Answer(ok, recalibrate) \cup IfFaulty({bad}, fd)
       IN  IF fd.do_floppy = NULL THEN fd' \in Both(TRUE) ELSE fd' \in Again(Both(FALSE))

ResetInterrupt ==
    /\ fd.ops # <<>> /\ fd.do_floppy = "reset_interrupt"
    /\ fd' \in Again(output(Arrived(Taken, Head(fd.ops)), <<>>))

Interrupt ==
    RwInterrupt \/ WriteProtected \/ BadInterrupt \/ SeekInterrupt
        \/ SenseInterrupt \/ ResetInterrupt

-----------------------------------------------------------------------------
(* Processes.                                                              *)

\* floppy_change: floppy_on selects the drive if none is selected.
FloppyChange(nr) ==
    /\ fd.check = NULL
    /\ fd' = [ticks_to_floppy_on(fd, nr) EXCEPT !.check = nr]

\* Its motor runs or wait_on_floppy_select was woken: it looks again, and
\* starts over until current_DOR is its drive.
FloppyLook ==
    /\ fd.check # NULL
    /\ fd.DOR = fd.check \/ ~ fd.selected
    /\ fd' = IF fd.DOR = fd.check THEN [fd EXCEPT !.check = NULL]
             ELSE ticks_to_floppy_on(fd, fd.check)

ll_rw_block(b, cmd) ==
    /\ MayRequest(fd, b, cmd)
    /\ LET d == add_request(fd, b, cmd)
       IN  IF HasCurrent(fd) THEN fd' = d ELSE fd' \in do_fd_request(d)

Modify(b) ==
    /\ fd.bufs[b].uptodate /\ ~ fd.bufs[b].lock
    /\ fd' = [fd EXCEPT !.bufs[b].dirt = TRUE, !.bufs[b].data = <<@[1], 1>>]

Next ==
    \/ FloppyOn \/ Transfer \/ Interrupt \/ FloppyLook
    \/ \E nr \in Drives : FloppyChange(nr)
    \/ \E b \in Blocks : Modify(b) \/ \E cmd \in {READ, WRITE} : ll_rw_block(b, cmd)

Spec == Init /\ [][Next]_fd

-----------------------------------------------------------------------------

\* A buffer that is valid and clean is what the floppy has at its place: no
\* stale interrupt, retry or reset ends a request with another one's data.
ValidIsDisk ==
    \A b \in Blocks :
        fd.bufs[b].uptodate /\ ~ fd.bufs[b].lock =>
            /\ fd.bufs[b].data[1] = b
            /\ ~ fd.bufs[b].dirt => fd.bufs[b].data = fd.disk[b]

\* A transfer is only asked of the drive that current_DOR selects, although
\* floppy_change selects another drive whenever none is selected.
DriveIsSelected ==
    \A i \in 1 .. Len(fd.ops) : fd.ops[i].op = "rw" => fd.DOR = fd.ops[i].drive

=============================================================================
