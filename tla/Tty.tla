--------------------------------- MODULE Tty ---------------------------------
(***************************************************************************)
(* A terminal: kernel/chr_drv/tty_io.c, tty_ioctl.c and the use of its     *)
(* queues by the keyboard (keyboard.S), the console (console.c) and the    *)
(* serial line (serial.c).                                                 *)
(*                                                                         *)
(* Three rings of TTY_BUF_SIZE characters: read_q from the interrupt to    *)
(* copy_to_cooked, secondary from there to tty_read, write_q from          *)
(* tty_write and from the echo to the device.  The interrupt does its work *)
(* at once, one character per step here, while tty_read and tty_write may  *)
(* be anywhere: nothing locks the queues.  One process reads and one       *)
(* writes, so a queue has one sleeper (WaitQueue shows that more could be  *)
(* lost).                                                                  *)
(*                                                                         *)
(* Three races can break the queues.  Races is the set of those that may   *)
(* happen:                                                                 *)
(*   "erase"  the last character is erased between tty_read's test that    *)
(*            there is one and its taking it (the erase character is typed *)
(*            then, or was left in read_q behind a full secondary);        *)
(*   "echo"   a key is echoed while the writer has filled write_q;         *)
(*   "drain"  a key is echoed while con_write empties write_q.             *)
(***************************************************************************)
EXTENDS Integers, Sequences, FiniteSets, SequencesExt

CONSTANTS
    TTY_BUF_SIZE,
    KEEP,          \* a partial line is read if LEFT <= KEEP (20 in the code)
    LOWWATER,      \* a writer sleeps until LEFT >= LOWWATER (128)
    WAKEUP_CHARS,  \* the serial line wakes it when fewer are left (256)
    Reader, Writer,
    Keys,          \* what can be typed
    LineKeys,      \* what can arrive on the serial line
    Plain, NL, CR, EOF, ERASE, KILL, INTR, STOP, START,    \* characters
    NULL,
    Races,
    MaxKeys,       \* bound: keys typed
    MaxOut,        \* bound: characters written; every second is a newline
    MaxSets        \* bound: changes of the line discipline

Procs == {Reader, Writer}
Index == 0 .. TTY_BUF_SIZE - 1

VARIABLES
    term,                  \* which device, and termios
    read_q,                \* the read queue
    sbuf, shead, stail,    \* the secondary queue ...
    sdata,                 \* ... and how many line ends are in it
    wbuf, whead, wtail,    \* the write queue
    ier,                   \* has the serial line its write interrupt enabled?
    irq,                   \* is copy_to_cooked at work?
    cr_flag,
    signal,                \* the signals a process has
    alarm,                 \* has the reader an alarm, and had it one before its call?
    oldalarm,
    cpu, pc,
    nr,                    \* what a call has still to read or write
    flag,                  \* is its time limited by the alarm?
    todo,                  \* what con_write has still to take
    received,              \* what was read last
    shown, lost,           \* what came to the device, and what was flushed
    keys, sets, written    \* how much of the bounds is used

second == <<sbuf, shead, stail, sdata>>
output == <<wbuf, whead, wtail, ier, shown, lost>>
calls == <<nr, oldalarm, alarm, flag, todo>>
bounds == <<keys, sets, written>>
vars == <<term, read_q, second, output, irq, cr_flag, signal, cpu, pc, calls, received, bounds>>

\* The console as tty_table has it, and a serial line (no echo, no signals, raw)
\* that a program has set up for timed reading.
Terms == [serial : BOOLEAN, canon : BOOLEAN, timed : BOOLEAN]
Console == [serial |-> FALSE, canon |-> TRUE, timed |-> FALSE]
Line == [serial |-> TRUE, canon |-> FALSE, timed |-> TRUE]

Echo == ~ term.serial
Post == ~ term.serial      \* OPOST | ONLCR

Ends == {NL, EOF}

\* INC, DEC, LEFT, CHARS, EMPTY, FULL, LAST of tty.h.
INC(i) == (i + 1) % TTY_BUF_SIZE
DEC(i) == (i - 1) % TTY_BUF_SIZE
LEFT(head, tail) == (tail - head - 1) % TTY_BUF_SIZE
CHARS(head, tail) == (head - tail) % TTY_BUF_SIZE
EMPTY(head, tail) == head = tail
FULL(head, tail) == LEFT(head, tail) = 0
LAST == sbuf[DEC(shead)]

\* What is in a ring, the oldest first.
Contents(buf, head, tail) ==
    [i \in 1 .. CHARS(head, tail) |-> buf[(tail + i - 1) % TTY_BUF_SIZE]]

\* What is in write_q: the number of a character, or the carriage return put
\* before it.  Every second character is a newline.  What is echoed comes and
\* goes in one step and is not followed to the device.
RETURN == 0
Entries == {RETURN} \cup (1 .. MaxOut)
Newline(c) == c % 2 = 0
Chars == {Plain, NL, CR, EOF, ERASE, KILL, INTR, STOP, START}

ASSUME RingsHaveRoom == TTY_BUF_SIZE \in Nat /\ TTY_BUF_SIZE >= 2
ASSUME KeysAreChars == Keys \subseteq Chars /\ LineKeys \subseteq Chars
ASSUME LineEndStays == NL \notin {ERASE, KILL}
ASSUME TwoProcesses == Reader # Writer /\ NULL \notin Procs
ASSUME BoundIsNumber == MaxOut \in Nat

TypeOK ==
    /\ term \in Terms
    /\ read_q \in Seq(Chars) /\ Len(read_q) < TTY_BUF_SIZE
    /\ sbuf \in [Index -> Chars \cup {NULL}] /\ shead \in Index /\ stail \in Index
    /\ sdata \in Nat
    /\ wbuf \in [Index -> Entries \cup {NULL}] /\ whead \in Index /\ wtail \in Index
    /\ ier \in BOOLEAN /\ irq \in BOOLEAN /\ cr_flag \in BOOLEAN
    /\ signal \in [Procs -> SUBSET {"SIGINT", "SIGALRM"}]
    /\ alarm \in BOOLEAN /\ oldalarm \in BOOLEAN
    /\ cpu \in Procs \cup {NULL}
    /\ pc \in [Procs -> {"user", "read", "readSleep", "take",
                         "write", "full", "writeSleep", "fill", "drain"}]
    /\ nr \in [Procs -> Nat]
    /\ flag \in BOOLEAN /\ todo \in Nat /\ lost \subseteq Entries

\* tty_init.
Init ==
    /\ term \in {Console, Line}
    /\ read_q = <<>>
    /\ sbuf = [i \in Index |-> NULL] /\ shead = 0 /\ stail = 0 /\ sdata = 0
    /\ wbuf = [i \in Index |-> NULL] /\ whead = 0 /\ wtail = 0
    /\ ier = FALSE /\ irq = FALSE /\ cr_flag = FALSE
    /\ signal = [p \in Procs |-> {}]
    /\ alarm = FALSE /\ oldalarm = FALSE
    /\ cpu = NULL
    /\ pc = [p \in Procs |-> "user"]
    /\ nr = [p \in Procs |-> 0] /\ flag = FALSE /\ todo = 0
    /\ received = NULL /\ shown = <<>> /\ lost = {}
    /\ keys = 0 /\ sets = 0 /\ written = 0

-----------------------------------------------------------------------------
(* The interrupt.                                                          *)

\* wake_up on the queue that processes sleep on at a place.
Wake(asleep, awake) == [p \in Procs |-> IF pc[p] = asleep THEN awake ELSE pc[p]]

\* Does the key change secondary or write_q in one of the three races?
Racing(c) ==
    \/ /\ term.canon /\ {ERASE, KILL} \cap (ToSet(read_q) \cup {c}) # {}
       /\ pc[Reader] = "take" /\ "erase" \notin Races
    \/ Echo /\ pc[Writer] = "fill" /\ LEFT(whead, wtail) < 3 /\ "echo" \notin Races
    \/ Echo /\ pc[Writer] = "drain" /\ "drain" \notin Races

\* keyboard_interrupt up to put_queue: a full read_q drops the character.
KeyPress(c) ==
    /\ ~ irq
    /\ keys < MaxKeys
    /\ ~ Racing(c)
    /\ read_q' = IF Len(read_q) = TTY_BUF_SIZE - 1 THEN read_q ELSE Append(read_q, c)
    /\ irq' = TRUE
    /\ keys' = keys + 1
    /\ UNCHANGED <<term, second, output, cr_flag, signal, cpu, pc, calls, received, sets, written>>

\* PUTCH to write_q of n characters that are echoed, then tty->write, which
\* empties the queue if it is the console.  PUTCH tests nothing: if they do not
\* fit, the head passes the tail and what was in the queue is lost.
Echoed(n) ==
    LET head == (whead + n) % TTY_BUF_SIZE
    IN  /\ whead' = head
        /\ wtail' = head
        /\ wbuf' = [i \in Index |-> NULL]
        /\ shown' = IF n <= LEFT(whead, wtail) THEN shown \o Contents(wbuf, whead, wtail) ELSE shown
        /\ UNCHANGED <<ier, lost>>

\* Slip: the end of the line before can be erased.
RubsLines == ~ EMPTY(shead, stail)

\* Is there a character of the current line to take back?
Rubs == ~ EMPTY(shead, stail) /\ LAST \notin Ends

\* ERASE and KILL: the last character is taken back, and again for KILL.
Erased ==
    /\ shead' = DEC(shead)
    /\ UNCHANGED <<sbuf, stail, sdata, signal>>
    /\ IF Echo THEN Echoed(1) ELSE UNCHANGED output

\* An ordinary character goes to secondary and is echoed.
Kept(c) ==
    /\ sbuf' = [sbuf EXCEPT ![shead] = c]
    /\ shead' = INC(shead)
    /\ sdata' = IF c \in Ends THEN sdata + 1 ELSE sdata
    /\ UNCHANGED <<stail, signal>>
    /\ IF Echo THEN Echoed(IF c = NL THEN 2 ELSE 1) ELSE UNCHANGED output

\* tty_intr: both processes are in the group of the terminal.
tty_intr ==
    /\ signal' = [p \in Procs |-> signal[p] \cup {"SIGINT"}]
    /\ UNCHANGED <<second, output>>

\* One turn of the loop of copy_to_cooked.
Cook ==
    LET c == IF read_q[1] = CR /\ ~ term.serial THEN NL ELSE read_q[1]
    IN
    /\ irq
    /\ read_q # <<>> /\ ~ FULL(shead, stail)
    /\ read_q' = IF term.canon /\ c = KILL /\ Rubs THEN read_q ELSE Tail(read_q)
    /\ IF term.canon /\ c \in {ERASE, KILL}
       THEN IF Rubs THEN Erased ELSE UNCHANGED <<second, output, signal>>
       ELSE IF term.canon /\ c \in {STOP, START} THEN UNCHANGED <<second, output, signal>>
       ELSE IF ~ term.serial /\ c = INTR THEN tty_intr
       ELSE Kept(c)
    /\ UNCHANGED <<term, irq, cr_flag, cpu, pc, calls, received, bounds>>

\* Its end: wake_up(&tty->secondary.proc_list).
CookDone ==
    /\ irq
    /\ read_q = <<>> \/ FULL(shead, stail)
    /\ irq' = FALSE
    /\ pc' = Wake("readSleep", "read")
    /\ UNCHANGED <<term, read_q, second, output, cr_flag, signal, cpu, calls, received, bounds>>

\* Slip: the writer is woken only when exactly WAKEUP_CHARS are left.
RsWriteOnce ==
    LET sends == ~ EMPTY(whead, wtail) IN
    /\ ier /\ ~ irq
    /\ shown' = IF sends THEN Append(shown, wbuf[wtail]) ELSE shown
    /\ wtail' = IF sends THEN INC(wtail) ELSE wtail
    /\ wbuf' = IF sends THEN [wbuf EXCEPT ![wtail] = NULL] ELSE wbuf
    /\ ier' = ~ EMPTY(whead, wtail')
    /\ pc' = IF sends /\ CHARS(whead, wtail') = WAKEUP_CHARS THEN Wake("writeSleep", "full") ELSE pc
    /\ UNCHANGED <<term, read_q, second, whead, lost, irq, cr_flag, signal, cpu, calls, received, bounds>>

\* The interrupt of a serial line that can send a character: with nothing to
\* send it only wakes the writer and switches itself off.
RsWrite ==
    LET sends == ~ EMPTY(whead, wtail) IN
    /\ ier /\ ~ irq
    /\ shown' = IF sends THEN Append(shown, wbuf[wtail]) ELSE shown
    /\ wtail' = IF sends THEN INC(wtail) ELSE wtail
    /\ wbuf' = IF sends THEN [wbuf EXCEPT ![wtail] = NULL] ELSE wbuf
    /\ ier' = ~ EMPTY(whead, wtail')
    /\ pc' = IF CHARS(whead, wtail') < WAKEUP_CHARS THEN Wake("writeSleep", "full") ELSE pc
    /\ UNCHANGED <<term, read_q, second, whead, lost, irq, cr_flag, signal, cpu, calls, received, bounds>>

-----------------------------------------------------------------------------
(* tty_read.                                                               *)

At(p, place) == ~ irq /\ cpu = p /\ pc[p] = place

Goto(p, place) == pc' = [pc EXCEPT ![p] = place]

Switchable == cpu \in {NULL} \cup {p \in Procs : pc[p] = "user"}

\* schedule(): a process that sleeps runs when it was woken or has a signal.
Schedule(p) ==
    /\ ~ irq
    /\ Switchable
    /\ cpu # p
    /\ pc[p] \in {"readSleep", "writeSleep"} => signal[p] # {}
    /\ cpu' = p
    /\ pc' = [pc EXCEPT ![p] = CASE @ = "readSleep" -> "read" [] @ = "writeSleep" -> "full"
                                 [] OTHER -> @]
    /\ UNCHANGED <<term, read_q, second, output, irq, cr_flag, signal, calls, received, bounds>>

\* The alarm of the reader rings (schedule looks at all alarms).
AlarmRings ==
    /\ ~ irq
    /\ alarm /\ Switchable
    /\ signal' = [signal EXCEPT ![Reader] = @ \cup {"SIGALRM"}]
    /\ alarm' = FALSE
    /\ UNCHANGED <<term, read_q, second, output, irq, cr_flag, cpu, pc, nr, oldalarm,
                   flag, todo, received, bounds>>

\* Back in user mode the signals are handled (do_signal).
Handle(p) ==
    /\ At(p, "user")
    /\ signal[p] # {}
    /\ signal' = [signal EXCEPT ![p] = {}]
    /\ UNCHANGED <<term, read_q, second, output, irq, cr_flag, cpu, pc, calls, received, bounds>>

\* The start of tty_read: with VTIME and no VMIN the read is limited in time,
\* unless the process has an alarm, which comes before.
Read(n) ==
    /\ At(Reader, "user") /\ signal[Reader] = {}
    /\ nr' = [nr EXCEPT ![Reader] = n]
    /\ oldalarm' = alarm
    /\ flag' = (term.timed /\ ~ alarm)
    /\ alarm' = (alarm \/ flag')
    /\ Goto(Reader, "read")
    /\ UNCHANGED <<term, read_q, second, output, irq, cr_flag, signal, cpu, todo, received, bounds>>

\* Back to user mode; what the call kept is of no use any more.
LeaveRead ==
    /\ Goto(Reader, "user")
    /\ nr' = [nr EXCEPT ![Reader] = 0]
    /\ oldalarm' = FALSE /\ flag' = FALSE

ReadReturns == alarm' = oldalarm /\ LeaveRead

\* A partial line is not given to the reader unless the queue is nearly full.
NothingToRead ==
    \/ EMPTY(shead, stail)
    \/ term.canon /\ sdata = 0 /\ LEFT(shead, stail) > KEEP

\* The head of the loop: leave for a signal; the alarm that limits this read
\* is then forgotten.
ReadSignalled ==
    /\ At(Reader, "read")
    /\ signal[Reader] # {}
    /\ signal' = [signal EXCEPT ![Reader] = IF flag THEN @ \ {"SIGALRM"} ELSE @]
    /\ ReadReturns
    /\ UNCHANGED <<term, read_q, second, output, irq, cr_flag, cpu, todo, received, bounds>>

\* sleep_if_empty sleeps; for a partial line it returns at once and the loop
\* goes round, which changes nothing.
ReadSleep ==
    /\ At(Reader, "read")
    /\ signal[Reader] = {} /\ NothingToRead
    /\ IF EMPTY(shead, stail) THEN Goto(Reader, "readSleep") /\ cpu' = NULL
                              ELSE UNCHANGED <<pc, cpu>>
    /\ UNCHANGED <<term, read_q, second, output, irq, cr_flag, signal, calls, received, bounds>>

ReadStarts ==
    /\ At(Reader, "read")
    /\ signal[Reader] = {} /\ ~ NothingToRead
    /\ Goto(Reader, "take")
    /\ UNCHANGED <<term, read_q, second, output, irq, cr_flag, signal, cpu, calls, received, bounds>>

\* GETCH and what follows, up to the test for the next turn.  A canonical read
\* that got something ends when the queue is empty, a raw one at VMIN = 1.
TakeChar ==
    LET c == sbuf[stail]
        eof == c = EOF /\ term.canon
        more == nr[Reader] > 1 /\ ~ EMPTY(shead, INC(stail))
    IN
    /\ At(Reader, "take")
    /\ stail' = INC(stail)
    /\ sbuf' = [sbuf EXCEPT ![stail] = NULL]
    /\ sdata' = IF c \in Ends THEN sdata - 1 ELSE sdata
    /\ received' = IF eof THEN received ELSE c
    /\ IF eof THEN LeaveRead /\ UNCHANGED alarm
       ELSE IF more THEN /\ nr' = [nr EXCEPT ![Reader] = @ - 1]
                         /\ UNCHANGED <<pc, alarm, oldalarm, flag>>
       ELSE ReadReturns
    /\ UNCHANGED <<term, read_q, shead, output, irq, cr_flag, signal, cpu, todo, bounds>>

-----------------------------------------------------------------------------
(* tty_write.                                                              *)

\* The n next characters are written; every second one is a newline.
Write(n) ==
    /\ At(Writer, "user") /\ signal[Writer] = {}
    /\ written + n <= MaxOut
    /\ nr' = [nr EXCEPT ![Writer] = n]
    /\ Goto(Writer, "write")
    /\ UNCHANGED <<term, read_q, second, output, irq, cr_flag, signal, cpu, oldalarm, alarm,
                   flag, todo, received, bounds>>

\* The head of the loop: the test of sleep_if_full.
WriteChecks ==
    /\ At(Writer, "write")
    /\ Goto(Writer, IF FULL(whead, wtail) THEN "full"
                    ELSE IF signal[Writer] # {} THEN "user" ELSE "fill")
    /\ nr' = [nr EXCEPT ![Writer] = IF pc'[Writer] = "user" THEN 0 ELSE @]
    /\ UNCHANGED <<term, read_q, second, output, irq, cr_flag, signal, cpu, oldalarm, alarm, flag, todo,
                   received, bounds>>

\* The loop of sleep_if_full, which waits for more than one free place.
WriteSleeps ==
    /\ At(Writer, "full")
    /\ IF signal[Writer] = {} /\ LEFT(whead, wtail) < LOWWATER
       THEN Goto(Writer, "writeSleep") /\ cpu' = NULL
       ELSE Goto(Writer, IF signal[Writer] # {} THEN "user" ELSE "fill") /\ UNCHANGED cpu
    /\ nr' = [nr EXCEPT ![Writer] = IF pc'[Writer] = "user" THEN 0 ELSE @]
    /\ UNCHANGED <<term, read_q, second, output, irq, cr_flag, signal, oldalarm, alarm, flag, todo,
                   received, bounds>>

Filling == nr[Writer] > 0 /\ ~ FULL(whead, wtail)

\* Slip: the carriage return counts as the character itself.
FillCountsCr ==
    LET c == written + 1
        cr == Post /\ Newline(c) /\ ~ cr_flag
    IN
    /\ At(Writer, "fill") /\ Filling
    /\ wbuf' = [wbuf EXCEPT ![whead] = IF cr THEN RETURN ELSE c]
    /\ whead' = INC(whead)
    /\ cr_flag' = cr
    /\ written' = written + 1
    /\ nr' = [nr EXCEPT ![Writer] = @ - 1]
    /\ UNCHANGED <<term, read_q, second, wtail, ier, shown, lost, irq, signal, cpu, pc, oldalarm,
                   alarm, flag, todo, received, keys, sets>>

\* One turn of the inner loop: a newline is preceded by a carriage return, and
\* cr_flag remembers that it was put, also when the queue is full in between.
Fill ==
    LET c == written + 1
        cr == Post /\ Newline(c) /\ ~ cr_flag
    IN
    /\ At(Writer, "fill") /\ Filling
    /\ wbuf' = [wbuf EXCEPT ![whead] = IF cr THEN RETURN ELSE c]
    /\ whead' = INC(whead)
    /\ cr_flag' = cr
    /\ written' = IF cr THEN written ELSE written + 1
    /\ nr' = IF cr THEN nr ELSE [nr EXCEPT ![Writer] = @ - 1]
    /\ UNCHANGED <<term, read_q, second, wtail, ier, shown, lost, irq, signal, cpu, pc, oldalarm,
                   alarm, flag, todo, received, keys, sets>>

\* schedule() if there is more to write: another process may go on.
WriteTurns ==
    /\ Goto(Writer, IF nr[Writer] > 0 THEN "write" ELSE "user")
    /\ cpu' \in IF nr[Writer] > 0 THEN {NULL, Writer} ELSE {Writer}

\* tty->write: rs_write enables the interrupt, con_write counts what it takes.
WriteOut ==
    /\ At(Writer, "fill") /\ ~ Filling
    /\ IF term.serial
       THEN /\ ier' = (ier \/ ~ EMPTY(whead, wtail))
            /\ WriteTurns
            /\ UNCHANGED todo
       ELSE /\ todo' = CHARS(whead, wtail)
            /\ Goto(Writer, "drain")
            /\ UNCHANGED <<ier, cpu>>
    /\ UNCHANGED <<term, read_q, second, wbuf, whead, wtail, shown, lost, irq, cr_flag, signal, nr,
                   oldalarm, alarm, flag, received, bounds>>

\* The loop of con_write, one GETCH each.
Drain ==
    /\ At(Writer, "drain")
    /\ IF todo > 0
       THEN /\ shown' = Append(shown, wbuf[wtail])
            /\ wbuf' = [wbuf EXCEPT ![wtail] = NULL]
            /\ wtail' = INC(wtail)
            /\ todo' = todo - 1
            /\ UNCHANGED <<pc, cpu>>
       ELSE WriteTurns /\ UNCHANGED <<shown, wbuf, wtail, todo>>
    /\ UNCHANGED <<term, read_q, second, whead, ier, lost, irq, cr_flag, signal, nr, oldalarm,
                   alarm, flag, received, bounds>>

-----------------------------------------------------------------------------
(* tty_ioctl, by either process.                                           *)

\* TCSETS and TCSETA, TCSETSF and TCSETAF: the line discipline is changed at
\* once; the second two flush read_q, and none flushes secondary.
SetTermios(p, flushed) ==
    /\ At(p, "user") /\ sets < MaxSets
    /\ term' = [term EXCEPT !.canon = ~ @]
    /\ read_q' = IF flushed THEN <<>> ELSE read_q
    /\ sets' = sets + 1
    /\ UNCHANGED <<second, output, irq, cr_flag, signal, cpu, pc, calls, received, keys, written>>

\* TCFLSH: head = tail in read_q (0), in write_q (1) or in both (2).
Flush(p, arg) ==
    /\ At(p, "user") /\ sets < MaxSets
    /\ read_q' = IF arg \in {0, 2} THEN <<>> ELSE read_q
    /\ IF arg \in {1, 2}
       THEN /\ lost' = lost \cup ToSet(Contents(wbuf, whead, wtail))
            /\ wbuf' = [i \in Index |-> NULL]
            /\ whead' = wtail
       ELSE UNCHANGED <<lost, wbuf, whead>>
    /\ sets' = sets + 1
    /\ UNCHANGED <<term, second, wtail, ier, shown, irq, cr_flag, signal, cpu, pc, calls,
                   received, keys, written>>

-----------------------------------------------------------------------------
KernelStep ==
    \/ Cook \/ CookDone
    \/ ReadSignalled \/ ReadSleep \/ ReadStarts \/ TakeChar
    \/ WriteChecks \/ WriteSleeps \/ Fill \/ WriteOut \/ Drain

Next ==
    \/ KernelStep
    \/ RsWrite
    \/ AlarmRings
    \/ \E c \in (IF term.serial THEN LineKeys ELSE Keys) : KeyPress(c)
    \/ \E n \in 1 .. 2 : Read(n) \/ Write(n)
    \/ \E p \in Procs : \/ Schedule(p) \/ Handle(p)
                         \/ \E arg \in 0 .. 2 : Flush(p, arg)
                         \/ \E b \in BOOLEAN : SetTermios(p, b)

Spec == Init /\ [][Next]_vars

\* The kernel goes on, the line sends, alarms ring and schedule chooses every
\* process at last.
Fairness ==
    /\ WF_vars(KernelStep)
    /\ WF_vars(RsWrite)
    /\ WF_vars(AlarmRings)
    /\ \A p \in Procs : SF_vars(Schedule(p)) /\ SF_vars(Handle(p))

FairSpec == Spec /\ Fairness

-----------------------------------------------------------------------------
(* Properties.                                                             *)

\* secondary.data is the number of line ends in the queue, through editing,
\* reading and changes of the line discipline: tty_read waits for it.
LineCells(buf, head, tail) ==
    {i \in Index : CHARS(i, tail) < CHARS(head, tail) /\ buf[i] \in Ends}

LinesCounted == sdata = Cardinality(LineCells(sbuf, shead, stail))

\* What the reader gets is what a line editor makes of what is typed.
Editor == INSTANCE LineEditor WITH typed <- Contents(sbuf, shead, stail)
ImplementsLineEditor == Editor!Spec

\* What was written comes to the device in order, each character once, unless
\* it was flushed; a newline has its carriage return before it.
OutputInOrder ==
    LET out == shown \o Contents(wbuf, whead, wtail)
    IN  /\ ToSet(out) \subseteq Entries
        /\ \A i, j \in 1 .. Len(out) :
              i < j /\ out[i] # RETURN /\ out[j] # RETURN => out[i] < out[j]
        /\ (ToSet(out) \cup lost) \ {RETURN} = 1 .. written
        /\ Post /\ lost = {} =>
              \A i \in 1 .. Len(out) :
                  out[i] # RETURN /\ Newline(out[i]) => i > 1 /\ out[i-1] = RETURN

\* tty_read goes round and round in the kernel as long as there is a partial
\* line; nobody else runs then, and schedule does not look at the alarms.
Spinning == pc[Reader] = "read" /\ cpu = Reader /\ NothingToRead

\* Reading: a reader that waits for a line gets it, a signal ends its call, and so does
\* the time of a read that is limited in time, unless it spins.
LinesAreRead ==
    /\ [](pc[Reader] = "readSleep" /\ sdata > 0 => <> (pc[Reader] = "user"))
    /\ [](pc[Reader] # "user" /\ signal[Reader] # {} => <> (pc[Reader] = "user"))
    /\ [](pc[Reader] = "readSleep" /\ flag => <> (pc[Reader] = "user" \/ Spinning))

\* A write ends, unless the reader spins and keeps the processor.
WritesReturn == pc[Writer] # "user" ~> (pc[Writer] = "user" \/ Spinning)

\* Calls of both return.
CallsReturn == LinesAreRead /\ WritesReturn

=============================================================================
