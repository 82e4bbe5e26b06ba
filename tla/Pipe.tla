-------------------------------- MODULE Pipe --------------------------------
(***************************************************************************)
(* A pipe: read_pipe and write_pipe of fs/pipe.c, and the closing of its   *)
(* ends by sys_close (fs/open.c) and iput (fs/inode.c).                    *)
(*                                                                         *)
(* The data is in one page that is used as a ring; its head and tail are   *)
(* in i_zone[0] and i_zone[1] of the inode.  Readers and writers sleep on  *)
(* the same queue i_wait, and tell from i_count whether the other end is   *)
(* still open: it counts the two file structures, which the processes      *)
(* share after a fork.                                                     *)
(*                                                                         *)
(* A process in the kernel keeps the CPU until it sleeps.  The copy loops  *)
(* access user memory; when the page is not present the fault sleeps       *)
(* (MayFault), after head or tail has been advanced.  sleep_on and wake_up *)
(* are those of WaitQueue: a wake_up reaches every sleeper.                *)
(***************************************************************************)
EXTENDS Integers, Sequences, FiniteSets, FiniteSetsExt

CONSTANTS
    Procs,       \* the process that called sys_pipe and its descendants
    Creator,     \* that process
    NULL,
    PAGE_SIZE,
    Counts,      \* bound: the counts of the reads and writes
    MaxBytes,    \* bound: bytes written in all
    MayFault

ASSUME PageHasRoom == PAGE_SIZE \in Nat /\ PAGE_SIZE >= 2
ASSUME BoundsAreNumbers == Counts \subseteq Nat \ {0} /\ MaxBytes \in Nat
ASSUME FaultIsBoolean == MayFault \in BOOLEAN
ASSUME CreatorIsProcess == Creator \in Procs /\ NULL \notin Procs
ASSUME ProcsAreFinite == IsFiniteSet(Procs)

Ends == {"r", "w"}

Places == {"user", "read", "copyOut", "readSleep", "write", "copyIn", "writeSleep"}

VARIABLES
    page,        \* the page of the pipe; a byte is the number of its writing
    head, tail,  \* PIPE_HEAD and PIPE_TAIL
    i_count,
    f_count,     \* of the file structure of each end
    filp,        \* the ends a process has a descriptor for
    born,        \* the processes that have been forked so far
    sigpipe,     \* does it have the signal SIGPIPE?
    cpu, pc,     \* the process that has the CPU, and where each one is
    left,        \* count: what its call has still to read or write
    from, chars, \* the chunk it copies: where it starts and how long it is
    base,        \* the number of the byte before that chunk, in a write
    sent,        \* how many bytes have been written
    received     \* the bytes that were read, in that order

ring == <<page, head, tail, sent>>
files == <<i_count, f_count, filp, born>>
chunk == <<from, chars, base>>
vars == <<ring, received, files, sigpipe, cpu, pc, left, chunk>>

TypeOK ==
    /\ page \in [0 .. PAGE_SIZE - 1 -> Nat]
    /\ head \in 0 .. PAGE_SIZE - 1
    /\ tail \in 0 .. PAGE_SIZE - 1
    /\ i_count \in 0 .. 2
    /\ f_count \in [Ends -> Nat]
    /\ filp \in [Procs -> SUBSET Ends]
    /\ born \subseteq Procs
    /\ sigpipe \in [Procs -> BOOLEAN]
    /\ cpu \in Procs \cup {NULL}
    /\ pc \in [Procs -> Places]
    /\ left \in [Procs -> Nat]
    /\ from \in [Procs -> 0 .. PAGE_SIZE - 1]
    /\ chars \in [Procs -> 0 .. PAGE_SIZE]
    /\ base \in [Procs -> Nat]
    /\ sent \in Nat
    /\ received \in Seq(Nat)

\* After a successful sys_pipe: get_pipe_inode sets i_count to 2.
Init ==
    /\ page = [i \in 0 .. PAGE_SIZE - 1 |-> 0]
    /\ head = 0
    /\ tail = 0
    /\ i_count = 2
    /\ f_count = [e \in Ends |-> 1]
    /\ filp = [p \in Procs |-> IF p = Creator THEN Ends ELSE {}]
    /\ born = {Creator}
    /\ cpu = Creator
    /\ sigpipe = [p \in Procs |-> FALSE]
    /\ pc = [p \in Procs |-> "user"]
    /\ left = [p \in Procs |-> 0]
    /\ from = [p \in Procs |-> 0]
    /\ chars = [p \in Procs |-> 0]
    /\ base = [p \in Procs |-> 0]
    /\ sent = 0
    /\ received = <<>>

-----------------------------------------------------------------------------

\* PIPE_SIZE: the & (PAGE_SIZE - 1) of the code, for a power of two.
PIPE_SIZE == (head - tail) % PAGE_SIZE

Asleep(p) == pc[p] \in {"readSleep", "writeSleep"}

Min3(a, b, c) == Min({a, b, c})

Schedule(p) ==
    /\ cpu # NULL => \/ pc[cpu] = "user" \/ Asleep(cpu)
                     \/ MayFault /\ pc[cpu] \in {"copyIn", "copyOut"}
    /\ p \in born \ {cpu}
    /\ ~ Asleep(p)
    /\ cpu' = p
    /\ UNCHANGED <<ring, received, files, sigpipe, pc, left, chunk>>

At(p, place) == cpu = p /\ pc[p] = place

Goto(p, place) == pc' = [pc EXCEPT ![p] = place]

\* wake_up(&inode->i_wait), then go on at place.
WakeAndGoto(p, place) ==
    pc' = [q \in Procs |-> IF q = p THEN place
                           ELSE IF pc[q] = "readSleep" THEN "read"
                           ELSE IF pc[q] = "writeSleep" THEN "write"
                           ELSE pc[q]]

-----------------------------------------------------------------------------
(* read_pipe.                                                              *)

\* sys_read on the read end.  The end it needs is checked by f_mode.
Read(p, n) ==
    /\ At(p, "user")
    /\ "r" \in filp[p]
    /\ left' = [left EXCEPT ![p] = n]
    /\ Goto(p, "read")
    /\ UNCHANGED <<ring, received, files, sigpipe, cpu, chunk>>

\* Slip: the chunk may go beyond the end of the page.
ReadChunkNoWrap(p) ==
    LET n == Min({left[p], PIPE_SIZE}) IN
    /\ At(p, "read")
    /\ left[p] > 0
    /\ PIPE_SIZE > 0
    /\ left' = [left EXCEPT ![p] = @ - n]
    /\ from' = [from EXCEPT ![p] = tail]
    /\ chars' = [chars EXCEPT ![p] = Min({n, PAGE_SIZE - tail})]
    /\ tail' = (tail + n) % PAGE_SIZE
    /\ Goto(p, "copyOut")
    /\ UNCHANGED <<page, head, sent, received, files, sigpipe, cpu, base>>

\* There is data: take the part that does not wrap around, and advance tail.
ReadChunk(p) ==
    LET n == Min3(PAGE_SIZE - tail, left[p], PIPE_SIZE) IN
    /\ At(p, "read")
    /\ left[p] > 0
    /\ PIPE_SIZE > 0
    /\ left' = [left EXCEPT ![p] = @ - n]
    /\ from' = [from EXCEPT ![p] = tail]
    /\ chars' = [chars EXCEPT ![p] = n]
    /\ tail' = (tail + n) % PAGE_SIZE
    /\ Goto(p, "copyOut")
    /\ UNCHANGED <<page, head, sent, received, files, sigpipe, cpu, base>>

\* The put_fs_byte loop.
CopyOut(p) ==
    /\ At(p, "copyOut")
    /\ received' = received \o [i \in 1 .. chars[p] |-> page[from[p] + i - 1]]
    /\ from' = [from EXCEPT ![p] = 0]
    /\ chars' = [chars EXCEPT ![p] = 0]
    /\ Goto(p, "read")
    /\ UNCHANGED <<ring, files, sigpipe, cpu, left, base>>

\* The pipe is empty: return if there are no writers, else sleep.
ReadEmpty(p) ==
    /\ At(p, "read")
    /\ left[p] > 0
    /\ PIPE_SIZE = 0
    /\ WakeAndGoto(p, IF i_count # 2 THEN "user" ELSE "readSleep")
    /\ left' = [left EXCEPT ![p] = IF i_count # 2 THEN 0 ELSE @]
    /\ UNCHANGED <<ring, received, files, sigpipe, cpu, chunk>>

ReadDone(p) ==
    /\ At(p, "read")
    /\ left[p] = 0
    /\ WakeAndGoto(p, "user")
    /\ UNCHANGED <<ring, received, files, sigpipe, cpu, left, chunk>>

-----------------------------------------------------------------------------
(* write_pipe.                                                             *)

Write(p, n) ==
    /\ At(p, "user")
    /\ "w" \in filp[p]
    /\ sent + n <= MaxBytes
    /\ left' = [left EXCEPT ![p] = n]
    /\ Goto(p, "write")
    /\ UNCHANGED <<ring, received, files, sigpipe, cpu, chunk>>

\* Slip: the last byte of the page is used too, and full looks like empty.
WriteChunkFills(p) ==
    LET n == Min3(PAGE_SIZE - head, left[p], PAGE_SIZE - PIPE_SIZE) IN
    /\ At(p, "write")
    /\ left[p] > 0
    /\ PIPE_SIZE < PAGE_SIZE - 1
    /\ left' = [left EXCEPT ![p] = @ - n]
    /\ from' = [from EXCEPT ![p] = head]
    /\ chars' = [chars EXCEPT ![p] = n]
    /\ base' = [base EXCEPT ![p] = sent]
    /\ head' = (head + n) % PAGE_SIZE
    /\ sent' = sent + n
    /\ Goto(p, "copyIn")
    /\ UNCHANGED <<page, tail, received, files, sigpipe, cpu>>

\* There is room: one byte of the page always stays free.
WriteChunk(p) ==
    LET n == Min3(PAGE_SIZE - head, left[p], PAGE_SIZE - 1 - PIPE_SIZE) IN
    /\ At(p, "write")
    /\ left[p] > 0
    /\ PIPE_SIZE < PAGE_SIZE - 1
    /\ left' = [left EXCEPT ![p] = @ - n]
    /\ from' = [from EXCEPT ![p] = head]
    /\ chars' = [chars EXCEPT ![p] = n]
    /\ base' = [base EXCEPT ![p] = sent]
    /\ head' = (head + n) % PAGE_SIZE
    /\ sent' = sent + n
    /\ Goto(p, "copyIn")
    /\ UNCHANGED <<page, tail, received, files, sigpipe, cpu>>

\* The get_fs_byte loop.
CopyIn(p) ==
    /\ At(p, "copyIn")
    /\ page' = [i \in 0 .. PAGE_SIZE - 1 |->
                  IF i \in from[p] .. from[p] + chars[p] - 1
                  THEN base[p] + i - from[p] + 1 ELSE page[i]]
    /\ from' = [from EXCEPT ![p] = 0]
    /\ chars' = [chars EXCEPT ![p] = 0]
    /\ base' = [base EXCEPT ![p] = 0]
    /\ Goto(p, "write")
    /\ UNCHANGED <<head, tail, sent, received, files, sigpipe, cpu, left>>

\* The pipe is full: SIGPIPE if there are no readers, else sleep.
WriteFull(p) ==
    /\ At(p, "write")
    /\ left[p] > 0
    /\ PIPE_SIZE = PAGE_SIZE - 1
    /\ WakeAndGoto(p, IF i_count # 2 THEN "user" ELSE "writeSleep")
    /\ sigpipe' = [sigpipe EXCEPT ![p] = @ \/ i_count # 2]
    /\ left' = [left EXCEPT ![p] = IF i_count # 2 THEN 0 ELSE @]
    /\ UNCHANGED <<ring, received, files, cpu, chunk>>

\* Slip: the readers are not woken up.
WriteDoneSilent(p) ==
    /\ At(p, "write")
    /\ left[p] = 0
    /\ Goto(p, "user")
    /\ UNCHANGED <<ring, received, files, sigpipe, cpu, left, chunk>>

WriteDone(p) ==
    /\ At(p, "write")
    /\ left[p] = 0
    /\ WakeAndGoto(p, "user")
    /\ UNCHANGED <<ring, received, files, sigpipe, cpu, left, chunk>>

-----------------------------------------------------------------------------
(* The file structures.                                                    *)

\* Slip: iput does not wake those who wait for the other end.
CloseSilent(p, e) ==
    /\ At(p, "user")
    /\ e \in filp[p]
    /\ filp' = [filp EXCEPT ![p] = @ \ {e}]
    /\ f_count' = [f_count EXCEPT ![e] = @ - 1]
    /\ i_count' = IF f_count[e] = 1 THEN i_count - 1 ELSE i_count
    /\ UNCHANGED <<ring, received, born, sigpipe, cpu, pc, left, chunk>>

\* Slip: every close releases the inode, not only the last one.
CloseAlways(p, e) ==
    /\ At(p, "user")
    /\ e \in filp[p]
    /\ i_count > 0
    /\ filp' = [filp EXCEPT ![p] = @ \ {e}]
    /\ f_count' = [f_count EXCEPT ![e] = @ - 1]
    /\ WakeAndGoto(p, "user")
    /\ i_count' = i_count - 1
    /\ UNCHANGED <<ring, received, born, sigpipe, cpu, left, chunk>>

\* sys_close, also called by do_exit: the last close of an end calls iput.
Close(p, e) ==
    /\ At(p, "user")
    /\ e \in filp[p]
    /\ filp' = [filp EXCEPT ![p] = @ \ {e}]
    /\ f_count' = [f_count EXCEPT ![e] = @ - 1]
    /\ IF f_count[e] = 1
       THEN WakeAndGoto(p, "user") /\ i_count' = i_count - 1
       ELSE UNCHANGED <<pc, i_count>>
    /\ UNCHANGED <<ring, received, born, sigpipe, cpu, left, chunk>>

\* copy_process: the child q shares the file structures of its father.
Fork(p, q) ==
    /\ At(p, "user")
    /\ q \notin born
    /\ born' = born \cup {q}
    /\ filp' = [filp EXCEPT ![q] = filp[p]]
    /\ f_count' = [e \in Ends |-> IF e \in filp[p] THEN f_count[e] + 1 ELSE f_count[e]]
    /\ UNCHANGED <<ring, received, i_count, sigpipe, cpu, pc, left, chunk>>

-----------------------------------------------------------------------------

KernelStep(p) ==
    \/ ReadChunk(p) \/ CopyOut(p) \/ ReadEmpty(p) \/ ReadDone(p)
    \/ WriteChunk(p) \/ CopyIn(p) \/ WriteFull(p) \/ WriteDone(p)

CloseOne(p) == \E e \in Ends : Close(p, e)

Call(p) ==
    \/ \E n \in Counts : Read(p, n) \/ Write(p, n)
    \/ \E q \in Procs : Fork(p, q)

Next == \E p \in Procs : Schedule(p) \/ KernelStep(p) \/ CloseOne(p) \/ Call(p)

Spec == Init /\ [][Next]_vars

(***************************************************************************)
(* The scheduler runs whoever can run, kernel code runs on until it        *)
(* sleeps, and a process that is not in the kernel exits in the end, which *)
(* closes its descriptors.                                                 *)
(***************************************************************************)
Fairness ==
    /\ WF_vars(\E p \in Procs : KernelStep(p))
    /\ \A p \in Procs : SF_vars(Schedule(p)) /\ SF_vars(CloseOne(p))

FairSpec == Spec /\ Fairness

-----------------------------------------------------------------------------

\* What is between tail and head, the oldest byte first.
Buffered == [i \in 1 .. PIPE_SIZE |-> page[(tail + i - 1) % PAGE_SIZE]]

\* Bytes leave the pipe in the order in which they were written, none twice and
\* none missing: the n-th byte that is read is the n-th that was written.
InOrder == \A i \in 1 .. Len(received) : received[i] = i

\* The processes in a copy loop (at most one if no fault sleeps there).
CopyingOut == {p \in Procs : pc[p] = "copyOut"}
CopyingIn == {p \in Procs : pc[p] = "copyIn"}

\* The bytes head has been advanced for that are not in the page yet.
Pending == IF CopyingIn = {} THEN 0 ELSE chars[CHOOSE p \in CopyingIn : TRUE]

(***************************************************************************)
(* The page implements ByteStream: a byte is in the stream from the end of *)
(* the loop that copies it in to the end of the loop that copies it out.   *)
(***************************************************************************)
Stream ==
    LET Out(p) == [i \in 1 .. chars[p] |-> page[from[p] + i - 1]]
    IN  (IF CopyingOut = {} THEN <<>> ELSE Out(CHOOSE p \in CopyingOut : TRUE))
        \o SubSeq(Buffered, 1, PIPE_SIZE - Pending)

Bytes == INSTANCE ByteStream
         WITH Capacity <- PAGE_SIZE - 1,
              stream <- Stream,
              sent <- sent - Pending

ImplementsByteStream == Bytes!Spec

\* f_count counts descriptors and i_count the ends that are open: the tests
\* i_count != 2 tell whether the other end is closed.
EndsAreCounted ==
    /\ \A e \in Ends : f_count[e] = Cardinality({p \in Procs : e \in filp[p]})
    /\ i_count = Cardinality({e \in Ends : \E p \in Procs : e \in filp[p]})

(***************************************************************************)
(* Readers and writers share one queue and are woken only at the end of a  *)
(* call or when somebody must wait.  Still, whenever the CPU is not in the *)
(* middle of a call, only those sleep who must: never a reader while there *)
(* is data, a writer while there is room, or one whose other end is gone.  *)
(***************************************************************************)
NobodySleepsInVain ==
    (cpu # NULL => pc[cpu] = "user" \/ Asleep(cpu)) =>
        \A p \in Procs :
            /\ pc[p] = "readSleep" => PIPE_SIZE = 0 /\ i_count = 2
            /\ pc[p] = "writeSleep" => PIPE_SIZE = PAGE_SIZE - 1 /\ i_count = 2

\* A read comes back short only at the end of the stream, and a writer gets
\* SIGPIPE only when nobody can read any more.
HonestReturns ==
    [][\A p \in Procs :
        /\ pc[p] = "read" /\ pc'[p] = "user" /\ left[p] > 0 =>
              PIPE_SIZE = 0 /\ \A q \in Procs : "w" \notin filp[q]
        /\ sigpipe'[p] /\ ~ sigpipe[p] => \A q \in Procs : "r" \notin filp[q]]_vars

\* A process that waits for itself: it sleeps at one end and holds the other.
Entangled ==
    \E p \in Procs : \/ pc[p] = "readSleep" /\ "w" \in filp[p]
                     \/ pc[p] = "writeSleep" /\ "r" \in filp[p]

\* If processes close what they do not use, every read and write returns.
CallsReturn == \A p \in Procs : (pc[p] # "user") ~> (pc[p] = "user" \/ Entangled)

=============================================================================
