----------------------------- MODULE BufferCache -----------------------------
(***************************************************************************)
(* The buffer cache of fs/buffer.c on top of the request queue of          *)
(* kernel/blk_drv/ll_rw_blk.c and blk.h, for one block device.             *)
(*                                                                         *)
(* One CPU without preemption in the kernel: the process that has it (cpu) *)
(* keeps it until it sleeps, so what it does between two sleeps is atomic  *)
(* for the other processes but not for the disk interrupt, which may come  *)
(* between any two of the steps below.  sleep_on and wake_up are taken as  *)
(* WaitQueue shows them to work: a wake_up reaches every sleeper.  Which   *)
(* free buffer getblk meets first is left open (the free list is circular  *)
(* and its order only decides between equally good buffers).               *)
(***************************************************************************)
EXTENDS Naturals, Sequences, FiniteSets, FiniteSetsExt, TLC

CONSTANTS
    Procs,         \* the processes that use the cache
    NULL,          \* no process, no block, no buffer
    NR_BUFFERS,
    Blocks,        \* the block numbers of the device
    AheadBlocks,   \* those that breada is asked to read ahead
    NR_REQUEST,
    MaxOps,        \* bound: operations one process starts
    MaxHold,       \* bound: buffers one process keeps at the same time
    MayFail,       \* may the device report errors?
    MayFault       \* may get_fs_byte in file_write fault and sleep?

ASSUME ProcsAreFinite == IsFiniteSet(Procs)
ASSUME BuffersExist == NR_BUFFERS \in Nat \ {0}
ASSUME SlotsExist == NR_REQUEST \in Nat /\ NR_REQUEST >= 2
ASSUME BlocksAreNumbers == Blocks \subseteq Nat /\ AheadBlocks \subseteq Blocks
ASSUME BoundsAreNumbers == MaxOps \in Nat /\ MaxHold \in Nat
ASSUME FlagsAreBoolean == MayFail \in BOOLEAN /\ MayFault \in BOOLEAN
ASSUME NullIsNothing == NULL \notin Procs /\ NULL \notin Nat

Buffers == 1 .. NR_BUFFERS

VARIABLES
    blocknr, count, dirt, uptodate, lock, data,   \* struct buffer_head
    disk,        \* the content of every block on the device
    request,     \* the table request[] of RequestQueue
    queue,       \* the list of RequestQueue
    reqbh,       \* the field bh of every request
    moved,       \* has the data of the first request gone to or from the disk?
    cpu,         \* the process that has the CPU
    pc,          \* where a process is
    op,          \* the system call or kernel function it executes
    block,       \* the block its getblk looks for
    ahead,       \* the block its breada reads ahead
    bh,          \* the buffer its getblk found or wants to take over
    first,       \* the buffer bread or breada will return
    io, rw,      \* the arguments of its make_request
    scan,        \* the loop counter of sys_sync and sync_dev, 0 outside
    hold,        \* the buffers it got from bread and has not released
    ops          \* operations it has started

\* The processes are interchangeable.
ProcSymmetry == Permutations(Procs)

bufs == <<blocknr, count, dirt, uptodate, lock, data>>
dev == <<disk, request, queue, reqbh, moved>>
regs == <<op, block, ahead, bh, first, io, rw, scan>>
vars == <<bufs, dev, cpu, pc, regs, hold, ops>>

DEV == 1    \* the number of the device

RQ == INSTANCE RequestQueue
      WITH Devs <- {DEV}, Sectors <- {2 * n : n \in Blocks}

ASSUME NullIsNoRequest == NULL \notin RQ!Requests

TypeOK ==
    /\ blocknr \in [Buffers -> Blocks \cup {NULL}]
    /\ count \in [Buffers -> Nat]
    /\ dirt \in [Buffers -> BOOLEAN]
    /\ uptodate \in [Buffers -> BOOLEAN]
    /\ lock \in [Buffers -> BOOLEAN]
    /\ data \in [Buffers -> Nat]
    /\ disk \in [Blocks -> Nat]
    /\ RQ!TypeOK
    /\ reqbh \in [RQ!Slots -> Buffers \cup {NULL}]
    /\ moved \in BOOLEAN
    /\ cpu \in Procs \cup {NULL}
    /\ pc \in [Procs -> {"user", "copy", "getblk", "hashWait", "bufferWait",
                         "victimWait", "gotBlock", "sync", "lockBuffer",
                         "findRequest", "requestSleep", "requestWait",
                         "requested", "readWait", "brelse"}]
    /\ op \in [Procs -> {"none", "bread", "breada", "ahead", "sync"}]
    /\ block \in [Procs -> Blocks \cup {NULL}]
    /\ ahead \in [Procs -> Blocks \cup {NULL}]
    /\ bh \in [Procs -> Buffers \cup {NULL}]
    /\ first \in [Procs -> Buffers \cup {NULL}]
    /\ io \in [Procs -> Buffers \cup {NULL}]
    /\ rw \in [Procs -> {"READ", "READA", "WRITE"}]
    /\ scan \in [Procs -> 0 .. 2 * NR_BUFFERS + 1]
    /\ hold \in [Procs -> SUBSET Buffers]
    /\ ops \in [Procs -> 0 .. MaxOps]

Init ==
    /\ blocknr = [b \in Buffers |-> NULL]
    /\ count = [b \in Buffers |-> 0]
    /\ dirt = [b \in Buffers |-> FALSE]
    /\ uptodate = [b \in Buffers |-> FALSE]
    /\ lock = [b \in Buffers |-> FALSE]
    /\ data = [b \in Buffers |-> 0]
    /\ disk = [n \in Blocks |-> 0]
    /\ RQ!Init
    /\ reqbh = [s \in RQ!Slots |-> NULL]
    /\ moved = FALSE
    /\ cpu = NULL
    /\ pc = [p \in Procs |-> "user"]
    /\ op = [p \in Procs |-> "none"]
    /\ block = [p \in Procs |-> NULL]
    /\ ahead = [p \in Procs |-> NULL]
    /\ bh = [p \in Procs |-> NULL]
    /\ first = [p \in Procs |-> NULL]
    /\ io = [p \in Procs |-> NULL]
    /\ rw = [p \in Procs |-> "READ"]
    /\ scan = [p \in Procs |-> 0]
    /\ hold = [p \in Procs |-> {}]
    /\ ops = [p \in Procs |-> 0]

-----------------------------------------------------------------------------
(* Sleeping and being scheduled.                                           *)

\* sync_dev goes over the buffers twice, sys_sync once (the second half).
BufferAt(i) == IF i > NR_BUFFERS THEN i - NR_BUFFERS ELSE i

\* The buffer a process needs unlocked (wait_on_buffer, lock_buffer).
Awaited(p) ==
    CASE pc[p] \in {"hashWait", "victimWait", "brelse"} -> {bh[p]}
      [] pc[p] = "readWait" -> {first[p]}
      [] pc[p] = "lockBuffer" /\ rw[p] # "READA" -> {io[p]}
      [] pc[p] = "sync" /\ scan[p] <= 2 * NR_BUFFERS -> {BufferAt(scan[p])}
      [] OTHER -> {}

Asleep(p) ==
    \/ pc[p] \in {"bufferWait", "requestWait"}
    \/ \E b \in Awaited(p) : lock[b]

\* schedule(): the CPU changes hands when its process sleeps or is in user
\* mode; a fault in the copy loop of file_write may sleep as well.
Schedule(p) ==
    /\ cpu # NULL => \/ pc[cpu] = "user" \/ Asleep(cpu)
                     \/ MayFault /\ pc[cpu] = "copy"
    /\ cpu # p
    /\ ~ Asleep(p)
    /\ cpu' = p
    /\ UNCHANGED <<bufs, dev, pc, regs, hold, ops>>

\* Process p, on the CPU and not asleep, goes on from here.
At(p, place) == cpu = p /\ pc[p] = place /\ ~ Asleep(p)

Goto(p, place) == pc' = [pc EXCEPT ![p] = place]

\* Go on at place, and wake up everybody who waits for a free buffer.
GotoAndWake(p, place) ==
    pc' = [q \in Procs |-> IF q = p THEN place
                           ELSE IF pc[q] = "bufferWait" THEN "getblk" ELSE pc[q]]

-----------------------------------------------------------------------------
(* getblk and get_hash_table.                                              *)

FoundAt(n) == {b \in Buffers : blocknr[b] = n}

BADNESS(b) == (IF dirt[b] THEN 2 ELSE 0) + (IF lock[b] THEN 1 ELSE 0)

\* Slip: get_hash_table returns the buffer without counting itself.
FindBufferUncounted(p) ==
    /\ At(p, "getblk")
    /\ \E b \in FoundAt(block[p]) : bh' = [bh EXCEPT ![p] = b]
    /\ Goto(p, "hashWait")
    /\ UNCHANGED <<bufs, dev, cpu, op, block, ahead, first, io, rw, scan, hold, ops>>

\* find_buffer succeeds: take a reference, then wait_on_buffer.
FindBuffer(p) ==
    /\ At(p, "getblk")
    /\ \E b \in FoundAt(block[p]) :
          /\ count' = [count EXCEPT ![b] = @ + 1]
          /\ bh' = [bh EXCEPT ![p] = b]
    /\ Goto(p, "hashWait")
    /\ UNCHANGED <<blocknr, dirt, uptodate, lock, data, dev, cpu, op, block,
                   ahead, first, io, rw, scan, hold, ops>>

\* The buffer is unlocked.  It is still the block we want, or we start again.
HashWait(p) ==
    /\ At(p, "hashWait")
    /\ IF blocknr[bh[p]] = block[p]
       THEN Goto(p, "gotBlock") /\ UNCHANGED count
       ELSE Goto(p, "getblk") /\ count' = [count EXCEPT ![bh[p]] = @ - 1]
    /\ UNCHANGED <<blocknr, dirt, uptodate, lock, data, dev, cpu, regs, hold, ops>>

\* The block is not cached: choose the unused buffer with the least BADNESS.
PickVictim(p) ==
    /\ At(p, "getblk")
    /\ FoundAt(block[p]) = {}
    /\ \E b \in Buffers :
          /\ count[b] = 0
          /\ \A c \in Buffers : count[c] = 0 => BADNESS(b) <= BADNESS(c)
          /\ bh' = [bh EXCEPT ![p] = b]
    /\ Goto(p, "victimWait")
    /\ UNCHANGED <<bufs, dev, cpu, op, block, ahead, first, io, rw, scan, hold, ops>>

\* Every buffer is in use: sleep_on(&buffer_wait).
NoBuffer(p) ==
    /\ At(p, "getblk")
    /\ FoundAt(block[p]) = {}
    /\ \A b \in Buffers : count[b] > 0
    /\ Goto(p, "bufferWait")
    /\ UNCHANGED <<bufs, dev, cpu, regs, hold, ops>>

\* While we slept the buffer was taken, or the block came into the cache.
VictimLost(p) ==
    /\ At(p, "victimWait")
    /\ \/ count[bh[p]] > 0
       \/ ~ dirt[bh[p]] /\ FoundAt(block[p]) # {}
    /\ bh' = [bh EXCEPT ![p] = NULL]
    /\ Goto(p, "getblk")
    /\ UNCHANGED <<bufs, dev, cpu, op, block, ahead, first, io, rw, scan, hold, ops>>

\* The buffer is dirty: sync_dev, and look again.
SyncVictim(p) ==
    /\ At(p, "victimWait")
    /\ count[bh[p]] = 0
    /\ dirt[bh[p]]
    /\ scan' = [scan EXCEPT ![p] = 1]
    /\ Goto(p, "sync")
    /\ UNCHANGED <<bufs, dev, cpu, op, block, ahead, bh, first, io, rw, hold, ops>>

\* Slip: b_count is not looked at again after the sleep.
TakeVictimInUse(p) ==
    LET b == bh[p] IN
    /\ At(p, "victimWait")
    /\ ~ dirt[b]
    /\ FoundAt(block[p]) = {}
    /\ count' = [count EXCEPT ![b] = 1]
    /\ uptodate' = [uptodate EXCEPT ![b] = FALSE]
    /\ blocknr' = [blocknr EXCEPT ![b] = block[p]]
    /\ dirt' = [dirt EXCEPT ![b] = FALSE]
    /\ Goto(p, "gotBlock")
    /\ UNCHANGED <<lock, data, dev, cpu, regs, hold, ops>>

\* Slip: a dirty buffer is not written first.
TakeVictimDirty(p) ==
    LET b == bh[p] IN
    /\ At(p, "victimWait")
    /\ count[b] = 0
    /\ FoundAt(block[p]) = {}
    /\ count' = [count EXCEPT ![b] = 1]
    /\ uptodate' = [uptodate EXCEPT ![b] = FALSE]
    /\ blocknr' = [blocknr EXCEPT ![b] = block[p]]
    /\ dirt' = [dirt EXCEPT ![b] = FALSE]
    /\ Goto(p, "gotBlock")
    /\ UNCHANGED <<lock, data, dev, cpu, regs, hold, ops>>

\* Take the buffer over for the wanted block.
TakeVictim(p) ==
    LET b == bh[p] IN
    /\ At(p, "victimWait")
    /\ count[b] = 0
    /\ ~ dirt[b]
    /\ FoundAt(block[p]) = {}
    /\ count' = [count EXCEPT ![b] = 1]
    /\ dirt' = [dirt EXCEPT ![b] = FALSE]
    /\ uptodate' = [uptodate EXCEPT ![b] = FALSE]
    /\ blocknr' = [blocknr EXCEPT ![b] = block[p]]
    /\ Goto(p, "gotBlock")
    /\ UNCHANGED <<lock, data, dev, cpu, regs, hold, ops>>

-----------------------------------------------------------------------------
(* make_request, and what its callers do when it returns ("requested").    *)

\* lock_buffer, unless there is nothing to do.  A read-ahead does not wait.
LockBuffer(p) ==
    LET b == io[p]
        nothing == IF rw[p] = "WRITE" THEN ~ dirt[b] ELSE uptodate[b]
    IN
    /\ At(p, "lockBuffer")
    /\ IF lock[b] \/ nothing
       THEN Goto(p, "requested") /\ UNCHANGED lock
       ELSE Goto(p, "findRequest") /\ lock' = [lock EXCEPT ![b] = TRUE]
    /\ UNCHANGED <<blocknr, count, dirt, uptodate, data, dev, cpu, regs, hold, ops>>

Command(p) == IF rw[p] = "WRITE" THEN RQ!WRITE ELSE RQ!READ

\* Fill in a free request; add_request marks the buffer clean and queues it.
QueueRequest(p) ==
    LET s == Max(RQ!FreeSlots(Command(p)))
    IN
    /\ At(p, "findRequest")
    /\ RQ!FreeSlots(Command(p)) # {}
    /\ RQ!AddRequest(s, [cmd |-> Command(p), dev |-> DEV,
                         sector |-> 2 * blocknr[io[p]]])
    /\ reqbh' = [reqbh EXCEPT ![s] = io[p]]
    /\ dirt' = [dirt EXCEPT ![io[p]] = FALSE]
    /\ Goto(p, "requested")
    /\ UNCHANGED <<blocknr, count, uptodate, lock, data, disk, moved, cpu, regs,
                   hold, ops>>

(***************************************************************************)
(* No free request: a read-ahead gives up.  Anything else goes to sleep,   *)
(* with interrupts enabled: a completion that comes between the search and *)
(* the sleep wakes nobody.                                                 *)
(***************************************************************************)
NoRequest(p) ==
    /\ At(p, "findRequest")
    /\ RQ!FreeSlots(Command(p)) = {}
    /\ IF rw[p] = "READA"
       THEN /\ lock' = [lock EXCEPT ![io[p]] = FALSE]
            /\ Goto(p, "requested")
       ELSE Goto(p, "requestSleep") /\ UNCHANGED lock
    /\ UNCHANGED <<blocknr, count, dirt, uptodate, data, dev, cpu, regs, hold, ops>>

SleepOnRequest(p) ==
    /\ At(p, "requestSleep")
    /\ Goto(p, "requestWait")
    /\ UNCHANGED <<bufs, dev, cpu, regs, hold, ops>>

-----------------------------------------------------------------------------
(* bread, breada, brelse, sys_sync and the code that modifies buffers.     *)

Starts(p) ==
    /\ At(p, "user")
    /\ ops[p] < MaxOps
    /\ ops' = [ops EXCEPT ![p] = @ + 1]

\* A block the process does not hold already.
Wanted(p, n) == \A b \in hold[p] : blocknr[b] # n

Bread(p, n) ==
    /\ Starts(p)
    /\ Cardinality(hold[p]) < MaxHold
    /\ Wanted(p, n)
    /\ op' = [op EXCEPT ![p] = "bread"]
    /\ block' = [block EXCEPT ![p] = n]
    /\ Goto(p, "getblk")
    /\ UNCHANGED <<bufs, dev, cpu, ahead, bh, first, io, rw, scan, hold>>

Breada(p, n, m) ==
    /\ Starts(p)
    /\ Cardinality(hold[p]) < MaxHold
    /\ Wanted(p, n)
    /\ op' = [op EXCEPT ![p] = "breada"]
    /\ block' = [block EXCEPT ![p] = n]
    /\ ahead' = [ahead EXCEPT ![p] = m]
    /\ Goto(p, "getblk")
    /\ UNCHANGED <<bufs, dev, cpu, bh, first, io, rw, scan, hold>>

(***************************************************************************)
(* getblk has returned: ask for a read unless the data is there.  For a    *)
(* read-ahead the code asks for the first block (bh) and not for the one   *)
(* it just got (tmp).                                                      *)
(***************************************************************************)
GotBlock(p) ==
    LET isAhead == op[p] = "ahead" IN
    /\ At(p, "gotBlock")
    /\ first' = [first EXCEPT ![p] = IF isAhead THEN @ ELSE bh[p]]
    /\ io' = [io EXCEPT ![p] = first'[p]]
    /\ rw' = [rw EXCEPT ![p] = IF isAhead THEN "READA" ELSE "READ"]
    /\ Goto(p, IF uptodate[bh[p]] THEN "requested" ELSE "lockBuffer")
    /\ UNCHANGED <<bufs, dev, cpu, op, block, ahead, bh, scan, hold, ops>>

\* make_request has returned ...
Returned(p) ==
    /\ At(p, "requested")
    /\ io' = [io EXCEPT ![p] = NULL]
    /\ rw' = [rw EXCEPT ![p] = "READ"]
    /\ UNCHANGED <<blocknr, dirt, uptodate, lock, data, dev, cpu, ahead, first,
                   scan, hold, ops>>

\* ... to the loop of a sync,
SyncRequested(p) ==
    /\ Returned(p)
    /\ scan[p] # 0
    /\ Goto(p, "sync")
    /\ UNCHANGED <<count, op, block, bh>>

\* to bread, which now waits for the buffer,
BreadRequested(p) ==
    /\ Returned(p)
    /\ scan[p] = 0
    /\ op[p] = "bread"
    /\ Goto(p, "readWait")
    /\ bh' = [bh EXCEPT ![p] = NULL]
    /\ UNCHANGED <<count, op, block>>

\* to breada, which goes on with the block to read ahead,
FirstRequested(p) ==
    /\ Returned(p)
    /\ scan[p] = 0
    /\ op[p] = "breada"
    /\ op' = [op EXCEPT ![p] = "ahead"]
    /\ block' = [block EXCEPT ![p] = ahead[p]]
    /\ bh' = [bh EXCEPT ![p] = NULL]
    /\ Goto(p, "getblk")
    /\ UNCHANGED count

\* or to breada for that block: it gives it up and waits for the first.
AheadRequested(p) ==
    /\ Returned(p)
    /\ scan[p] = 0
    /\ op[p] = "ahead"
    /\ count' = [count EXCEPT ![bh[p]] = @ - 1]
    /\ bh' = [bh EXCEPT ![p] = NULL]
    /\ Goto(p, "readWait")
    /\ UNCHANGED <<op, block>>

\* wait_on_buffer is over: return the buffer, or brelse it if the read failed.
ReadWait(p) ==
    LET b == first[p] IN
    /\ At(p, "readWait")
    /\ IF uptodate[b]
       THEN /\ hold' = [hold EXCEPT ![p] = @ \cup {b}]
            /\ Goto(p, "user")
            /\ UNCHANGED count
       ELSE /\ count' = [count EXCEPT ![b] = @ - 1]
            /\ GotoAndWake(p, "user")
            /\ UNCHANGED hold
    /\ op' = [op EXCEPT ![p] = "none"]
    /\ block' = [block EXCEPT ![p] = NULL]
    /\ ahead' = [ahead EXCEPT ![p] = NULL]
    /\ first' = [first EXCEPT ![p] = NULL]
    /\ UNCHANGED <<blocknr, dirt, uptodate, lock, data, dev, cpu, bh, io, rw,
                   scan, ops>>

\* brelse, up to wait_on_buffer ...
Brelse(p, b) ==
    /\ At(p, "user")
    /\ b \in hold[p]
    /\ hold' = [hold EXCEPT ![p] = @ \ {b}]
    /\ bh' = [bh EXCEPT ![p] = b]
    /\ Goto(p, "brelse")
    /\ UNCHANGED <<bufs, dev, cpu, op, block, ahead, first, io, rw, scan, ops>>

\* Slip: brelse does not wake up those who wait for a buffer.
BrelseSilent(p) ==
    /\ At(p, "brelse")
    /\ count' = [count EXCEPT ![bh[p]] = @ - 1]
    /\ Goto(p, "user")
    /\ bh' = [bh EXCEPT ![p] = NULL]
    /\ UNCHANGED <<blocknr, dirt, uptodate, lock, data, dev, cpu, op, block, ahead,
                   first, io, rw, scan, hold, ops>>

\* ... and after it.
BrelseDone(p) ==
    /\ At(p, "brelse")
    /\ count' = [count EXCEPT ![bh[p]] = @ - 1]
    /\ GotoAndWake(p, "user")
    /\ bh' = [bh EXCEPT ![p] = NULL]
    /\ UNCHANGED <<blocknr, dirt, uptodate, lock, data, dev, cpu, op, block, ahead,
                   first, io, rw, scan, hold, ops>>

\* A user changes the data and then sets b_dirt, without sleeping in between
\* (block_write, directories, bitmaps).
ModifyBuffer(p, b) ==
    /\ Starts(p)
    /\ b \in hold[p]
    /\ data' = [data EXCEPT ![b] = @ + 1]
    /\ dirt' = [dirt EXCEPT ![b] = TRUE]
    /\ UNCHANGED <<blocknr, count, uptodate, lock, dev, cpu, pc, regs, hold>>

\* file_write sets b_dirt first and then copies from user space, which may
\* fault and sleep.
FileWrite(p, b) ==
    /\ Starts(p)
    /\ b \in hold[p]
    /\ dirt' = [dirt EXCEPT ![b] = TRUE]
    /\ bh' = [bh EXCEPT ![p] = b]
    /\ Goto(p, "copy")
    /\ UNCHANGED <<blocknr, count, uptodate, lock, data, dev, cpu, op, block,
                   ahead, first, io, rw, scan, hold>>

CopyIn(p) ==
    /\ At(p, "copy")
    /\ data' = [data EXCEPT ![bh[p]] = @ + 1]
    /\ bh' = [bh EXCEPT ![p] = NULL]
    /\ Goto(p, "user")
    /\ UNCHANGED <<blocknr, count, dirt, uptodate, lock, dev, cpu, op, block,
                   ahead, first, io, rw, scan, hold, ops>>

SysSync(p) ==
    /\ Starts(p)
    /\ op' = [op EXCEPT ![p] = "sync"]
    /\ scan' = [scan EXCEPT ![p] = NR_BUFFERS + 1]
    /\ Goto(p, "sync")
    /\ UNCHANGED <<bufs, dev, cpu, block, ahead, bh, first, io, rw, hold>>

\* One round of the loop: the buffer is unlocked, write it if it is dirty.
SyncBuffer(p) ==
    LET b == BufferAt(scan[p]) IN
    /\ At(p, "sync")
    /\ scan[p] <= 2 * NR_BUFFERS
    /\ scan' = [scan EXCEPT ![p] = @ + 1]
    /\ IF dirt[b]
       THEN /\ io' = [io EXCEPT ![p] = b]
            /\ rw' = [rw EXCEPT ![p] = "WRITE"]
            /\ Goto(p, "lockBuffer")
       ELSE UNCHANGED <<io, rw, pc>>
    /\ UNCHANGED <<bufs, dev, cpu, op, block, ahead, bh, first, hold, ops>>

SyncDone(p) ==
    /\ At(p, "sync")
    /\ scan[p] > 2 * NR_BUFFERS
    /\ scan' = [scan EXCEPT ![p] = 0]
    /\ IF op[p] = "sync"
       THEN Goto(p, "user") /\ op' = [op EXCEPT ![p] = "none"]
       ELSE Goto(p, "victimWait") /\ UNCHANGED op
    /\ UNCHANGED <<bufs, dev, cpu, block, ahead, bh, first, io, rw, hold, ops>>

-----------------------------------------------------------------------------
(* The device.                                                             *)

\* The controller moves the data of the current request.
Transfer ==
    LET r == request[Head(queue)]
        b == reqbh[Head(queue)]
        n == r.sector \div 2
    IN
    /\ queue # <<>>
    /\ ~ moved
    /\ moved' = TRUE
    /\ IF r.cmd = RQ!READ
       THEN data' = [data EXCEPT ![b] = disk[n]] /\ UNCHANGED disk
       ELSE disk' = [disk EXCEPT ![n] = data[b]] /\ UNCHANGED data
    /\ UNCHANGED <<blocknr, count, dirt, uptodate, lock, request, queue, reqbh,
                   cpu, pc, regs, hold, ops>>

\* Slip: the buffer becomes clean when the write ends, not when it starts.
EndRequestCleans(ok) ==
    LET b == reqbh[Head(queue)] IN
    /\ queue # <<>>
    /\ IF ok THEN moved ELSE MayFail
    /\ uptodate' = [uptodate EXCEPT ![b] = ok]
    /\ dirt' = [dirt EXCEPT ![b] = FALSE]
    /\ lock' = [lock EXCEPT ![b] = FALSE]
    /\ RQ!EndRequest
    /\ reqbh' = [reqbh EXCEPT ![Head(queue)] = NULL]
    /\ moved' = FALSE
    /\ pc' = [q \in Procs |-> IF pc[q] = "requestWait" THEN "findRequest" ELSE pc[q]]
    /\ UNCHANGED <<blocknr, count, data, disk, cpu, regs, hold, ops>>

\* The interrupt that ends the request: end_request(ok).
EndRequest(ok) ==
    LET b == reqbh[Head(queue)] IN
    /\ queue # <<>>
    /\ IF ok THEN moved ELSE MayFail
    /\ uptodate' = [uptodate EXCEPT ![b] = ok]
    /\ lock' = [lock EXCEPT ![b] = FALSE]
    /\ RQ!EndRequest
    /\ reqbh' = [reqbh EXCEPT ![Head(queue)] = NULL]
    /\ moved' = FALSE
    /\ pc' = [q \in Procs |-> IF pc[q] = "requestWait" THEN "findRequest" ELSE pc[q]]
    /\ UNCHANGED <<blocknr, count, dirt, data, disk, cpu, regs, hold, ops>>

-----------------------------------------------------------------------------

\* The steps of kernel code that a process takes once it is in the kernel.
KernelStep(p) ==
    \/ FindBuffer(p) \/ HashWait(p) \/ PickVictim(p) \/ NoBuffer(p)
    \/ VictimLost(p) \/ SyncVictim(p) \/ TakeVictim(p)
    \/ LockBuffer(p) \/ QueueRequest(p) \/ NoRequest(p)
    \/ SleepOnRequest(p) \/ GotBlock(p)
    \/ SyncRequested(p) \/ BreadRequested(p) \/ FirstRequested(p)
    \/ AheadRequested(p) \/ ReadWait(p)
    \/ BrelseDone(p) \/ CopyIn(p) \/ SyncBuffer(p) \/ SyncDone(p)

Release(p) == \E b \in hold[p] : Brelse(p, b)

Call(p) ==
    \/ \E n \in Blocks : Bread(p, n)
    \/ \E n \in Blocks, m \in AheadBlocks : Breada(p, n, m)
    \/ \E b \in hold[p] : ModifyBuffer(p, b)
    \/ \E b \in hold[p] : FileWrite(p, b)
    \/ SysSync(p)

Device == Transfer \/ \E ok \in BOOLEAN : EndRequest(ok)

\* Every process has made its calls and released its buffers.
Finished ==
    /\ \A p \in Procs : pc[p] = "user" /\ ops[p] = MaxOps /\ hold[p] = {}
    /\ queue = <<>>
    /\ UNCHANGED vars

Next ==
    \/ \E p \in Procs : Schedule(p) \/ KernelStep(p) \/ Release(p) \/ Call(p)
    \/ Device
    \/ Finished

Spec == Init /\ [][Next]_vars

(***************************************************************************)
(* The device answers, the scheduler runs whoever can run, kernel code     *)
(* runs on, and the code that got a buffer releases it in the end.         *)
(***************************************************************************)
Fairness ==
    /\ WF_vars(Device)
    /\ \A p \in Procs : /\ SF_vars(Schedule(p))
                        /\ WF_vars(KernelStep(p))
                        /\ SF_vars(Release(p))

FairSpec == Spec /\ Fairness

-----------------------------------------------------------------------------

\* getblk: "this buffer is the only one of its kind".
OneBufferPerBlock ==
    \A a, b \in Buffers : blocknr[a] = blocknr[b] /\ blocknr[a] # NULL => a = b

\* Does p hold a reference to bh[p] that is not yet in first[p] or hold[p]?
Counted(p) ==
    \/ pc[p] \in {"hashWait", "gotBlock", "brelse"}
    \/ /\ op[p] = "ahead" /\ scan[p] = 0
       /\ pc[p] \in {"lockBuffer", "findRequest", "requestSleep", "requestWait",
                     "requested"}

\* b_count is the number of references, so that brelse never panics with
\* "Trying to free free buffer" and a buffer in use is never taken over.
CountIsReferences ==
    \A b \in Buffers :
        count[b] = Cardinality({p \in Procs : b \in hold[p]})
                 + Cardinality({p \in Procs : first[p] = b})
                 + Cardinality({p \in Procs : Counted(p) /\ bh[p] = b})

\* However long it slept, a process ends up with the block it asked for.
GotWantedBlock ==
    \A p \in Procs :
        /\ Counted(p) /\ pc[p] # "brelse" => blocknr[bh[p]] = block[p]
        /\ first[p] # NULL /\ op[p] # "ahead" => blocknr[first[p]] = block[p]

\* The request a buffer is locked for: the one in the table, or the one a
\* process is about to make.
Queued(b) == {s \in RQ!Slots : request[s] # NULL /\ reqbh[s] = b}
Asking(b) == {p \in Procs : /\ pc[p] \in {"findRequest", "requestSleep", "requestWait"}
                            /\ io[p] = b}

\* A buffer is locked for exactly one request, and stays what it was while the
\* request lasts: the drivers' panic "block not locked" cannot happen.
LockedForOneRequest ==
    /\ \A b \in Buffers :
          Cardinality(Queued(b)) + Cardinality(Asking(b)) = IF lock[b] THEN 1 ELSE 0
    /\ \A s \in RQ!Slots : request[s] # NULL =>
          reqbh[s] # NULL /\ request[s].sector = 2 * blocknr[reqbh[s]]

\* b_dirt is right: a valid buffer that is neither dirty nor in transfer holds
\* what is on the disk, so getblk may throw it away.
CleanMatchesDisk ==
    \A b \in Buffers :
        blocknr[b] # NULL /\ uptodate[b] /\ ~ dirt[b] /\ ~ lock[b] =>
            data[b] = disk[blocknr[b]]

\* The content of the device as a reader sees it through the cache.
Content ==
    [n \in Blocks |-> IF \E b \in FoundAt(n) : uptodate[b]
                      THEN data[CHOOSE b \in FoundAt(n) : uptodate[b]]
                      ELSE disk[n]]

\* The cache implements a device on which modifications take effect at once:
\* replacing, syncing and reading buffers loses none.
Store == INSTANCE BlockStore WITH content <- Content
ImplementsBlockStore == Store!Spec

\* The requests of the cache meet what RequestQueue assumes of its users.
ImplementsRequestQueue == RQ!Spec

\* Every call returns, whoever else uses the cache.
CallsReturn == \A p \in Procs : (pc[p] # "user") ~> (pc[p] = "user")

=============================================================================
