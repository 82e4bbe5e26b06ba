# Verification of the annotated Linux 0.11 kernel and its companions

The repository is a collection of material for learning kernel programming. Its
one complete program is `src/004-kernel/linux-0.11`, Linux 0.11 with Chinese
annotations; most of this project models that kernel. Paths below are relative to
it unless they start with `src/`. Three smaller programs are modelled too: the
file system module `src/007-aufs`, the temperature driver `src/001-coretemp`, and
the configuration tool of the root file system build,
`src/000-rootfs/support/kconfig`.

What makes this kernel hard to test is that it hardly uses locks. It relies on
one CPU, on never being preempted inside the kernel, and on disabled interrupts
in a few places; every call that may sleep, including any access to user memory,
is a place where everything read before may be stale afterwards. The modules
make these places explicit and check what must survive them.

## 1. How the kernel executes, and how the models say so

* A process in the kernel keeps the CPU until it calls `schedule()`. The timer
  only reschedules user mode (`do_timer` returns when `cpl` is 0). What a process
  does between two sleeps is therefore one step for other processes. In
  `WaitQueue`, `BufferCache`, `Pipe` and `Tty` a variable (`current`, `cpu`) names
  the process that has the CPU; in `Memory`, `Processes` and `Inodes` an action is
  what a process does up to the next place where it may sleep.
* Interrupt handlers run between any two instructions where interrupts are
  enabled. Where a handler shares state with the code (wait queue heads, the
  request list, `b_lock`, the rings of a terminal, the chains of `malloc`), the
  code is cut into steps at each shared access that is not protected by `cli`, and
  the handler is an action of its own.
* A page fault in a copy loop (`get_fs_byte`, `put_fs_byte`) may sleep while the
  page is read in. In the copy loops of files and pipes that is a separate switch
  (`MayFault`), so that a theorem can say what holds without it.
* The assembly files (`system_call.s`, `page.s`, `rs_io.s`, `head.s`) are not in
  the tree. What they do is modelled from how the C code uses it and marked
  external in `PROJECT.json`.

Constants named `Races`, `MayFail`, `MayFault`, `IrqFrees` and `Contents` are
switches: each opens a window or a failure in which the code itself breaks the
property at hand (section 5 lists what breaks). Runs and theorems say for which
values they hold. `Inodes` and `KconfigMconf` have no switch: the step that goes
wrong is always possible, a history variable (`raced`, `forgotten`) remembers that
it happened, and the property says what holds until then.

## 2. Inventory

| Component | State | Operations | Interacts with |
|---|---|---|---|
| Wait queues, `kernel/sched.c` | a head pointer per queue, `tmp` on the stack of every sleeper, `state` | `sleep_on`, `interruptible_sleep_on`, `wake_up`, `sys_pause` | everything that sleeps; interrupt handlers call `wake_up` |
| Scheduler and timers, `kernel/sched.c` | counters, priorities, alarms, the list of `add_timer`, motor counts | `schedule`, `do_timer`, `add_timer`, `sys_alarm`, `sys_nice` | all processes; the floppy driver |
| Processes and signals, `kernel/fork.c`, `exit.c`, `signal.c`, `sys.c` | the task table, masks, handlers, groups, sessions | fork, exit, waitpid, kill, pause, setsid, signal delivery | scheduler, memory |
| Memory, `mm/memory.c` with `fork.c`, `exit.c`, `exec.c` | `mem_map`, page tables, `executable` | write fault, missing page, sharing, fork, exec, exit, `verify_area` | processes, file system (page-in sleeps) |
| Program loading, `fs/exec.c` | argument pages, header, interpreter | `do_execve` | memory, file system |
| Block request queue, `kernel/blk_drv/ll_rw_blk.c`, `blk.h` | `request[]`, the list of a device | `make_request`, `add_request`, `end_request` | the buffer cache above, a driver's interrupt below |
| Block drivers, `kernel/blk_drv/hd.c`, `floppy.c` | controller, retries, `current_DOR` | `do_request`, interrupts, reset, recalibration | request queue, timers |
| Buffer cache, `fs/buffer.c` | buffer heads, hash and free list, `buffer_wait` | `getblk`, `bread`, `breada`, `brelse`, `sync_dev`, `sys_sync` | request queue, wait queues, all of the file system |
| Inode table, `fs/inode.c`, `super.c`, `bitmap.c` | the slots, counts, locks, dirty bits | `iget`, `iput`, `get_empty_inode`, `new_inode`, `free_inode`, mount, umount | buffer cache, names |
| Bitmaps, zones, directories, descriptors, `fs/namei.c`, `open.c`, ... | bit maps, zone trees, entries, `file_table`, `filp` | open, creat, link, unlink, mkdir, rmdir, mknod, read, write, lseek, dup, fcntl, fork, exec, exit | inode table |
| Pipes, `fs/pipe.c` | one page, head, tail, `i_count`, `f_count` | `read_pipe`, `write_pipe`, `sys_close`, sharing by fork | wait queue `i_wait`, user memory, signals |
| Terminals, `kernel/chr_drv/tty_io.c`, `tty_ioctl.c`, `serial.c` | three rings, `secondary.data`, `termios` | `copy_to_cooked`, `tty_read`, `tty_write`, ioctl | keyboard and line interrupts, console, signals |
| Console, `kernel/chr_drv/console.c` | display memory, `origin`, `pos`, `top`, `bottom` | `con_write` | terminals |
| Kernel allocator, `lib/malloc.c` | pages, chains of bucket descriptors | `malloc`, `free_s` | interrupt handlers |
| aufs, `src/007-aufs` | inode table, directory blocks, extents, counts in memory | create, link, unlink, rename, write, truncate, readdir, mount | the VFS (external) |
| coretemp, `src/001-coretemp` | zones, core data, cpumask | hotplug callbacks, load, unload, suspend, sysfs readers | hotplug, sysfs (external) |
| Configuration tools, `src/000-rootfs/support/kconfig` | symbols, menus, choices, files | parse, finalize, simplify, read, write, conf, mconf | the files of earlier runs |

What is hard in each, and what makes it correct:

* **Wait queues.** The queue is distributed over kernel stacks. A pointer written
  through after `schedule()` may be stale, and an interrupt can hit between
  linking and going to sleep. Correct: no sleeper is ever cut off from its queue,
  one `wake_up` reaches all, no stale pointer is used.
* **Scheduler and timers.** Counters run out and are refilled, the list of timers
  holds differences, a motor is shared by who starts and who stops it. Correct: no
  timer runs early, the idle task runs only when no task can.
* **Processes.** `do_exit` sleeps in its middle, fathers die first, numbers start
  again. Correct: every task has a father that can wait for it, as long as nobody
  kills init; a death is noticed.
* **Memory.** Sharing by count, by write protection and by the dirty bit, with
  page-in sleeping between choice and use, and memory running out anywhere.
  Correct: `mem_map` counts uses exactly, a writable page has one user, and
  processes cannot tell that pages are shared. The last is not true of pages of
  files (section 5); what holds is that nothing else is ever shared visibly.
* **Program loading.** Sixteen error paths with something to give back on each.
  Correct: a program runs as it was called, a failed call leaves nothing behind.
* **Request queue and drivers.** New requests are inserted while the device works
  on the first; an interrupt may belong to a command that was given up. Correct:
  nobody starves, every request ends, a valid buffer is the block on the disk.
* **Buffer cache.** Four different sleeps inside one `getblk`, after each of which
  the world may have changed. Correct: one buffer per block, exact reference
  counts, a buffer locked for exactly one request, a clean buffer equals the disk,
  no modification lost.
* **Inode table.** The same for inodes, with removal and mounting in between.
  Correct: one slot per inode, counts that are the users, clean inodes as on disk.
* **Files.** Every table may be full at every step of a call. Correct: bit maps,
  link counts and reference counts are exact, files keep their contents apart.
* **Pipes.** One wait queue for two kinds of waiters, woken late; head and tail
  advanced before the copy; a ring with one byte that must stay free. Correct:
  a byte stream; only those sleep who must; end of file and SIGPIPE only when due.
* **Terminals.** Rings shared with an interrupt and no lock; characters that are
  taken back; a discipline that changes while a call is under way. Correct: a line
  editor; output in order; readers and writers return.
* **Console.** The screen is a window on a memory that wraps. Correct: it shows
  what a screen without that memory would show.
* **malloc, aufs, coretemp.** Chains walked with interrupts on; extents that move;
  callbacks that fail halfway with readers inside the files.
* **Configuration tools.** Values that depend on each other in both directions,
  four processes on the same files. Correct: what is saved is read back, what is
  visible can be reached, nothing is shown stale.

Not modelled: boot, traps, `printk`, math and string functions (straight-line code
and formatting), `ramdisk.c`, the vendored buildroot tree apart from kconfig, its
other front ends, `src/000-kernel-config`, `src/002-assembly`, `src/003-bochs`,
`src/005-imx6ull`, `src/006-aufs` (an earlier version of 007), and
`src/004-kernel/linux-0.0.0` and `linux-0.0.1`. What each modelled component leaves
out is said in its "note" in `PROJECT.json`.

## 3. Modules

```
kernel/sched.c      WaitQueue ─────────────────────────── WaitQueueProofs
                    Timers
kernel/*.c          Processes ─────────────────────────── ProcessesProofs
mm/memory.c         Memory ───────refines── ProcessMemory  MemoryProofs
fs/exec.c           Exec
ll_rw_blk.c, blk.h  RequestQueue
                       ▲ state shared, implemented by
fs/buffer.c         BufferCache ──refines── BlockStore     BufferCacheProofs
hd.c, floppy.c      HardDisk, Floppy ── EXTEND BlockRequests
fs/inode.c          Inodes ────────────────────────────── InodesProofs
fs/*.c              FileSystem ───refines── FileStore
fs/pipe.c           Pipe ─────────refines── ByteStream     PipeProofs
chr_drv/tty_io.c    Tty ──────────refines── LineEditor     TtyProofs
chr_drv/console.c   Console ──────shows──── Screen
lib/malloc.c        Malloc
src/007-aufs        Aufs
src/001-coretemp    Coretemp
kconfig             KconfigExpr, KconfigSymbols, KconfigMenu, KconfigFile,
                    KconfigSimplify, KconfigParse, KconfigConf, KconfigMconf
for TLC             MCWaitQueue, MCMemory, MCDisk, MCUnits, MCTools
for proofs          DataLemmas
```

Several modules take from `WaitQueue` that a `wake_up` reaches every sleeper of its
queue: they model a wake-up as "all sleepers become runnable". `WaitQueueProofs`
shows that nobody is cut off where queues are slept on under `cli`, and `wq_cli`
checks that one `wake_up` reaches all. For `wait_for_request`, which is slept on with
interrupts enabled, the assumption does not hold; `BufferCache` therefore models
that sleep in two steps, with the interrupt in between (`NoRequest`,
`SleepOnRequest`), and loses the wake-up as the code does.

`MCUnits` and `MCDisk` hold components that share no state: `MCUnits` extends `Inodes`
and instantiates the others, `MCDisk` instantiates its own. Every behaviour is a
behaviour of one component, chosen in the initial state, so that one run checks them
all without multiplying their states.

Definitions whose comment begins with "Slip:" are not part of any specification.
Each is a definition of the model with one plausible mistake, and serves to show
that a property would notice it. `PROJECT.json` lists under `map` the lines every
definition stands for.

### WaitQueue

`current`, `state` and `head` are the variables of the code; `at`, `on`, `tmp` are
the frame of the sleep call on the kernel stack; `task` is the set of existing
tasks, so that a stale pointer can name a task that has exited and a new one in
its slot. `sleep_on` under `cli` is one step up to its `schedule()` (`SleepOn`),
and one after it (`SleepOnReturns`). With interrupts enabled it is three:
`SaveHead` (`tmp = *p`), `LinkSelf` (`*p = current`), `GoToSleep` (the change of
state and `schedule`). `InterruptibleRepeats` is the `goto repeat` of
`interruptible_sleep_on`. `WakeUp` is enabled at any time, as an interrupt is. A
queue belongs to one of three kinds according to how the code sleeps on it:
`CliQueues` (`b_wait`, `i_wait`, `buffer_wait`...), `OpenQueues`
(`wait_for_request`), `IntrQueues` (`proc_list` of a tty).

### Timers

One record `sc` with the fields of the tasks that `schedule` and `do_timer` look
at, the list of timers with the differences of the code (and, for the property,
the time each is due), and the motor counts of the floppy drives (and the time at
which each may stop, as its last user said). `Long` is the
wrap of a C long of `Width` bits.

### Processes

The task table with state, father, group, session, mask, handlers and pending
signals. An action is a system call up to the next `schedule()`, which it
contains; `do_exit` is cut where it sleeps. Process numbers start again after
`PID_MAX`. Init forks and waits, as `init/main.c` does, and dies when root kills it:
by number, with its group, or with everybody (`kill(-1)`).

### Memory

`mem_map` and the page tables as in the code, with two page tables per process
(one for data and heap, one for the stack) and one use per page of a task
structure, a page table, or an entry. `content` says who stored last in a page, or
which file or kind of memory it comes from. A missing page is `get_empty_page`
(heap and stack), `share_page` (another process that runs the same file has it), or
`LoadPage` and `PageLoaded` with the sleep of `bread_page` in between. `do_wp_page`
and `Write` are a write fault and the repeated instruction. `verify_area` begins a
system call that may store into user memory; it ends in `put_fs`, or in `no_store`,
as `sys_read` does at the end of a file or for an error. `Fork` and `ForkFails` are
`copy_process`; `Exec`, `ExecFails`, `ExecSwitch` and `ExecDone` the stages of
`do_execve`; `Exit` and `release` the end of a process. A fork that fails halfway
leaves entries of the father write-protected with a count of one, as the code does.

Other processes may run in four places where one would rather have none: after a
write fault before the instruction is repeated, between `verify_area` and the store,
while a page is read in, and in `do_execve` between the assignment of `executable`
and the release of the old pages. All four are always open. `ProcessMemory` is what
holds all the same: address spaces of their own, in which heap and stack change by
the process's own stores, fork and exec only. For pages of a file it lets three
things through, one action each: a process that has not touched a page may find
there what another process that runs the file has (`Share`); a store of the kernel
may reach others who see the same there (`KernelStore`); and a process between two
files shows pages of either (`Leave`).

### Exec

`do_execve` with the area of arguments as an interval of bytes: `Check` (permission,
set-user-id), `Bread` (the first block), `ShBang`, `ShArgs` and `Interp` (a script
and its interpreter), `Copy` (one string of arguments or environment), `Commit`.
Every error path returns what was taken before it. The pages that the call
replaces are in `Memory`, closing on exec is in `FileSystem`.

### RequestQueue

`request` is the table, `queue` the list in the order of the `next` pointers.
`AddRequest` is the elevator with the macro `IN_ORDER`; `FreeSlots` has the rule
that a write may use only the first two thirds of the table. `EndRequest` frees the
first request. A full table and the sleep in `make_request` are in `BufferCache`.

### BufferCache

One variable per field of `struct buffer_head`, the device's state and per process
the registers of the call it is in. `pc` names the sleeps: `hashWait` (in
`get_hash_table`), `bufferWait`, `victimWait` (the three sleeps of `getblk`),
`requestWait`, `readWait`. A call to `sync_dev` in the middle of `getblk` and
`ll_rw_block` under either are procedures: `scan`, `io`, `rw` are their
arguments, and `op` tells where to return. A modification increments the number
that stands for a block's content, so `BlockStore` notices a lost or a repeated one.
The free list's order is left open (any free buffer may be met first), which
includes the code's order. `Transfer` moves the data some time before
`EndRequest`, so that a buffer may be modified in the middle of a write.

### BlockRequests, HardDisk, Floppy, MCDisk

`BlockRequests` has what `blk.h` and `ll_rw_blk.c` give to every driver, as
functions of the driver's record; it uses the elevator of `RequestQueue`.
`HardDisk` is one handler, `hd_interrupt`, whose branches are the values of
`do_hd` (read, write, recalibration, reset), each followed by `do_hd_request` as in
the code. `Floppy` adds the timers of the motor, the selection of a drive in
`current_DOR`, and `floppy_change`, which may run at the same time. `MCDisk` runs
the hard disk on two partitions, the elevator for itself, and `FileSystem`.

### Inodes

The slots of `inode_table`, the blocks on the disk, the bit map, the names that lead
to an inode, the super block of a mounted device, and per process where it is. An
action is a call up to a sleep: `Lookup` finds a name; `IgetEmpty`, `IgetFound`,
`IgetCrosses`, `IgetNew`, `ReadInode` are `iget`; `IputShared`, `IputDirty`,
`IputClean`, `IputDelete`, `FreeInode` are the ways through `iput`; `SyncStart` to
`SyncWrite` are `sync_inodes`; `Mount`, `MountRead`, `Umount`, `UmountPut`,
`UmountWrite` are `super.c`. `raced` is set when something is taken away from under
somebody on the way to it: an inode that is looked for loses its last name
(`Unlink`), an inode that is being truncated is locked by `sync_inodes` (`SyncLock`),
or a device is unmounted while somebody looks for its root or another process is
unmounting it (`Umount`). The code goes on after each of them, and so does the model.

### FileSystem, FileStore

A system call is an action: `sys_open`, `sys_mknod`, `sys_link`, `sys_unlink`,
`sys_mkdir`, `sys_rmdir`, `sys_read`, `sys_write`, `sys_lseek`, `sys_dup`,
`sys_fcntl`, `sys_pipe`, ..., and `Fork`, `Exec`, `Exit` as far as they concern
files. Helpers carry the names of the code's functions (`new_block`, `free_block`,
`_bmap`, `truncate`, `add_entry`, ...). `Programs` bounds a behaviour to the
calls, paths and flags of one kind of program. `FileStore` says that each file has a
sequence of bytes of its own.

### Pipe

`page`, `head`, `tail`, `i_count`, `f_count` as in the code; a byte is the number
of its writing. A turn of the loop of `read_pipe` is `ReadChunk` (the size of the
chunk, the advance of the tail) and `CopyOut`, between which nobody runs unless
`MayFault`. `ReadEmpty` is the body of `while (!(size = PIPE_SIZE))`, with its two
outcomes. `Close` contains the wake-up of `iput`. The errors of `sys_pipe` are in
`FileSystem`; `Init` is the state after its success.

### Tty, LineEditor

The three rings with their heads, tails and arrays, `secondary.data`, and the local
variables of one reader and one writer. `KeyPress` is the keyboard's interrupt up to
`put_queue`; `Cook` is one turn of the loop of `copy_to_cooked` (erase, kill, `EOF`,
`STOP` and `START`, signals, echo) and `CookDone` its end with the wake-up. `tty_read`
is `Read`, `ReadSignalled`, `ReadSleep`, `ReadStarts` and `TakeChar`, cut where it sleeps
and between its test and its `GETCH`; `tty_write` is `Write`, `WriteChecks`,
`WriteSleeps`, `Fill` (one character put in the queue) and `WriteOut`. `Drain` is one
`GETCH` of `con_write`, `RsWrite` the interrupt of a serial line. `SetTermios` and
`Flush` are the ioctls. What is echoed takes its room in the queue but is not
followed to the device. `LineEditor` promises that only what follows the last line end
can be erased, and that the rest is read in order.

### Console, Screen

`con_write` takes a character and goes through the states of its escape sequences.
An address is a number of cells from `video_mem_start`; `scrup`, `scrdown`,
`insert_line` and the rest move cells as the assembly in them does, with the wrap
at the end of the display memory. `Screen` is what a terminal with rows and
columns and no such memory would do, and `ShowsScreen` compares the two after
every character.

### Malloc

`free_s` is a step for every descriptor it looks at (`FreeWalks`, `FreeFound`),
since interrupts are enabled during the walk; `malloc` is one step. A handler may
call both between two steps of a walk (`IrqFree`, `Malloc`).

### Aufs, Coretemp

`Aufs` has one action per operation of the module, and those of the VFS that call
it (external). A file is an extent; growing it may move the blocks behind. `Truncate`
is the VFS's own, since the module has no handler: the size changes and the blocks
stay. `bare` remembers that an inode was written which a mount refuses.
`Coretemp` cuts the hotplug callbacks at each registration or removal, since
readers of the sysfs files run in between; hotplug and sysfs are external.

### The configuration tools

`KconfigExpr` (the routines of `expr.c` on expressions as records), `KconfigMenu`
(`menu.c`: `menu_finalize`), `KconfigSymbols` (`symbol.c`: values of symbols and
choices), `KconfigFile` (`confdata.c`) are pure: every routine takes the table of
symbols and returns what it leaves of it. Four processes stand on them:
`KconfigSimplify` (the life of one dependency), `KconfigParse` (the reading of one
file, with its recursive dependencies), `KconfigConf` (runs of `conf` in all modes
over the files of a tree, killed anywhere) and `KconfigMconf` (a session with the
menus). `MCTools` runs the four.

## 4. Runs

| Run | Properties | Distinct states |
|---|---|---|
| `wq_cli` | `NoLostSleeper`, `CliNoStaleWake`, `CliWakeUpReachesAll` | 26 429 |
| `wq_open` (violation) | `OpenNoLostSleeper` | |
| `bc_main` | `CountIsReferences`, `GotWantedBlock`, `CleanMatchesDisk`, `ImplementsBlockStore` | 579 419 |
| `bc_live` | `CallsReturn` | 56 761 |
| `pipe` | `InOrder`, `NobodySleepsInVain`, `HonestReturns`, `ImplementsByteStream`, `CallsReturn` | 64 023 |
| `mem` | `CountIsUses`, `WritableIsPrivate`, `ImplementsProcessMemory` | 224 025 |
| `mem_clean` (violation) | `CleanIsUnchanged` | |
| `tty` | `OutputInOrder`, `ImplementsLineEditor`, `CallsReturn` | 118 031 |
| `proc` | `FathersCanWait`, `DeathIsNoticed` | 100 267 |
| `disk` | `ValidIsDisk`, `EveryRequestEnds`, `ConsistentFS`, `ImplementsFileStore` | 64 128 |
| `units` | `InodesAgree`, `FloppyIsRead`, `NeverEarly`, `IdleOnlyWhenIdle`, `ShowsScreen`, `ModulesHold`, `MallocAndExec` | 1 597 451 |
| `tools` | `ToolsSimplifiedAlike`, `ToolsVisibleIsReachable`, `ToolsSavedIsRead`, `ToolsOneOfChoice`, `ToolsNothingLeftNew`, `ToolsChangesAreTouched`, `ToolsShownIsTrue` | 405 793 |

What each run shows is its "about" in `PROJECT.json`; each property is explained
above its definition.

### Bounds, and why they are enough

* `wq_cli`: a mistake in the chain needs a sleeper in the middle, one above, one
  below and one that acts, hence four tasks; two queues let a stale pointer reach a
  task that sleeps elsewhere. In some behaviours two tasks use one queue of each
  kind. The theorems cover any number.
* `bc_main`: two buffers for three blocks force replacement in almost every call,
  two request slots leave one for writes, so that writers meet a full table;
  `MaxOps` = 3 calls reach every sleep of `getblk`, and `MaxHold` = 1 leaves a buffer
  to the other process. The single buffer of `bc_live` is the extreme case, where
  all wait for one and the device may fail.
* `pipe`: a ring of four holds three bytes, calls of four bytes never fit at once,
  and eight bytes make head and tail pass the end of the page twice. Three
  processes give two competitors at one end.
* `mem`: an address space has a page of data, of heap and of stack. Nine or ten pages
  are fewer than three processes with all their pages need, so every allocation
  fails in some state; the instance that starts with fewer makes sure of that for
  early ones. Init forks and does not store (`InitOnlyForks`); with one file, a wrong
  sharing is one with init and its children, which run no file. Further files are
  covered by the theorems; `mem_clean` needs no heap. `MCView` identifies states that differ only in which page frames are
  used: no action and no property depends on a frame's number except through
  `get_free_page`, whose choice among free frames is invisible to everything else.
* `tty`: rings of three cells hold two characters, so that every ring is full in
  some state; two keys, three characters written and one change of `termios` meet
  the reader and the writer in every place. A console and a raw serial line with a
  timed read are the two kinds of initial states.
* `proc`: four slots and the numbers 1 to 4, so that numbers are used again after
  two forks: grandfather, father and child die in every order. There is one other
  call and one more signal (`MaxCalls`, `MaxKills`), so that init can be killed after
  any of them.
* `disk`: three blocks on two partitions, the first of odd length, three errors
  before a reset or a failure; the elevator with two devices and four slots. The
  file system has three inodes, five zones, one direct zone and two cells per block,
  so that double indirect zones are reached at position 6 and the device is full
  soon. Six kinds of programs (names; data of two files; deleted data; descriptors;
  close-on-exec and terminals; permissions) keep calls apart that do not influence
  each other.
* `units`: two processes, three slots and two inode numbers in the inode table,
  followed until one of the races has happened (`NoRace`); two floppies with one failure that is not counted; counters of five bits and six
  ticks; a screen of 3 by 3 on 4 rows of memory, and every four characters; aufs
  with two files, a directory of two blocks, one unreadable block, three calls, and
  truncation to nothing or to two blocks;
  five pages for `malloc`, two descriptors to a page; an area of 16 bytes that
  the longest arguments fill; three CPUs on two cores. The inode table was also
  simulated with three processes and four slots.
* `tools`: three symbols (boolean, tristate, and a value of a choice); every
  expression of few operands, every file of few entries, chains of `conf` runs and
  sessions of few keys. The constants of `MCTools` name each bound.

`SYMMETRY` is used for processes in runs that check safety only, where nothing
distinguishes one (`bc_main`, `units`).

### Deadlock

Deadlock is checked in `wq_open`, `bc_live`, `proc` and `disk`. It is not checked

* in `wq_cli`, since the queues of the other two kinds lose sleepers;
* in `bc_main`, since the lost wake-up of `make_request`, or two `breada` calls
  which each hold a buffer and wait for the other's, may stop it;
* in `pipe`, since a process that holds both ends may wait for itself (`Entangled`),
  and because processes may have closed everything;
* in `mem` and `mem_clean`, since init itself may be killed when memory runs out;
* in `tty`, since nobody need type or write any more;
* in `units` and `tools`, since bounded programs, sessions and files end. In `disk`
  the file system may stutter, so that the check is about the drivers.

### Fairness

* Scheduling a task is strongly fair, because the counters of `schedule` hand the
  CPU to each runnable task in turn, though a task may stop being runnable in
  between. Code in the kernel is weakly fair: nothing preempts it.
* `WaitQueue`: no fairness for sleeping, waking, forking or exiting.
* `BufferCache`, `MCDisk`: weak fairness of the device (`Device`, `hd_interrupt`,
  `EndRequest`): a controller ends what it begins. For `hd.c` this rests on the
  interrupt arriving, since the driver has no timer. `Release` is strongly fair:
  code that got a buffer releases it before it returns to user mode.
* `Pipe`: strong fairness of closing: processes exit in the end, and `do_exit`
  closes their descriptors. `CallsReturn` excepts a process that waits for itself.
* `Processes`: a task that can go on does (`Goes`, `Woken`); delivery of a signal
  and preemption of each task are strongly fair, for the timer interrupt comes
  again and again.
* `Tty`: weak fairness of the interrupt of the serial line and of the alarm of a
  timed read; strong fairness of scheduling and of handling a signal. No fairness
  of keys. `CallsReturn` excepts a reader that spins on a partial line
  (`tty_io.c:261`).

## 5. What was found

Two runs are findings. `wq_open`: `make_request` sleeps on `wait_for_request` with
interrupts enabled (`ll_rw_blk.c:129`), and `end_request` wakes that queue from an
interrupt (`blk.h:122`): the wake-up can be lost, although a comment of `sched.c`
calls `sleep_on` the means of synchronisation with interrupt handlers.

`mem_clean`: `un_wp_page` enters the copy of a modified page without the dirty bit. If
the system call behind `verify_area` returns without a store, the entry stays so
(`sys_read` at the end of a file, `read_write.c:112`), and `try_to_share`, whose comment
promises to share clean pages only (`memory.c:475`), gives the page to the next
process that runs the file.

The following was seen while modelling and has no run of its own. Where a switch
is named, TLC shows it when the switch is set.

Scheduling and memory:

* `interruptible_sleep_on` expects to be woken by a later sleeper which does not
  know of it (`sched.c:261`; `IntrNoLostSleeper` is false).
* `find_empty_process` would loop forever if there were fewer numbers than tasks;
  `sys_nice` with a negative increment can overflow the counter.
* `sys_kill` signals every task but task 0, init included (`exit.c:100`), although the
  comment at `exit.c:82` says that `kill(-1)` spares init. When init is dead, its
  children have a father that may be nobody (`FathersCanWait` says so).
* A page of a file is shared although it was changed also without the finding above:
  after a write fault before the instruction is repeated; when the system call
  sleeps between `verify_area` and its store; when `write_verify` (`memory.c:448`)
  leaves a missing page to the page fault, which may map a shared page that the
  kernel then stores into; and in `do_execve`, which sets `executable` while old
  pages are mapped and `sys_close` may sleep. `ProcessMemory` allows just that.
* In `exec.c` the test `p-len < 0` is never true of an unsigned `p`, so arguments
  that are too long are copied below their area; arguments that just fill it are
  refused; a script called with an empty `argv` gets an `argc` one too small
  (`exec.c:411`).
* `free_s` may panic if a handler frees the last object of a bucket during its walk
  (`IrqFrees`), which the comment at `malloc.c:30` rules out.

Buffers and drivers:

* `file_write` sets `b_dirt` before a copy that may sleep; a sync in between leaves
  modified data in a buffer that counts as clean (`file_dev.c:105`; `MayFault`).
* `breada` passes the buffer it has already read, and not the one to be read ahead,
  to `ll_rw_block` (`buffer.c:478`); `BufferCache` models that. Processes that
  each hold a buffer in `breada` can wait for each other.
* The retry at the end of `get_hash_table` cannot be reached: nobody takes a buffer
  with a reference for another block. This is part of the proof of `WantedIsGot`.
* `blk.h:35` says of `IN_ORDER` that reads go before writes; in a list with a turn
  they need not.
* `block_write` takes a whole block with `getblk` and never sets `b_uptodate`
  (`block_dev.c:43-63`), so a later `bread` reads the old block over it.
* `hd.c` fails at once when a retry begins near the end of a partition
  (`hd.c:302`), and reads `CURRENT` after `end_request` (`hd.c:246`). The floppy
  driver does not count failures of recalibration and retries without end.

Files:

* A write beyond the largest position a double indirect zone reaches panics in
  `_bmap`. `read` and `write` do not check how a file was opened. `sys_access`
  shifts by 6 for the group (`open.c:87`).
* `new_block` leaks a bit of the last, partial block of the bit map; `sys_mkdir`
  frees a zone twice when `add_entry` fails (`namei.c:772`); `sys_link` increments
  `i_nlinks` after `iput(dir)`.
* A name can go away between look-up and `iget`, two `creat` can both make it
  (`namei.c:231`), an inode can be deleted during `sync_inodes`, and `umount` can
  race with a reader of the root. `sys_umount` only prints a message when `i_mount`
  is 0 (`super.c:274`), so a second `umount` while the first sleeps in `iput` puts the
  directory twice. These are what `raced` of `Inodes` records.

Pipes and terminals:

* `write_pipe` and `read_pipe` advance head and tail before a copy that may sleep
  (`pipe.c:92`; `MayFault`).
* The last character can be erased between the test of `tty_read` and its `GETCH`,
  also by an erase character that was left in `read_q` behind a full secondary
  queue ("erase" of `Races`); a reader of a partial line in canonical mode spins in
  the kernel, where no alarm is looked at (`tty_io.c:261`); an echo may meet a full `write_q` ("echo") or
  interrupt `con_write` ("drain", `console.c:457`).
* The tests for `ESC 7` and `ESC 8` look at the column of the cursor (`x`) and not at
  the character (`console.c:511`, `console.c:513`). A key with a sequence that does not fit the queue is dropped as a whole.

The companions:

* aufs: growing a file copies block i to `where+i` and not to `where+i-start`
  (`file.c:41-54`; `Contents`). Renaming onto an existing file leaves the entry
  with the old inode (`dir.c:238`). A write that fails with ENOSPC after its first
  block leaves an extent with size 0, which the next mount refuses
  (`inode.c:431`); so does a file that was truncated to nothing, which keeps its
  blocks, or one that was made longer than the device by `truncate`. `si_freeb` drifts (`file.c:120`). Block 0 of an empty file is
  the superblock (`file.c:64`). An unreadable block of the directory lets a name be
  made twice, an unreadable block of inodes loses an inode on eviction.
* coretemp: if the data of a core could not be made, `coretemp_cpu_offline` of its
  last CPU removes a core with no data (`coretemp.c:508`; "core" in `MayFail`). A
  CPU whose core number is too large is put in the cpumask and never taken out.
* kconfig: `expr_trans_compare` turns `!A` into `A=n`, which differ for a tristate
  that is m. `sym_check_deps` returns NULL for the symbol a cycle began with, so
  `conf_parse` does not count the error. A choice that is m marks its values by a
  visibility that is stale (`symbol.c:485`). `menu_is_visible` sets the user flag on
  an invisible symbol (`menu.c:661`). `conf_write` killed between its two renames
  leaves no `.config`. To load a file that does not exist clears the count of changes
  before it fails (`confdata.c:413`, `mconf.c:913`), so that ESC then leaves mconf
  without the question and loses the changes (`forgotten`). `xfgets` at the end of its input loops.

## 6. Proofs

Eight modules hold theorems; all leaves are checked. The theorems hold for every value of
the constants that the named `ASSUME`s of the modules allow; the runs evaluate these.
A switch is an explicit hypothesis of a theorem where it matters, never hidden
in an assumption.

**`WaitQueueProofs`**, any tasks and queues:

* `TypeCorrect`; `SleepersStayLinked`: `NoLostSleeper` with queues of all three
  kinds present. `Linked` quantifies over all sets of sleepers, which rules out
  rings of sleepers that only name each other. It is inductive together with
  `TypeOK` and `Placed`, which relates the place of a task to its state and queue:
  without it a step of one task could change what another's `tmp` means.
  `PushKeepsLinked` (a new head that remembers the old one) and `ShrinkKeepsLinked`
  (a step that takes a pointer away only with the sleeper it named) carry the
  argument.
* `CliQueuesExact`, `CliUsersExact`: where all queues are slept on under `cli`, no
  pointer is stale and none is doubled. The invariant adds that the running task
  is in state RUNNING.

**`BufferCacheProofs`**, any number of processes, buffers, blocks and requests. `CacheInv`
is `Shape` (types, and what the registers of a call may be at each `pc`),
`CountIsReferences`, `OneBufferPerBlock`, `BlocksNamed`, `Knows` (a process that is
past the search of `getblk` knows that nobody has made its block since), and
`RequestInv`, that relates the list (`ListInv`), the table (`TableInv`), those on the way into
it (`AskInv`) and the locks (`LockInv`). It is inductive on all paths, those of
errors and faults included, and gives

* `TypeCorrect`, `OneBufferEach`, `CountsAreReferences`, `WantedIsGot`,
  `BuffersLockedForOneRequest`;
* `CacheUsesQueue`: every step is a step of `RequestQueue` or leaves the queue alone.

With `DataInv` (a request being copied has moved what its buffer held unless that was
modified since) `CleanIsOnDisk` follows for `~ MayFault`. With `FreshInv` (what is
held, dirty, asked for or commanded is newer than the disk, or the same)
`CacheImplementsStore`: for `~ MayFault` and `~ MayFail` every step is a read or a
modification of `BlockStore`, or invisible. The run `bc_main` shows that instance.

**`PipeProofs`**, any number of processes, page size and calls:

* `TypeCorrect`, `EndsCounted`, `ReturnsAreHonest` also with faults;
* `SleepersHaveAReason`, `BytesInOrder`, `PipeIsByteStream` for `~ MayFault`. `RingInv`
  says what is in the page: the bytes between tail and head are consecutive numbers
  ending in `sent`, except for the chunk that a copy loop is about to fill, and the
  chunk that is being copied out continues `received`; at most one process is in a
  copy loop and it has the CPU (`CopierRuns`). `InOrder` alone is not inductive,
  since it says nothing about bytes that have not been read.

**`MemoryProofs`**, any number of processes, pages and files:

* `TypeCorrect`, `CountsExact`, `WritablePrivate`. `MemInv` is
  `TypeOK`, `CountIsUses`, `WritableIsPrivate`, `KernelPagesPrivate` (task structures,
  page tables and pages in hand are used once) and `PlacesOK`. That sharing keeps
  counts exact needs that a writable page has one user, and that a page has one
  user needs exact counts: neither is inductive alone.
* `SharingIsBounded`: every step is a step of `ProcessMemory` or invisible, with all
  four places open to other processes. `ViewInv` adds to `MemInv` that two entries
  which name a page of main memory are at the same address (`SameAddress`), so that
  whoever shares a page sees it where the other does, and `FilesOK`: a page that the
  kernel is about to store to is private or one of the file, and a process in exec
  has its arguments in hand.

**`ProcessesProofs`**: `TypeCorrect` and `FathersAlwaysWait`, for any number of slots and of
process numbers.
`ProcInv` says that numbers are distinct, that a zombie has gone through `do_exit`,
that only init has no father, and that every other task's father is there and has
not begun to exit, or is number 1, to whom `do_exit` gives orphans (`Fathered`).

**`InodesProofs`**: `InodesAlwaysAgree` and `InodesTyped`, any number of processes, slots and
inode numbers, without a hypothesis: both hold until `raced` (each of the three
races breaks them). The constants are those that the
`ASSUME`s of `Inodes` allow: at least one slot, numbers that are naturals and have 2,
the root, among them, a NULL that is no inode, and finitely many processes; `units`
evaluates them. `InodesInv` says for every process what it holds
where (`PlaceOK`), for every slot that its count is the number of those who hold it
(`CountOK`), who locked it (`LockOK`) and that it agrees with its block (`DiskOK`), for
every inode that its links are its names and whether it is in the bit map (`LinksOK`), and
what the mounted device needs. The run `units` checks the same `InodesAgree`.

**`TtyProofs`**, rings of any size, any keys and characters, any place of reader and writer:

* `TtyIsLineEditor`: `copy_to_cooked`, `tty_read` and the secondary queue between them
  implement `LineEditor`, for `"erase" \notin Races`. `InputInv` says that the ring is
  well formed, that a reader past its test finds a character (`TakerFindsOne`), and
  `LinesCounted`. Without the second, an erasing interrupt makes the tail pass the
  head, and what is read next is old; that is what the hypothesis rules out, and
  TLC finds it when "erase" is allowed.
* `LinesAreCounted`: `secondary.data`, which three parties change without a lock, is the
  number of line ends in the queue: a reader in canonical mode sleeps only while
  there is no line, and does not take half of one for a whole.
* `OutputArrivesInOrder`: `OutputInOrder`, for `"echo" \notin Races` and
  `"drain" \notin Races`, and any bound `MaxOut` that is a natural number
  (`BoundIsNumber`). `OutputInv` is `OutputTypes`, `QueueInv` and `PendingReturn` beside the
  property. `QueueInv` says that a writer that fills or drains the queue has the CPU,
  that only a serial line interrupts for output, that the console's queue is empty
  whenever nobody writes, that `con_write` has as much still to take as there is in the
  queue, and that a key is echoed during a write only into an empty queue or one with
  room for it. `PendingReturn` says that `cr_flag` remembers a carriage return which is
  the last character put: without it the next newline could come without one.
  What is shown and what is in the queue are proved as one sequence, so that a
  character that moves from the one to the other changes nothing.
* `TypeCorrect`, for `Races = {}`: from both invariants. That `sdata` is never negative is
  a consequence of `LinesCounted`, and that nothing but written characters is flushed
  one of `OutputInOrder`.

**`DataLemmas`** has what these proofs share: sequences with an element inserted or taken
away, counts of elements that satisfy a condition, least and greatest elements.

Only model-checked, and why:

* liveness (`CallsReturn` of three modules, `DeathIsNoticed`, `EveryRequestEnds`,
  `CliWakeUpReachesAll`): out of the prover's reach;
* `ConsistentFS`, `ImplementsFileStore`: the zones of a file, its entries and the
  descriptors that lead to it are counted with folds over sequences and trees of
  zones, and what a fold computes for every input needs induction over data;
* `NeverEarly`: the time a timer is due is the sum of the differences before it, a
  recursive function, with the same consequence;
* `IdleOnlyWhenIdle`: it is false for an increment that makes a counter overflow
  (section 5), so it holds for bounds on the calls of `sys_nice`, not in general;
* `ValidIsDisk`, `FloppyIsRead` and the properties of `tools`: their modules use
  recursive operators;
* `ShowsScreen`, `ModulesHold`, `MallocAndExec`: a proof has not been attempted; the chains of
  `malloc` and the extents of aufs are followed with folds, as in the files;
* what the state is after one of the races of `Inodes`, `Tty` with its races, and
  faults in copy loops, for which the statements are false.

## 7. What is left

Modelled in part or not at all (the notes in `PROJECT.json` say what): `bread_page`
and `invalidate_buffers` in the buffer cache, `ramdisk.c`, `calc_mem`, the geometry of
disks and `get_tjmax` of coretemp, the other front ends of kconfig. The calls of
`FileSystem` are atomic and those of `Inodes` know nothing of what is in a file; a
refinement between the two would join them. `HardDisk` could be shown to implement
the device that `BufferCache` assumes. `NeverEarly` would become provable with due
times that are counted and not summed up, and the theorems about `aufs`, coretemp and
`malloc` remain to be stated.
