------------------------------- MODULE Inodes -------------------------------
(***************************************************************************)
(* The table of inodes in memory while processes use it at the same time:  *)
(* fs/inode.c (iget, iput, get_empty_inode, sync_inodes), new_inode and    *)
(* free_inode of fs/bitmap.c, and the mounting of a second device          *)
(* (fs/super.c).                                                           *)
(*                                                                         *)
(* A step is what a process does between two places where it may sleep: to *)
(* wait for a locked inode, to read or write its block, to truncate.  To   *)
(* wait is a guard: that sleepers are woken is the subject of WaitQueue.   *)
(* The rest of an inode is one datum; what is in files is in FileSystem.   *)
(***************************************************************************)
EXTENDS Naturals, FiniteSets

CONSTANTS
    Procs,
    NR_INODE,       \* slots of the table
    Nums,           \* inode numbers of the root device: 2 is a directory, others are files
    NULL

VARIABLES
    inode,          \* inode_table
    disk,           \* what is in the inode blocks
    imap,           \* the numbers in use
    named,          \* the numbers that a directory entry has
    sb,             \* the super block of device 2
    proc,           \* what each process is doing
    panic,
    raced           \* something was taken away from under somebody on the way to it

vars == <<inode, disk, imap, named, sb, proc, panic, raced>>

Slots == 1 .. NR_INODE
MOUNTED == <<2, 1>>         \* the root of device 2
Ids == {<<1, n>> : n \in Nums} \cup {MOUNTED}

ASSUME SlotsExist == NR_INODE \in Nat \ {0}
ASSUME RootHasNumber == Nums \subseteq Nat /\ 2 \in Nums
ASSUME NullIsNoInode == NULL \notin Ids
ASSUME ProcsAreFinite == IsFiniteSet(Procs)

Clear == [id |-> NULL, count |-> 0, lock |-> FALSE, dirt |-> FALSE, mount |-> FALSE,
          pipe |-> FALSE, nlinks |-> 0, data |-> 0]
Idle == [pc |-> "idle", slot |-> 0, want |-> NULL, at |-> 0]

Init ==
    /\ inode = [s \in Slots |-> Clear]
    /\ disk = [i \in Ids |-> [nlinks |-> IF i \in {<<1, 2>>, MOUNTED} THEN 1 ELSE 0, data |-> 0]]
    /\ imap = {2} /\ named = {2}
    /\ sb = [dev |-> 0, lock |-> FALSE, imount |-> 0]
    /\ proc = [p \in Procs |-> Idle]
    /\ panic = FALSE
    /\ raced = FALSE

At(p, pc) == ~ panic /\ proc[p].pc = pc
Goes(p, pc) == proc' = [proc EXCEPT ![p].pc = pc]
Ends(p) == proc' = [proc EXCEPT ![p] = Idle]
Holds(p, s) == proc' = [proc EXCEPT ![p] = [Idle EXCEPT !.pc = "held", !.slot = s]]

\* get_empty_inode: an unused slot.  It is written first if it is dirty, and
\* waited for if it is locked; UnusedIsClean says that neither happens.  There
\* are enough slots: with none the system stops ("No free inodes in mem").
Unused == {s \in Slots : inode[s].count = 0 /\ ~ inode[s].dirt /\ ~ inode[s].lock}
Taken(s) == [inode EXCEPT ![s] = [Clear EXCEPT !.count = 1]]

-----------------------------------------------------------------------------
(* iget.                                                                   *)

\* A name is found; its directory is put before iget is called.
Lookup(p) ==
    \E n \in named :
        /\ At(p, "idle")
        /\ proc' = [proc EXCEPT ![p].pc = "iget", ![p].want = <<1, n>>]
        /\ UNCHANGED <<inode, disk, imap, named, sb, panic>>

\* iget takes a slot before it looks, even if it will not need it.
IgetEmpty(p) ==
    \E s \in Unused :
        /\ At(p, "iget")
        /\ inode' = Taken(s)
        /\ proc' = [proc EXCEPT ![p].pc = "scan", ![p].slot = s]
        /\ UNCHANGED <<disk, imap, named, sb, panic>>

Having(id) == {s \in Slots : inode[s].id = id}

\* Where something is mounted, iget goes on with the root of that device.
Covered(id) == \E s \in Having(id) : inode[s].mount /\ ~ inode[s].lock
Sought(p) == IF Covered(proc[p].want) THEN MOUNTED ELSE proc[p].want

\* It is in the table: wait until it is unlocked (and look again), and count
\* it.  The slot that was taken is put back.
IgetFound(p) ==
    \E s \in Having(Sought(p)) :
        /\ At(p, "scan") /\ ~ inode[s].lock
        /\ inode' = [inode EXCEPT ![s].count = @ + 1, ![proc[p].slot].count = 0]
        /\ Holds(p, s)
        /\ UNCHANGED <<disk, imap, named, sb, panic>>

\* The root of the device that is mounted there is locked: wait for it.
IgetCrosses(p) ==
    \E s \in Having(MOUNTED) :
        /\ At(p, "scan") /\ Covered(proc[p].want) /\ inode[s].lock
        /\ proc' = [proc EXCEPT ![p].want = MOUNTED]
        /\ UNCHANGED <<inode, disk, imap, named, sb, panic>>

\* Slip: an inode that is locked is passed over.
IgetNewTwice(p) ==
    /\ At(p, "scan") /\ \A s \in Having(Sought(p)) : inode[s].lock
    /\ inode' = [inode EXCEPT ![proc[p].slot] = [@ EXCEPT !.id = Sought(p), !.lock = TRUE]]
    /\ Goes(p, "read")
    /\ UNCHANGED <<disk, imap, named, sb, panic>>

\* It is not there: read_inode into the slot, which is locked meanwhile.
IgetNew(p) ==
    /\ At(p, "scan") /\ Having(Sought(p)) = {}
    /\ inode' = [inode EXCEPT ![proc[p].slot] = [@ EXCEPT !.id = Sought(p), !.lock = TRUE]]
    /\ Goes(p, "read")
    /\ UNCHANGED <<disk, imap, named, sb, panic>>

ReadInode(p) ==
    LET s == proc[p].slot IN
    /\ At(p, "read")
    /\ inode' = [inode EXCEPT ![s] = [@ EXCEPT !.lock = FALSE, !.nlinks = disk[inode[s].id].nlinks,
                                               !.data = disk[inode[s].id].data]]
    /\ Holds(p, s)
    /\ UNCHANGED <<disk, imap, named, sb, panic>>

-----------------------------------------------------------------------------
(* What a process does with an inode that it holds.                        *)

\* chmod, a write, utime ...: nothing waits for the lock.
Change(p) ==
    LET i == inode[proc[p].slot] IN
    /\ At(p, "held") /\ i.nlinks > 0
    /\ inode' = [inode EXCEPT ![proc[p].slot] = [@ EXCEPT !.data = 1 - i.data, !.dirt = TRUE]]
    /\ UNCHANGED <<disk, imap, named, sb, proc, panic>>

\* new_inode: the first free number gets a slot ...
NewInode(p) ==
    \E s \in Unused, n \in Nums \ imap :
        /\ At(p, "idle") /\ \A k \in Nums \ imap : n <= k
        /\ inode' = [Taken(s) EXCEPT ![s] = [@ EXCEPT !.id = <<1, n>>, !.nlinks = 1, !.dirt = TRUE]]
        /\ imap' = imap \cup {n}
        /\ Holds(p, s)
        /\ UNCHANGED <<disk, named, sb, panic>>

\* ... and a name in a directory.
AddEntry(p) ==
    LET i == inode[proc[p].slot] IN
    /\ At(p, "held") /\ i.id[1] = 1 /\ i.nlinks > 0 /\ i.id[2] \notin named
    /\ named' = named \cup {i.id[2]}
    /\ UNCHANGED <<inode, disk, imap, sb, proc, panic>>

LookedFor(id) == \E q \in Procs : proc[q].want = id /\ proc[q].pc \in {"iget", "scan"}

\* unlink: the last name of the inode goes away, also when somebody has just
\* found it and is about to call iget.
Unlink(p) ==
    LET i == inode[proc[p].slot] IN
    /\ At(p, "held") /\ i.id[1] = 1 /\ i.nlinks > 0 /\ i.id[2] \in named \ {2}
    /\ raced' = (raced \/ LookedFor(i.id))
    /\ named' = named \ {i.id[2]}
    /\ inode' = [inode EXCEPT ![proc[p].slot] = [@ EXCEPT !.nlinks = 0, !.dirt = TRUE]]
    /\ UNCHANGED <<disk, imap, sb, proc, panic>>

-----------------------------------------------------------------------------
(* iput.                                                                   *)

Putting(p, s) == At(p, "held") /\ s = proc[p].slot /\ ~ inode[s].lock

\* Not the last user.
IputShared(p) ==
    \E s \in Slots :
        /\ Putting(p, s) /\ inode[s].count > 1
        /\ inode' = [inode EXCEPT ![s].count = @ - 1]
        /\ Ends(p)
        /\ UNCHANGED <<disk, imap, named, sb, panic>>

\* Slip: the last user writes the inode but gives it up before it is written.
IputDirtyEarly(p) ==
    \E s \in Slots :
        /\ Putting(p, s) /\ inode[s].count = 1 /\ inode[s].nlinks > 0 /\ inode[s].dirt
        /\ inode' = [inode EXCEPT ![s].count = 0]
        /\ Ends(p)
        /\ UNCHANGED <<disk, imap, named, sb, panic>>

\* The last user of a changed inode writes it, and looks again.
IputDirty(p) ==
    \E s \in Slots :
        /\ Putting(p, s) /\ inode[s].count = 1 /\ inode[s].nlinks > 0 /\ inode[s].dirt
        /\ inode' = [inode EXCEPT ![s].lock = TRUE]
        /\ Goes(p, "write")
        /\ UNCHANGED <<disk, imap, named, sb, panic>>

IputClean(p) ==
    \E s \in Slots :
        /\ Putting(p, s) /\ inode[s].count = 1 /\ inode[s].nlinks > 0 /\ ~ inode[s].dirt
        /\ inode' = [inode EXCEPT ![s].count = 0]
        /\ Ends(p)
        /\ UNCHANGED <<disk, imap, named, sb, panic>>

\* The last user of an inode without links truncates it, still counted ...
IputDelete(p) ==
    \E s \in Slots :
        /\ Putting(p, s) /\ inode[s].count = 1 /\ inode[s].nlinks = 0
        /\ Goes(p, "trunc")
        /\ UNCHANGED <<inode, disk, imap, named, sb, panic>>

\* ... and free_inode frees its number and slot, or panics if somebody else
\* counts it by now.  The block of the inode keeps what it has.
FreeInode(p) ==
    LET s == proc[p].slot IN
    /\ At(p, "trunc")
    /\ IF inode[s].count > 1
       THEN panic' = TRUE /\ UNCHANGED <<inode, imap, proc>>
       ELSE /\ imap' = imap \ {inode[s].id[2]}
            /\ inode' = [inode EXCEPT ![s] = Clear]
            /\ Ends(p) /\ UNCHANGED panic
    /\ UNCHANGED <<disk, named, sb>>

\* write_inode, after it has read the block that it chose before: the entry
\* is the one of the number that the inode has now.  All numbers of a device
\* are in one block.
Written(s, dev) ==
    LET entry == IF inode[s].id = NULL THEN NULL ELSE <<dev, inode[s].id[2]>> IN
    /\ disk' = [i \in Ids |-> IF i = entry THEN [nlinks |-> inode[s].nlinks, data |-> inode[s].data] ELSE disk[i]]
    /\ inode' = [inode EXCEPT ![s] = [@ EXCEPT !.dirt = FALSE, !.lock = FALSE]]

WriteInode(p) ==
    /\ At(p, "write") /\ Written(proc[p].slot, inode[proc[p].slot].id[1])
    /\ Goes(p, "held")
    /\ UNCHANGED <<imap, named, sb, panic>>

-----------------------------------------------------------------------------
(* sync_inodes: every changed inode that is not a pipe is written.         *)

SyncStart(p) ==
    /\ At(p, "idle") /\ proc' = [proc EXCEPT ![p].pc = "sync", ![p].at = 1]
    /\ UNCHANGED <<inode, disk, imap, named, sb, panic>>

SyncSkip(p) ==
    LET s == proc[p].at IN
    /\ At(p, "sync") /\ ~ inode[s].lock /\ (~ inode[s].dirt \/ inode[s].pipe)
    /\ IF s = NR_INODE THEN Ends(p) ELSE proc' = [proc EXCEPT ![p].at = s + 1]
    /\ UNCHANGED <<inode, disk, imap, named, sb, panic>>

\* free_inode does not wait for the lock that is taken here.
SyncLock(p) ==
    LET s == proc[p].at IN
    /\ At(p, "sync") /\ ~ inode[s].lock /\ inode[s].dirt /\ ~ inode[s].pipe
    /\ raced' = (raced \/ \E q \in Procs : proc[q].pc = "trunc" /\ proc[q].slot = s)
    /\ inode' = [inode EXCEPT ![s].lock = TRUE]
    /\ proc' = [proc EXCEPT ![p].pc = "syncwrite", ![p].want = inode[s].id]
    /\ UNCHANGED <<disk, imap, named, sb, panic>>

SyncWrite(p) ==
    /\ At(p, "syncwrite") /\ Written(proc[p].at, proc[p].want[1])
    /\ proc' = [proc EXCEPT ![p].pc = "sync", ![p].want = NULL]
    /\ UNCHANGED <<imap, named, sb, panic>>

-----------------------------------------------------------------------------
(* Pipes: an inode without a device, counted for its two ends.             *)

GetPipe(p) ==
    \E s \in Unused :
        /\ At(p, "idle")
        /\ inode' = [Taken(s) EXCEPT ![s] = [@ EXCEPT !.count = 2, !.pipe = TRUE]]
        /\ proc' = [proc EXCEPT ![p].pc = "pipe", ![p].slot = s]
        /\ UNCHANGED <<disk, imap, named, sb, panic>>

\* No page for it.
GetPipeFails(p) ==
    \E s \in Unused :
        /\ At(p, "idle")
        /\ inode' = [inode EXCEPT ![s] = Clear]
        /\ UNCHANGED <<disk, imap, named, sb, proc, panic>>

IputPipe(p) ==
    LET s == proc[p].slot IN
    /\ At(p, "pipe")
    /\ inode' = [inode EXCEPT ![s] = [@ EXCEPT !.count = inode[s].count - 1, !.pipe = inode[s].count > 1]]
    /\ IF inode[s].count > 1 THEN UNCHANGED proc ELSE Ends(p)
    /\ UNCHANGED <<disk, imap, named, sb, panic>>

-----------------------------------------------------------------------------
(* sys_mount of device 2 on a directory that p has just got, and umount.   *)

\* read_super takes the super block before it reads the device.
Mount(p) ==
    LET i == inode[proc[p].slot] IN
    /\ At(p, "held") /\ i.id = <<1, 2>> /\ i.count = 1
    /\ sb.dev = 0
    /\ sb' = [sb EXCEPT !.dev = 2, !.lock = TRUE]
    /\ Goes(p, "super")
    /\ UNCHANGED <<inode, disk, imap, named, panic>>

MountRead(p) ==
    /\ At(p, "super")
    /\ \/ /\ sb' = [sb EXCEPT !.lock = FALSE, !.imount = proc[p].slot]
          /\ inode' = [inode EXCEPT ![proc[p].slot] = [@ EXCEPT !.mount = TRUE, !.dirt = TRUE]]
          /\ Ends(p)
       \/ /\ sb' = [sb EXCEPT !.lock = FALSE, !.dev = 0]
          /\ Goes(p, "held") /\ UNCHANGED inode
    /\ UNCHANGED <<disk, imap, named, panic>>

Unmounting == \E q \in Procs : proc[q].pc \in {"umount", "umountwrite"}

\* Refused if an inode of the device is in use.  The directory is put, which
\* may sleep; while it does nobody can mount anything, but a second umount
\* finds the device still mounted: that the directory has no i_mount any more
\* is only printed, and it is put twice.
Umount(p) ==
    /\ At(p, "idle") /\ sb.dev = 2 /\ ~ sb.lock /\ sb.imount # 0
    /\ \A s \in Slots : inode[s].id = MOUNTED => inode[s].count = 0
    /\ raced' = (raced \/ LookedFor(MOUNTED) \/ Unmounting)
    /\ inode' = [inode EXCEPT ![sb.imount].mount = FALSE]
    /\ proc' = [proc EXCEPT ![p].pc = "umount", ![p].slot = sb.imount]
    /\ UNCHANGED <<disk, imap, named, sb, panic>>

\* iput of the directory, which is dirty since it was mounted on or not.
UmountPut(p) ==
    LET s == proc[p].slot IN
    /\ At(p, "umount") /\ ~ inode[s].lock
    /\ panic' = (inode[s].count = 0)
    /\ CASE inode[s].count = 0 -> UNCHANGED <<inode, sb, proc>>
         [] inode[s].count = 1 /\ inode[s].dirt ->
              inode' = [inode EXCEPT ![s].lock = TRUE] /\ Goes(p, "umountwrite") /\ UNCHANGED sb
         [] OTHER ->
              /\ inode' = [inode EXCEPT ![s].count = @ - 1] /\ Ends(p)
              /\ sb' = [sb EXCEPT !.imount = 0, !.dev = 0]
    /\ UNCHANGED <<disk, imap, named>>

UmountWrite(p) ==
    /\ At(p, "umountwrite") /\ Written(proc[p].slot, 1)
    /\ Goes(p, "umount")
    /\ UNCHANGED <<imap, named, sb, panic>>

Next ==
    \E p \in Procs :
        \/ Unlink(p) \/ SyncLock(p) \/ Umount(p)
        \/ /\ UNCHANGED raced
           /\ \/ Lookup(p) \/ IgetEmpty(p) \/ IgetFound(p) \/ IgetCrosses(p) \/ IgetNew(p) \/ ReadInode(p)
              \/ Change(p) \/ NewInode(p) \/ AddEntry(p)
              \/ IputShared(p) \/ IputDirty(p) \/ IputClean(p) \/ IputDelete(p) \/ FreeInode(p)
              \/ WriteInode(p) \/ SyncStart(p) \/ SyncSkip(p) \/ SyncWrite(p)
              \/ GetPipe(p) \/ GetPipeFails(p) \/ IputPipe(p)
              \/ Mount(p) \/ MountRead(p) \/ UmountPut(p) \/ UmountWrite(p)

Spec == Init /\ [][Next]_vars

-----------------------------------------------------------------------------
(* Properties.                                                             *)

Holders(s) ==
    {p \in Procs : proc[p].slot = s /\ proc[p].pc \notin {"umount", "umountwrite"}}

\* An inode is at most once in the table, however iget, iput and deletion are
\* interleaved; its count is the number of its users, so that nobody loses it,
\* and nobody but its users has it.
OneInodePerNumber ==
    /\ \A s, t \in Slots : inode[s].id # NULL /\ inode[s].id = inode[t].id => s = t
    /\ \A s \in Slots : ~ inode[s].pipe =>
          inode[s].count = Cardinality(Holders(s)) + (IF sb.imount = s THEN 1 ELSE 0)
    /\ \A p \in Procs : proc[p].pc = "held" => inode[proc[p].slot].id # NULL
    /\ ~ panic

\* An inode that is not marked as changed is as on the disk, one that nobody
\* uses is not changed and not locked: get_empty_inode has never to wait, and
\* forgets nothing when it takes a slot.
UnusedIsClean ==
    \A s \in Slots :
        /\ inode[s].count = 0 => ~ inode[s].dirt /\ ~ inode[s].lock
        /\ inode[s].id # NULL /\ ~ inode[s].dirt /\ ~ inode[s].lock =>
              disk[inode[s].id] = [nlinks |-> inode[s].nlinks, data |-> inode[s].data]

\* The directory on which a device is mounted is in use and marked, and
\* nobody has an inode of a device that is not mounted.
MountIsHeld ==
    /\ \A s \in Slots : inode[s].mount => sb.imount = s /\ inode[s].count > 0
    /\ \A s \in Slots : inode[s].id = MOUNTED /\ inode[s].count > 0 => sb.imount # 0

\* What the table promises to iget, iput and the system calls, until a name or
\* the device that somebody has found goes away, an inode that is being removed
\* is written by sync_inodes, or a device is unmounted twice at once: nothing
\* in the code keeps these apart, and after each of them a part is false.
InodesAgree == ~ raced => OneInodePerNumber /\ UnusedIsClean /\ MountIsHeld

\* Runs that are bounded do not go on after a race: free_inode has then cleared
\* inodes that others use, and what they do to them means nothing.
NoRace == ~ raced

=============================================================================
