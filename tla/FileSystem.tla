----------------------------- MODULE FileSystem -----------------------------
(***************************************************************************)
(* The file system as a program sees it: bitmaps, zones, directories and   *)
(* names (fs/bitmap.c, truncate.c, inode.c, namei.c) and the calls on open *)
(* files (open.c, fcntl.c, read_write.c, file_dev.c, pipe.c).              *)
(*                                                                         *)
(* A system call is one step here: what happens when calls sleep and are   *)
(* interleaved is the subject of module Inodes.  The device is reliable,   *)
(* but it and every table may be full.  Times are left out.  A block has   *)
(* CELLS cells, each a byte, a zone number or a directory entry, so that   *)
(* few blocks are enough for indirect ones.                                *)
(***************************************************************************)
EXTENDS Integers, Sequences, SequencesExt, FiniteSetsExt

CONSTANTS
    Procs, First,       \* the task slots, and the process that is there first
    NI, NZ,             \* inodes and zones of the device
    N_DIRECT, CELLS,    \* direct zones (7 in the code), cells of a block (512)
    NR_OPEN, NR_FILE,
    Devs,               \* device numbers of special files
    MAX_POS,            \* bound: positions that programs seek and write to
    Offsets, Counts,    \* bound: the offsets of lseek, the counts of read and write
    Programs,           \* bound: the calls, paths and flags of one behaviour
    NULL

VARIABLES fs, file, task,
    prog                \* what programs do in this behaviour
vars == <<fs, file, task, prog>>

Inums == 1 .. NI
Zones == 1 .. NZ
ROOT_INO == 1
Fds == 0 .. NR_OPEN - 1
Cells == 0 .. CELLS - 1
INDIRECT == N_DIRECT
DOUBLE == N_DIRECT + 1

Cell(n) == [n |-> n, name |-> NULL]
Entry(ino, name) == [n |-> ino, name |-> name]
ZeroBlock == [k \in Cells |-> Cell(0)]
Junk == [k \in Cells |-> Cell(2)]     \* what a free block may hold
NoZones == [k \in 0 .. DOUBLE |-> 0]
NoInode == [mode |-> "none", nlinks |-> 0, size |-> 0, zone |-> NoZones, uid |-> 0, perm |-> {}]

\* A device with an empty root directory, and the process that mounted it.
Init ==
    /\ fs = [inode |-> [i \in Inums |->
                          IF i = ROOT_INO
                          THEN [mode |-> "dir", nlinks |-> 2, size |-> 2, uid |-> 0, perm |-> {"r"},
                                zone |-> [NoZones EXCEPT ![0] = 1]]
                          ELSE NoInode],
             count |-> [i \in Inums |-> IF i = ROOT_INO THEN 4 ELSE 0],
             data |-> [z \in Zones |->
                         IF z = 1
                         THEN [ZeroBlock EXCEPT ![0] = Entry(1, "."), ![1] = Entry(1, "..")]
                         ELSE Junk],
             zmap |-> {1}, imap |-> {ROOT_INO}, panic |-> ""]
    /\ file = [f \in 1 .. NR_FILE |-> NULL]
    /\ task = [p \in Procs |->
                 IF p = First THEN [root |-> ROOT_INO, pwd |-> ROOT_INO, euid |-> 0,
                                    filp |-> [d \in Fds |-> 0], close_on_exec |-> {},
                                    leader |-> TRUE, tty |-> -1]
                 ELSE NULL]
    /\ prog \in Programs

Panic(f, why) == [f EXCEPT !.panic = why]

-----------------------------------------------------------------------------
(* Zones and inodes of the device: bitmap.c, _bmap, truncate, iput.        *)

\* The operators return the changed file system, and a zone or inode as nr.
Found(f, n) == [fs |-> f, nr |-> n]

new_block(f) ==
    LET free == Zones \ f.zmap IN
    IF free = {} THEN Found(f, 0)
    ELSE Found([f EXCEPT !.zmap = @ \cup {Min(free)}, !.data[Min(free)] = ZeroBlock], Min(free))

\* The buffer of a freed block is discarded.
free_block(f, z) ==
    IF z \in f.zmap THEN [f EXCEPT !.zmap = @ \ {z}, !.data[z] = Junk]
    ELSE Panic(f, "free_block: bit already cleared")

\* i_zone[k], made if create is set.
ZoneOf(f, i, k, create) ==
    LET Put(b) == Found([b.fs EXCEPT !.inode[i].zone[k] = b.nr], b.nr)
    IN  IF create /\ f.inode[i].zone[k] = 0 THEN Put(new_block(f)) ELSE Found(f, f.inode[i].zone[k])

\* Entry k of the indirect block ind.nr, made if create is set.
Indirect(ind, k, create) ==
    LET Put(b) == Found([b.fs EXCEPT !.data[ind.nr][k] = Cell(b.nr)], b.nr)
    IN  IF ind.nr = 0 THEN ind
        ELSE IF create /\ ind.fs.data[ind.nr][k].n = 0 THEN Put(new_block(ind.fs))
        ELSE Found(ind.fs, ind.fs.data[ind.nr][k].n)

_bmap(f, i, block, create) ==
    LET b == block - N_DIRECT IN
    IF b < 0 THEN ZoneOf(f, i, block, create)
    ELSE IF b < CELLS THEN Indirect(ZoneOf(f, i, INDIRECT, create), b, create)
    ELSE Indirect(Indirect(ZoneOf(f, i, DOUBLE, create), (b - CELLS) \div CELLS, create),
                  (b - CELLS) % CELLS, create)

bmap(f, i, block) == _bmap(f, i, block, FALSE).nr

\* The zones that an indirect block names, and the zones below it and itself.
Pointers(f, z) == SelectSeq([k \in 1 .. CELLS |-> f.data[z][k-1].n], LAMBDA x : x # 0)
free_ind(f, z) == IF z = 0 THEN <<>> ELSE Pointers(f, z) \o <<z>>
free_dind(f, z) ==
    IF z = 0 THEN <<>>
    ELSE FoldLeft(LAMBDA s, y : s \o free_ind(f, y), <<>>, Pointers(f, z)) \o <<z>>

\* All zones of an inode, in the order in which truncate frees them.
ZonesOf(f, i) ==
    LET z == f.inode[i].zone
    IN  SelectSeq([k \in 1 .. N_DIRECT |-> z[k-1]], LAMBDA x : x # 0)
            \o free_ind(f, z[INDIRECT]) \o free_dind(f, z[DOUBLE])

HasZones(f, i) == f.inode[i].mode \in {"reg", "dir"}

\* Slip: the numbers of the freed zones stay in the inode.
truncate_stale(f, i) ==
    IF HasZones(f, i)
    THEN [FoldLeft(free_block, f, ZonesOf(f, i)) EXCEPT !.inode[i].size = 0] ELSE f

\* The numbers in a special file are not zones.
truncate(f, i) ==
    IF HasZones(f, i)
    THEN [FoldLeft(free_block, f, ZonesOf(f, i)) EXCEPT !.inode[i].zone = NoZones, !.inode[i].size = 0]
    ELSE f

free_inode(f, i) ==
    IF f.count[i] > 1 THEN Panic(f, "free_inode")
    ELSE IF f.inode[i].nlinks # 0 THEN Panic(f, "trying to free inode with links")
    ELSE [f EXCEPT !.imap = @ \ {i}, !.inode[i] = NoInode, !.count[i] = 0]

new_inode(f, uid) ==
    LET free == Inums \ f.imap IN
    IF free = {} THEN Found(f, 0)
    ELSE Found([f EXCEPT !.imap = @ \cup {Min(free)}, !.count[Min(free)] = 1,
                         !.inode[Min(free)] = [NoInode EXCEPT !.nlinks = 1, !.uid = uid]], Min(free))

iget(f, i) == [f EXCEPT !.count[i] = @ + 1]

\* The last user of an inode without links frees it.
iput(f, i) ==
    IF f.count[i] = 0 THEN Panic(f, "iput: trying to free free inode")
    ELSE IF f.count[i] = 1 /\ f.inode[i].nlinks = 0 THEN free_inode(truncate(f, i), i)
    ELSE [f EXCEPT !.count[i] = @ - 1]

-----------------------------------------------------------------------------
(* Directories and names: namei.c.  t is the task that calls.              *)

suser(t) == t.euid = 0

\* Owners may do everything; perm has what others may: "r" read and search,
\* "w" write.  Nobody may do anything with a deleted file.
permission(f, t, i, mask) ==
    /\ f.inode[i].nlinks > 0
    /\ suser(t) \/ t.euid = f.inode[i].uid \/ mask \subseteq f.inode[i].perm

\* Entry k of a directory.
EntryAt(f, d, k) ==
    LET At(z) == IF z = 0 THEN Cell(0) ELSE f.data[z][k % CELLS]
    IN  At(bmap(f, d, k \div CELLS))

Dir(f, d) == [k \in 0 .. f.inode[d].size - 1 |-> EntryAt(f, d, k)]

\* The index of name in the entries e of directory d, or their number; ".." of
\* the root of t is ".".
find_entry(e, t, d, name) ==
    LET wanted == IF name = ".." /\ d = t.root THEN "." ELSE name
    IN  Min({k \in DOMAIN e : e[k].n # 0 /\ e[k].name = wanted} \cup {Cardinality(DOMAIN e)})

SetEntry(f, d, k, e) ==
    LET Put(z) == [f EXCEPT !.data[z][k % CELLS] = e] IN Put(bmap(f, d, k \div CELLS))

\* The first unused entry, or one behind the last; it gets the inode ino.
\* nr is 0 if there is no zone for it.
add_entry(f, d, name, ino) ==
    LET size == f.inode[d].size
        Put(k, b) ==
            IF b.nr = 0 THEN b
            ELSE Found([b.fs EXCEPT !.data[b.nr][k % CELLS] = Entry(ino, name),
                                    !.inode[d].size = IF k = size THEN size + 1 ELSE size], b.nr)
        Free(k) == Put(k, _bmap(f, d, k \div CELLS, TRUE))
    IN  Free(Min({j \in 0 .. size - 1 : EntryAt(f, d, j).n = 0} \cup {size}))

IsDir(f, i) == i # 0 /\ f.inode[i].mode = "dir"

\* The entry of name in d: its directory, index and inode, 0 if there is none.
At(f, t, d, name) ==
    LET Hit(e, k) == [dir |-> d, base |-> name, at |-> k, ino |-> IF k \in DOMAIN e THEN e[k].n ELSE 0]
        Search(e) == Hit(e, find_entry(e, t, d, name))
    IN  Search(Dir(f, d))

\* The directory of a path, or 0.  A path is absolute or not, has names of
\* directories, and a last name, or "" after a last slash.
get_dir(f, t, path) ==
    LET May(d) == IsDir(f, d) /\ permission(f, t, d, {"r"})
        Down(d, name) == IF May(d) THEN At(f, t, d, name).ino ELSE 0
        Top(d) == IF May(d) THEN d ELSE 0
    IN  Top(FoldLeft(Down, IF path.abs THEN t.root ELSE t.pwd, path.dirs))

\* The last entry of a path.  With no last name it is the directory itself.
dir_namei(f, t, path) ==
    LET In(d) == IF d = 0 \/ path.base = "" THEN [dir |-> d, base |-> "", at |-> 0, ino |-> d]
                 ELSE At(f, t, d, path.base)
    IN  In(get_dir(f, t, path))

\* In what follows l is a path after dir_namei.  namei is l.ino.

\* A new inode that gets the name l; nr is 0 for an error.
Named(f, t, l, new) ==
    LET Add(i, b) == IF b.nr = 0 THEN Found(iput([b.fs EXCEPT !.inode[i].nlinks = 0], i), 0) ELSE Found(b.fs, i)
    IN  IF new.nr = 0 THEN new ELSE Add(new.nr, add_entry(new.fs, l.dir, l.base, new.nr))

With(new, mode, zone0) ==
    IF new.nr = 0 THEN new
    ELSE [new EXCEPT !.fs.inode[new.nr] = [@ EXCEPT !.mode = mode, !.perm = {"r"}, !.zone[0] = zone0]]

\* The inode is counted; nr is 0 for an error.
open_namei(f, t, l, flags) ==
    LET writes == flags \cap {"write", "trunc"} # {} IN
    IF l.dir = 0 THEN Found(f, 0)
    ELSE IF l.base = ""
    THEN IF writes \/ "creat" \in flags THEN Found(f, 0) ELSE Found(iget(f, l.ino), l.ino)
    ELSE IF l.ino = 0
    THEN IF "creat" \in flags /\ permission(f, t, l.dir, {"w"})
         THEN Named(f, t, l, With(new_inode(f, t.euid), "reg", 0)) ELSE Found(f, 0)
    ELSE IF \/ "excl" \in flags \/ (IsDir(f, l.ino) /\ writes)
            \/ ~ permission(f, t, l.ino, IF writes THEN {"w"} ELSE {"r"}) THEN Found(f, 0)
    ELSE Found(iget(IF "trunc" \in flags THEN truncate(f, l.ino) ELSE f, l.ino), l.ino)

\* mknod, mkdir and link may make an entry that is not there.
MayAdd(f, t, l) == l.dir # 0 /\ l.base # "" /\ l.ino = 0 /\ permission(f, t, l.dir, {"w"})

mknod(f, t, l, mode, dev) ==
    LET Put(r) == IF r.nr = 0 THEN r.fs ELSE iput(r.fs, r.nr)
    IN  IF suser(t) /\ MayAdd(f, t, l)
        THEN Put(Named(f, t, l, With(new_inode(f, t.euid), mode, dev))) ELSE f

\* When the entry cannot be added, the block is freed, and once more by iput.
mkdir(f, t, l) ==
    LET Added(i, z, r) ==
            IF r.nr = 0 THEN iput([free_block(r.fs, z) EXCEPT !.inode[i].nlinks = 0], i)
            ELSE iput([r.fs EXCEPT !.inode[l.dir].nlinks = @ + 1], i)
        Made(i, g) ==
            [g.fs EXCEPT !.inode[i] = [@ EXCEPT !.zone[0] = g.nr, !.size = 2, !.nlinks = 2,
                                                !.mode = "dir", !.perm = {"r"}],
                         !.data[g.nr] = [@ EXCEPT ![0] = Entry(i, "."), ![1] = Entry(l.dir, "..")]]
        Block(i, b) == IF b.nr = 0 THEN iput([b.fs EXCEPT !.inode[i].nlinks = @ - 1], i)
                       ELSE Added(i, b.nr, add_entry(Made(i, b), l.dir, l.base, i))
        New(n) == IF n.nr = 0 THEN f ELSE Block(n.nr, new_block(n.fs))
    IN  IF suser(t) /\ MayAdd(f, t, l) THEN New(new_inode(f, t.euid)) ELSE f

\* Only "." and "..", and no other entry in use.
empty_dir(e, i) ==
    /\ DOMAIN e # {0} /\ e[0] = Entry(i, ".")
    /\ e[1].n # 0 /\ e[1].name = ".."
    /\ \A k \in DOMAIN e : k > 1 => e[k].n = 0

\* unlink and rmdir may take the name of l away.  In a directory with the
\* sticky bit only its owner and the owner of the file may.
MayRemove(f, t, l) ==
    /\ l.dir # 0 /\ l.base # "" /\ l.ino # 0 /\ permission(f, t, l.dir, {"w"})
    /\ "sticky" \in f.inode[l.dir].perm =>
          suser(t) \/ t.euid = f.inode[l.ino].uid \/ t.euid = f.inode[l.dir].uid

\* The name is gone, and with it the inode if nobody uses it.
Removed(f, l) == iput(iget(SetEntry(f, l.dir, l.at, Cell(0)), l.ino), l.ino)

\* Nobody may be in the directory or have it open.
rmdir(f, t, l) ==
    IF /\ suser(t) /\ MayRemove(f, t, l)
       /\ f.count[l.ino] = 0 /\ l.ino # l.dir /\ IsDir(f, l.ino) /\ empty_dir(Dir(f, l.ino), l.ino)
    THEN Removed([f EXCEPT !.inode[l.ino].nlinks = 0, !.inode[l.dir].nlinks = @ - 1], l)
    ELSE f

unlink(f, t, l) ==
    IF MayRemove(f, t, l) /\ ~ IsDir(f, l.ino)
    THEN Removed([f EXCEPT !.inode[l.ino].nlinks = @ - 1], l) ELSE f

\* Slip: the new name is not counted.
link_uncounted(f, t, old, l) ==
    IF old.ino # 0 /\ ~ IsDir(f, old.ino) /\ MayAdd(f, t, l)
    THEN add_entry(f, l.dir, l.base, old.ino).fs ELSE f

link(f, t, old, l) ==
    LET Put(b) == IF b.nr = 0 THEN b.fs ELSE [b.fs EXCEPT !.inode[old.ino].nlinks = @ + 1]
    IN  IF old.ino # 0 /\ ~ IsDir(f, old.ino) /\ MayAdd(f, t, l)
        THEN Put(add_entry(f, l.dir, l.base, old.ino)) ELSE f

-----------------------------------------------------------------------------
(* Calls on names.                                                         *)

Exists(p) == task[p] # NULL

\* p makes the call c.  After a panic nothing runs.
Calls(p, c) == Exists(p) /\ c \in prog.calls /\ fs.panic = "" /\ UNCHANGED prog

\* A call that changes only the file system.
Call(p, c, f) == Calls(p, c) /\ fs' = f /\ UNCHANGED <<file, task>>

\* A path that a program gives, resolved.
Resolved(p) == IF Exists(p) THEN {dir_namei(fs, task[p], path) : path \in prog.paths} ELSE {}
\* ... that names a file.
Existing(p) == {l \in Resolved(p) : l.ino # 0}

sys_mknod(p) == \E l \in Resolved(p), dev \in Devs : Call(p, "mknod", mknod(fs, task[p], l, "chr", dev))
sys_mkdir(p) == \E l \in Resolved(p) : Call(p, "mkdir", mkdir(fs, task[p], l))
sys_rmdir(p) == \E l \in Resolved(p) : Call(p, "rmdir", rmdir(fs, task[p], l))
sys_unlink(p) == \E l \in Resolved(p) : Call(p, "unlink", unlink(fs, task[p], l))
sys_link(p) == \E old, l \in Resolved(p) : Call(p, "link", link(fs, task[p], old, l))

sys_chmod(p) ==
    \E l \in Existing(p), mode \in {{}, {"r", "w", "sticky"}} :
        /\ task[p].euid = fs.inode[l.ino].uid \/ suser(task[p])
        /\ Call(p, "chmod", [fs EXCEPT !.inode[l.ino].perm = mode])

sys_chown(p) ==
    \E l \in Existing(p) :
        /\ suser(task[p])
        /\ Call(p, "chown", [fs EXCEPT !.inode[l.ino].uid = 1])

\* The old directory is put after the new one is found.
sys_chdir(p) ==
    \E l \in Existing(p) :
        /\ Calls(p, "chdir") /\ IsDir(fs, l.ino)
        /\ fs' = iput(iget(fs, l.ino), task[p].pwd)
        /\ task' = [task EXCEPT ![p].pwd = l.ino]
        /\ UNCHANGED file

sys_chroot(p) ==
    \E l \in Existing(p) :
        /\ Calls(p, "chroot") /\ IsDir(fs, l.ino)
        /\ fs' = iput(iget(fs, l.ino), task[p].root)
        /\ task' = [task EXCEPT ![p].root = l.ino]
        /\ UNCHANGED file

-----------------------------------------------------------------------------
(* Open files.  An entry of the file table with f_count 0 is NULL; f_inode *)
(* is 0 for a pipe, whose inode is not on the device.                      *)

FreeFds(p) == {d \in Fds : task[p].filp[d] = 0}
FreeFiles == {f \in 1 .. NR_FILE : file[f] = NULL}
Opened(i, append) == [f_count |-> 1, f_inode |-> i, f_pos |-> 0, append |-> append]

\* A terminal (4) becomes the controlling one of a leader; /dev/tty (5) is
\* refused to a process that has none.
TtyOf(f, t, i) == IF f.inode[i].mode = "chr" /\ f.inode[i].zone[0] = 4 /\ t.leader /\ t.tty < 0 THEN 0 ELSE t.tty
NoTty(f, t, i) == f.inode[i].mode = "chr" /\ f.inode[i].zone[0] = 5 /\ t.tty < 0

sys_open(p) ==
    \E l \in Resolved(p), flags \in prog.flags : \E r \in {open_namei(fs, task[p], l, flags)} :
        LET t == task[p]
            fd == Min(FreeFds(p))
            f == Min(FreeFiles)
        IN
        /\ Calls(p, "open") /\ FreeFds(p) # {}
        /\ IF FreeFiles = {} \/ r.nr = 0
           THEN /\ task' = [task EXCEPT ![p].close_on_exec = @ \ {fd}]
                /\ fs' = IF FreeFiles = {} THEN fs ELSE r.fs
                /\ UNCHANGED file
           ELSE IF NoTty(r.fs, t, r.nr)
           THEN /\ task' = [task EXCEPT ![p].close_on_exec = @ \ {fd}]
                /\ fs' = iput(r.fs, r.nr)
                /\ UNCHANGED file
           ELSE /\ task' = [task EXCEPT ![p].filp[fd] = f, ![p].tty = TtyOf(r.fs, t, r.nr),
                                        ![p].close_on_exec = @ \ {fd}]
                /\ fs' = r.fs
                /\ file' = [file EXCEPT ![f] = Opened(r.nr, "append" \in flags)]

\* Two files and two descriptors, or none; there may be no page for the pipe.
sys_pipe(p) ==
    LET f == Min(FreeFiles)  g == Min(FreeFiles \ {f})
        d == Min(FreeFds(p)) e == Min(FreeFds(p) \ {d})
    IN
    /\ Calls(p, "pipe")
    /\ Cardinality(FreeFiles) >= 2 /\ Cardinality(FreeFds(p)) >= 2
    /\ file' = [file EXCEPT ![f] = Opened(0, FALSE), ![g] = Opened(0, FALSE)]
    /\ task' = [task EXCEPT ![p].filp[d] = f, ![p].filp[e] = g]
    /\ UNCHANGED fs

\* sys_close on the state s.  The last descriptor puts the inode.
Closed(s, p, d) ==
    LET f == s.task[p].filp[d]
        t == [s.task EXCEPT ![p].filp[d] = 0, ![p].close_on_exec = @ \ {d}]
    IN  IF f = 0 THEN [s EXCEPT !.task = t]
        ELSE IF s.file[f].f_count > 1 THEN [s EXCEPT !.task = t, !.file[f].f_count = @ - 1]
        ELSE [s EXCEPT !.task = t, !.file[f] = NULL,
                       !.fs = IF s.file[f].f_inode = 0 THEN @ ELSE iput(@, s.file[f].f_inode)]

State == [fs |-> fs, file |-> file, task |-> task]
Becomes(s) == \E u \in {s} : fs' = u.fs /\ file' = u.file /\ task' = u.task
CloseAll(s, p, fds) == FoldLeft(LAMBDA u, d : Closed(u, p, d), s, SetToSeq(fds))

sys_close(p) == \E d \in Fds : Calls(p, "close") /\ Becomes(Closed(State, p, d))

\* dupfd: the first free descriptor from arg on gets the file of d.
dupfd(s, p, d, arg) ==
    LET free == {e \in Fds : e >= arg /\ s.task[p].filp[e] = 0}
        f == s.task[p].filp[d]
    IN  IF f = 0 \/ free = {} THEN s
        ELSE [s EXCEPT !.task[p].filp[Min(free)] = f, !.task[p].close_on_exec = @ \ {Min(free)},
                       !.file[f].f_count = @ + 1]

sys_dup(p) == \E d \in Fds : Calls(p, "dup") /\ Becomes(dupfd(State, p, d, 0))
sys_dup2(p) ==
    \E d, e \in Fds : Calls(p, "dup2") /\ Becomes(dupfd(Closed(State, p, e), p, d, e))

\* F_SETFD and F_SETFL; F_DUPFD is dupfd, the others change nothing.
sys_fcntl(p) ==
    \E d \in {e \in Fds : IF Exists(p) THEN task[p].filp[e] # 0 ELSE FALSE} :
        /\ Calls(p, "fcntl") /\ UNCHANGED fs
        /\ \/ \E on \in BOOLEAN :
                task' = [task EXCEPT ![p].close_on_exec = IF on THEN @ \cup {d} ELSE @ \ {d}]
              /\ UNCHANGED file
           \/ \E append \in BOOLEAN : file' = [file EXCEPT ![task[p].filp[d]].append = append]
              /\ UNCHANGED task

\* The open files of p that are on the device.
OnDevice(p) ==
    IF ~ Exists(p) THEN {}
    ELSE {f \in {task[p].filp[d] : d \in Fds} \ {0} : file[f].f_inode # 0}

Size(f) == fs.inode[file[f].f_inode].size

sys_lseek(p) ==
    \E f \in OnDevice(p) : \E base \in {0, file[f].f_pos, Size(f)}, offset \in Offsets :
        /\ Calls(p, "lseek")
        /\ base + offset \in 0 .. MAX_POS
        /\ file' = [file EXCEPT ![f].f_pos = base + offset]
        /\ UNCHANGED <<fs, task>>

\* sys_read of a file or directory: only the position changes.
sys_read(p) ==
    \E f \in OnDevice(p), count \in Counts :
        /\ Calls(p, "read") /\ HasZones(fs, file[f].f_inode) /\ file[f].f_pos < Size(f)
        /\ file' = [file EXCEPT ![f].f_pos = Min({@ + count, Size(f)})]
        /\ UNCHANGED <<fs, task>>

\* One byte at pos, unless a byte before it found no zone.
WriteByte(w, i) ==
    LET Put(b) ==
          IF b.nr = 0 THEN [w EXCEPT !.fs = b.fs, !.full = TRUE]
          ELSE [w EXCEPT !.fs = [b.fs EXCEPT !.data[b.nr][w.pos % CELLS] = Cell(1),
                                             !.inode[i].size = IF w.pos >= @ THEN w.pos + 1 ELSE @],
                         !.pos = @ + 1]
    IN  IF w.full THEN w ELSE Put(_bmap(w.fs, i, w.pos \div CELLS, TRUE))

\* count bytes of 1, at the end if the file is opened for appending.
file_write(f, count) ==
    LET i == file[f].f_inode
        pos == IF file[f].append THEN Size(f) ELSE file[f].f_pos
    IN  /\ pos + count <= MAX_POS
        /\ \E w \in {FoldLeft(LAMBDA u, n : WriteByte(u, i), [fs |-> fs, pos |-> pos, full |-> FALSE],
                              [n \in 1 .. count |-> n])} :
              /\ fs' = w.fs
              /\ file' = [file EXCEPT ![f].f_pos = IF file[f].append THEN @ ELSE w.pos]

sys_write(p) ==
    \E f \in OnDevice(p), count \in Counts :
        /\ Calls(p, "write") /\ fs.inode[file[f].f_inode].mode = "reg"
        /\ file_write(f, count)
        /\ UNCHANGED task

-----------------------------------------------------------------------------
(* What fork, exec and exit do with files.                                 *)

FilesOf(t) == {f \in {t.filp[d] : d \in Fds} \ {0} : TRUE}

Fork(p) ==
    \E q \in Procs :
        LET t == task[p] IN
        /\ Calls(p, "fork") /\ ~ Exists(q)
        /\ task' = [task EXCEPT ![q] = [t EXCEPT !.leader = FALSE]]
        /\ file' = [f \in 1 .. NR_FILE |->
                      IF f \in FilesOf(t)
                      THEN [file[f] EXCEPT !.f_count = @ + Cardinality({d \in Fds : t.filp[d] = f})]
                      ELSE file[f]]
        /\ fs' = iget(iget(fs, t.pwd), t.root)

\* do_execve closes what is marked; a program of user 1 may be set-user-id.
Exec(p) ==
    /\ Calls(p, "exec")
    /\ \E uid \in {task[p].euid, 1} :
          LET s == CloseAll(State, p, task[p].close_on_exec)
          IN  Becomes([s EXCEPT !.task[p].euid = uid])

Exit(p) ==
    LET s == CloseAll(State, p, Fds) IN
    /\ Calls(p, "exit") /\ p # First
    /\ fs' = iput(iput(s.fs, task[p].pwd), task[p].root)
    /\ file' = s.file
    /\ task' = [task EXCEPT ![p] = NULL]

Next ==
    \E p \in Procs :
        \/ sys_mknod(p) \/ sys_mkdir(p) \/ sys_rmdir(p) \/ sys_unlink(p) \/ sys_link(p)
        \/ sys_chmod(p) \/ sys_chown(p) \/ sys_chdir(p) \/ sys_chroot(p)
        \/ sys_open(p) \/ sys_pipe(p) \/ sys_close(p) \/ sys_dup(p) \/ sys_dup2(p) \/ sys_fcntl(p)
        \/ sys_lseek(p) \/ sys_read(p) \/ sys_write(p)
        \/ Fork(p) \/ Exec(p) \/ Exit(p)

Spec == Init /\ [][Next]_vars

-----------------------------------------------------------------------------
(* Properties.                                                             *)

\* The bitmaps say exactly what is in use, through full devices, holes,
\* indirect blocks and files that are deleted while they are open: no zone is
\* lost, none belongs to two files or twice to one.  The one panic is mkdir's.
MapsAgree ==
    LET used == FlattenSeq([i \in Inums |-> IF HasZones(fs, i) THEN ZonesOf(fs, i) ELSE <<>>])
    IN  /\ fs.panic \in {"", "free_block: bit already cleared"}
        /\ fs.panic = "" =>
              /\ ToSet(used) = fs.zmap /\ IsInjective(used)
              /\ fs.imap = {i \in Inums : fs.inode[i].nlinks > 0 \/ fs.count[i] > 0}

Entries(d) == {k \in 0 .. fs.inode[d].size - 1 : EntryAt(fs, d, k).n # 0}
Dirs == {i \in fs.imap : IsDir(fs, i)}

\* i_nlinks counts the names of an inode, a name is unique in its directory,
\* and "." and ".." of a directory are itself and the directory that names it.
NamesAgree ==
    fs.panic = "" =>
      LET naming == {<<d, k>> \in Dirs \X (0 .. NZ * CELLS) : k \in Entries(d)} IN
      /\ \A i \in fs.imap :
            fs.inode[i].nlinks = Cardinality({e \in naming : EntryAt(fs, e[1], e[2]).n = i})
      /\ \A d \in Dirs : fs.inode[d].nlinks > 0 =>
            /\ \A j, k \in Entries(d) : EntryAt(fs, d, j).name = EntryAt(fs, d, k).name => j = k
            /\ EntryAt(fs, d, 0) = Entry(d, ".")
            /\ \E e \in naming : /\ EntryAt(fs, e[1], e[2]).n = d /\ (e[2] > 1 \/ d = ROOT_INO)
                                 /\ EntryAt(fs, d, 1) = Entry(e[1], "..")

\* f_count counts descriptors and i_count the files, working and root
\* directories that refer to an inode (the super block keeps two at its root).
CountsAgree ==
    fs.panic = "" =>
      LET tasks == {p \in Procs : Exists(p)} IN
      /\ \A f \in 1 .. NR_FILE :
            (IF file[f] = NULL THEN 0 ELSE file[f].f_count)
                = Cardinality({<<p, d>> \in tasks \X Fds : task[p].filp[d] = f})
      /\ \A i \in Inums :
            fs.count[i] = Cardinality({f \in 1 .. NR_FILE : IF file[f] = NULL THEN FALSE ELSE file[f].f_inode = i})
                          + Cardinality({p \in tasks : task[p].pwd = i})
                          + Cardinality({p \in tasks : task[p].root = i})
                          + (IF i = ROOT_INO THEN 2 ELSE 0)

\* What a check of the whole file system finds right, after every call.
ConsistentFS == MapsAgree /\ NamesAgree /\ CountsAgree

\* What is in the zones of a file is what was written to it and to no other.
Bytes(i) ==
    [k \in 1 .. fs.inode[i].size |->
        LET z == bmap(fs, i, (k - 1) \div CELLS) IN IF z = 0 THEN 0 ELSE fs.data[z][(k - 1) % CELLS].n]
Contents == [i \in Inums |-> IF fs.inode[i].mode = "reg" THEN Bytes(i) ELSE NULL]
Store == INSTANCE FileStore WITH Files <- Inums, content <- Contents
ImplementsFileStore == Store!Spec

\* No system call stops the system.
NoPanic == fs.panic = ""

=============================================================================
