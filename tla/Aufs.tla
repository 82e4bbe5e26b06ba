-------------------------------- MODULE Aufs --------------------------------
(***************************************************************************)
(* The aufs kernel module: a file system with one directory whose files    *)
(* are extents, each from i_sblock to i_eblock.  The disk holds an inode   *)
(* table and the entries of the directory; si_imap, the counts of what is  *)
(* free and si_lf_eblk, the end of the last file, are computed at mount    *)
(* and kept up to date from then on.                                       *)
(*                                                                         *)
(* The VFS calls the handlers: it keeps the directory locked while they    *)
(* run, so that each is one step, holds inodes for names (dentry) and for  *)
(* open files, writes dirty inodes back when it likes and evicts those     *)
(* nobody holds.  Blocks hold <<inode, index>>, what was written to them.  *)
(***************************************************************************)
EXTENDS Integers, FiniteSets, FiniteSetsExt, Sequences, SequencesExt

CONSTANTS si_lasti,   \* the last inode number
          si_blocks,  \* the blocks of the device
          DirEnd,     \* i_eblock of the directory, which begins at block 2
          PerBlock,   \* aufs_DIRS_PER_BLOCK
          Names,
          Files,      \* the names of the files that may be there already
          Objs,       \* the inodes that fit in memory
          Contents,   \* whether the contents of blocks are followed
          MaxWrite,   \* bound on the blocks of a file
          MaxFaults,  \* bound on the blocks of the directory that cannot be read
          MaxCalls    \* bound on the calls that change names or files

VARIABLE au

aufs_ROOT_INO == 2
Inos == aufs_ROOT_INO + 1 .. si_lasti
DirStart == 2
Slots == 1 .. (DirEnd - DirStart + 1) * PerBlock
NoEntry == [ino |-> 0, name |-> "none"]
NoInode == [ino |-> 0, sblock |-> 0, eblock |-> 0, size |-> 0, nlink |-> 0]
NoObj == [ino |-> 0]
Unknown == 0      \* a name that is not in the cache
Negative == -1    \* one that is, without a file

aufs_FILEBLOCKS(di) == IF di.sblock = 0 THEN 0 ELSE di.eblock + 1 - di.sblock

-----------------------------------------------------------------------------
(* aufs_fill_super *)

(* The end of the file is stored as i_eoffset, counted from i_sblock. *)
Corrupted(di) == \/ di.sblock > si_blocks \/ di.eblock > si_blocks \/ di.sblock > di.eblock
                 \/ di.sblock # 0 /\ di.size = 0
                 \/ di.sblock + di.size > si_blocks
Used(dsk) == {i \in Inos : dsk[i].ino # 0}

Super(f) ==
    LET used == Used(f.dsk) IN
    [f EXCEPT !.imap = used,
              !.freei = Cardinality(Inos \ used),
              !.freeb = si_blocks - (DirEnd + 1)
                        - MapThenSumSet(LAMBDA i : aufs_FILEBLOCKS(f.dsk[i]), used),
              !.lf_eblk = Max({DirEnd} \union {f.dsk[i].eblock : i \in used}),
              !.mounted = "yes"]

aufs_fill_super(f) ==
    IF \E i \in Inos : Corrupted(f.dsk[i]) THEN [f EXCEPT !.mounted = "refused"] ELSE Super(f)

Empty ==
    [dsk |-> [i \in Inos |-> NoInode], slot |-> [k \in Slots |-> NoEntry], dsize |-> 0,
     blk |-> [b \in 0 .. si_blocks - 1 |-> <<0, 0>>],
     imap |-> {}, freei |-> 0, freeb |-> 0, lf_eblk |-> 0,
     obj |-> [o \in Objs |-> NoObj],
     dentry |-> [n \in Names |-> Unknown], open |-> {},
     pos |-> 0, seen |-> {}, there |-> {},
     replaced |-> FALSE, moved |-> FALSE, bare |-> FALSE,
     faults |-> 0, calls |-> 0, mounted |-> "no"]

(* What a device may hold: nothing, or the files Files with one block each, *)
(* which count as one call.                                                *)
File(j) == [ino |-> aufs_ROOT_INO + j, sblock |-> DirEnd + j, eblock |-> DirEnd + j,
            size |-> 1, nlink |-> 1]
Device(n) ==
    [Empty EXCEPT !.dsk = [i \in Inos |-> IF i - aufs_ROOT_INO <= n THEN File(i - aufs_ROOT_INO)
                                           ELSE NoInode],
                  !.slot = [k \in Slots |-> IF k <= n THEN [ino |-> aufs_ROOT_INO + k, name |-> Files[k]]
                                             ELSE NoEntry],
                  !.dsize = n,
                  !.calls = Min({n, 1}),
                  !.blk = [b \in DOMAIN @ |-> IF Contents /\ b - DirEnd \in 1 .. n
                                               THEN <<aufs_ROOT_INO + b - DirEnd, 0>> ELSE @[b]]]

Init == \E n \in {0, Len(Files)} : au = Device(n)

-----------------------------------------------------------------------------
(* The directory.  Slots beyond i_size are free and not searched, and a    *)
(* block that cannot be read is passed over.                               *)

BlockOf(k) == DirStart + (k - 1) \div PerBlock

aufs_find_entry(f, name, bad) ==
    {k \in 1 .. f.dsize : f.slot[k].ino # 0 /\ f.slot[k].name = name /\ BlockOf(k) \notin bad
                          /\ \A j \in 1 .. k - 1 : f.slot[j].ino = 0 \/ f.slot[j].name # name
                                                   \/ BlockOf(j) \in bad}

FirstFree(f) == {k \in Slots : f.slot[k].ino = 0 /\ \A j \in 1 .. k - 1 : f.slot[j].ino # 0}

(* The slot that aufs_add_entry takes: none when the directory is full, or *)
(* when a block before it cannot be read.                                  *)
FreeSlot(f, bad) == {k \in FirstFree(f) : \A b \in bad : b > BlockOf(k)}

PutEntry(f, name, ino, k) ==
    [f EXCEPT !.slot[k] = [ino |-> ino, name |-> name],
              !.dsize = IF k > @ THEN @ + 1 ELSE @]
ClearEntry(f, k) == [f EXCEPT !.slot[k].ino = 0, !.there = @ \ {k}]

Bad(f) == IF f.faults < MaxFaults THEN {{}} \union {{b} : b \in DirStart .. DirEnd} ELSE {{}}
Faulty(f, bad) == [f EXCEPT !.faults = @ + Cardinality(bad)]
Call(f) == [f EXCEPT !.calls = @ + 1]
MayCall == au.mounted = "yes" /\ au.calls < MaxCalls

-----------------------------------------------------------------------------
(* Inodes *)

Cached(f) == {o \in Objs : f.obj[o] # NoObj}
Held(f, o) == o \in f.open \/ \E n \in Names : f.dentry[n] = o
Freeing(f, o) == ~Held(f, o) /\ f.obj[o].nlink = 0
FreeObj(f) == {o \in Objs : f.obj[o] = NoObj /\ \A p \in Objs : p < o => f.obj[p] # NoObj}
OfIno(f, i) == {o \in Cached(f) : f.obj[o].ino = i}
Positive(f, n) == f.dentry[n] \in Objs

InCore(i, di) ==
    [ino |-> i, dsk_ino |-> di.ino, sblock |-> di.sblock, eblock |-> di.eblock,
     size |-> IF di.sblock = 0 THEN 0 ELSE di.size, nlink |-> di.nlink,
     blocks |-> aufs_FILEBLOCKS(di), dirty |-> FALSE]

(* The inode in memory, or else the one on disk; not while it is freed. *)
aufs_iget(f, i) ==
    IF OfIno(f, i) # {} THEN {<<f, o>> : o \in {p \in OfIno(f, i) : ~Freeing(f, p)}}
    ELSE {<<[f EXCEPT !.obj[o] = InCore(i, f.dsk[i])], o>> : o \in FreeObj(f)}

aufs_lookup ==
    /\ au.mounted = "yes"
    /\ \E n \in Names, bad \in Bad(au) :
          LET found == aufs_find_entry(au, n, bad) IN
          /\ au.dentry[n] = Unknown
          /\ IF found = {} THEN au' = [Faulty(au, bad) EXCEPT !.dentry[n] = Negative]
             ELSE \E k \in found, r \in aufs_iget(Faulty(au, bad), au.slot[CHOOSE x \in found : TRUE].ino) :
                     au' = [r[1] EXCEPT !.dentry[n] = r[2]]

(* inode_dec_link_count *)
Drop(f, o) == [f EXCEPT !.obj[o].nlink = @ - 1, !.obj[o].dirty = TRUE]

NewInode(i) == [ino |-> i, dsk_ino |-> i, sblock |-> 0, eblock |-> 0, size |-> 0,
                nlink |-> 1, blocks |-> 0, dirty |-> TRUE]

(* The entry could not be added: the inode has no links and is evicted. *)
CreateFails(f, o) == Drop(f, o)

aufs_create ==
    /\ MayCall
    /\ \E n \in Names, o \in FreeObj(au), bad \in Bad(au) :
          /\ au.dentry[n] = Negative
          /\ au.imap # Inos
          /\ LET i == Min(Inos \ au.imap)
                 f == [Faulty(Call(au), bad) EXCEPT !.imap = @ \union {i}, !.freei = @ - 1,
                                                    !.obj[o] = NewInode(i)]
                 k == FreeSlot(au, bad)
             IN  IF k = {} THEN au' = CreateFails(f, o)
                 ELSE au' = [PutEntry(f, n, i, CHOOSE x \in k : TRUE) EXCEPT !.dentry[n] = o]

aufs_link ==
    /\ MayCall
    /\ \E old, new \in Names :
          /\ Positive(au, old) /\ au.dentry[new] = Negative /\ au.obj[au.dentry[old]].nlink > 0
          /\ LET o == au.dentry[old] IN
             \E bad \in Bad(au) : \E k \in FreeSlot(au, bad) :
                au' = [PutEntry(Faulty(Call(au), bad), new, au.obj[o].ino, k) EXCEPT
                          !.obj[o].nlink = @ + 1, !.obj[o].dirty = TRUE, !.dentry[new] = o]

Unlinked(f, n, o, k) ==
    [Drop(IF f.obj[o].nlink = 0 THEN [f EXCEPT !.obj[o].nlink = 1] ELSE f, o) EXCEPT
        !.slot[k].ino = 0, !.there = @ \ {k}, !.dentry[n] = Negative]

aufs_unlink ==
    /\ MayCall
    /\ \E n \in Names : \E k \in aufs_find_entry(au, n, {}) :
          /\ Positive(au, n)
          /\ au.slot[k].ino = au.obj[au.dentry[n]].ino
          /\ au' = Unlinked(Call(au), n, au.dentry[n], k)

(* With an inode under the new name its entry stays as it is: only its     *)
(* link is dropped and the old entry cleared.                              *)
aufs_rename ==
    /\ MayCall
    /\ \E old, new \in Names : \E k \in aufs_find_entry(au, old, {}) :
          LET o == au.dentry[old]
              f == Call(au)
              renamed == [dentry |-> [au.dentry EXCEPT ![old] = Negative, ![new] = o]]
          IN
          /\ old # new /\ Positive(au, old) /\ au.dentry[new] # Unknown
          /\ au.slot[k].ino = au.obj[o].ino
          /\ au.dentry[new] # o     \* the VFS has nothing to do for the same inode
          /\ \/ /\ Positive(au, new) /\ aufs_find_entry(au, new, {}) # {}
                /\ au' = [Drop(ClearEntry(f, k), au.dentry[new]) EXCEPT
                             !.dentry = renamed.dentry, !.replaced = TRUE]
             \/ /\ ~(Positive(au, new) /\ aufs_find_entry(au, new, {}) # {})
                /\ \E j \in FreeSlot(au, {}) :
                      LET g == ClearEntry(PutEntry(f, new, au.obj[o].ino, j), k) IN
                      au' = [(IF Positive(au, new) THEN Drop(g, au.dentry[new]) ELSE g) EXCEPT
                                !.dentry = renamed.dentry]

-----------------------------------------------------------------------------
(* The blocks of a file *)

(* aufs_move_blocks: block i goes to where + i. *)
aufs_move_blocks(f, from, to, where) ==
    [f EXCEPT !.blk = [b \in DOMAIN f.blk |-> IF b - where \in from .. to
                                              THEN f.blk[b - where] ELSE f.blk[b]]]

Extend(f, o, phys) ==
    [f EXCEPT !.freeb = @ - (phys - f.obj[o].eblock), !.lf_eblk = phys,
              !.obj[o].eblock = phys, !.obj[o].dirty = TRUE]
Move(f, o, b) ==
    LET bi == f.obj[o]
        start == f.lf_eblk + 1
        g == IF bi.sblock = 0 THEN f ELSE aufs_move_blocks(f, bi.sblock, bi.eblock, start)
    IN  [g EXCEPT !.obj[o].sblock = start, !.obj[o].eblock = start + b, !.obj[o].dirty = TRUE,
                  !.lf_eblk = start + b,
                  !.freeb = @ - (b + 1 - bi.blocks),
                  !.moved = @ \/ bi.sblock # 0]

GetBlock_where_it_is(f, o, b) ==
    LET phys == f.obj[o].sblock + b IN
    IF f.obj[o].sblock # 0 /\ phys <= f.obj[o].eblock THEN {f}
    ELSE IF phys >= si_blocks THEN {}
    ELSE IF f.obj[o].sblock # 0 THEN {Extend(f, o, phys)}
    ELSE IF f.lf_eblk + 1 + b >= si_blocks THEN {} ELSE {Move(f, o, b)}

(* aufs_get_block with create: the file reaches block b, {} when there is  *)
(* no room.  It is extended where it is when nothing follows it, and else  *)
(* moved behind the last file.                                             *)
GetBlock(f, o, b) ==
    LET phys == f.obj[o].sblock + b IN
    IF f.obj[o].sblock # 0 /\ phys <= f.obj[o].eblock THEN {f}
    ELSE IF phys >= si_blocks THEN {}
    ELSE IF f.obj[o].eblock = f.lf_eblk THEN {Extend(f, o, phys)}
    ELSE IF f.lf_eblk + 1 + b >= si_blocks THEN {} ELSE {Move(f, o, b)}

(* A write of the blocks from .. to: aufs_write_begin maps one after the   *)
(* other, and when there is no room for one of them the write fails; what  *)
(* was mapped stays, and i_size is as it was.                              *)
MapBlock(u, o, b) ==
    LET got == GetBlock(u.f, o, b)
        g == CHOOSE x \in got : TRUE
    IN  IF got = {} THEN [u EXCEPT !.full = TRUE]
        ELSE [u EXCEPT !.f = g, !.at[b] = g.obj[o].sblock + b]
Mapped(f, o, from, to) ==
    FoldLeft(LAMBDA u, b : IF u.full THEN u ELSE MapBlock(u, o, b),
             [f |-> f, full |-> FALSE, at |-> [b \in from .. to |-> 0]],
             [i \in 1 .. to - from + 1 |-> from + i - 1])

(* The data goes where the blocks were mapped. *)
Written(w, o) ==
    LET f == w.f
        to == Max(DOMAIN w.at)
    IN  [f EXCEPT !.obj[o].size = Max({@, to + 1}), !.obj[o].dirty = TRUE,
                  !.blk = [p \in DOMAIN @ |-> LET b == {x \in DOMAIN w.at : w.at[x] = p} IN
                                              IF b = {} \/ ~Contents THEN @[p]
                                              ELSE <<f.obj[o].ino, Max(b)>>]]

(* A file that aufs_fill_super will refuse once it is written back. *)
Marked(f, o) == [f EXCEPT !.bare = @ \/ Corrupted(f.obj[o])]

aufs_write_begin ==
    /\ MayCall
    /\ \E o \in au.open, to \in 0 .. MaxWrite - 1 : \E from \in 0 .. to :
          LET w == Mapped(Call(au), o, from, to) IN
          /\ from <= au.obj[o].size
          /\ au' = Marked(IF w.full THEN w.f ELSE Written(w, o), o)

-----------------------------------------------------------------------------
(* What the VFS does with inodes. *)

aufs_write_inode ==
    \E o \in Cached(au) :
       LET bi == au.obj[o] IN
       /\ bi.dirty /\ ~Freeing(au, o)
       /\ au' = [au EXCEPT !.obj[o].dirty = FALSE,
                           !.dsk[bi.ino] = [ino |-> bi.ino, sblock |-> bi.sblock,
                                            eblock |-> bi.eblock, size |-> bi.size,
                                            nlink |-> bi.nlink]]

Released(f, bi) ==
    LET g == IF bi.dsk_ino = 0 THEN f
             ELSE [f EXCEPT !.freeb = IF bi.sblock = 0 THEN @ ELSE @ + (bi.eblock + 1 - bi.sblock),
                            !.freei = @ + 1,
                            !.imap = @ \ {bi.ino}]
    IN  [g EXCEPT !.dsk[bi.ino] = NoInode,
                  !.lf_eblk = IF @ = bi.eblock THEN bi.sblock - 1 ELSE @]

aufs_evict_inode ==
    \E o \in Cached(au) :
       LET f == [au EXCEPT !.obj[o] = NoObj] IN
       /\ ~Held(au, o) /\ (Freeing(au, o) \/ ~au.obj[o].dirty)
       /\ au' = IF au.obj[o].nlink # 0 THEN f ELSE Released(f, au.obj[o])

Open == /\ au.mounted = "yes"
        /\ \E n \in Names : /\ Positive(au, n) /\ au.dentry[n] \notin au.open
                            /\ au.obj[au.dentry[n]].dsk_ino # 0   \* no file type on disk
                            /\ au' = [au EXCEPT !.open = @ \union {au.dentry[n]}]

(* truncate, ftruncate and O_TRUNC: aufs has no handler of its own, so that *)
(* simple_setattr sets i_size and leaves the blocks to the file.  Bound: a *)
(* file is emptied, or becomes MaxWrite long.                              *)
Truncate ==
    /\ MayCall
    /\ \E o \in Cached(au), size \in {0, MaxWrite} :
          /\ Held(au, o) /\ au.obj[o].dsk_ino # 0 /\ size # au.obj[o].size
          /\ au' = Marked([Call(au) EXCEPT !.obj[o].size = size, !.obj[o].dirty = TRUE], o)

Close == \E o \in au.open : au' = [au EXCEPT !.open = @ \ {o}]
ForgetName == \E n \in Names : /\ au.dentry[n] # Unknown
                               /\ au' = [au EXCEPT !.dentry[n] = Unknown]

(* mount, and umount, when nothing is cached any more. *)
Mount == /\ au.mounted = "no"
         /\ au' = aufs_fill_super(au)
Umount == /\ au.mounted = "yes" /\ au.calls > 0 /\ Cached(au) = {} /\ au.pos = 0
          /\ \A n \in Names : au.dentry[n] = Unknown
          /\ au' = [au EXCEPT !.mounted = "no", !.imap = {}, !.freei = 0, !.freeb = 0, !.lf_eblk = 0]

(* One call of aufs_readdir with room for one name: it goes on until it     *)
(* finds a second one and passes over a block that cannot be read.  seen   *)
(* is what it listed, there what was in the directory from the first call  *)
(* on and could be read.                                                   *)
aufs_readdir ==
    /\ au.mounted = "yes" /\ au.pos < au.dsize
    /\ \E bad \in Bad(au) :
          LET ahead == {k \in au.pos + 1 .. au.dsize : au.slot[k].ino # 0 /\ BlockOf(k) \notin bad}
              first == IF ahead = {} THEN {} ELSE {Min(ahead)}
              end == IF BlockOf(au.dsize) \in bad THEN Max({k \in Slots : BlockOf(k) \in bad}) ELSE au.dsize
              pos == IF ahead = first THEN end ELSE Min(ahead \ first) - 1
              there == IF au.pos = 0 THEN {k \in Slots : au.slot[k].ino # 0} ELSE au.there
          IN  au' = [Faulty(au, bad) EXCEPT
                        !.pos = pos,
                        !.seen = first \union IF au.pos = 0 THEN {} ELSE @,
                        !.there = there \ {k \in au.pos + 1 .. pos : BlockOf(k) \in bad}]
RewindDir == au.pos > 0 /\ au.pos >= au.dsize /\ au' = [au EXCEPT !.pos = 0, !.seen = {}, !.there = {}]

Next == \/ aufs_lookup \/ aufs_create \/ aufs_link \/ aufs_unlink \/ aufs_rename
        \/ aufs_write_begin \/ aufs_write_inode \/ aufs_evict_inode
        \/ Truncate \/ Open \/ Close \/ ForgetName \/ Mount \/ Umount \/ aufs_readdir \/ RewindDir

Spec == Init /\ [][Next]_au

-----------------------------------------------------------------------------
(* An inode as it counts: in memory if it is there. *)
View(i) == IF OfIno(au, i) # {} THEN au.obj[CHOOSE o \in OfIno(au, i) : TRUE] ELSE au.dsk[i]
Extent(i) == IF View(i).sblock = 0 THEN {} ELSE View(i).sblock .. View(i).eblock

(* However files are created, extended, moved and evicted: no block        *)
(* belongs to two files or to a file and the directory, none lies behind   *)
(* si_lf_eblk, where the next file will go, and the counts are those a new *)
(* mount would compute; si_freeb only until the first file is moved, since *)
(* aufs_get_block takes i_blocks for the length of the file and never sets *)
(* it.                                                                     *)
FilesApart ==
    au.mounted = "yes" =>
        /\ \A i \in au.imap : Extent(i) \subseteq DirEnd + 1 .. au.lf_eblk
        /\ \A i, j \in au.imap : i # j => Extent(i) \intersect Extent(j) = {}
        /\ au.lf_eblk < si_blocks
        /\ au.freei = Cardinality(Inos \ au.imap)
        /\ ~au.moved /\ ~au.replaced =>
              au.freeb = si_blocks - (DirEnd + 1)
                         - Cardinality(UNION {Extent(i) : i \in au.imap})

(* Until a rename replaces a file: the links of every file are its names   *)
(* in the directory, a name in the cache leads to the inode of its entry,  *)
(* and a file without a name is there only until it is evicted; a listing  *)
(* that took several calls has every entry that was there all along and    *)
(* could be read; and the file system can be mounted again, unless blocks  *)
(* were left with a file of size 0, by a write that failed or a truncation *)
(* that kept them, or a file was made longer than the device.              *)
NamesLead ==
    /\ ~au.replaced =>
          /\ \A k \in Slots : au.slot[k].ino # 0 => au.mounted # "yes" \/ au.slot[k].ino \in au.imap
          /\ \A i \in Inos : View(i).nlink = Cardinality({k \in Slots : au.slot[k].ino = i})
          /\ \A n \in Names : Positive(au, n) =>
                \E k \in Slots : au.slot[k] = [ino |-> au.obj[au.dentry[n]].ino, name |-> n]
    /\ au.pos > 0 /\ au.pos >= au.dsize => au.there \subseteq au.seen
    /\ au.mounted = "refused" => au.bare

(* aufs_get_block moves the entire file: every block of a file without     *)
(* unwritten blocks holds what was written to it.                          *)
MovedFileIsWhole ==
    au.mounted = "yes" /\ ~au.replaced =>
        \A i \in au.imap : \A b \in 0 .. View(i).size - 1 :
            au.blk[View(i).sblock + b] = <<i, b>>

=============================================================================
