---------------------------- MODULE InodesProofs ----------------------------
(***************************************************************************)
(* Proofs about the table of inodes, for any number of processes, slots    *)
(* and inode numbers, until a name, a mount or a dirty inode is taken away  *)
(* while somebody is on the way to it (raced).                             *)
(***************************************************************************)
EXTENDS Inodes, DataLemmas

\* The constants.
ConstantsOK ==
    /\ NR_INODE \in Nat \ {0}
    /\ Nums \subseteq Nat /\ 2 \in Nums
    /\ NULL \notin Ids
    /\ IsFiniteSet(Procs)

LEMMA ConstantsHold == ConstantsOK
  BY SlotsExist, RootHasNumber, NullIsNoInode, ProcsAreFinite DEF ConstantsOK

-----------------------------------------------------------------------------
(* The inductive invariant.                                                *)

Contents == [nlinks : {0, 1}, data : {0, 1}]
InCore == [id : Ids \cup {NULL}, count : Nat, lock : BOOLEAN, dirt : BOOLEAN, mount : BOOLEAN,
           pipe : BOOLEAN, nlinks : {0, 1}, data : {0, 1}]
Places == {"idle", "iget", "scan", "read", "held", "trunc", "write", "sync", "syncwrite",
           "pipe", "super", "umount", "umountwrite"}
Doing == [pc : Places, slot : 0 .. NR_INODE, want : Ids \cup {NULL}, at : 0 .. NR_INODE]

TypeOK ==
    /\ inode \in [Slots -> InCore]
    /\ disk \in [Ids -> Contents]
    /\ named \subseteq imap /\ imap \subseteq Nums /\ 2 \in named
    /\ sb \in [dev : {0, 2}, lock : BOOLEAN, imount : 0 .. NR_INODE]
    /\ proc \in [Procs -> Doing]
    /\ panic = FALSE

\* A process has a slot, an inode it looks for and a place in sync_inodes just
\* when it needs them, and the slot is what it is at that place.
SlotPlaces == {"scan", "read", "held", "trunc", "write", "super", "umount", "umountwrite", "pipe"}

PlaceOK(p) ==
    LET d == proc[p]
        i == inode[d.slot]
    IN  /\ d.slot \in Slots <=> d.pc \in SlotPlaces
        /\ d.pc \in {"iget", "scan"} => d.want \in Ids
        /\ d.pc \in {"sync", "syncwrite"} => d.at \in Slots
        /\ d.pc = "scan" => i.id = NULL /\ i.count = 1
        /\ d.pc = "read" => i.count = 1 /\ ~ i.dirt /\ ~ i.mount
        /\ d.pc \in {"read", "held", "write", "trunc", "super", "umount", "umountwrite"} => i.id # NULL
        /\ d.pc = "trunc" => i.count = 1 /\ ~ i.lock /\ i.nlinks = 0
        /\ d.pc = "pipe" <=> d.slot \in Slots /\ i.pipe
        /\ d.pc = "syncwrite" => d.want = inode[d.at].id

\* The count of an inode is the number of its users, and a pipe has one owner.
CountTrue(s) == inode[s].count = Cardinality(Holders(s)) + One(sb.imount = s)
CountOK(s) ==
    /\ ~ inode[s].pipe => CountTrue(s)
    /\ inode[s].pipe => /\ inode[s].count > 0 /\ inode[s].id = NULL
                        /\ sb.imount # s
                        /\ \A p, q \in Procs : proc[p].slot = s /\ proc[q].slot = s => p = q
    /\ inode[s].id = NULL => ~ inode[s].lock /\ ~ inode[s].dirt /\ ~ inode[s].mount
    /\ inode[s].count = 0 => ~ inode[s].lock /\ ~ inode[s].dirt
    /\ inode[s].count = 0 /\ inode[s].id # NULL => inode[s].nlinks > 0

\* A locked inode is locked by one process.
Locks(p, s) ==
    \/ proc[p].slot = s /\ proc[p].pc \in {"read", "write", "umountwrite"}
    \/ proc[p].at = s /\ proc[p].pc = "syncwrite"
LockOK(s) ==
    /\ inode[s].lock <=> \E p \in Procs : Locks(p, s)
    /\ \A p, q \in Procs : Locks(p, s) /\ Locks(q, s) => p = q

\* What may be looked for has links, on the disk if it is not in the table, and
\* only such inodes have a number that is in use.
Reading(s) == \E p \in Procs : proc[p].pc = "read" /\ proc[p].slot = s
Reachable(id) == id = MOUNTED \/ id[2] \in named \/ LookedFor(id)
LinksOK(id) ==
    /\ Reachable(id) =>
          /\ \A s \in Having(id) : ~ Reading(s) => inode[s].nlinks = 1
          /\ (\A s \in Having(id) : Reading(s)) => disk[id].nlinks = 1
    /\ id # MOUNTED /\ id[2] \notin imap => Having(id) = {} /\ ~ LookedFor(id)
    /\ \A s \in Having(id) : Reading(s) => disk[id].nlinks = 1

\* The directory that is mounted on is the root directory and is counted for
\* the mount, one process mounts or unmounts at a time, and what is on the
\* device is used only while it is mounted.
IsMounted == sb.imount # 0 /\ inode[sb.imount].mount
MountRoot ==
    /\ sb.imount # 0 => inode[sb.imount].id = <<1, 2>> /\ sb.dev = 2 /\ ~ sb.lock
    /\ \A s \in Slots : inode[s].mount => sb.imount = s
MountPlace(p) ==
    /\ proc[p].pc = "super" => sb.dev = 2 /\ sb.lock /\ inode[proc[p].slot].id = <<1, 2>>
    /\ proc[p].pc \in {"umount", "umountwrite"} =>
          sb.imount = proc[p].slot /\ ~ inode[proc[p].slot].mount
MountAlone ==
    \A p, q \in Procs :
       /\ proc[p].pc = "super" /\ proc[q].pc = "super" => p = q
       /\ proc[p].pc \in {"umount", "umountwrite"} /\ proc[q].pc \in {"umount", "umountwrite"} => p = q
MountUsed ==
    (\E s \in Having(MOUNTED) : inode[s].count > 0) \/ LookedFor(MOUNTED) => IsMounted

\* There is one inode for a number, and what is not marked is on the disk.
OneOK == \A s, t \in Slots : inode[s].id # NULL /\ inode[s].id = inode[t].id => s = t
DiskOK(s) ==
    inode[s].id # NULL /\ ~ inode[s].dirt /\ ~ inode[s].lock =>
        disk[inode[s].id].nlinks = inode[s].nlinks /\ disk[inode[s].id].data = inode[s].data

InodesInv ==
    /\ TypeOK
    /\ \A p \in Procs : PlaceOK(p)
    /\ \A s \in Slots : CountOK(s)
    /\ \A s \in Slots : LockOK(s)
    /\ \A id \in Ids : LinksOK(id)
    /\ MountRoot /\ (\A p \in Procs : MountPlace(p)) /\ MountAlone /\ MountUsed
    /\ OneOK
    /\ \A s \in Slots : DiskOK(s)

-----------------------------------------------------------------------------
(* What a step leaves behind, field by field.                              *)

IsDoing(d, pc, slot, want, at) ==
    d \in Doing /\ d.pc = pc /\ d.slot = slot /\ d.want = want /\ d.at = at
IsNode(i, id, count, lock, dirt, mount, pipe, nlinks, data) ==
    /\ i \in InCore /\ i.id = id /\ i.count = count /\ i.lock = lock /\ i.dirt = dirt
    /\ i.mount = mount /\ i.pipe = pipe /\ i.nlinks = nlinks /\ i.data = data

\* Only p goes on, only s changes.
OnlyProc(p) == \A q \in Procs \ {p} : proc'[q] = proc[q]
OnlySlot(s) == \A t \in Slots \ {s} : inode'[t] = inode[t]

\* The fields of processes, inodes and blocks have their types.
LEMMA Typed ==
    ASSUME TypeOK
    PROVE  /\ \A p \in Procs : /\ proc[p] \in Doing /\ proc[p].slot \in 0 .. NR_INODE
                               /\ proc[p].pc \in Places /\ proc[p].want \in Ids \cup {NULL} /\ proc[p].at \in 0 .. NR_INODE
           /\ \A s \in Slots : /\ inode[s] \in InCore /\ inode[s].id \in Ids \cup {NULL}
                               /\ inode[s].count \in Nat /\ inode[s].lock \in BOOLEAN
                               /\ inode[s].dirt \in BOOLEAN /\ inode[s].mount \in BOOLEAN
                               /\ inode[s].pipe \in BOOLEAN /\ inode[s].nlinks \in {0, 1}
                               /\ inode[s].data \in {0, 1}
           /\ \A id \in Ids : disk[id] \in Contents /\ disk[id].nlinks \in {0, 1}
                              /\ disk[id].data \in {0, 1}
           /\ sb.imount \in 0 .. NR_INODE /\ sb.lock \in BOOLEAN
BY DEF TypeOK, Doing, InCore, Contents

\* p goes on as it says.
Does(p, pc, slot, want, at) ==
    IsDoing(proc'[p], pc, slot, want, at) /\ OnlyProc(p) /\ proc' \in [Procs -> Doing]

\* One process goes on.
LEMMA DoesOne ==
    ASSUME TypeOK, NEW p \in Procs, NEW d \in Doing, proc' = [proc EXCEPT ![p] = d]
    PROVE  proc'[p] = d /\ OnlyProc(p) /\ proc' \in [Procs -> Doing]
BY DEF TypeOK, OnlyProc

\* What the assignments to a process leave in its fields.
LEMMA DoingRecords ==
    ASSUME NR_INODE \in Nat, TypeOK, NEW p \in Procs
    PROVE  /\ \A pc \in Places :
                 Goes(p, pc) =>
                 Does(p, pc, proc[p].slot, proc[p].want, proc[p].at)
           /\ \A pc \in Places, slot \in 0 .. NR_INODE :
                 proc' = [proc EXCEPT ![p].pc = pc, ![p].slot = slot] =>
                 Does(p, pc, slot, proc[p].want, proc[p].at)
           /\ \A pc \in Places, want \in Ids \cup {NULL} :
                 proc' = [proc EXCEPT ![p].pc = pc, ![p].want = want] =>
                 Does(p, pc, proc[p].slot, want, proc[p].at)
           /\ \A want \in Ids \cup {NULL} :
                 proc' = [proc EXCEPT ![p].want = want] =>
                 Does(p, proc[p].pc, proc[p].slot, want, proc[p].at)
           /\ \A pc \in Places, at \in 0 .. NR_INODE :
                 proc' = [proc EXCEPT ![p].pc = pc, ![p].at = at] =>
                 Does(p, pc, proc[p].slot, proc[p].want, at)
           /\ \A at \in 0 .. NR_INODE :
                 proc' = [proc EXCEPT ![p].at = at] =>
                 Does(p, proc[p].pc, proc[p].slot, proc[p].want, at)
           /\ Ends(p) =>
                 Does(p, "idle", 0, NULL, 0)
           /\ \A slot \in 0 .. NR_INODE :
                 Holds(p, slot) =>
                 Does(p, "held", slot, NULL, 0)
<1>. DEFINE d == proc[p]
<1>1. /\ d \in Doing /\ d.slot \in 0 .. NR_INODE /\ d.want \in Ids \cup {NULL} /\ d.at \in 0 .. NR_INODE
      /\ d.pc \in Places
  BY Typed DEF Doing
<1>2. Idle \in Doing /\ Idle.slot = 0 /\ Idle.want = NULL /\ Idle.at = 0 /\ Idle.pc = "idle"
  BY DEF Idle, Doing, Places
<1>3. ASSUME NEW pc \in Places,
            Goes(p, pc)
     PROVE  Does(p, pc, proc[p].slot, proc[p].want, proc[p].at)
  <2>. DEFINE e == [d EXCEPT !.pc = pc]
  <2>1. proc' = [proc EXCEPT ![p] = e]
    BY <1>3 DEF Goes
  <2>2. IsDoing(e, pc, d.slot, d.want, d.at)
    <3>. HIDE DEF d
    <3>. QED BY <1>1, <1>2 DEF IsDoing, Doing, Places
  <2>. HIDE DEF e
  <2>. QED BY <2>1, <2>2, DoesOne DEF Does, IsDoing
<1>4. ASSUME NEW pc \in Places, NEW slot \in 0 .. NR_INODE,
            proc' = [proc EXCEPT ![p].pc = pc, ![p].slot = slot]
     PROVE  Does(p, pc, slot, proc[p].want, proc[p].at)
  <2>. DEFINE e == [d EXCEPT !.pc = pc, !.slot = slot]
  <2>1. proc' = [proc EXCEPT ![p] = e]
    BY <1>4
  <2>2. IsDoing(e, pc, slot, d.want, d.at)
    <3>. HIDE DEF d
    <3>. QED BY <1>1, <1>2 DEF IsDoing, Doing, Places
  <2>. HIDE DEF e
  <2>. QED BY <2>1, <2>2, DoesOne DEF Does, IsDoing
<1>5. ASSUME NEW pc \in Places, NEW want \in Ids \cup {NULL},
            proc' = [proc EXCEPT ![p].pc = pc, ![p].want = want]
     PROVE  Does(p, pc, proc[p].slot, want, proc[p].at)
  <2>. DEFINE e == [d EXCEPT !.pc = pc, !.want = want]
  <2>1. proc' = [proc EXCEPT ![p] = e]
    BY <1>5
  <2>2. IsDoing(e, pc, d.slot, want, d.at)
    <3>. HIDE DEF d
    <3>. QED BY <1>1, <1>2 DEF IsDoing, Doing, Places
  <2>. HIDE DEF e
  <2>. QED BY <2>1, <2>2, DoesOne DEF Does, IsDoing
<1>6. ASSUME NEW want \in Ids \cup {NULL},
            proc' = [proc EXCEPT ![p].want = want]
     PROVE  Does(p, proc[p].pc, proc[p].slot, want, proc[p].at)
  <2>. DEFINE e == [d EXCEPT !.want = want]
  <2>1. proc' = [proc EXCEPT ![p] = e]
    BY <1>6
  <2>2. IsDoing(e, d.pc, d.slot, want, d.at)
    <3>. HIDE DEF d
    <3>. QED BY <1>1, <1>2 DEF IsDoing, Doing, Places
  <2>. HIDE DEF e
  <2>. QED BY <2>1, <2>2, DoesOne DEF Does, IsDoing
<1>7. ASSUME NEW pc \in Places, NEW at \in 0 .. NR_INODE,
            proc' = [proc EXCEPT ![p].pc = pc, ![p].at = at]
     PROVE  Does(p, pc, proc[p].slot, proc[p].want, at)
  <2>. DEFINE e == [d EXCEPT !.pc = pc, !.at = at]
  <2>1. proc' = [proc EXCEPT ![p] = e]
    BY <1>7
  <2>2. IsDoing(e, pc, d.slot, d.want, at)
    <3>. HIDE DEF d
    <3>. QED BY <1>1, <1>2 DEF IsDoing, Doing, Places
  <2>. HIDE DEF e
  <2>. QED BY <2>1, <2>2, DoesOne DEF Does, IsDoing
<1>8. ASSUME NEW at \in 0 .. NR_INODE,
            proc' = [proc EXCEPT ![p].at = at]
     PROVE  Does(p, proc[p].pc, proc[p].slot, proc[p].want, at)
  <2>. DEFINE e == [d EXCEPT !.at = at]
  <2>1. proc' = [proc EXCEPT ![p] = e]
    BY <1>8
  <2>2. IsDoing(e, d.pc, d.slot, d.want, at)
    <3>. HIDE DEF d
    <3>. QED BY <1>1, <1>2 DEF IsDoing, Doing, Places
  <2>. HIDE DEF e
  <2>. QED BY <2>1, <2>2, DoesOne DEF Does, IsDoing
<1>9. ASSUME Ends(p)
     PROVE  Does(p, "idle", 0, NULL, 0)
  <2>. DEFINE e == Idle
  <2>1. proc' = [proc EXCEPT ![p] = e]
    BY <1>9 DEF Ends
  <2>2. IsDoing(e, "idle", 0, NULL, 0)
    <3>. HIDE DEF d
    <3>. QED BY <1>1, <1>2 DEF IsDoing, Doing, Places
  <2>. HIDE DEF e
  <2>. QED BY <2>1, <2>2, DoesOne DEF Does, IsDoing
<1>10. ASSUME NEW slot \in 0 .. NR_INODE,
            Holds(p, slot)
     PROVE  Does(p, "held", slot, NULL, 0)
  <2>. DEFINE e == [Idle EXCEPT !.pc = "held", !.slot = slot]
  <2>1. proc' = [proc EXCEPT ![p] = e]
    BY <1>10 DEF Holds
  <2>2. IsDoing(e, "held", slot, NULL, 0)
    <3>. HIDE DEF d
    <3>. QED BY <1>1, <1>2 DEF IsDoing, Doing, Places
  <2>. HIDE DEF e
  <2>. QED BY <2>1, <2>2, DoesOne DEF Does, IsDoing
<1>. QED BY <1>3, <1>4, <1>5, <1>6, <1>7, <1>8, <1>9, <1>10

\* s changes as it says.
Becomes(s, id, count, lock, dirt, mount, pipe, nlinks, data) ==
    /\ IsNode(inode'[s], id, count, lock, dirt, mount, pipe, nlinks, data)
    /\ OnlySlot(s) /\ inode' \in [Slots -> InCore]

\* One inode changes.
LEMMA NodeOne ==
    ASSUME TypeOK, NEW s \in Slots, NEW i \in InCore, inode' = [inode EXCEPT ![s] = i]
    PROVE  inode'[s] = i /\ OnlySlot(s) /\ inode' \in [Slots -> InCore]
BY DEF TypeOK, OnlySlot

\* What the assignments to an inode leave in its fields.
LEMMA NodeRecords ==
    ASSUME TypeOK, NEW s \in Slots
    PROVE  LET i == inode[s] IN
           /\ inode' = [inode EXCEPT ![s] = Clear] =>
                 Becomes(s, NULL, 0, FALSE, FALSE, FALSE, FALSE, 0, 0)
           /\ inode' = Taken(s) =>
                 Becomes(s, NULL, 1, FALSE, FALSE, FALSE, FALSE, 0, 0)
           /\ \A id \in Ids \cup {NULL} :
                 inode' = [Taken(s) EXCEPT ![s] = [@ EXCEPT !.id = id, !.nlinks = 1, !.dirt = TRUE]] =>
                 Becomes(s, id, 1, FALSE, TRUE, FALSE, FALSE, 1, 0)
           /\ inode' = [Taken(s) EXCEPT ![s] = [@ EXCEPT !.count = 2, !.pipe = TRUE]] =>
                 Becomes(s, NULL, 2, FALSE, FALSE, FALSE, TRUE, 0, 0)
           /\ \A n \in Nat :
                 inode' = [inode EXCEPT ![s].count = n] =>
                 Becomes(s, i.id, n, i.lock, i.dirt, i.mount, i.pipe, i.nlinks, i.data)
           /\ \A id \in Ids \cup {NULL} :
                 inode' = [inode EXCEPT ![s] = [@ EXCEPT !.id = id, !.lock = TRUE]] =>
                 Becomes(s, id, i.count, TRUE, i.dirt, i.mount, i.pipe, i.nlinks, i.data)
           /\ \A k \in {0, 1}, v \in {0, 1} :
                 inode' = [inode EXCEPT ![s] = [@ EXCEPT !.lock = FALSE, !.nlinks = k, !.data = v]] =>
                 Becomes(s, i.id, i.count, FALSE, i.dirt, i.mount, i.pipe, k, v)
           /\ inode' = [inode EXCEPT ![s] = [@ EXCEPT !.data = 1 - i.data, !.dirt = TRUE]] =>
                 Becomes(s, i.id, i.count, i.lock, TRUE, i.mount, i.pipe, i.nlinks, 1 - i.data)
           /\ inode' = [inode EXCEPT ![s] = [@ EXCEPT !.nlinks = 0, !.dirt = TRUE]] =>
                 Becomes(s, i.id, i.count, i.lock, TRUE, i.mount, i.pipe, 0, i.data)
           /\ inode' = [inode EXCEPT ![s].lock = TRUE] =>
                 Becomes(s, i.id, i.count, TRUE, i.dirt, i.mount, i.pipe, i.nlinks, i.data)
           /\ inode' = [inode EXCEPT ![s] = [@ EXCEPT !.dirt = FALSE, !.lock = FALSE]] =>
                 Becomes(s, i.id, i.count, FALSE, FALSE, i.mount, i.pipe, i.nlinks, i.data)
           /\ \A n \in Nat, b \in BOOLEAN :
                 inode' = [inode EXCEPT ![s] = [@ EXCEPT !.count = n, !.pipe = b]] =>
                 Becomes(s, i.id, n, i.lock, i.dirt, i.mount, b, i.nlinks, i.data)
           /\ inode' = [inode EXCEPT ![s] = [@ EXCEPT !.mount = TRUE, !.dirt = TRUE]] =>
                 Becomes(s, i.id, i.count, i.lock, TRUE, TRUE, i.pipe, i.nlinks, i.data)
           /\ inode' = [inode EXCEPT ![s].mount = FALSE] =>
                 Becomes(s, i.id, i.count, i.lock, i.dirt, FALSE, i.pipe, i.nlinks, i.data)
<1>. DEFINE i == inode[s]
            c == [Clear EXCEPT !.count = 1]
<1>1. i \in InCore
  BY Typed
<1>2. IsNode(Clear, NULL, 0, FALSE, FALSE, FALSE, FALSE, 0, 0)
  BY DEF IsNode, Clear, InCore
<1>3. IsNode(c, NULL, 1, FALSE, FALSE, FALSE, FALSE, 0, 0)
  BY DEF IsNode, Clear, InCore
<1>4. ASSUME inode' = [inode EXCEPT ![s] = Clear]
     PROVE  Becomes(s, NULL, 0, FALSE, FALSE, FALSE, FALSE, 0, 0)
  <2>. DEFINE e == Clear
  <2>1. inode' = [inode EXCEPT ![s] = e]
    BY <1>4
  <2>. QED BY <2>1, <1>2, NodeOne DEF Becomes, IsNode
<1>5. ASSUME inode' = Taken(s)
     PROVE  Becomes(s, NULL, 1, FALSE, FALSE, FALSE, FALSE, 0, 0)
  <2>. DEFINE e == c
  <2>1. inode' = [inode EXCEPT ![s] = e]
    BY <1>5 DEF Taken, TypeOK
  <2>. QED BY <2>1, <1>3, NodeOne DEF Becomes, IsNode
<1>6. ASSUME NEW id \in Ids \cup {NULL},
            inode' = [Taken(s) EXCEPT ![s] = [@ EXCEPT !.id = id, !.nlinks = 1, !.dirt = TRUE]]
     PROVE  Becomes(s, id, 1, FALSE, TRUE, FALSE, FALSE, 1, 0)
  <2>. DEFINE e == [c EXCEPT !.id = id, !.nlinks = 1, !.dirt = TRUE]
  <2>1. inode' = [inode EXCEPT ![s] = e]
    BY <1>6 DEF Taken, TypeOK
  <2>2. IsNode(e, id, 1, FALSE, TRUE, FALSE, FALSE, 1, 0)
    <3>. HIDE DEF i, c
    <3>. QED BY <1>3 DEF IsNode, InCore
  <2>. HIDE DEF e
  <2>. QED BY <2>1, <2>2, NodeOne DEF Becomes, IsNode
<1>7. ASSUME inode' = [Taken(s) EXCEPT ![s] = [@ EXCEPT !.count = 2, !.pipe = TRUE]]
     PROVE  Becomes(s, NULL, 2, FALSE, FALSE, FALSE, TRUE, 0, 0)
  <2>. DEFINE e == [c EXCEPT !.count = 2, !.pipe = TRUE]
  <2>1. inode' = [inode EXCEPT ![s] = e]
    BY <1>7 DEF Taken, TypeOK
  <2>2. IsNode(e, NULL, 2, FALSE, FALSE, FALSE, TRUE, 0, 0)
    <3>. HIDE DEF i, c
    <3>. QED BY <1>3 DEF IsNode, InCore
  <2>. HIDE DEF e
  <2>. QED BY <2>1, <2>2, NodeOne DEF Becomes, IsNode
<1>8. ASSUME NEW n \in Nat,
            inode' = [inode EXCEPT ![s].count = n]
     PROVE  Becomes(s, i.id, n, i.lock, i.dirt, i.mount, i.pipe, i.nlinks, i.data)
  <2>. DEFINE e == [i EXCEPT !.count = n]
  <2>1. inode' = [inode EXCEPT ![s] = e]
    BY <1>8
  <2>2. IsNode(e, i.id, n, i.lock, i.dirt, i.mount, i.pipe, i.nlinks, i.data)
    <3>. HIDE DEF i, c
    <3>. QED BY <1>1 DEF IsNode, InCore
  <2>. HIDE DEF e
  <2>. QED BY <2>1, <2>2, NodeOne DEF Becomes, IsNode
<1>9. ASSUME NEW id \in Ids \cup {NULL},
            inode' = [inode EXCEPT ![s] = [@ EXCEPT !.id = id, !.lock = TRUE]]
     PROVE  Becomes(s, id, i.count, TRUE, i.dirt, i.mount, i.pipe, i.nlinks, i.data)
  <2>. DEFINE e == [i EXCEPT !.id = id, !.lock = TRUE]
  <2>1. inode' = [inode EXCEPT ![s] = e]
    BY <1>9
  <2>2. IsNode(e, id, i.count, TRUE, i.dirt, i.mount, i.pipe, i.nlinks, i.data)
    <3>. HIDE DEF i, c
    <3>. QED BY <1>1 DEF IsNode, InCore
  <2>. HIDE DEF e
  <2>. QED BY <2>1, <2>2, NodeOne DEF Becomes, IsNode
<1>10. ASSUME NEW k \in {0, 1}, NEW v \in {0, 1},
            inode' = [inode EXCEPT ![s] = [@ EXCEPT !.lock = FALSE, !.nlinks = k, !.data = v]]
     PROVE  Becomes(s, i.id, i.count, FALSE, i.dirt, i.mount, i.pipe, k, v)
  <2>. DEFINE e == [i EXCEPT !.lock = FALSE, !.nlinks = k, !.data = v]
  <2>1. inode' = [inode EXCEPT ![s] = e]
    BY <1>10
  <2>2. IsNode(e, i.id, i.count, FALSE, i.dirt, i.mount, i.pipe, k, v)
    <3>. HIDE DEF i, c
    <3>. QED BY <1>1 DEF IsNode, InCore
  <2>. HIDE DEF e
  <2>. QED BY <2>1, <2>2, NodeOne DEF Becomes, IsNode
<1>11. ASSUME inode' = [inode EXCEPT ![s] = [@ EXCEPT !.data = 1 - i.data, !.dirt = TRUE]]
     PROVE  Becomes(s, i.id, i.count, i.lock, TRUE, i.mount, i.pipe, i.nlinks, 1 - i.data)
  <2>. DEFINE e == [i EXCEPT !.data = 1 - i.data, !.dirt = TRUE]
  <2>1. inode' = [inode EXCEPT ![s] = e]
    BY <1>11
  <2>2. IsNode(e, i.id, i.count, i.lock, TRUE, i.mount, i.pipe, i.nlinks, 1 - i.data)
    <3>1. 1 - i.data \in {0, 1}
      BY Typed
    <3>. HIDE DEF i, c
    <3>. QED BY <1>1, <3>1 DEF IsNode, InCore
  <2>. HIDE DEF e
  <2>. QED BY <2>1, <2>2, NodeOne DEF Becomes, IsNode
<1>12. ASSUME inode' = [inode EXCEPT ![s] = [@ EXCEPT !.nlinks = 0, !.dirt = TRUE]]
     PROVE  Becomes(s, i.id, i.count, i.lock, TRUE, i.mount, i.pipe, 0, i.data)
  <2>. DEFINE e == [i EXCEPT !.nlinks = 0, !.dirt = TRUE]
  <2>1. inode' = [inode EXCEPT ![s] = e]
    BY <1>12
  <2>2. IsNode(e, i.id, i.count, i.lock, TRUE, i.mount, i.pipe, 0, i.data)
    <3>. HIDE DEF i, c
    <3>. QED BY <1>1 DEF IsNode, InCore
  <2>. HIDE DEF e
  <2>. QED BY <2>1, <2>2, NodeOne DEF Becomes, IsNode
<1>13. ASSUME inode' = [inode EXCEPT ![s].lock = TRUE]
     PROVE  Becomes(s, i.id, i.count, TRUE, i.dirt, i.mount, i.pipe, i.nlinks, i.data)
  <2>. DEFINE e == [i EXCEPT !.lock = TRUE]
  <2>1. inode' = [inode EXCEPT ![s] = e]
    BY <1>13
  <2>2. IsNode(e, i.id, i.count, TRUE, i.dirt, i.mount, i.pipe, i.nlinks, i.data)
    <3>. HIDE DEF i, c
    <3>. QED BY <1>1 DEF IsNode, InCore
  <2>. HIDE DEF e
  <2>. QED BY <2>1, <2>2, NodeOne DEF Becomes, IsNode
<1>14. ASSUME inode' = [inode EXCEPT ![s] = [@ EXCEPT !.dirt = FALSE, !.lock = FALSE]]
     PROVE  Becomes(s, i.id, i.count, FALSE, FALSE, i.mount, i.pipe, i.nlinks, i.data)
  <2>. DEFINE e == [i EXCEPT !.dirt = FALSE, !.lock = FALSE]
  <2>1. inode' = [inode EXCEPT ![s] = e]
    BY <1>14
  <2>2. IsNode(e, i.id, i.count, FALSE, FALSE, i.mount, i.pipe, i.nlinks, i.data)
    <3>. HIDE DEF i, c
    <3>. QED BY <1>1 DEF IsNode, InCore
  <2>. HIDE DEF e
  <2>. QED BY <2>1, <2>2, NodeOne DEF Becomes, IsNode
<1>15. ASSUME NEW n \in Nat, NEW b \in BOOLEAN,
            inode' = [inode EXCEPT ![s] = [@ EXCEPT !.count = n, !.pipe = b]]
     PROVE  Becomes(s, i.id, n, i.lock, i.dirt, i.mount, b, i.nlinks, i.data)
  <2>. DEFINE e == [i EXCEPT !.count = n, !.pipe = b]
  <2>1. inode' = [inode EXCEPT ![s] = e]
    BY <1>15
  <2>2. IsNode(e, i.id, n, i.lock, i.dirt, i.mount, b, i.nlinks, i.data)
    <3>. HIDE DEF i, c
    <3>. QED BY <1>1 DEF IsNode, InCore
  <2>. HIDE DEF e
  <2>. QED BY <2>1, <2>2, NodeOne DEF Becomes, IsNode
<1>16. ASSUME inode' = [inode EXCEPT ![s] = [@ EXCEPT !.mount = TRUE, !.dirt = TRUE]]
     PROVE  Becomes(s, i.id, i.count, i.lock, TRUE, TRUE, i.pipe, i.nlinks, i.data)
  <2>. DEFINE e == [i EXCEPT !.mount = TRUE, !.dirt = TRUE]
  <2>1. inode' = [inode EXCEPT ![s] = e]
    BY <1>16
  <2>2. IsNode(e, i.id, i.count, i.lock, TRUE, TRUE, i.pipe, i.nlinks, i.data)
    <3>. HIDE DEF i, c
    <3>. QED BY <1>1 DEF IsNode, InCore
  <2>. HIDE DEF e
  <2>. QED BY <2>1, <2>2, NodeOne DEF Becomes, IsNode
<1>17. ASSUME inode' = [inode EXCEPT ![s].mount = FALSE]
     PROVE  Becomes(s, i.id, i.count, i.lock, i.dirt, FALSE, i.pipe, i.nlinks, i.data)
  <2>. DEFINE e == [i EXCEPT !.mount = FALSE]
  <2>1. inode' = [inode EXCEPT ![s] = e]
    BY <1>17
  <2>2. IsNode(e, i.id, i.count, i.lock, i.dirt, FALSE, i.pipe, i.nlinks, i.data)
    <3>. HIDE DEF i, c
    <3>. QED BY <1>1 DEF IsNode, InCore
  <2>. HIDE DEF e
  <2>. QED BY <2>1, <2>2, NodeOne DEF Becomes, IsNode
<1>. QED BY <1>4, <1>5, <1>6, <1>7, <1>8, <1>9, <1>10, <1>11, <1>12, <1>13, <1>14, <1>15, <1>16, <1>17

-----------------------------------------------------------------------------
(* Counts.                                                                 *)

\* The users of an inode can be counted.
LEMMA HoldersFinite ==
    ASSUME IsFiniteSet(Procs)
    PROVE  \A s : IsFiniteSet(Holders(s)) /\ Cardinality(Holders(s)) \in Nat
<1>. SUFFICES ASSUME NEW s PROVE IsFiniteSet(Holders(s)) /\ Cardinality(Holders(s)) \in Nat
  OBVIOUS
<1>1. Holders(s) \subseteq Procs
  BY DEF Holders
<1>. QED BY <1>1, FS_Subset, FS_CardinalityType

\* When one process goes on, it alone comes to an inode or leaves it.
LEMMA HoldersChange ==
    ASSUME IsFiniteSet(Procs), NEW p \in Procs, OnlyProc(p), NEW s
    PROVE  Cardinality(Holders(s))' = Cardinality(Holders(s))
                                       + One((p \in Holders(s))') - One(p \in Holders(s))
<1>1. Holders(s) \ {p} = Holders(s)' \ {p}
  BY DEF Holders, OnlyProc
<1>. QED BY <1>1, HoldersFinite, OneDiffers

\* An inode that is not in use belongs to nobody.
LEMMA NotInUse ==
    ASSUME ConstantsOK, InodesInv, NEW s \in Slots, inode[s].count = 0
    PROVE  sb.imount # s /\ \A q \in Procs : proc[q].slot # s
<1>1. ~ inode[s].pipe /\ Cardinality(Holders(s)) = 0 /\ sb.imount # s
  BY HoldersFinite DEF InodesInv, CountOK, CountTrue, One, ConstantsOK
<1>2. Holders(s) = {}
  BY <1>1, HoldersFinite, FS_EmptySet DEF ConstantsOK
<1>. QED BY <1>1, <1>2 DEF Holders, InodesInv, MountPlace

\* An inode that is counted once belongs to its one user.
LEMMA InUseOnce ==
    ASSUME ConstantsOK, InodesInv, NEW p \in Procs, proc[p].slot \in Slots,
           ~ inode[proc[p].slot].pipe, inode[proc[p].slot].count = 1,
           proc[p].pc \notin {"umount", "umountwrite"}
    PROVE  sb.imount # proc[p].slot /\ \A q \in Procs \ {p} : proc[q].slot # proc[p].slot
<1>. DEFINE s == proc[p].slot
<1>1. p \in Holders(s)
  BY DEF Holders
<1>2. Cardinality(Holders(s)) = Cardinality(Holders(s) \ {p}) + 1 /\ Cardinality(Holders(s) \ {p}) \in Nat
  <2>1. IsFiniteSet(Holders(s)) /\ Cardinality(Holders(s)) \in Nat
    BY HoldersFinite DEF ConstantsOK
  <2>. HIDE DEF s
  <2>2. IsFiniteSet(Holders(s) \ {p}) /\ Cardinality(Holders(s) \ {p}) = Cardinality(Holders(s)) - 1
    BY <1>1, <2>1, FS_RemoveElement
  <2>. QED BY <2>1, <2>2, FS_CardinalityType
<1>3. inode[s].count = Cardinality(Holders(s)) + One(sb.imount = s)
  BY DEF InodesInv, CountOK, CountTrue
<1>4. sb.imount # s /\ Cardinality(Holders(s) \ {p}) = 0
  <2>. HIDE DEF s
  <2>1. inode[s].count = 1
    BY DEF s
  <2>. QED BY <1>2, <1>3, <2>1 DEF One
<1>5. Holders(s) \ {p} = {}
  BY <1>1, <1>4, HoldersFinite, FS_RemoveElement, FS_EmptySet DEF ConstantsOK
<1>. QED BY <1>4, <1>5 DEF Holders, InodesInv, MountPlace

\* An inode that somebody has is counted.
LEMMA InUse ==
    ASSUME ConstantsOK, InodesInv, NEW p \in Procs, proc[p].slot \in Slots
    PROVE  inode[proc[p].slot].count > 0
<1>1. CASE inode[proc[p].slot].count = 0
  BY <1>1, NotInUse
<1>2. CASE inode[proc[p].slot].count # 0
  BY <1>2, Typed DEF InodesInv
<1>. QED BY <1>1, <1>2

\* Who reads an inode or deletes it is its only user.
LEMMA ReadAlone ==
    ASSUME ConstantsOK, InodesInv, NEW p \in Procs, NEW s \in Slots, proc[p].slot = s,
           proc[p].pc # "read"
    PROVE  /\ ~ Reading(s)
           /\ \A q \in Procs \ {p} : proc[q].slot = s => proc[q].pc \notin {"read", "trunc"}
<1>1. ASSUME NEW q \in Procs \ {p}, proc[q].slot = s, proc[q].pc \in {"read", "trunc"} PROVE FALSE
  <2>1. ~ inode[s].pipe /\ inode[s].count = 1
    BY <1>1 DEF InodesInv, PlaceOK, SlotPlaces
  <2>. QED BY <1>1, <2>1, InUseOnce
<1>. QED BY <1>1 DEF Reading

\* What is reachable and linked stays so where nothing of it changes.
LEMMA LinksSame ==
    ASSUME NEW id \in Ids, LinksOK(id), imap \subseteq imap', UNCHANGED named,
           LookedFor(id)' => LookedFor(id), Having(id)' = Having(id),
           \A s \in Having(id) : inode'[s].nlinks = inode[s].nlinks /\ (Reading(s)' <=> Reading(s)),
           disk'[id].nlinks = disk[id].nlinks
    PROVE  LinksOK(id)'
BY DEF LinksOK, Reachable

\* The device is in use only while it is mounted, where nobody comes to use it.
LEMMA UsedSame ==
    ASSUME MountUsed, sb'.imount = sb.imount, LookedFor(MOUNTED)' => LookedFor(MOUNTED),
           \A s \in Slots : inode'[s].id = MOUNTED /\ inode'[s].count > 0 =>
                               inode[s].id = MOUNTED /\ inode[s].count > 0,
           IsMounted => inode'[sb.imount].mount
    PROVE  MountUsed'
BY DEF MountUsed, IsMounted, Having

Uses(p, s) == proc[p].slot = s /\ proc[p].pc \notin {"umount", "umountwrite"}

\* A process comes to an inode and counts it, leaves it and uncounts it, or
\* neither; or the mount takes over its count, or gives it up.
LEMMA CountStep ==
    ASSUME ConstantsOK, NEW p \in Procs, NEW s \in Slots, OnlyProc(p), CountTrue(s)
    PROVE  LET same == (sb.imount = s)' <=> (sb.imount = s)
               i == inode[s]
           IN  /\ same /\ ~ Uses(p, s) /\ Uses(p, s)' /\ inode'[s].count = i.count + 1 => CountTrue(s)'
               /\ same /\ Uses(p, s) /\ ~ Uses(p, s)' /\ inode'[s].count = i.count - 1 => CountTrue(s)'
               /\ same /\ (Uses(p, s)' <=> Uses(p, s)) /\ inode'[s].count = i.count => CountTrue(s)'
               /\ /\ sb.imount # s /\ sb'.imount = s /\ Uses(p, s) /\ ~ Uses(p, s)'
                  /\ inode'[s].count = i.count
                  => CountTrue(s)'
               /\ /\ sb.imount = s /\ sb'.imount # s /\ ~ Uses(p, s) /\ ~ Uses(p, s)'
                  /\ inode'[s].count = i.count - 1
                  => CountTrue(s)'
<1>1. Cardinality(Holders(s))' = Cardinality(Holders(s)) + One((p \in Holders(s))') - One(p \in Holders(s))
  BY HoldersChange DEF ConstantsOK
<1>2. Cardinality(Holders(s)) \in Nat /\ inode[s].count = Cardinality(Holders(s)) + One(sb.imount = s)
  BY HoldersFinite DEF CountTrue, ConstantsOK
<1>3. ((p \in Holders(s))' <=> Uses(p, s)') /\ (p \in Holders(s) <=> Uses(p, s))
  BY DEF Holders, Uses
<1>. DEFINE c == Cardinality(Holders(s))
            d == Cardinality(Holders(s))'
            m == IF sb.imount = s THEN 1 ELSE 0
            n == IF sb'.imount = s THEN 1 ELSE 0
<1>4. d = c + (IF Uses(p, s)' THEN 1 ELSE 0) - (IF Uses(p, s) THEN 1 ELSE 0)
  BY <1>1, <1>3 DEF One
<1>5. CountTrue(s)' <=> inode'[s].count = d + n
  BY DEF CountTrue, One
<1>6. c \in Nat /\ inode[s].count = c + m
  BY <1>2 DEF One
<1>. HIDE DEF c, d
<1>. QED BY <1>4, <1>5, <1>6

\* An inode that p neither comes to nor leaves keeps its count.
LEMMA CountOther ==
    ASSUME ConstantsOK, NEW p \in Procs, NEW t \in Slots, OnlyProc(p), CountOK(t),
           inode'[t] = inode[t], (sb.imount = t)' <=> (sb.imount = t), Uses(p, t)' <=> Uses(p, t),
           inode[t].pipe /\ proc'[p].slot = t => proc[p].slot = t
    PROVE  CountOK(t)'
<1>1. CountTrue(t) => CountTrue(t)'
  BY CountStep
<1>2. \A q \in Procs : inode[t].pipe /\ proc'[q].slot = t => proc[q].slot = t
  BY DEF OnlyProc
<1>. QED BY <1>1, <1>2 DEF CountOK

\* An inode that is not in use may go from the table: it is on the disk.
LEMMA LinksEvicted ==
    ASSUME ConstantsOK, TypeOK, OneOK, NEW s \in Slots, CountOK(s), DiskOK(s),
           inode[s].count = 0, \A q \in Procs : proc[q].slot # s,
           OnlySlot(s), NEW id \in Ids, inode'[s].id # id, LinksOK(id), UNCHANGED <<disk, named>>, imap \subseteq imap',
           LookedFor(id)' => LookedFor(id), \A t \in Slots \ {s} : Reading(t)' <=> Reading(t)
    PROVE  LinksOK(id)'
<1>1. id # NULL /\ Having(id)' = Having(id) \ {s} /\ \A t \in Having(id) \ {s} : inode'[t] = inode[t]
  BY DEF Having, ConstantsOK, OnlySlot
<1>2. CASE s \in Having(id)
  <2>1. Having(id) = {s}
    BY <1>1, <1>2 DEF Having, OneOK
  <2>2. ~ Reading(s) /\ inode[s].nlinks = 1 /\ disk[id].nlinks = 1
    BY <1>1, <1>2, Typed DEF Reading, CountOK, DiskOK, Having
  <2>. QED BY <1>1, <1>2, <2>1, <2>2 DEF LinksOK, Reachable
<1>3. CASE s \notin Having(id)
  <2>1. Having(id)' = Having(id) /\ \A t \in Having(id) : inode'[t] = inode[t] /\ (Reading(t)' <=> Reading(t))
    BY <1>1, <1>3 DEF Having
  <2>. QED BY <2>1, LinksSame
<1>. QED BY <1>2, <1>3

\* What is written is what the inode has.
LEMMA WrittenFacts ==
    ASSUME ConstantsOK, TypeOK, NEW s \in Slots, NEW dev, inode[s].id # NULL, dev = inode[s].id[1],
           Written(s, dev)
    PROVE  LET i == inode[s] IN
           /\ Becomes(s, i.id, i.count, FALSE, FALSE, i.mount, i.pipe, i.nlinks, i.data)
           /\ disk' \in [Ids -> Contents] /\ i.id \in Ids
           /\ disk'[i.id].nlinks = i.nlinks /\ disk'[i.id].data = i.data
           /\ \A x \in Ids \ {i.id} : disk'[x] = disk[x]
<1>. DEFINE i == inode[s]
<1>1. i.id \in Ids /\ i.nlinks \in {0, 1} /\ i.data \in {0, 1}
  BY Typed
<1>2. i.id = <<dev, i.id[2]>>
  BY <1>1 DEF Ids, MOUNTED
<1>3. disk' = [x \in Ids |-> IF x = i.id THEN [nlinks |-> i.nlinks, data |-> i.data] ELSE disk[x]]
  BY <1>2 DEF Written
<1>4. Becomes(s, i.id, i.count, FALSE, FALSE, i.mount, i.pipe, i.nlinks, i.data)
  BY NodeRecords DEF Written
<1>5. [nlinks |-> i.nlinks, data |-> i.data] \in Contents
  BY <1>1 DEF Contents
<1>6. disk' \in [Ids -> Contents]
  BY <1>3, <1>5 DEF TypeOK
<1>. QED BY <1>1, <1>3, <1>4, <1>6

\* iget changes two counts at once.
LEMMA NodeTwo ==
    ASSUME TypeOK, NEW s \in Slots, NEW e \in Slots, s # e,
           inode' = [inode EXCEPT ![s].count = @ + 1, ![e].count = 0]
    PROVE  LET i == inode[s]
               j == inode[e]
           IN  /\ IsNode(inode'[s], i.id, i.count + 1, i.lock, i.dirt, i.mount, i.pipe, i.nlinks, i.data)
               /\ IsNode(inode'[e], j.id, 0, j.lock, j.dirt, j.mount, j.pipe, j.nlinks, j.data)
               /\ \A t \in Slots \ {s, e} : inode'[t] = inode[t]
               /\ inode' \in [Slots -> InCore]
<1>. DEFINE i == inode[s]
            j == inode[e]
            n == i.count + 1
<1>1. i \in InCore /\ j \in InCore /\ n \in Nat
  BY Typed
<1>2. /\ inode' = [inode EXCEPT ![s] = [i EXCEPT !.count = n], ![e] = [j EXCEPT !.count = 0]]
  OBVIOUS
<1>3. inode'[s] = [i EXCEPT !.count = n] /\ inode'[e] = [j EXCEPT !.count = 0]
      /\ \A t \in Slots \ {s, e} : inode'[t] = inode[t]
  BY <1>2 DEF TypeOK
<1>4. /\ IsNode([i EXCEPT !.count = n], i.id, n, i.lock, i.dirt, i.mount, i.pipe, i.nlinks, i.data)
      /\ IsNode([j EXCEPT !.count = 0], j.id, 0, j.lock, j.dirt, j.mount, j.pipe, j.nlinks, j.data)
  <2>. HIDE DEF i, j, n
  <2>1. IsNode([i EXCEPT !.count = n], i.id, n, i.lock, i.dirt, i.mount, i.pipe, i.nlinks, i.data)
    BY <1>1 DEF IsNode, InCore
  <2>2. IsNode([j EXCEPT !.count = 0], j.id, 0, j.lock, j.dirt, j.mount, j.pipe, j.nlinks, j.data)
    BY <1>1 DEF IsNode, InCore
  <2>. QED BY <2>1, <2>2
<1>5. inode' \in [Slots -> InCore]
  <2>1. [i EXCEPT !.count = n] \in InCore /\ [j EXCEPT !.count = 0] \in InCore
    BY <1>4 DEF IsNode
  <2>. HIDE DEF i, j, n
  <2>. QED BY <1>2, <2>1 DEF TypeOK
<1>. QED BY <1>3, <1>4, <1>5

-----------------------------------------------------------------------------
(* Each operation keeps the invariant.  In every proof <1>1 is what the      *)
(* operation does, <1>2 what holds before it, <1>3 who else has the inode,   *)
(* <1>4 and <1>5 how it leaves the process and the inode; then comes a part  *)
(* of the invariant after the other.                                         *)

\* The slot that iget takes belonged to nobody; an inode that goes from the
\* table for it is on the disk with its links.
LEMMA IgetEmptyKeeps ==
    ASSUME ConstantsOK, InodesInv, NEW p \in Procs, IgetEmpty(p)
    PROVE  InodesInv'
<1>1. PICK s \in Unused :
         /\ At(p, "iget")
         /\ inode' = Taken(s)
         /\ proc' = [proc EXCEPT ![p].pc = "scan", ![p].slot = s]
         /\ UNCHANGED <<disk, imap, named, sb, panic>>
  BY DEF IgetEmpty
<1>2. /\ TypeOK /\ OneOK /\ MountRoot /\ MountAlone /\ MountUsed
      /\ proc[p].pc = "iget"
      /\ s \in Slots /\ s \in 0 .. NR_INODE /\ s # 0
      /\ inode[s].count = 0 /\ ~ inode[s].dirt /\ ~ inode[s].lock
      /\ CountOK(s) /\ LockOK(s) /\ DiskOK(s) /\ PlaceOK(p)
  BY <1>1 DEF InodesInv, At, Slots, ConstantsOK, Unused
<1>3. sb.imount # s /\ \A q \in Procs : proc[q].slot # s
  BY <1>2, NotInUse
<1>4. Does(p, "scan", s, proc[p].want, proc[p].at)
  BY <1>1, <1>2, <1>3, DoingRecords DEF Places, ConstantsOK
<1>5. Becomes(s, NULL, 1, FALSE, FALSE, FALSE, FALSE, 0, 0)
  BY <1>1, <1>2, <1>3, Typed, NodeRecords
<1>6. TypeOK'
  BY <1>1, <1>2, <1>3, <1>4, <1>5 DEF TypeOK, Does, Becomes
<1>. USE DEF Does, IsDoing, Becomes, IsNode, OnlyProc, OnlySlot
<1>7. \A q \in Procs : PlaceOK(q)'
  <2>. SUFFICES ASSUME NEW q \in Procs PROVE PlaceOK(q)'
    OBVIOUS
  <2>1. PlaceOK(q) /\ PlaceOK(p)
    BY DEF InodesInv
  <2>2. CASE q = p
    BY <1>1, <1>2, <1>3, <1>4, <1>5, <2>1, <2>2, SMTT(20) DEF PlaceOK, LockOK, Locks, SlotPlaces, Slots
  <2>3. CASE q # p
    <3>1. proc'[q] = proc[q]
      BY <2>3, <1>4
    <3>. QED BY <1>1, <1>2, <1>3, <1>5, <2>1, <2>3, <3>1, Typed, SMTT(20) DEF PlaceOK, LockOK, Locks, SlotPlaces, Slots
  <2>. QED BY <2>2, <2>3
<1>8. \A t \in Slots : CountOK(t)'
  <2>1. ~ Uses(p, s) /\ Uses(p, s)' /\ \A t \in Slots \ {s} : ~ Uses(p, t) /\ ~ Uses(p, t)'
    BY <1>2, <1>4 DEF Uses, PlaceOK, SlotPlaces
  <2>2. CountTrue(s) /\ ((sb.imount = s)' <=> (sb.imount = s)) /\ inode'[s].count = inode[s].count + 1
    BY <1>1, <1>2, <1>3, <1>5 DEF CountOK
  <2>3. CountOK(s)'
    <3>1. CountTrue(s)'
      BY <1>2, <1>4, <2>1, <2>2, CountStep
    <3>. QED BY <1>2, <1>5, <3>1 DEF CountOK
  <2>4. ASSUME NEW t \in Slots \ {s} PROVE CountOK(t)'
    BY <1>1, <1>2, <1>3, <1>4, <1>5, <2>1, <2>4, CountOther DEF InodesInv
  <2>. QED BY <2>3, <2>4
<1>9. \A t \in Slots : LockOK(t)'
  BY <1>1, <1>2, <1>3, <1>4, <1>5 DEF LockOK, Locks, InodesInv
<1>10. \A id \in Ids : LinksOK(id)'
  <2>. SUFFICES ASSUME NEW id \in Ids PROVE LinksOK(id)'
    OBVIOUS
  <2>1. LinksOK(id) /\ (LookedFor(id)' <=> LookedFor(id)) /\ \A t \in Slots : Reading(t)' <=> Reading(t)
    BY <1>1, <1>2, <1>3, <1>4 DEF InodesInv, LookedFor, Reading
  <2>. QED BY <1>1, <1>2, <1>3, <1>5, <2>1, LinksEvicted DEF ConstantsOK
<1>11. MountRoot' /\ MountAlone' /\ \A q \in Procs : MountPlace(q)'
  <2>1. MountRoot'
    BY <1>1, <1>2, <1>3, <1>5, Typed, SMTT(20) DEF MountRoot, Slots
  <2>2. MountAlone'
    BY <1>1, <1>2, <1>3, <1>4 DEF MountAlone
  <2>3. ASSUME NEW q \in Procs PROVE MountPlace(q)'
    <3>1. MountPlace(q) /\ PlaceOK(q) /\ MountPlace(p) /\ PlaceOK(p)
      BY DEF InodesInv
    <3>. QED BY <1>1, <1>2, <1>3, <1>4, <1>5, <3>1, Typed, SMTT(20) DEF MountPlace, PlaceOK, SlotPlaces
  <2>. QED BY <2>1, <2>2, <2>3
<1>12. MountUsed'
  <2>1. LookedFor(MOUNTED)' => LookedFor(MOUNTED)
    BY <1>1, <1>2, <1>3, <1>4 DEF LookedFor
  <2>2. IsMounted => inode'[sb.imount].mount
    BY <1>1, <1>2, <1>3, <1>5, Typed DEF IsMounted, Slots
  <2>3. ASSUME NEW t \in Slots, inode'[t].id = MOUNTED, inode'[t].count > 0
        PROVE  inode[t].id = MOUNTED /\ inode[t].count > 0
    BY <1>1, <1>2, <1>3, <1>5, <2>3, Typed DEF ConstantsOK, Ids
  <2>. QED BY <1>1, <1>2, <1>3, <1>5, <2>1, <2>2, <2>3, UsedSame
<1>13. OneOK' /\ \A t \in Slots : DiskOK(t)'
  BY <1>1, <1>2, <1>3, <1>5 DEF OneOK, DiskOK, InodesInv
<1>. QED BY <1>6, <1>7, <1>8, <1>9, <1>10, <1>11, <1>12, <1>13 DEF InodesInv

\* A name that is found has a number in use, and its inode has links.
LEMMA LookupKeeps ==
    ASSUME ConstantsOK, InodesInv, NEW p \in Procs, Lookup(p)
    PROVE  InodesInv'
<1>1. PICK n \in named :
         /\ At(p, "idle")
         /\ proc' = [proc EXCEPT ![p].pc = "iget", ![p].want = <<1, n>>]
         /\ UNCHANGED <<inode, disk, imap, named, sb, panic>>
  BY DEF Lookup
<1>2. /\ TypeOK /\ OneOK /\ MountRoot /\ MountAlone /\ MountUsed
      /\ proc[p].pc = "idle" /\ <<1, n>> \in Ids
  BY <1>1 DEF InodesInv, At, Slots, ConstantsOK, TypeOK, Ids
<1>4. Does(p, "iget", proc[p].slot, <<1, n>>, proc[p].at)
  BY <1>1, <1>2, DoingRecords DEF Places, ConstantsOK
<1>6. TypeOK'
  BY <1>1, <1>2, <1>4 DEF TypeOK, Does, Becomes
<1>. USE DEF Does, IsDoing, Becomes, IsNode, OnlyProc, OnlySlot
<1>7. \A q \in Procs : PlaceOK(q)'
  <2>. SUFFICES ASSUME NEW q \in Procs PROVE PlaceOK(q)'
    OBVIOUS
  <2>1. PlaceOK(q) /\ PlaceOK(p)
    BY DEF InodesInv
  <2>2. CASE q = p
    BY <1>1, <1>2, <1>4, <2>1, <2>2, SMTT(20) DEF PlaceOK, LockOK, Locks, SlotPlaces, Slots
  <2>3. CASE q # p
    <3>1. proc'[q] = proc[q]
      BY <2>3, <1>4
    <3>. QED BY <1>1, <1>2, <2>1, <2>3, <3>1, Typed, SMTT(20) DEF PlaceOK, LockOK, Locks, SlotPlaces, Slots
  <2>. QED BY <2>2, <2>3
<1>8. \A t \in Slots : CountOK(t)'
  <2>1. \A t \in Slots : Uses(p, t)' <=> Uses(p, t)
    BY <1>1, <1>2, <1>4 DEF Uses, PlaceOK, SlotPlaces
  <2>. QED BY <1>1, <1>2, <1>4, <2>1, CountOther DEF InodesInv, PlaceOK, SlotPlaces
<1>9. \A t \in Slots : LockOK(t)'
  BY <1>1, <1>2, <1>4 DEF LockOK, Locks, InodesInv
<1>10. \A id \in Ids : LinksOK(id)'
  <2>. SUFFICES ASSUME NEW id \in Ids PROVE LinksOK(id)'
    OBVIOUS
  <2>1. LinksOK(id) /\ (LookedFor(id)' => LookedFor(id) \/ id = <<1, n>>) /\ \A t \in Slots : Reading(t)' <=> Reading(t)
    BY <1>1, <1>2, <1>4 DEF InodesInv, LookedFor, Reading
  <2>2. id = <<1, n>> => id[2] \in named /\ id[2] \in imap
    BY <1>2 DEF TypeOK
  <2>. QED BY <1>1, <2>1, <2>2 DEF LinksOK, Reachable, Having
<1>11. MountRoot' /\ MountAlone' /\ \A q \in Procs : MountPlace(q)'
  <2>1. MountRoot'
    BY <1>1, <1>2, Typed, SMTT(20) DEF MountRoot, Slots
  <2>2. MountAlone'
    BY <1>1, <1>2, <1>4 DEF MountAlone
  <2>3. ASSUME NEW q \in Procs PROVE MountPlace(q)'
    <3>1. MountPlace(q) /\ PlaceOK(q) /\ MountPlace(p) /\ PlaceOK(p)
      BY DEF InodesInv
    <3>. QED BY <1>1, <1>2, <1>4, <3>1, Typed, SMTT(20) DEF MountPlace, PlaceOK, SlotPlaces
  <2>. QED BY <2>1, <2>2, <2>3
<1>12. MountUsed'
  <2>1. LookedFor(MOUNTED)' => LookedFor(MOUNTED)
    BY <1>1, <1>2, <1>4 DEF LookedFor, MOUNTED
  <2>. QED BY <1>1, <1>2, <2>1, UsedSame DEF IsMounted
<1>13. OneOK' /\ \A t \in Slots : DiskOK(t)'
  BY <1>1, <1>2 DEF OneOK, DiskOK, InodesInv
<1>. QED BY <1>6, <1>7, <1>8, <1>9, <1>10, <1>11, <1>12, <1>13 DEF InodesInv

\* iget goes on with the root of the device that is mounted.
LEMMA IgetCrossesKeeps ==
    ASSUME ConstantsOK, InodesInv, NEW p \in Procs, IgetCrosses(p)
    PROVE  InodesInv'
<1>1. PICK s \in Having(MOUNTED) :
         /\ At(p, "scan") /\ Covered(proc[p].want)
         /\ proc' = [proc EXCEPT ![p].want = MOUNTED]
         /\ UNCHANGED <<inode, disk, imap, named, sb, panic>>
  BY DEF IgetCrosses
<1>2. /\ TypeOK /\ OneOK /\ MountRoot /\ MountAlone /\ MountUsed
      /\ proc[p].pc = "scan" /\ MOUNTED \in Ids
  BY <1>1 DEF InodesInv, At, Slots, ConstantsOK, Ids
<1>4. Does(p, "scan", proc[p].slot, MOUNTED, proc[p].at)
  BY <1>1, <1>2, DoingRecords DEF Places, ConstantsOK
<1>6. TypeOK'
  BY <1>1, <1>2, <1>4 DEF TypeOK, Does, Becomes
<1>. USE DEF Does, IsDoing, Becomes, IsNode, OnlyProc, OnlySlot
<1>7. \A q \in Procs : PlaceOK(q)'
  <2>. SUFFICES ASSUME NEW q \in Procs PROVE PlaceOK(q)'
    OBVIOUS
  <2>1. PlaceOK(q) /\ PlaceOK(p)
    BY DEF InodesInv
  <2>2. CASE q = p
    BY <1>1, <1>2, <1>4, <2>1, <2>2, SMTT(20) DEF PlaceOK, LockOK, Locks, SlotPlaces, Slots
  <2>3. CASE q # p
    <3>1. proc'[q] = proc[q]
      BY <2>3, <1>4
    <3>. QED BY <1>1, <1>2, <2>1, <2>3, <3>1, Typed, SMTT(20) DEF PlaceOK, LockOK, Locks, SlotPlaces, Slots
  <2>. QED BY <2>2, <2>3
<1>8. \A t \in Slots : CountOK(t)'
  <2>1. \A t \in Slots : Uses(p, t)' <=> Uses(p, t)
    BY <1>1, <1>2, <1>4 DEF Uses, PlaceOK, SlotPlaces
  <2>. QED BY <1>1, <1>2, <1>4, <2>1, CountOther DEF InodesInv, PlaceOK, SlotPlaces
<1>9. \A t \in Slots : LockOK(t)'
  BY <1>1, <1>2, <1>4 DEF LockOK, Locks, InodesInv
<1>10. \A id \in Ids : LinksOK(id)'
  <2>. SUFFICES ASSUME NEW id \in Ids PROVE LinksOK(id)'
    OBVIOUS
  <2>1. LinksOK(id) /\ (LookedFor(id)' => LookedFor(id) \/ id = MOUNTED) /\ \A t \in Slots : Reading(t)' <=> Reading(t)
    BY <1>1, <1>2, <1>4 DEF InodesInv, LookedFor, Reading
  <2>. QED BY <1>1, <2>1 DEF LinksOK, Reachable, Having
<1>11. MountRoot' /\ MountAlone' /\ \A q \in Procs : MountPlace(q)'
  <2>1. MountRoot'
    BY <1>1, <1>2, Typed, SMTT(20) DEF MountRoot, Slots
  <2>2. MountAlone'
    BY <1>1, <1>2, <1>4 DEF MountAlone
  <2>3. ASSUME NEW q \in Procs PROVE MountPlace(q)'
    <3>1. MountPlace(q) /\ PlaceOK(q) /\ MountPlace(p) /\ PlaceOK(p)
      BY DEF InodesInv
    <3>. QED BY <1>1, <1>2, <1>4, <3>1, Typed, SMTT(20) DEF MountPlace, PlaceOK, SlotPlaces
  <2>. QED BY <2>1, <2>2, <2>3
<1>12. MountUsed'
  <2>1. PICK t \in Slots : inode[t].mount
    BY <1>1 DEF Covered, Having
  <2>. QED BY <1>1, <1>2, <2>1, Typed DEF MountUsed, IsMounted, MountRoot, Slots
<1>13. OneOK' /\ \A t \in Slots : DiskOK(t)'
  BY <1>1, <1>2 DEF OneOK, DiskOK, InodesInv
<1>. QED BY <1>6, <1>7, <1>8, <1>9, <1>10, <1>11, <1>12, <1>13 DEF InodesInv

\* The last user of an inode without links is alone with it.
LEMMA IputDeleteKeeps ==
    ASSUME ConstantsOK, InodesInv, NEW p \in Procs, IputDelete(p)
    PROVE  InodesInv'
<1>1. PICK s \in Slots :
         /\ At(p, "held") /\ s = proc[p].slot /\ ~ inode[s].lock
         /\ inode[s].count = 1 /\ inode[s].nlinks = 0
         /\ Goes(p, "trunc")
         /\ UNCHANGED <<inode, disk, imap, named, sb, panic>>
  BY DEF IputDelete, Putting
<1>2. /\ TypeOK /\ OneOK /\ MountRoot /\ MountAlone /\ MountUsed
      /\ proc[p].pc = "held" /\ proc[p].slot = s
  BY <1>1 DEF InodesInv, At, Slots, ConstantsOK
<1>4. Does(p, "trunc", s, proc[p].want, proc[p].at)
  BY <1>1, <1>2, DoingRecords DEF Places, ConstantsOK
<1>6. TypeOK'
  BY <1>1, <1>2, <1>4 DEF TypeOK, Does, Becomes
<1>. USE DEF Does, IsDoing, Becomes, IsNode, OnlyProc, OnlySlot
<1>7. \A q \in Procs : PlaceOK(q)'
  <2>. SUFFICES ASSUME NEW q \in Procs PROVE PlaceOK(q)'
    OBVIOUS
  <2>1. PlaceOK(q) /\ PlaceOK(p)
    BY DEF InodesInv
  <2>2. CASE q = p
    BY <1>1, <1>2, <1>4, <2>1, <2>2, SMTT(20) DEF PlaceOK, LockOK, Locks, SlotPlaces, Slots
  <2>3. CASE q # p
    <3>1. proc'[q] = proc[q]
      BY <2>3, <1>4
    <3>. QED BY <1>1, <1>2, <2>1, <2>3, <3>1, Typed, SMTT(20) DEF PlaceOK, LockOK, Locks, SlotPlaces, Slots
  <2>. QED BY <2>2, <2>3
<1>8. \A t \in Slots : CountOK(t)'
  <2>1. \A t \in Slots : Uses(p, t)' <=> Uses(p, t)
    BY <1>1, <1>2, <1>4 DEF Uses, PlaceOK, SlotPlaces
  <2>. QED BY <1>1, <1>2, <1>4, <2>1, CountOther DEF InodesInv, PlaceOK, SlotPlaces
<1>9. \A t \in Slots : LockOK(t)'
  BY <1>1, <1>2, <1>4 DEF LockOK, Locks, InodesInv
<1>10. \A id \in Ids : LinksOK(id)'
  <2>. SUFFICES ASSUME NEW id \in Ids PROVE LinksOK(id)'
    OBVIOUS
  <2>1. LinksOK(id) /\ (LookedFor(id)' => LookedFor(id)) /\ \A t \in Slots : Reading(t)' <=> Reading(t)
    BY <1>1, <1>2, <1>4 DEF InodesInv, LookedFor, Reading
  <2>2. Having(id)' = Having(id) /\ \A t \in Having(id) : inode'[t].nlinks = inode[t].nlinks
    BY <1>1, <1>2 DEF Having
  <2>. QED BY <1>1, <2>1, <2>2, LinksSame DEF Having
<1>11. MountRoot' /\ MountAlone' /\ \A q \in Procs : MountPlace(q)'
  <2>1. MountRoot'
    BY <1>1, <1>2, Typed, SMTT(20) DEF MountRoot, Slots
  <2>2. MountAlone'
    BY <1>1, <1>2, <1>4 DEF MountAlone
  <2>3. ASSUME NEW q \in Procs PROVE MountPlace(q)'
    <3>1. MountPlace(q) /\ PlaceOK(q) /\ MountPlace(p) /\ PlaceOK(p)
      BY DEF InodesInv
    <3>. QED BY <1>1, <1>2, <1>4, <3>1, Typed, SMTT(20) DEF MountPlace, PlaceOK, SlotPlaces
  <2>. QED BY <2>1, <2>2, <2>3
<1>12. MountUsed'
  <2>1. LookedFor(MOUNTED)' => LookedFor(MOUNTED)
    BY <1>1, <1>2, <1>4 DEF LookedFor
  <2>2. IsMounted => inode'[sb.imount].mount
    BY <1>1, <1>2, Typed DEF IsMounted, Slots
  <2>3. ASSUME NEW t \in Slots, inode'[t].id = MOUNTED, inode'[t].count > 0
        PROVE  inode[t].id = MOUNTED /\ inode[t].count > 0
    BY <1>1, <1>2, <2>3, Typed DEF ConstantsOK, Ids
  <2>. QED BY <1>1, <1>2, <2>1, <2>2, <2>3, UsedSame
<1>13. OneOK' /\ \A t \in Slots : DiskOK(t)'
  BY <1>1, <1>2 DEF OneOK, DiskOK, InodesInv
<1>. QED BY <1>6, <1>7, <1>8, <1>9, <1>10, <1>11, <1>12, <1>13 DEF InodesInv

\* sync_inodes begins with the first slot.
LEMMA SyncStartKeeps ==
    ASSUME ConstantsOK, InodesInv, NEW p \in Procs, SyncStart(p)
    PROVE  InodesInv'
<1>1. /\ At(p, "idle")
      /\ proc' = [proc EXCEPT ![p].pc = "sync", ![p].at = 1]
      /\ UNCHANGED <<inode, disk, imap, named, sb, panic>>
  BY DEF SyncStart
<1>2. /\ TypeOK /\ OneOK /\ MountRoot /\ MountAlone /\ MountUsed
      /\ proc[p].pc = "idle" /\ 1 \in 0 .. NR_INODE
  BY <1>1 DEF InodesInv, At, Slots, ConstantsOK
<1>4. Does(p, "sync", proc[p].slot, proc[p].want, 1)
  BY <1>1, <1>2, DoingRecords DEF Places, ConstantsOK
<1>6. TypeOK'
  BY <1>1, <1>2, <1>4 DEF TypeOK, Does, Becomes
<1>. USE DEF Does, IsDoing, Becomes, IsNode, OnlyProc, OnlySlot
<1>7. \A q \in Procs : PlaceOK(q)'
  <2>. SUFFICES ASSUME NEW q \in Procs PROVE PlaceOK(q)'
    OBVIOUS
  <2>1. PlaceOK(q) /\ PlaceOK(p)
    BY DEF InodesInv
  <2>2. CASE q = p
    BY <1>1, <1>2, <1>4, <2>1, <2>2, SMTT(20) DEF PlaceOK, LockOK, Locks, SlotPlaces, Slots
  <2>3. CASE q # p
    <3>1. proc'[q] = proc[q]
      BY <2>3, <1>4
    <3>. QED BY <1>1, <1>2, <2>1, <2>3, <3>1, Typed, SMTT(20) DEF PlaceOK, LockOK, Locks, SlotPlaces, Slots
  <2>. QED BY <2>2, <2>3
<1>8. \A t \in Slots : CountOK(t)'
  <2>1. \A t \in Slots : Uses(p, t)' <=> Uses(p, t)
    BY <1>1, <1>2, <1>4 DEF Uses, PlaceOK, SlotPlaces
  <2>. QED BY <1>1, <1>2, <1>4, <2>1, CountOther DEF InodesInv, PlaceOK, SlotPlaces
<1>9. \A t \in Slots : LockOK(t)'
  BY <1>1, <1>2, <1>4 DEF LockOK, Locks, InodesInv
<1>10. \A id \in Ids : LinksOK(id)'
  <2>. SUFFICES ASSUME NEW id \in Ids PROVE LinksOK(id)'
    OBVIOUS
  <2>1. LinksOK(id) /\ (LookedFor(id)' => LookedFor(id)) /\ \A t \in Slots : Reading(t)' <=> Reading(t)
    BY <1>1, <1>2, <1>4 DEF InodesInv, LookedFor, Reading
  <2>2. Having(id)' = Having(id) /\ \A t \in Having(id) : inode'[t].nlinks = inode[t].nlinks
    BY <1>1, <1>2 DEF Having
  <2>. QED BY <1>1, <2>1, <2>2, LinksSame DEF Having
<1>11. MountRoot' /\ MountAlone' /\ \A q \in Procs : MountPlace(q)'
  <2>1. MountRoot'
    BY <1>1, <1>2, Typed, SMTT(20) DEF MountRoot, Slots
  <2>2. MountAlone'
    BY <1>1, <1>2, <1>4 DEF MountAlone
  <2>3. ASSUME NEW q \in Procs PROVE MountPlace(q)'
    <3>1. MountPlace(q) /\ PlaceOK(q) /\ MountPlace(p) /\ PlaceOK(p)
      BY DEF InodesInv
    <3>. QED BY <1>1, <1>2, <1>4, <3>1, Typed, SMTT(20) DEF MountPlace, PlaceOK, SlotPlaces
  <2>. QED BY <2>1, <2>2, <2>3
<1>12. MountUsed'
  <2>1. LookedFor(MOUNTED)' => LookedFor(MOUNTED)
    BY <1>1, <1>2, <1>4 DEF LookedFor
  <2>2. IsMounted => inode'[sb.imount].mount
    BY <1>1, <1>2, Typed DEF IsMounted, Slots
  <2>3. ASSUME NEW t \in Slots, inode'[t].id = MOUNTED, inode'[t].count > 0
        PROVE  inode[t].id = MOUNTED /\ inode[t].count > 0
    BY <1>1, <1>2, <2>3, Typed DEF ConstantsOK, Ids
  <2>. QED BY <1>1, <1>2, <2>1, <2>2, <2>3, UsedSame
<1>13. OneOK' /\ \A t \in Slots : DiskOK(t)'
  BY <1>1, <1>2 DEF OneOK, DiskOK, InodesInv
<1>. QED BY <1>6, <1>7, <1>8, <1>9, <1>10, <1>11, <1>12, <1>13 DEF InodesInv

\* sync_inodes passes over what is on the disk.
LEMMA SyncSkipKeeps ==
    ASSUME ConstantsOK, InodesInv, NEW p \in Procs, SyncSkip(p)
    PROVE  InodesInv'
<1>1. /\ At(p, "sync")
      /\ IF proc[p].at = NR_INODE THEN Ends(p) ELSE proc' = [proc EXCEPT ![p].at = proc[p].at + 1]
      /\ UNCHANGED <<inode, disk, imap, named, sb, panic>>
  BY DEF SyncSkip
<1>2. /\ TypeOK /\ OneOK /\ MountRoot /\ MountAlone /\ MountUsed
      /\ proc[p].pc = "sync" /\ PlaceOK(p)
  BY <1>1 DEF InodesInv, At, Slots, ConstantsOK
<1>4. PICK pc \in {"idle", "sync"}, slot \in {0, proc[p].slot}, want \in {NULL, proc[p].want}, at \in 0 .. NR_INODE :
         Does(p, pc, slot, want, at) /\ (pc = "sync" => at \in Slots)
  <2>1. CASE proc[p].at = NR_INODE
    <3>1. 0 \in 0 .. NR_INODE /\ Does(p, "idle", 0, NULL, 0)
      BY <1>1, <1>2, <2>1, DoingRecords DEF ConstantsOK
    <3>. QED BY <3>1
  <2>2. CASE proc[p].at # NR_INODE
    <3>1. proc[p].at + 1 \in 0 .. NR_INODE /\ proc[p].at + 1 \in Slots
      BY <1>2, <2>2 DEF PlaceOK, Slots, ConstantsOK
    <3>2. Does(p, "sync", proc[p].slot, proc[p].want, proc[p].at + 1)
      BY <1>1, <1>2, <2>2, <3>1, DoingRecords DEF ConstantsOK
    <3>. QED BY <3>1, <3>2
  <2>. QED BY <2>1, <2>2
<1>6. TypeOK'
  BY <1>1, <1>2, <1>4 DEF TypeOK, Does, Becomes
<1>. USE DEF Does, IsDoing, Becomes, IsNode, OnlyProc, OnlySlot
<1>7. \A q \in Procs : PlaceOK(q)'
  <2>. SUFFICES ASSUME NEW q \in Procs PROVE PlaceOK(q)'
    OBVIOUS
  <2>1. PlaceOK(q) /\ PlaceOK(p)
    BY DEF InodesInv
  <2>2. CASE q = p
    BY <1>1, <1>2, <1>4, <2>1, <2>2, SMTT(20) DEF PlaceOK, LockOK, Locks, SlotPlaces, Slots
  <2>3. CASE q # p
    <3>1. proc'[q] = proc[q]
      BY <2>3, <1>4
    <3>. QED BY <1>1, <1>2, <2>1, <2>3, <3>1, Typed, SMTT(20) DEF PlaceOK, LockOK, Locks, SlotPlaces, Slots
  <2>. QED BY <2>2, <2>3
<1>8. \A t \in Slots : CountOK(t)'
  <2>1. \A t \in Slots : ~ Uses(p, t)' /\ ~ Uses(p, t) /\ proc'[p].slot # t
    <3>1. proc[p].slot \notin Slots /\ 0 \notin Slots
      BY <1>2 DEF PlaceOK, SlotPlaces, Slots
    <3>. QED BY <1>4, <3>1 DEF Uses
  <2>. QED BY <1>1, <1>2, <1>4, <2>1, CountOther DEF InodesInv
<1>9. \A t \in Slots : LockOK(t)'
  BY <1>1, <1>2, <1>4 DEF LockOK, Locks, InodesInv
<1>10. \A id \in Ids : LinksOK(id)'
  <2>. SUFFICES ASSUME NEW id \in Ids PROVE LinksOK(id)'
    OBVIOUS
  <2>1. LinksOK(id) /\ (LookedFor(id)' => LookedFor(id)) /\ \A t \in Slots : Reading(t)' <=> Reading(t)
    BY <1>1, <1>2, <1>4 DEF InodesInv, LookedFor, Reading
  <2>2. Having(id)' = Having(id) /\ \A t \in Having(id) : inode'[t].nlinks = inode[t].nlinks
    BY <1>1, <1>2 DEF Having
  <2>. QED BY <1>1, <2>1, <2>2, LinksSame DEF Having
<1>11. MountRoot' /\ MountAlone' /\ \A q \in Procs : MountPlace(q)'
  <2>1. MountRoot'
    BY <1>1, <1>2, Typed, SMTT(20) DEF MountRoot, Slots
  <2>2. MountAlone'
    BY <1>1, <1>2, <1>4 DEF MountAlone
  <2>3. ASSUME NEW q \in Procs PROVE MountPlace(q)'
    <3>1. MountPlace(q) /\ PlaceOK(q) /\ MountPlace(p) /\ PlaceOK(p)
      BY DEF InodesInv
    <3>. QED BY <1>1, <1>2, <1>4, <3>1, Typed, SMTT(20) DEF MountPlace, PlaceOK, SlotPlaces
  <2>. QED BY <2>1, <2>2, <2>3
<1>12. MountUsed'
  <2>1. LookedFor(MOUNTED)' => LookedFor(MOUNTED)
    BY <1>1, <1>2, <1>4 DEF LookedFor
  <2>2. IsMounted => inode'[sb.imount].mount
    BY <1>1, <1>2, Typed DEF IsMounted, Slots
  <2>3. ASSUME NEW t \in Slots, inode'[t].id = MOUNTED, inode'[t].count > 0
        PROVE  inode[t].id = MOUNTED /\ inode[t].count > 0
    BY <1>1, <1>2, <2>3, Typed DEF ConstantsOK, Ids
  <2>. QED BY <1>1, <1>2, <2>1, <2>2, <2>3, UsedSame
<1>13. OneOK' /\ \A t \in Slots : DiskOK(t)'
  BY <1>1, <1>2 DEF OneOK, DiskOK, InodesInv
<1>. QED BY <1>6, <1>7, <1>8, <1>9, <1>10, <1>11, <1>12, <1>13 DEF InodesInv

\* iget finds the inode nowhere and locks its slot for it: there is still one
\* inode for a number.
LEMMA IgetNewKeeps ==
    ASSUME ConstantsOK, InodesInv, NEW p \in Procs, IgetNew(p)
    PROVE  InodesInv'
<1>a. PICK x : x = Sought(p)
  OBVIOUS
<1>0. PICK s \in Slots : proc[p].slot = s /\ Sought(p) = x
  BY <1>a DEF IgetNew, At, InodesInv, PlaceOK, SlotPlaces
<1>. DEFINE i == inode[s]
<1>1. /\ At(p, "scan") /\ Having(x) = {}
      /\ inode' = [inode EXCEPT ![s] = [@ EXCEPT !.id = x, !.lock = TRUE]]
      /\ Goes(p, "read")
      /\ UNCHANGED <<disk, imap, named, sb, panic>>
  BY <1>0 DEF IgetNew
<1>2. /\ TypeOK /\ OneOK /\ MountRoot /\ MountAlone /\ MountUsed
      /\ proc[p].slot = s /\ s \in Slots /\ proc[p].pc = "scan" /\ i.id = NULL /\ i.count = 1 /\ ~ i.pipe /\ CountOK(s) /\ LockOK(s) /\ PlaceOK(p)
  BY <1>0, <1>1 DEF InodesInv, At, Slots, ConstantsOK, PlaceOK, SlotPlaces
<1>3. /\ x \in Ids /\ x # NULL /\ Having(x) = {} /\ disk[x].nlinks = 1
      /\ x = MOUNTED => IsMounted
      /\ x # MOUNTED => x[2] \in imap
      /\ sb.imount # s /\ \A q \in Procs \ {p} : proc[q].slot # s
      /\ ~ i.lock /\ ~ i.dirt /\ ~ i.mount
  <2>1. proc[p].want \in Ids /\ MOUNTED \in Ids /\ LookedFor(proc[p].want)
    BY <1>2 DEF PlaceOK, LookedFor, Ids
  <2>2. x \in Ids /\ Reachable(x) /\ LinksOK(x) /\ (x # MOUNTED => x = proc[p].want)
    BY <1>0, <2>1 DEF Sought, Reachable, InodesInv
  <2>3. disk[x].nlinks = 1 /\ (x # MOUNTED => x[2] \in imap)
    BY <1>1, <2>1, <2>2 DEF LinksOK
  <2>4. ASSUME x = MOUNTED PROVE IsMounted
    <3>1. CASE proc[p].want = MOUNTED
      BY <1>2, <2>1, <3>1 DEF MountUsed
    <3>2. CASE proc[p].want # MOUNTED
      <4>1. PICK t \in Slots : inode[t].mount
        BY <1>0, <2>4, <3>2 DEF Sought, Covered, Having
      <4>. QED BY <1>2, <4>1 DEF MountRoot, IsMounted, Slots, ConstantsOK
    <3>. QED BY <3>1, <3>2
  <2>5. sb.imount # s /\ \A q \in Procs \ {p} : proc[q].slot # s
    BY <1>2, InUseOnce
  <2>6. ~ i.lock /\ ~ i.dirt /\ ~ i.mount
    BY <1>2 DEF CountOK
  <2>. QED BY <1>1, <2>2, <2>3, <2>4, <2>5, <2>6 DEF ConstantsOK
<1>4. Does(p, "read", s, proc[p].want, proc[p].at)
  BY <1>1, <1>2, <1>3, DoingRecords DEF Places, ConstantsOK
<1>5. Becomes(s, x, 1, TRUE, FALSE, FALSE, FALSE, i.nlinks, i.data)
  BY <1>1, <1>2, <1>3, Typed, NodeRecords
<1>6. TypeOK'
  BY <1>1, <1>2, <1>3, <1>4, <1>5 DEF TypeOK, Does, Becomes
<1>. USE DEF Does, IsDoing, Becomes, IsNode, OnlyProc, OnlySlot
<1>7. \A q \in Procs : PlaceOK(q)'
  <2>. SUFFICES ASSUME NEW q \in Procs PROVE PlaceOK(q)'
    OBVIOUS
  <2>1. PlaceOK(q) /\ PlaceOK(p)
    BY DEF InodesInv
  <2>2. CASE q = p
    BY <1>1, <1>2, <1>3, <1>4, <1>5, <2>1, <2>2, SMTT(20) DEF PlaceOK, LockOK, Locks, SlotPlaces, Slots
  <2>3. CASE q # p
    <3>1. proc'[q] = proc[q]
      BY <2>3, <1>4
    <3>. QED BY <1>1, <1>2, <1>3, <1>5, <2>1, <2>3, <3>1, Typed, SMTT(20) DEF PlaceOK, LockOK, Locks, SlotPlaces, Slots
  <2>. QED BY <2>2, <2>3
<1>8. \A t \in Slots : CountOK(t)'
  <2>1. \A t \in Slots : Uses(p, t)' <=> Uses(p, t)
    BY <1>1, <1>2, <1>3, <1>4 DEF Uses, PlaceOK, SlotPlaces
  <2>2. CountOK(s)'
    <3>1. /\ CountOK(s) /\ ((sb.imount = s)' <=> (sb.imount = s)) /\ inode'[s].count = inode[s].count
          /\ inode'[s].pipe = inode[s].pipe
      BY <1>1, <1>2, <1>3, <1>5 DEF InodesInv
    <3>2. ~ inode[s].pipe => CountTrue(s)'
      BY <1>2, <1>4, <2>1, <3>1, CountStep DEF CountOK
    <3>. QED BY <1>1, <1>2, <1>3, <1>4, <1>5, <3>1, <3>2 DEF CountOK
  <2>3. ASSUME NEW t \in Slots \ {s} PROVE CountOK(t)'
    BY <1>1, <1>2, <1>3, <1>4, <1>5, <2>1, <2>3, CountOther DEF InodesInv
  <2>. QED BY <2>2, <2>3
<1>9. \A t \in Slots : LockOK(t)'
  BY <1>1, <1>2, <1>3, <1>4, <1>5 DEF LockOK, Locks, InodesInv
<1>10. \A id \in Ids : LinksOK(id)'
  <2>. SUFFICES ASSUME NEW id \in Ids PROVE LinksOK(id)'
    OBVIOUS
  <2>1. /\ LinksOK(id) /\ (LookedFor(id)' => LookedFor(id)) /\ Reading(s)'
        /\ \A t \in Slots \ {s} : Reading(t)' <=> Reading(t)
    BY <1>1, <1>2, <1>3, <1>4 DEF InodesInv, LookedFor, Reading
  <2>2. CASE id = x
    <3>1. Having(id)' = {s}
      BY <1>2, <1>3, <1>5, <2>2 DEF Having
    <3>. QED BY <1>1, <1>3, <2>1, <2>2, <3>1 DEF LinksOK, Reachable
  <2>3. CASE id # x
    <3>1. Having(id)' = Having(id) /\ s \notin Having(id)
      BY <1>2, <1>5, <2>3 DEF Having, ConstantsOK
    <3>2. \A t \in Having(id) : inode'[t].nlinks = inode[t].nlinks /\ (Reading(t)' <=> Reading(t))
      BY <1>5, <2>1, <3>1 DEF Having
    <3>. QED BY <1>1, <2>1, <3>1, <3>2, LinksSame
  <2>. QED BY <2>2, <2>3
<1>11. MountRoot' /\ MountAlone' /\ \A q \in Procs : MountPlace(q)'
  <2>1. MountRoot'
    BY <1>1, <1>2, <1>3, <1>5, Typed, SMTT(20) DEF MountRoot, Slots
  <2>2. MountAlone'
    BY <1>1, <1>2, <1>3, <1>4 DEF MountAlone
  <2>3. ASSUME NEW q \in Procs PROVE MountPlace(q)'
    <3>1. MountPlace(q) /\ PlaceOK(q) /\ MountPlace(p) /\ PlaceOK(p)
      BY DEF InodesInv
    <3>. QED BY <1>1, <1>2, <1>3, <1>4, <1>5, <3>1, Typed, SMTT(20) DEF MountPlace, PlaceOK, SlotPlaces
  <2>. QED BY <2>1, <2>2, <2>3
<1>12. MountUsed'
  <2>1. LookedFor(MOUNTED)' => LookedFor(MOUNTED)
    BY <1>1, <1>2, <1>3, <1>4 DEF LookedFor
  <2>2. IsMounted' <=> IsMounted
    BY <1>1, <1>2, <1>3, <1>5, Typed DEF IsMounted, Slots
  <2>3. ASSUME NEW t \in Slots, inode'[t].id = MOUNTED, t # s
        PROVE  inode'[t] = inode[t]
    BY <1>1, <1>2, <1>3, <1>5, <2>3
  <2>. QED BY <1>1, <1>2, <1>3, <1>5, <2>1, <2>2, <2>3 DEF MountUsed, Having
<1>13. OneOK' /\ \A t \in Slots : DiskOK(t)'
  <2>1. OneOK'
    BY <1>2, <1>3, <1>5 DEF OneOK, Having
  <2>2. \A t \in Slots : DiskOK(t)'
    BY <1>1, <1>5 DEF DiskOK, InodesInv
  <2>. QED BY <2>1, <2>2
<1>. QED BY <1>6, <1>7, <1>8, <1>9, <1>10, <1>11, <1>12, <1>13 DEF InodesInv

\* The inode that is read is the one on the disk, and has links.
LEMMA ReadInodeKeeps ==
    ASSUME ConstantsOK, InodesInv, NEW p \in Procs, ReadInode(p)
    PROVE  InodesInv'
<1>0. PICK s \in Slots : proc[p].slot = s
  BY DEF ReadInode, At, InodesInv, PlaceOK, SlotPlaces
<1>. DEFINE i == inode[s]
<1>1. /\ At(p, "read")
      /\ inode' = [inode EXCEPT ![s] = [@ EXCEPT !.lock = FALSE, !.nlinks = disk[inode[s].id].nlinks,
                                               !.data = disk[inode[s].id].data]]
      /\ Holds(p, s)
      /\ UNCHANGED <<disk, imap, named, sb, panic>>
  BY <1>0 DEF ReadInode
<1>2. /\ TypeOK /\ OneOK /\ MountRoot /\ MountAlone /\ MountUsed
      /\ proc[p].slot = s /\ s \in Slots /\ s \in 0 .. NR_INODE /\ proc[p].pc = "read" /\ i.count = 1 /\ ~ i.dirt /\ ~ i.mount /\ ~ i.pipe
      /\ i.id # NULL /\ CountOK(s) /\ LockOK(s) /\ PlaceOK(p)
  BY <1>0, <1>1 DEF InodesInv, At, Slots, ConstantsOK, PlaceOK, SlotPlaces
<1>3. /\ sb.imount # s /\ \A q \in Procs \ {p} : proc[q].slot # s
      /\ i.id \in Ids /\ LinksOK(i.id) /\ disk[i.id].nlinks = 1
  <2>1. sb.imount # s /\ \A q \in Procs \ {p} : proc[q].slot # s
    BY <1>2, InUseOnce
  <2>2. i.id \in Ids
    BY <1>2, Typed
  <2>3. LinksOK(i.id) /\ s \in Having(i.id) /\ Reading(s)
    BY <1>2, <2>2 DEF InodesInv, Having, Reading
  <2>. QED BY <2>1, <2>2, <2>3 DEF LinksOK
<1>4. Does(p, "held", s, NULL, 0)
  BY <1>1, <1>2, <1>3, DoingRecords DEF Places, ConstantsOK
<1>5. Becomes(s, i.id, i.count, FALSE, i.dirt, i.mount, i.pipe, disk[i.id].nlinks, disk[i.id].data)
  BY <1>1, <1>2, <1>3, Typed, NodeRecords
<1>6. TypeOK'
  BY <1>1, <1>2, <1>3, <1>4, <1>5 DEF TypeOK, Does, Becomes
<1>. USE DEF Does, IsDoing, Becomes, IsNode, OnlyProc, OnlySlot
<1>7. \A q \in Procs : PlaceOK(q)'
  <2>. SUFFICES ASSUME NEW q \in Procs PROVE PlaceOK(q)'
    OBVIOUS
  <2>1. PlaceOK(q) /\ PlaceOK(p)
    BY DEF InodesInv
  <2>2. CASE q = p
    BY <1>1, <1>2, <1>3, <1>4, <1>5, <2>1, <2>2, SMTT(20) DEF PlaceOK, LockOK, Locks, SlotPlaces, Slots
  <2>3. CASE q # p
    <3>1. proc'[q] = proc[q]
      BY <2>3, <1>4
    <3>. QED BY <1>1, <1>2, <1>3, <1>5, <2>1, <2>3, <3>1, Typed, SMTT(20) DEF PlaceOK, LockOK, Locks, SlotPlaces, Slots
  <2>. QED BY <2>2, <2>3
<1>8. \A t \in Slots : CountOK(t)'
  <2>1. \A t \in Slots : Uses(p, t)' <=> Uses(p, t)
    BY <1>1, <1>2, <1>3, <1>4 DEF Uses, PlaceOK, SlotPlaces
  <2>2. CountOK(s)'
    <3>1. /\ CountOK(s) /\ ((sb.imount = s)' <=> (sb.imount = s)) /\ inode'[s].count = inode[s].count
          /\ inode'[s].pipe = inode[s].pipe
      BY <1>1, <1>2, <1>3, <1>5 DEF InodesInv
    <3>2. ~ inode[s].pipe => CountTrue(s)'
      BY <1>2, <1>4, <2>1, <3>1, CountStep DEF CountOK
    <3>. QED BY <1>1, <1>2, <1>3, <1>4, <1>5, <3>1, <3>2 DEF CountOK
  <2>3. ASSUME NEW t \in Slots \ {s} PROVE CountOK(t)'
    BY <1>1, <1>2, <1>3, <1>4, <1>5, <2>1, <2>3, CountOther DEF InodesInv
  <2>. QED BY <2>2, <2>3
<1>9. \A t \in Slots : LockOK(t)'
  BY <1>1, <1>2, <1>3, <1>4, <1>5 DEF LockOK, Locks, InodesInv
<1>10. \A id \in Ids : LinksOK(id)'
  <2>. SUFFICES ASSUME NEW id \in Ids PROVE LinksOK(id)'
    OBVIOUS
  <2>1. /\ LinksOK(id) /\ (LookedFor(id)' => LookedFor(id)) /\ ~ Reading(s)'
        /\ \A t \in Slots \ {s} : Reading(t)' <=> Reading(t)
    BY <1>1, <1>2, <1>3, <1>4, <1>5 DEF InodesInv, LookedFor, Reading
  <2>2. Having(id)' = Having(id)
    BY <1>2, <1>5 DEF Having
  <2>3. CASE s \notin Having(id)
    BY <1>1, <1>5, <2>1, <2>2, <2>3, LinksSame DEF Having
  <2>4. CASE s \in Having(id)
    <3>1. id = i.id /\ Having(id) = {s}
      BY <1>2, <2>4 DEF Having, OneOK
    <3>. QED BY <1>1, <1>3, <1>5, <2>1, <2>2, <3>1 DEF LinksOK, Reachable
  <2>. QED BY <2>3, <2>4
<1>11. MountRoot' /\ MountAlone' /\ \A q \in Procs : MountPlace(q)'
  <2>1. MountRoot'
    BY <1>1, <1>2, <1>3, <1>5, Typed, SMTT(20) DEF MountRoot, Slots
  <2>2. MountAlone'
    BY <1>1, <1>2, <1>3, <1>4 DEF MountAlone
  <2>3. ASSUME NEW q \in Procs PROVE MountPlace(q)'
    <3>1. MountPlace(q) /\ PlaceOK(q) /\ MountPlace(p) /\ PlaceOK(p)
      BY DEF InodesInv
    <3>. QED BY <1>1, <1>2, <1>3, <1>4, <1>5, <3>1, Typed, SMTT(20) DEF MountPlace, PlaceOK, SlotPlaces
  <2>. QED BY <2>1, <2>2, <2>3
<1>12. MountUsed'
  <2>1. LookedFor(MOUNTED)' => LookedFor(MOUNTED)
    BY <1>1, <1>2, <1>3, <1>4 DEF LookedFor
  <2>2. IsMounted => inode'[sb.imount].mount
    BY <1>1, <1>2, <1>3, <1>5, Typed DEF IsMounted, Slots
  <2>3. ASSUME NEW t \in Slots, inode'[t].id = MOUNTED, inode'[t].count > 0
        PROVE  inode[t].id = MOUNTED /\ inode[t].count > 0
    BY <1>1, <1>2, <1>3, <1>5, <2>3, Typed DEF ConstantsOK, Ids
  <2>. QED BY <1>1, <1>2, <1>3, <1>5, <2>1, <2>2, <2>3, UsedSame
<1>13. OneOK' /\ \A t \in Slots : DiskOK(t)'
  BY <1>1, <1>2, <1>3, <1>5 DEF OneOK, DiskOK, InodesInv
<1>. QED BY <1>6, <1>7, <1>8, <1>9, <1>10, <1>11, <1>12, <1>13 DEF InodesInv

\* A change marks the inode.
LEMMA ChangeKeeps ==
    ASSUME ConstantsOK, InodesInv, NEW p \in Procs, Change(p)
    PROVE  InodesInv'
<1>0. PICK s \in Slots : proc[p].slot = s
  BY DEF Change, At, InodesInv, PlaceOK, SlotPlaces
<1>. DEFINE i == inode[s]
<1>1. /\ At(p, "held") /\ i.nlinks > 0
      /\ inode' = [inode EXCEPT ![s] = [@ EXCEPT !.data = 1 - i.data, !.dirt = TRUE]]
      /\ UNCHANGED <<disk, imap, named, sb, proc, panic>>
  BY <1>0 DEF Change
<1>2. /\ TypeOK /\ OneOK /\ MountRoot /\ MountAlone /\ MountUsed
      /\ proc[p].slot = s /\ s \in Slots /\ s \in 0 .. NR_INODE /\ proc[p].pc = "held" /\ i.id # NULL /\ ~ i.pipe
      /\ CountOK(s) /\ LockOK(s) /\ DiskOK(s) /\ PlaceOK(p)
  BY <1>0, <1>1 DEF InodesInv, At, Slots, ConstantsOK, PlaceOK, SlotPlaces
<1>3. /\ i.count > 0 /\ ~ Reading(s) /\ 1 - i.data \in {0, 1}
      /\ \A q \in Procs \ {p} : proc[q].slot = s => proc[q].pc \notin {"read", "trunc"}
  BY <1>2, InUse, ReadAlone, Typed
<1>4. OnlyProc(p) /\ proc'[p] = proc[p] /\ proc' \in [Procs -> Doing]
  BY <1>1, <1>2 DEF OnlyProc, TypeOK
<1>5. Becomes(s, i.id, i.count, i.lock, TRUE, i.mount, i.pipe, i.nlinks, 1 - i.data)
  BY <1>1, <1>2, <1>3, Typed, NodeRecords
<1>6. TypeOK'
  BY <1>1, <1>2, <1>3, <1>4, <1>5 DEF TypeOK, Does, Becomes
<1>. USE DEF Does, IsDoing, Becomes, IsNode, OnlyProc, OnlySlot
<1>7. \A q \in Procs : PlaceOK(q)'
  <2>. SUFFICES ASSUME NEW q \in Procs PROVE PlaceOK(q)'
    OBVIOUS
  <2>1. PlaceOK(q) /\ PlaceOK(p)
    BY DEF InodesInv
  <2>2. CASE q = p
    BY <1>1, <1>2, <1>3, <1>4, <1>5, <2>1, <2>2, SMTT(20) DEF PlaceOK, LockOK, Locks, SlotPlaces, Slots
  <2>3. CASE q # p
    <3>1. proc'[q] = proc[q]
      BY <2>3, <1>4
    <3>. QED BY <1>1, <1>2, <1>3, <1>5, <2>1, <2>3, <3>1, Typed, SMTT(20) DEF PlaceOK, LockOK, Locks, SlotPlaces, Slots
  <2>. QED BY <2>2, <2>3
<1>8. \A t \in Slots : CountOK(t)'
  <2>1. \A t \in Slots : Uses(p, t)' <=> Uses(p, t)
    BY <1>1, <1>2, <1>3, <1>4 DEF Uses, PlaceOK, SlotPlaces
  <2>2. CountOK(s)'
    <3>1. /\ CountOK(s) /\ ((sb.imount = s)' <=> (sb.imount = s)) /\ inode'[s].count = inode[s].count
          /\ inode'[s].pipe = inode[s].pipe
      BY <1>1, <1>2, <1>3, <1>5 DEF InodesInv
    <3>2. ~ inode[s].pipe => CountTrue(s)'
      BY <1>2, <1>4, <2>1, <3>1, CountStep DEF CountOK
    <3>. QED BY <1>1, <1>2, <1>3, <1>4, <1>5, <3>1, <3>2 DEF CountOK
  <2>3. ASSUME NEW t \in Slots \ {s} PROVE CountOK(t)'
    BY <1>1, <1>2, <1>3, <1>4, <1>5, <2>1, <2>3, CountOther DEF InodesInv
  <2>. QED BY <2>2, <2>3
<1>9. \A t \in Slots : LockOK(t)'
  BY <1>1, <1>2, <1>3, <1>4, <1>5 DEF LockOK, Locks, InodesInv
<1>10. \A id \in Ids : LinksOK(id)'
  <2>. SUFFICES ASSUME NEW id \in Ids PROVE LinksOK(id)'
    OBVIOUS
  <2>1. LinksOK(id) /\ (LookedFor(id)' => LookedFor(id)) /\ \A t \in Slots : Reading(t)' <=> Reading(t)
    BY <1>1, <1>2, <1>3, <1>4 DEF InodesInv, LookedFor, Reading
  <2>2. Having(id)' = Having(id) /\ \A t \in Having(id) : inode'[t].nlinks = inode[t].nlinks
    BY <1>1, <1>2, <1>3, <1>5 DEF Having
  <2>. QED BY <1>1, <2>1, <2>2, LinksSame DEF Having
<1>11. MountRoot' /\ MountAlone' /\ \A q \in Procs : MountPlace(q)'
  <2>1. MountRoot'
    BY <1>1, <1>2, <1>3, <1>5, Typed, SMTT(20) DEF MountRoot, Slots
  <2>2. MountAlone'
    BY <1>1, <1>2, <1>3, <1>4 DEF MountAlone
  <2>3. ASSUME NEW q \in Procs PROVE MountPlace(q)'
    <3>1. MountPlace(q) /\ PlaceOK(q) /\ MountPlace(p) /\ PlaceOK(p)
      BY DEF InodesInv
    <3>. QED BY <1>1, <1>2, <1>3, <1>4, <1>5, <3>1, Typed, SMTT(20) DEF MountPlace, PlaceOK, SlotPlaces
  <2>. QED BY <2>1, <2>2, <2>3
<1>12. MountUsed'
  <2>1. LookedFor(MOUNTED)' => LookedFor(MOUNTED)
    BY <1>1, <1>2, <1>3, <1>4 DEF LookedFor
  <2>2. IsMounted => inode'[sb.imount].mount
    BY <1>1, <1>2, <1>3, <1>5, Typed DEF IsMounted, Slots
  <2>3. ASSUME NEW t \in Slots, inode'[t].id = MOUNTED, inode'[t].count > 0
        PROVE  inode[t].id = MOUNTED /\ inode[t].count > 0
    BY <1>1, <1>2, <1>3, <1>5, <2>3, Typed DEF ConstantsOK, Ids
  <2>. QED BY <1>1, <1>2, <1>3, <1>5, <2>1, <2>2, <2>3, UsedSame
<1>13. OneOK' /\ \A t \in Slots : DiskOK(t)'
  BY <1>1, <1>2, <1>3, <1>5 DEF OneOK, DiskOK, InodesInv
<1>. QED BY <1>6, <1>7, <1>8, <1>9, <1>10, <1>11, <1>12, <1>13 DEF InodesInv

\* A number that gets a name is in use, and its inode has links.
LEMMA AddEntryKeeps ==
    ASSUME ConstantsOK, InodesInv, NEW p \in Procs, AddEntry(p)
    PROVE  InodesInv'
<1>0. PICK s \in Slots : proc[p].slot = s
  BY DEF AddEntry, At, InodesInv, PlaceOK, SlotPlaces
<1>. DEFINE i == inode[s]
<1>1. /\ At(p, "held") /\ i.id[1] = 1 /\ i.nlinks > 0 /\ i.id[2] \notin named
      /\ named' = named \cup {i.id[2]}
      /\ UNCHANGED <<inode, disk, imap, sb, proc, panic>>
  BY <1>0 DEF AddEntry
<1>2. /\ TypeOK /\ OneOK /\ MountRoot /\ MountAlone /\ MountUsed
      /\ proc[p].slot = s /\ s \in Slots /\ s \in 0 .. NR_INODE /\ proc[p].pc = "held" /\ i.id # NULL /\ ~ i.pipe
      /\ CountOK(s) /\ LockOK(s) /\ DiskOK(s) /\ PlaceOK(p)
  BY <1>0, <1>1 DEF InodesInv, At, Slots, ConstantsOK, PlaceOK, SlotPlaces
<1>3. ~ Reading(s) /\ i.id \in Ids /\ i.id # MOUNTED /\ i.nlinks = 1 /\ i.id[2] \in imap
  <2>1. ~ Reading(s) /\ i.id \in Ids /\ i.id # MOUNTED /\ i.nlinks = 1
    BY <1>1, <1>2, ReadAlone, Typed DEF MOUNTED
  <2>2. s \in Having(i.id) /\ LinksOK(i.id)
    BY <1>2, <2>1 DEF Having, InodesInv
  <2>. QED BY <2>1, <2>2 DEF LinksOK
<1>4. OnlyProc(p) /\ proc'[p] = proc[p] /\ proc' \in [Procs -> Doing]
  BY <1>1, <1>2 DEF OnlyProc, TypeOK
<1>6. TypeOK'
  BY <1>1, <1>2, <1>3, <1>4 DEF TypeOK, Does, Becomes
<1>. USE DEF Does, IsDoing, Becomes, IsNode, OnlyProc, OnlySlot
<1>7. \A q \in Procs : PlaceOK(q)'
  <2>. SUFFICES ASSUME NEW q \in Procs PROVE PlaceOK(q)'
    OBVIOUS
  <2>1. PlaceOK(q) /\ PlaceOK(p)
    BY DEF InodesInv
  <2>2. CASE q = p
    BY <1>1, <1>2, <1>3, <1>4, <2>1, <2>2, SMTT(20) DEF PlaceOK, LockOK, Locks, SlotPlaces, Slots
  <2>3. CASE q # p
    <3>1. proc'[q] = proc[q]
      BY <2>3, <1>4
    <3>. QED BY <1>1, <1>2, <1>3, <2>1, <2>3, <3>1, Typed, SMTT(20) DEF PlaceOK, LockOK, Locks, SlotPlaces, Slots
  <2>. QED BY <2>2, <2>3
<1>8. \A t \in Slots : CountOK(t)'
  <2>1. \A t \in Slots : Uses(p, t)' <=> Uses(p, t)
    BY <1>1, <1>2, <1>3, <1>4 DEF Uses, PlaceOK, SlotPlaces
  <2>. QED BY <1>1, <1>2, <1>3, <1>4, <2>1, CountOther DEF InodesInv, PlaceOK, SlotPlaces
<1>9. \A t \in Slots : LockOK(t)'
  BY <1>1, <1>2, <1>3, <1>4 DEF LockOK, Locks, InodesInv
<1>10. \A id \in Ids : LinksOK(id)'
  <2>. SUFFICES ASSUME NEW id \in Ids PROVE LinksOK(id)'
    OBVIOUS
  <2>1. /\ LinksOK(id) /\ (LookedFor(id)' <=> LookedFor(id)) /\ \A t \in Slots : Reading(t)' <=> Reading(t)
        /\ Having(id)' = Having(id) /\ \A t \in Having(id) : inode'[t].nlinks = inode[t].nlinks
    BY <1>1 DEF InodesInv, LookedFor, Reading, Having
  <2>2. CASE id = i.id
    <3>1. Having(id) = {s}
      BY <1>2, <2>2 DEF Having, OneOK
    <3>. QED BY <1>1, <1>3, <2>1, <2>2, <3>1 DEF LinksOK, Reachable
  <2>3. CASE id # i.id
    <3>1. Reachable(id)' => Reachable(id)
      BY <1>1, <1>3, <2>1, <2>3 DEF Reachable, Ids
    <3>. QED BY <1>1, <2>1, <3>1 DEF LinksOK, Having
  <2>. QED BY <2>2, <2>3
<1>11. MountRoot' /\ MountAlone' /\ \A q \in Procs : MountPlace(q)'
  <2>1. MountRoot'
    BY <1>1, <1>2, <1>3, Typed, SMTT(20) DEF MountRoot, Slots
  <2>2. MountAlone'
    BY <1>1, <1>2, <1>3, <1>4 DEF MountAlone
  <2>3. ASSUME NEW q \in Procs PROVE MountPlace(q)'
    <3>1. MountPlace(q) /\ PlaceOK(q) /\ MountPlace(p) /\ PlaceOK(p)
      BY DEF InodesInv
    <3>. QED BY <1>1, <1>2, <1>3, <1>4, <3>1, Typed, SMTT(20) DEF MountPlace, PlaceOK, SlotPlaces
  <2>. QED BY <2>1, <2>2, <2>3
<1>12. MountUsed'
  <2>1. LookedFor(MOUNTED)' => LookedFor(MOUNTED)
    BY <1>1, <1>2, <1>3, <1>4 DEF LookedFor
  <2>2. IsMounted => inode'[sb.imount].mount
    BY <1>1, <1>2, <1>3, Typed DEF IsMounted, Slots
  <2>3. ASSUME NEW t \in Slots, inode'[t].id = MOUNTED, inode'[t].count > 0
        PROVE  inode[t].id = MOUNTED /\ inode[t].count > 0
    BY <1>1, <1>2, <1>3, <2>3, Typed DEF ConstantsOK, Ids
  <2>. QED BY <1>1, <1>2, <1>3, <2>1, <2>2, <2>3, UsedSame
<1>13. OneOK' /\ \A t \in Slots : DiskOK(t)'
  BY <1>1, <1>2, <1>3 DEF OneOK, DiskOK, InodesInv
<1>. QED BY <1>6, <1>7, <1>8, <1>9, <1>10, <1>11, <1>12, <1>13 DEF InodesInv

\* The last name goes away: nobody looks for the inode any more.
LEMMA UnlinkKeeps ==
    ASSUME ConstantsOK, ~ raced', InodesInv, NEW p \in Procs, Unlink(p)
    PROVE  InodesInv'
<1>0. PICK s \in Slots : proc[p].slot = s
  BY DEF Unlink, At, InodesInv, PlaceOK, SlotPlaces
<1>. DEFINE i == inode[s]
<1>1. /\ At(p, "held") /\ i.id[1] = 1 /\ i.nlinks > 0 /\ i.id[2] \in named \ {2} /\ ~ LookedFor(i.id)
      /\ named' = named \ {i.id[2]}
      /\ inode' = [inode EXCEPT ![s] = [@ EXCEPT !.nlinks = 0, !.dirt = TRUE]]
      /\ UNCHANGED <<disk, imap, sb, proc, panic>>
  BY <1>0 DEF Unlink
<1>2. /\ TypeOK /\ OneOK /\ MountRoot /\ MountAlone /\ MountUsed
      /\ proc[p].slot = s /\ s \in Slots /\ s \in 0 .. NR_INODE /\ proc[p].pc = "held" /\ i.id # NULL /\ ~ i.pipe
      /\ CountOK(s) /\ LockOK(s) /\ DiskOK(s) /\ PlaceOK(p)
  BY <1>0, <1>1 DEF InodesInv, At, Slots, ConstantsOK, PlaceOK, SlotPlaces
<1>3. /\ i.count > 0 /\ ~ Reading(s) /\ i.id \in Ids /\ i.id # MOUNTED
      /\ \A q \in Procs \ {p} : proc[q].slot = s => proc[q].pc \notin {"read", "trunc"}
  BY <1>1, <1>2, InUse, ReadAlone, Typed DEF MOUNTED
<1>4. OnlyProc(p) /\ proc'[p] = proc[p] /\ proc' \in [Procs -> Doing]
  BY <1>1, <1>2 DEF OnlyProc, TypeOK
<1>5. Becomes(s, i.id, i.count, i.lock, TRUE, i.mount, i.pipe, 0, i.data)
  BY <1>1, <1>2, <1>3, Typed, NodeRecords
<1>6. TypeOK'
  BY <1>1, <1>2, <1>3, <1>4, <1>5 DEF TypeOK, Does, Becomes
<1>. USE DEF Does, IsDoing, Becomes, IsNode, OnlyProc, OnlySlot
<1>7. \A q \in Procs : PlaceOK(q)'
  <2>. SUFFICES ASSUME NEW q \in Procs PROVE PlaceOK(q)'
    OBVIOUS
  <2>1. PlaceOK(q) /\ PlaceOK(p)
    BY DEF InodesInv
  <2>2. CASE q = p
    BY <1>1, <1>2, <1>3, <1>4, <1>5, <2>1, <2>2, SMTT(20) DEF PlaceOK, LockOK, Locks, SlotPlaces, Slots
  <2>3. CASE q # p
    <3>1. proc'[q] = proc[q]
      BY <2>3, <1>4
    <3>. QED BY <1>1, <1>2, <1>3, <1>5, <2>1, <2>3, <3>1, Typed, SMTT(20) DEF PlaceOK, LockOK, Locks, SlotPlaces, Slots
  <2>. QED BY <2>2, <2>3
<1>8. \A t \in Slots : CountOK(t)'
  <2>1. \A t \in Slots : Uses(p, t)' <=> Uses(p, t)
    BY <1>1, <1>2, <1>3, <1>4 DEF Uses, PlaceOK, SlotPlaces
  <2>2. CountOK(s)'
    <3>1. /\ CountOK(s) /\ ((sb.imount = s)' <=> (sb.imount = s)) /\ inode'[s].count = inode[s].count
          /\ inode'[s].pipe = inode[s].pipe
      BY <1>1, <1>2, <1>3, <1>5 DEF InodesInv
    <3>2. ~ inode[s].pipe => CountTrue(s)'
      BY <1>2, <1>4, <2>1, <3>1, CountStep DEF CountOK
    <3>. QED BY <1>1, <1>2, <1>3, <1>4, <1>5, <3>1, <3>2 DEF CountOK
  <2>3. ASSUME NEW t \in Slots \ {s} PROVE CountOK(t)'
    BY <1>1, <1>2, <1>3, <1>4, <1>5, <2>1, <2>3, CountOther DEF InodesInv
  <2>. QED BY <2>2, <2>3
<1>9. \A t \in Slots : LockOK(t)'
  BY <1>1, <1>2, <1>3, <1>4, <1>5 DEF LockOK, Locks, InodesInv
<1>10. \A id \in Ids : LinksOK(id)'
  <2>. SUFFICES ASSUME NEW id \in Ids PROVE LinksOK(id)'
    OBVIOUS
  <2>1. /\ LinksOK(id) /\ (LookedFor(id)' <=> LookedFor(id)) /\ \A t \in Slots : Reading(t)' <=> Reading(t)
    BY <1>1 DEF InodesInv, LookedFor, Reading
  <2>2. Having(id)' = Having(id)
    BY <1>2, <1>5 DEF Having
  <2>3. CASE id = i.id
    <3>1. ~ Reachable(id)'
      BY <1>1, <1>3, <2>1, <2>3 DEF Reachable
    <3>. QED BY <1>1, <2>1, <2>2, <3>1 DEF LinksOK, Having
  <2>4. CASE id # i.id
    <3>1. Reachable(id)' => Reachable(id)
      BY <1>1, <2>1 DEF Reachable
    <3>2. \A t \in Having(id) : inode'[t] = inode[t]
      BY <1>5, <2>4 DEF Having
    <3>. QED BY <1>1, <2>1, <2>2, <3>1, <3>2 DEF LinksOK, Having
  <2>. QED BY <2>3, <2>4
<1>11. MountRoot' /\ MountAlone' /\ \A q \in Procs : MountPlace(q)'
  <2>1. MountRoot'
    BY <1>1, <1>2, <1>3, <1>5, Typed, SMTT(20) DEF MountRoot, Slots
  <2>2. MountAlone'
    BY <1>1, <1>2, <1>3, <1>4 DEF MountAlone
  <2>3. ASSUME NEW q \in Procs PROVE MountPlace(q)'
    <3>1. MountPlace(q) /\ PlaceOK(q) /\ MountPlace(p) /\ PlaceOK(p)
      BY DEF InodesInv
    <3>. QED BY <1>1, <1>2, <1>3, <1>4, <1>5, <3>1, Typed, SMTT(20) DEF MountPlace, PlaceOK, SlotPlaces
  <2>. QED BY <2>1, <2>2, <2>3
<1>12. MountUsed'
  <2>1. LookedFor(MOUNTED)' => LookedFor(MOUNTED)
    BY <1>1, <1>2, <1>3, <1>4 DEF LookedFor
  <2>2. IsMounted => inode'[sb.imount].mount
    BY <1>1, <1>2, <1>3, <1>5, Typed DEF IsMounted, Slots
  <2>3. ASSUME NEW t \in Slots, inode'[t].id = MOUNTED, inode'[t].count > 0
        PROVE  inode[t].id = MOUNTED /\ inode[t].count > 0
    BY <1>1, <1>2, <1>3, <1>5, <2>3, Typed DEF ConstantsOK, Ids
  <2>. QED BY <1>1, <1>2, <1>3, <1>5, <2>1, <2>2, <2>3, UsedSame
<1>13. OneOK' /\ \A t \in Slots : DiskOK(t)'
  BY <1>1, <1>2, <1>3, <1>5 DEF OneOK, DiskOK, InodesInv
<1>. QED BY <1>6, <1>7, <1>8, <1>9, <1>10, <1>11, <1>12, <1>13 DEF InodesInv

\* One user of several leaves.
LEMMA IputSharedKeeps ==
    ASSUME ConstantsOK, InodesInv, NEW p \in Procs, IputShared(p)
    PROVE  InodesInv'
<1>0. PICK s \in Slots : proc[p].slot = s
  BY DEF IputShared, Putting, At, InodesInv, PlaceOK, SlotPlaces
<1>. DEFINE i == inode[s]
<1>1. /\ At(p, "held") /\ ~ i.lock /\ i.count > 1
      /\ inode' = [inode EXCEPT ![s].count = @ - 1]
      /\ Ends(p)
      /\ UNCHANGED <<disk, imap, named, sb, panic>>
  BY <1>0 DEF IputShared, Putting
<1>2. /\ TypeOK /\ OneOK /\ MountRoot /\ MountAlone /\ MountUsed
      /\ proc[p].slot = s /\ s \in Slots /\ s \in 0 .. NR_INODE /\ proc[p].pc = "held" /\ i.id # NULL /\ ~ i.pipe
      /\ CountOK(s) /\ LockOK(s) /\ DiskOK(s) /\ PlaceOK(p)
  BY <1>0, <1>1 DEF InodesInv, At, Slots, ConstantsOK, PlaceOK, SlotPlaces
<1>3. /\ i.count > 0 /\ ~ Reading(s) /\ i.count - 1 \in Nat /\ i.count - 1 > 0
      /\ \A q \in Procs \ {p} : proc[q].slot = s => proc[q].pc \notin {"read", "trunc"}
  BY <1>1, <1>2, InUse, ReadAlone, Typed
<1>4. Does(p, "idle", 0, NULL, 0)
  BY <1>1, <1>2, <1>3, DoingRecords DEF Places, ConstantsOK
<1>5. Becomes(s, i.id, i.count - 1, i.lock, i.dirt, i.mount, i.pipe, i.nlinks, i.data)
  BY <1>1, <1>2, <1>3, Typed, NodeRecords
<1>6. TypeOK'
  BY <1>1, <1>2, <1>3, <1>4, <1>5 DEF TypeOK, Does, Becomes
<1>. USE DEF Does, IsDoing, Becomes, IsNode, OnlyProc, OnlySlot
<1>7. \A q \in Procs : PlaceOK(q)'
  <2>. SUFFICES ASSUME NEW q \in Procs PROVE PlaceOK(q)'
    OBVIOUS
  <2>1. PlaceOK(q) /\ PlaceOK(p)
    BY DEF InodesInv
  <2>2. CASE q = p
    BY <1>1, <1>2, <1>3, <1>4, <1>5, <2>1, <2>2, SMTT(20) DEF PlaceOK, LockOK, Locks, SlotPlaces, Slots
  <2>3. CASE q # p
    <3>1. proc'[q] = proc[q]
      BY <2>3, <1>4
    <3>. QED BY <1>1, <1>2, <1>3, <1>5, <2>1, <2>3, <3>1, Typed, SMTT(20) DEF PlaceOK, LockOK, Locks, SlotPlaces, Slots
  <2>. QED BY <2>2, <2>3
<1>8. \A t \in Slots : CountOK(t)'
  <2>1. Uses(p, s) /\ ~ Uses(p, s)' /\ \A t \in Slots \ {s} : ~ Uses(p, t) /\ ~ Uses(p, t)'
    BY <1>2, <1>4 DEF Uses, PlaceOK, SlotPlaces, Slots
  <2>2. CountTrue(s) /\ ((sb.imount = s)' <=> (sb.imount = s)) /\ inode'[s].count = inode[s].count - 1
    BY <1>1, <1>2, <1>3, <1>5 DEF CountOK
  <2>3. CountOK(s)'
    <3>1. CountTrue(s)'
      BY <1>2, <1>4, <2>1, <2>2, CountStep
    <3>. QED BY <1>1, <1>2, <1>3, <1>5, <3>1, Typed DEF CountOK
  <2>4. ASSUME NEW t \in Slots \ {s} PROVE CountOK(t)'
    BY <1>1, <1>2, <1>3, <1>4, <1>5, <2>1, <2>4, CountOther DEF InodesInv, Slots
  <2>. QED BY <2>3, <2>4
<1>9. \A t \in Slots : LockOK(t)'
  BY <1>1, <1>2, <1>3, <1>4, <1>5 DEF LockOK, Locks, InodesInv
<1>10. \A id \in Ids : LinksOK(id)'
  <2>. SUFFICES ASSUME NEW id \in Ids PROVE LinksOK(id)'
    OBVIOUS
  <2>1. LinksOK(id) /\ (LookedFor(id)' => LookedFor(id)) /\ \A t \in Slots : Reading(t)' <=> Reading(t)
    BY <1>1, <1>2, <1>3, <1>4 DEF InodesInv, LookedFor, Reading
  <2>2. Having(id)' = Having(id) /\ \A t \in Having(id) : inode'[t].nlinks = inode[t].nlinks
    BY <1>1, <1>2, <1>3, <1>5 DEF Having
  <2>. QED BY <1>1, <2>1, <2>2, LinksSame DEF Having
<1>11. MountRoot' /\ MountAlone' /\ \A q \in Procs : MountPlace(q)'
  <2>1. MountRoot'
    BY <1>1, <1>2, <1>3, <1>5, Typed, SMTT(20) DEF MountRoot, Slots
  <2>2. MountAlone'
    BY <1>1, <1>2, <1>3, <1>4 DEF MountAlone
  <2>3. ASSUME NEW q \in Procs PROVE MountPlace(q)'
    <3>1. MountPlace(q) /\ PlaceOK(q) /\ MountPlace(p) /\ PlaceOK(p)
      BY DEF InodesInv
    <3>. QED BY <1>1, <1>2, <1>3, <1>4, <1>5, <3>1, Typed, SMTT(20) DEF MountPlace, PlaceOK, SlotPlaces
  <2>. QED BY <2>1, <2>2, <2>3
<1>12. MountUsed'
  <2>1. LookedFor(MOUNTED)' => LookedFor(MOUNTED)
    BY <1>1, <1>2, <1>3, <1>4 DEF LookedFor
  <2>2. IsMounted => inode'[sb.imount].mount
    BY <1>1, <1>2, <1>3, <1>5, Typed DEF IsMounted, Slots
  <2>3. ASSUME NEW t \in Slots, inode'[t].id = MOUNTED, inode'[t].count > 0
        PROVE  inode[t].id = MOUNTED /\ inode[t].count > 0
    BY <1>1, <1>2, <1>3, <1>5, <2>3, Typed DEF ConstantsOK, Ids
  <2>. QED BY <1>1, <1>2, <1>3, <1>5, <2>1, <2>2, <2>3, UsedSame
<1>13. OneOK' /\ \A t \in Slots : DiskOK(t)'
  BY <1>1, <1>2, <1>3, <1>5 DEF OneOK, DiskOK, InodesInv
<1>. QED BY <1>6, <1>7, <1>8, <1>9, <1>10, <1>11, <1>12, <1>13 DEF InodesInv

\* The last user leaves an inode that is on the disk.
LEMMA IputCleanKeeps ==
    ASSUME ConstantsOK, InodesInv, NEW p \in Procs, IputClean(p)
    PROVE  InodesInv'
<1>0. PICK s \in Slots : proc[p].slot = s
  BY DEF IputClean, Putting, At, InodesInv, PlaceOK, SlotPlaces
<1>. DEFINE i == inode[s]
<1>1. /\ At(p, "held") /\ ~ i.lock /\ i.count = 1 /\ i.nlinks > 0 /\ ~ i.dirt
      /\ inode' = [inode EXCEPT ![s].count = 0]
      /\ Ends(p)
      /\ UNCHANGED <<disk, imap, named, sb, panic>>
  BY <1>0 DEF IputClean, Putting
<1>2. /\ TypeOK /\ OneOK /\ MountRoot /\ MountAlone /\ MountUsed
      /\ proc[p].slot = s /\ s \in Slots /\ s \in 0 .. NR_INODE /\ proc[p].pc = "held" /\ i.id # NULL /\ ~ i.pipe
      /\ CountOK(s) /\ LockOK(s) /\ DiskOK(s) /\ PlaceOK(p)
  BY <1>0, <1>1 DEF InodesInv, At, Slots, ConstantsOK, PlaceOK, SlotPlaces
<1>3. sb.imount # s /\ \A q \in Procs \ {p} : proc[q].slot # s
  BY <1>1, <1>2, InUseOnce
<1>4. Does(p, "idle", 0, NULL, 0)
  BY <1>1, <1>2, <1>3, DoingRecords DEF Places, ConstantsOK
<1>5. Becomes(s, i.id, 0, i.lock, i.dirt, i.mount, i.pipe, i.nlinks, i.data)
  BY <1>1, <1>2, <1>3, Typed, NodeRecords
<1>6. TypeOK'
  BY <1>1, <1>2, <1>3, <1>4, <1>5 DEF TypeOK, Does, Becomes
<1>. USE DEF Does, IsDoing, Becomes, IsNode, OnlyProc, OnlySlot
<1>7. \A q \in Procs : PlaceOK(q)'
  <2>. SUFFICES ASSUME NEW q \in Procs PROVE PlaceOK(q)'
    OBVIOUS
  <2>1. PlaceOK(q) /\ PlaceOK(p)
    BY DEF InodesInv
  <2>2. CASE q = p
    BY <1>1, <1>2, <1>3, <1>4, <1>5, <2>1, <2>2, SMTT(20) DEF PlaceOK, LockOK, Locks, SlotPlaces, Slots
  <2>3. CASE q # p
    <3>1. proc'[q] = proc[q]
      BY <2>3, <1>4
    <3>. QED BY <1>1, <1>2, <1>3, <1>5, <2>1, <2>3, <3>1, Typed, SMTT(20) DEF PlaceOK, LockOK, Locks, SlotPlaces, Slots
  <2>. QED BY <2>2, <2>3
<1>8. \A t \in Slots : CountOK(t)'
  <2>1. Uses(p, s) /\ ~ Uses(p, s)' /\ \A t \in Slots \ {s} : ~ Uses(p, t) /\ ~ Uses(p, t)'
    BY <1>2, <1>4 DEF Uses, PlaceOK, SlotPlaces, Slots
  <2>2. CountTrue(s) /\ ((sb.imount = s)' <=> (sb.imount = s)) /\ inode'[s].count = inode[s].count - 1
    BY <1>1, <1>2, <1>3, <1>5 DEF CountOK
  <2>3. CountOK(s)'
    <3>1. CountTrue(s)'
      BY <1>2, <1>4, <2>1, <2>2, CountStep
    <3>. QED BY <1>1, <1>2, <1>3, <1>5, <3>1, Typed DEF CountOK
  <2>4. ASSUME NEW t \in Slots \ {s} PROVE CountOK(t)'
    BY <1>1, <1>2, <1>3, <1>4, <1>5, <2>1, <2>4, CountOther DEF InodesInv, Slots
  <2>. QED BY <2>3, <2>4
<1>9. \A t \in Slots : LockOK(t)'
  BY <1>1, <1>2, <1>3, <1>4, <1>5 DEF LockOK, Locks, InodesInv
<1>10. \A id \in Ids : LinksOK(id)'
  <2>. SUFFICES ASSUME NEW id \in Ids PROVE LinksOK(id)'
    OBVIOUS
  <2>1. LinksOK(id) /\ (LookedFor(id)' => LookedFor(id)) /\ \A t \in Slots : Reading(t)' <=> Reading(t)
    BY <1>1, <1>2, <1>3, <1>4 DEF InodesInv, LookedFor, Reading
  <2>2. Having(id)' = Having(id) /\ \A t \in Having(id) : inode'[t].nlinks = inode[t].nlinks
    BY <1>1, <1>2, <1>3, <1>5 DEF Having
  <2>. QED BY <1>1, <2>1, <2>2, LinksSame DEF Having
<1>11. MountRoot' /\ MountAlone' /\ \A q \in Procs : MountPlace(q)'
  <2>1. MountRoot'
    BY <1>1, <1>2, <1>3, <1>5, Typed, SMTT(20) DEF MountRoot, Slots
  <2>2. MountAlone'
    BY <1>1, <1>2, <1>3, <1>4 DEF MountAlone
  <2>3. ASSUME NEW q \in Procs PROVE MountPlace(q)'
    <3>1. MountPlace(q) /\ PlaceOK(q) /\ MountPlace(p) /\ PlaceOK(p)
      BY DEF InodesInv
    <3>. QED BY <1>1, <1>2, <1>3, <1>4, <1>5, <3>1, Typed, SMTT(20) DEF MountPlace, PlaceOK, SlotPlaces
  <2>. QED BY <2>1, <2>2, <2>3
<1>12. MountUsed'
  <2>1. LookedFor(MOUNTED)' => LookedFor(MOUNTED)
    BY <1>1, <1>2, <1>3, <1>4 DEF LookedFor
  <2>2. IsMounted => inode'[sb.imount].mount
    BY <1>1, <1>2, <1>3, <1>5, Typed DEF IsMounted, Slots
  <2>3. ASSUME NEW t \in Slots, inode'[t].id = MOUNTED, inode'[t].count > 0
        PROVE  inode[t].id = MOUNTED /\ inode[t].count > 0
    BY <1>1, <1>2, <1>3, <1>5, <2>3, Typed DEF ConstantsOK, Ids
  <2>. QED BY <1>1, <1>2, <1>3, <1>5, <2>1, <2>2, <2>3, UsedSame
<1>13. OneOK' /\ \A t \in Slots : DiskOK(t)'
  BY <1>1, <1>2, <1>3, <1>5 DEF OneOK, DiskOK, InodesInv
<1>. QED BY <1>6, <1>7, <1>8, <1>9, <1>10, <1>11, <1>12, <1>13 DEF InodesInv

\* The last user writes the inode, and stays until that is done.
LEMMA IputDirtyKeeps ==
    ASSUME ConstantsOK, InodesInv, NEW p \in Procs, IputDirty(p)
    PROVE  InodesInv'
<1>0. PICK s \in Slots : proc[p].slot = s
  BY DEF IputDirty, Putting, At, InodesInv, PlaceOK, SlotPlaces
<1>. DEFINE i == inode[s]
<1>1. /\ At(p, "held") /\ ~ i.lock /\ i.count = 1 /\ i.nlinks > 0 /\ i.dirt
      /\ inode' = [inode EXCEPT ![s].lock = TRUE]
      /\ Goes(p, "write")
      /\ UNCHANGED <<disk, imap, named, sb, panic>>
  BY <1>0 DEF IputDirty, Putting
<1>2. /\ TypeOK /\ OneOK /\ MountRoot /\ MountAlone /\ MountUsed
      /\ proc[p].slot = s /\ s \in Slots /\ s \in 0 .. NR_INODE /\ proc[p].pc = "held" /\ i.id # NULL /\ ~ i.pipe
      /\ CountOK(s) /\ LockOK(s) /\ DiskOK(s) /\ PlaceOK(p)
  BY <1>0, <1>1 DEF InodesInv, At, Slots, ConstantsOK, PlaceOK, SlotPlaces
<1>3. sb.imount # s /\ \A q \in Procs \ {p} : proc[q].slot # s
  BY <1>1, <1>2, InUseOnce
<1>4. Does(p, "write", s, proc[p].want, proc[p].at)
  BY <1>1, <1>2, <1>3, DoingRecords DEF Places, ConstantsOK
<1>5. Becomes(s, i.id, i.count, TRUE, i.dirt, i.mount, i.pipe, i.nlinks, i.data)
  BY <1>1, <1>2, <1>3, Typed, NodeRecords
<1>6. TypeOK'
  BY <1>1, <1>2, <1>3, <1>4, <1>5 DEF TypeOK, Does, Becomes
<1>. USE DEF Does, IsDoing, Becomes, IsNode, OnlyProc, OnlySlot
<1>7. \A q \in Procs : PlaceOK(q)'
  <2>. SUFFICES ASSUME NEW q \in Procs PROVE PlaceOK(q)'
    OBVIOUS
  <2>1. PlaceOK(q) /\ PlaceOK(p)
    BY DEF InodesInv
  <2>2. CASE q = p
    BY <1>1, <1>2, <1>3, <1>4, <1>5, <2>1, <2>2, SMTT(20) DEF PlaceOK, LockOK, Locks, SlotPlaces, Slots
  <2>3. CASE q # p
    <3>1. proc'[q] = proc[q]
      BY <2>3, <1>4
    <3>. QED BY <1>1, <1>2, <1>3, <1>5, <2>1, <2>3, <3>1, Typed, SMTT(20) DEF PlaceOK, LockOK, Locks, SlotPlaces, Slots
  <2>. QED BY <2>2, <2>3
<1>8. \A t \in Slots : CountOK(t)'
  <2>1. \A t \in Slots : Uses(p, t)' <=> Uses(p, t)
    BY <1>1, <1>2, <1>3, <1>4 DEF Uses, PlaceOK, SlotPlaces
  <2>2. CountOK(s)'
    <3>1. /\ CountOK(s) /\ ((sb.imount = s)' <=> (sb.imount = s)) /\ inode'[s].count = inode[s].count
          /\ inode'[s].pipe = inode[s].pipe
      BY <1>1, <1>2, <1>3, <1>5 DEF InodesInv
    <3>2. ~ inode[s].pipe => CountTrue(s)'
      BY <1>2, <1>4, <2>1, <3>1, CountStep DEF CountOK
    <3>. QED BY <1>1, <1>2, <1>3, <1>4, <1>5, <3>1, <3>2 DEF CountOK
  <2>3. ASSUME NEW t \in Slots \ {s} PROVE CountOK(t)'
    BY <1>1, <1>2, <1>3, <1>4, <1>5, <2>1, <2>3, CountOther DEF InodesInv
  <2>. QED BY <2>2, <2>3
<1>9. \A t \in Slots : LockOK(t)'
  BY <1>1, <1>2, <1>3, <1>4, <1>5 DEF LockOK, Locks, InodesInv
<1>10. \A id \in Ids : LinksOK(id)'
  <2>. SUFFICES ASSUME NEW id \in Ids PROVE LinksOK(id)'
    OBVIOUS
  <2>1. LinksOK(id) /\ (LookedFor(id)' => LookedFor(id)) /\ \A t \in Slots : Reading(t)' <=> Reading(t)
    BY <1>1, <1>2, <1>3, <1>4 DEF InodesInv, LookedFor, Reading
  <2>2. Having(id)' = Having(id) /\ \A t \in Having(id) : inode'[t].nlinks = inode[t].nlinks
    BY <1>1, <1>2, <1>3, <1>5 DEF Having
  <2>. QED BY <1>1, <2>1, <2>2, LinksSame DEF Having
<1>11. MountRoot' /\ MountAlone' /\ \A q \in Procs : MountPlace(q)'
  <2>1. MountRoot'
    BY <1>1, <1>2, <1>3, <1>5, Typed, SMTT(20) DEF MountRoot, Slots
  <2>2. MountAlone'
    BY <1>1, <1>2, <1>3, <1>4 DEF MountAlone
  <2>3. ASSUME NEW q \in Procs PROVE MountPlace(q)'
    <3>1. MountPlace(q) /\ PlaceOK(q) /\ MountPlace(p) /\ PlaceOK(p)
      BY DEF InodesInv
    <3>. QED BY <1>1, <1>2, <1>3, <1>4, <1>5, <3>1, Typed, SMTT(20) DEF MountPlace, PlaceOK, SlotPlaces
  <2>. QED BY <2>1, <2>2, <2>3
<1>12. MountUsed'
  <2>1. LookedFor(MOUNTED)' => LookedFor(MOUNTED)
    BY <1>1, <1>2, <1>3, <1>4 DEF LookedFor
  <2>2. IsMounted => inode'[sb.imount].mount
    BY <1>1, <1>2, <1>3, <1>5, Typed DEF IsMounted, Slots
  <2>3. ASSUME NEW t \in Slots, inode'[t].id = MOUNTED, inode'[t].count > 0
        PROVE  inode[t].id = MOUNTED /\ inode[t].count > 0
    BY <1>1, <1>2, <1>3, <1>5, <2>3, Typed DEF ConstantsOK, Ids
  <2>. QED BY <1>1, <1>2, <1>3, <1>5, <2>1, <2>2, <2>3, UsedSame
<1>13. OneOK' /\ \A t \in Slots : DiskOK(t)'
  BY <1>1, <1>2, <1>3, <1>5 DEF OneOK, DiskOK, InodesInv
<1>. QED BY <1>6, <1>7, <1>8, <1>9, <1>10, <1>11, <1>12, <1>13 DEF InodesInv

\* Nobody else counts the inode that is freed, so that there is no panic, and
\* nobody can look for its number.
LEMMA FreeInodeKeeps ==
    ASSUME ConstantsOK, InodesInv, NEW p \in Procs, FreeInode(p)
    PROVE  InodesInv'
<1>0. PICK s \in Slots : proc[p].slot = s
  BY DEF FreeInode, At, InodesInv, PlaceOK, SlotPlaces
<1>. DEFINE i == inode[s]
<1>1. /\ At(p, "trunc") /\ i.count = 1
      /\ imap' = imap \ {i.id[2]}
      /\ inode' = [inode EXCEPT ![s] = Clear]
      /\ Ends(p)
      /\ UNCHANGED <<disk, named, sb, panic>>
  BY <1>0 DEF FreeInode, InodesInv, PlaceOK, At
<1>2. /\ TypeOK /\ OneOK /\ MountRoot /\ MountAlone /\ MountUsed
      /\ proc[p].slot = s /\ s \in Slots /\ s \in 0 .. NR_INODE /\ proc[p].pc = "trunc" /\ i.id # NULL /\ ~ i.pipe /\ i.nlinks = 0 /\ ~ i.lock
      /\ CountOK(s) /\ LockOK(s) /\ DiskOK(s) /\ PlaceOK(p)
  BY <1>0, <1>1 DEF InodesInv, At, Slots, ConstantsOK, PlaceOK, SlotPlaces
<1>3. /\ sb.imount # s /\ \A q \in Procs \ {p} : proc[q].slot # s
      /\ i.id \in Ids /\ ~ Reachable(i.id) /\ Having(i.id) = {s}
  <2>1. sb.imount # s /\ (\A q \in Procs \ {p} : proc[q].slot # s) /\ ~ Reading(s)
    BY <1>1, <1>2, InUseOnce, ReadAlone
  <2>2. i.id \in Ids /\ Having(i.id) = {s}
    BY <1>2, Typed DEF Having, OneOK
  <2>3. ~ Reachable(i.id)
    BY <1>2, <2>1, <2>2 DEF InodesInv, LinksOK
  <2>. QED BY <2>1, <2>2, <2>3
<1>4. Does(p, "idle", 0, NULL, 0)
  BY <1>1, <1>2, <1>3, DoingRecords DEF Places, ConstantsOK
<1>5. Becomes(s, NULL, 0, FALSE, FALSE, FALSE, FALSE, 0, 0)
  BY <1>1, <1>2, <1>3, Typed, NodeRecords
<1>6. TypeOK'
  <2>1. i.id[2] \notin named /\ named \subseteq imap
    BY <1>2, <1>3 DEF Reachable, TypeOK
  <2>. QED BY <1>1, <1>2, <1>3, <1>4, <1>5, <2>1 DEF TypeOK, Does, Becomes
<1>. USE DEF Does, IsDoing, Becomes, IsNode, OnlyProc, OnlySlot
<1>7. \A q \in Procs : PlaceOK(q)'
  <2>. SUFFICES ASSUME NEW q \in Procs PROVE PlaceOK(q)'
    OBVIOUS
  <2>1. PlaceOK(q) /\ PlaceOK(p)
    BY DEF InodesInv
  <2>2. CASE q = p
    BY <1>1, <1>2, <1>3, <1>4, <1>5, <2>1, <2>2, SMTT(20) DEF PlaceOK, LockOK, Locks, SlotPlaces, Slots
  <2>3. CASE q # p
    <3>1. proc'[q] = proc[q]
      BY <2>3, <1>4
    <3>. QED BY <1>1, <1>2, <1>3, <1>5, <2>1, <2>3, <3>1, Typed, SMTT(20) DEF PlaceOK, LockOK, Locks, SlotPlaces, Slots
  <2>. QED BY <2>2, <2>3
<1>8. \A t \in Slots : CountOK(t)'
  <2>1. Uses(p, s) /\ ~ Uses(p, s)' /\ \A t \in Slots \ {s} : ~ Uses(p, t) /\ ~ Uses(p, t)'
    BY <1>2, <1>4 DEF Uses, PlaceOK, SlotPlaces, Slots
  <2>2. CountTrue(s) /\ ((sb.imount = s)' <=> (sb.imount = s)) /\ inode'[s].count = inode[s].count - 1
    BY <1>1, <1>2, <1>3, <1>5 DEF CountOK
  <2>3. CountOK(s)'
    <3>1. CountTrue(s)'
      BY <1>2, <1>4, <2>1, <2>2, CountStep
    <3>. QED BY <1>1, <1>2, <1>3, <1>5, <3>1, Typed DEF CountOK
  <2>4. ASSUME NEW t \in Slots \ {s} PROVE CountOK(t)'
    BY <1>1, <1>2, <1>3, <1>4, <1>5, <2>1, <2>4, CountOther DEF InodesInv, Slots
  <2>. QED BY <2>3, <2>4
<1>9. \A t \in Slots : LockOK(t)'
  BY <1>1, <1>2, <1>3, <1>4, <1>5 DEF LockOK, Locks, InodesInv
<1>10. \A id \in Ids : LinksOK(id)'
  <2>. SUFFICES ASSUME NEW id \in Ids PROVE LinksOK(id)'
    OBVIOUS
  <2>1. /\ LinksOK(id) /\ (LookedFor(id)' <=> LookedFor(id)) /\ \A t \in Slots : Reading(t)' <=> Reading(t)
    BY <1>1, <1>2, <1>3, <1>4 DEF InodesInv, LookedFor, Reading
  <2>2. Having(id)' = Having(id) \ {s} /\ \A t \in Having(id) \ {s} : inode'[t] = inode[t]
    BY <1>5 DEF Having, ConstantsOK
  <2>3. CASE id = i.id
    <3>1. ~ Reachable(id)' /\ Having(id)' = {} /\ ~ LookedFor(id)'
      BY <1>1, <1>3, <2>1, <2>2, <2>3 DEF Reachable
    <3>. QED BY <3>1 DEF LinksOK
  <2>4. CASE id # i.id
    <3>1. s \notin Having(id) /\ (id # MOUNTED /\ i.id # MOUNTED => id[2] # i.id[2]) /\ i.id # MOUNTED
      <4>1. i.id # MOUNTED
        BY <1>3 DEF Reachable
      <4>2. PICK n \in Nums : i.id = <<1, n>>
        BY <1>3, <4>1 DEF Ids
      <4>3. ASSUME id # MOUNTED PROVE id[2] # n
        BY <2>4, <4>2, <4>3 DEF Ids
      <4>. QED BY <2>4, <4>1, <4>2, <4>3 DEF Having
    <3>2. Having(id)' = Having(id) /\ (Reachable(id)' <=> Reachable(id))
      BY <1>1, <2>1, <2>2, <3>1 DEF Reachable
    <3>. QED BY <1>1, <1>3, <2>1, <2>2, <3>1, <3>2 DEF LinksOK, Having
  <2>. QED BY <2>3, <2>4
<1>11. MountRoot' /\ MountAlone' /\ \A q \in Procs : MountPlace(q)'
  <2>1. MountRoot'
    BY <1>1, <1>2, <1>3, <1>5, Typed, SMTT(20) DEF MountRoot, Slots
  <2>2. MountAlone'
    BY <1>1, <1>2, <1>3, <1>4 DEF MountAlone
  <2>3. ASSUME NEW q \in Procs PROVE MountPlace(q)'
    <3>1. MountPlace(q) /\ PlaceOK(q) /\ MountPlace(p) /\ PlaceOK(p)
      BY DEF InodesInv
    <3>. QED BY <1>1, <1>2, <1>3, <1>4, <1>5, <3>1, Typed, SMTT(20) DEF MountPlace, PlaceOK, SlotPlaces
  <2>. QED BY <2>1, <2>2, <2>3
<1>12. MountUsed'
  <2>1. LookedFor(MOUNTED)' => LookedFor(MOUNTED)
    BY <1>1, <1>2, <1>3, <1>4 DEF LookedFor
  <2>2. IsMounted => inode'[sb.imount].mount
    BY <1>1, <1>2, <1>3, <1>5, Typed DEF IsMounted, Slots
  <2>3. ASSUME NEW t \in Slots, inode'[t].id = MOUNTED, inode'[t].count > 0
        PROVE  inode[t].id = MOUNTED /\ inode[t].count > 0
    BY <1>1, <1>2, <1>3, <1>5, <2>3, Typed DEF ConstantsOK, Ids
  <2>. QED BY <1>1, <1>2, <1>3, <1>5, <2>1, <2>2, <2>3, UsedSame
<1>13. OneOK' /\ \A t \in Slots : DiskOK(t)'
  BY <1>1, <1>2, <1>3, <1>5 DEF OneOK, DiskOK, InodesInv
<1>. QED BY <1>6, <1>7, <1>8, <1>9, <1>10, <1>11, <1>12, <1>13 DEF InodesInv

\* A pipe has one owner, who counts twice.
LEMMA GetPipeKeeps ==
    ASSUME ConstantsOK, InodesInv, NEW p \in Procs, GetPipe(p)
    PROVE  InodesInv'
<1>1. PICK s \in Unused :
         /\ At(p, "idle")
         /\ inode' = [Taken(s) EXCEPT ![s] = [@ EXCEPT !.count = 2, !.pipe = TRUE]]
         /\ proc' = [proc EXCEPT ![p].pc = "pipe", ![p].slot = s]
         /\ UNCHANGED <<disk, imap, named, sb, panic>>
  BY DEF GetPipe
<1>2. /\ TypeOK /\ OneOK /\ MountRoot /\ MountAlone /\ MountUsed
      /\ proc[p].pc = "idle"
      /\ s \in Slots /\ s \in 0 .. NR_INODE /\ s # 0
      /\ inode[s].count = 0 /\ ~ inode[s].dirt /\ ~ inode[s].lock
      /\ CountOK(s) /\ LockOK(s) /\ DiskOK(s) /\ PlaceOK(p)
  BY <1>1 DEF InodesInv, At, Slots, ConstantsOK, Unused
<1>3. sb.imount # s /\ \A q \in Procs : proc[q].slot # s
  BY <1>2, NotInUse
<1>4. Does(p, "pipe", s, proc[p].want, proc[p].at)
  BY <1>1, <1>2, <1>3, DoingRecords DEF Places, ConstantsOK
<1>5. Becomes(s, NULL, 2, FALSE, FALSE, FALSE, TRUE, 0, 0)
  BY <1>1, <1>2, <1>3, Typed, NodeRecords
<1>6. TypeOK'
  BY <1>1, <1>2, <1>3, <1>4, <1>5 DEF TypeOK, Does, Becomes
<1>. USE DEF Does, IsDoing, Becomes, IsNode, OnlyProc, OnlySlot
<1>7. \A q \in Procs : PlaceOK(q)'
  <2>. SUFFICES ASSUME NEW q \in Procs PROVE PlaceOK(q)'
    OBVIOUS
  <2>1. PlaceOK(q) /\ PlaceOK(p)
    BY DEF InodesInv
  <2>2. CASE q = p
    BY <1>1, <1>2, <1>3, <1>4, <1>5, <2>1, <2>2, SMTT(20) DEF PlaceOK, LockOK, Locks, SlotPlaces, Slots
  <2>3. CASE q # p
    <3>1. proc'[q] = proc[q]
      BY <2>3, <1>4
    <3>. QED BY <1>1, <1>2, <1>3, <1>5, <2>1, <2>3, <3>1, Typed, SMTT(20) DEF PlaceOK, LockOK, Locks, SlotPlaces, Slots
  <2>. QED BY <2>2, <2>3
<1>8. \A t \in Slots : CountOK(t)'
  <2>1. \A t \in Slots \ {s} : ~ Uses(p, t) /\ ~ Uses(p, t)'
    BY <1>2, <1>4 DEF Uses, PlaceOK, SlotPlaces
  <2>2. CountOK(s)'
    BY <1>1, <1>3, <1>4, <1>5 DEF CountOK
  <2>3. ASSUME NEW t \in Slots \ {s} PROVE CountOK(t)'
    BY <1>1, <1>2, <1>3, <1>4, <1>5, <2>1, <2>3, CountOther DEF InodesInv
  <2>. QED BY <2>2, <2>3
<1>9. \A t \in Slots : LockOK(t)'
  BY <1>1, <1>2, <1>3, <1>4, <1>5 DEF LockOK, Locks, InodesInv
<1>10. \A id \in Ids : LinksOK(id)'
  <2>. SUFFICES ASSUME NEW id \in Ids PROVE LinksOK(id)'
    OBVIOUS
  <2>1. LinksOK(id) /\ (LookedFor(id)' <=> LookedFor(id)) /\ \A t \in Slots : Reading(t)' <=> Reading(t)
    BY <1>1, <1>2, <1>3, <1>4 DEF InodesInv, LookedFor, Reading
  <2>. QED BY <1>1, <1>2, <1>3, <1>5, <2>1, LinksEvicted DEF ConstantsOK
<1>11. MountRoot' /\ MountAlone' /\ \A q \in Procs : MountPlace(q)'
  <2>1. MountRoot'
    BY <1>1, <1>2, <1>3, <1>5, Typed, SMTT(20) DEF MountRoot, Slots
  <2>2. MountAlone'
    BY <1>1, <1>2, <1>3, <1>4 DEF MountAlone
  <2>3. ASSUME NEW q \in Procs PROVE MountPlace(q)'
    <3>1. MountPlace(q) /\ PlaceOK(q) /\ MountPlace(p) /\ PlaceOK(p)
      BY DEF InodesInv
    <3>. QED BY <1>1, <1>2, <1>3, <1>4, <1>5, <3>1, Typed, SMTT(20) DEF MountPlace, PlaceOK, SlotPlaces
  <2>. QED BY <2>1, <2>2, <2>3
<1>12. MountUsed'
  <2>1. LookedFor(MOUNTED)' => LookedFor(MOUNTED)
    BY <1>1, <1>2, <1>3, <1>4 DEF LookedFor
  <2>2. IsMounted => inode'[sb.imount].mount
    BY <1>1, <1>2, <1>3, <1>5, Typed DEF IsMounted, Slots
  <2>3. ASSUME NEW t \in Slots, inode'[t].id = MOUNTED, inode'[t].count > 0
        PROVE  inode[t].id = MOUNTED /\ inode[t].count > 0
    BY <1>1, <1>2, <1>3, <1>5, <2>3, Typed DEF ConstantsOK, Ids
  <2>. QED BY <1>1, <1>2, <1>3, <1>5, <2>1, <2>2, <2>3, UsedSame
<1>13. OneOK' /\ \A t \in Slots : DiskOK(t)'
  BY <1>1, <1>2, <1>3, <1>5 DEF OneOK, DiskOK, InodesInv
<1>. QED BY <1>6, <1>7, <1>8, <1>9, <1>10, <1>11, <1>12, <1>13 DEF InodesInv

\* A slot is given back when there is no page for the pipe.
LEMMA GetPipeFailsKeeps ==
    ASSUME ConstantsOK, InodesInv, NEW p \in Procs, GetPipeFails(p)
    PROVE  InodesInv'
<1>1. PICK s \in Unused :
         /\ At(p, "idle")
         /\ inode' = [inode EXCEPT ![s] = Clear]
         /\ UNCHANGED <<disk, imap, named, sb, proc, panic>>
  BY DEF GetPipeFails
<1>2. /\ TypeOK /\ OneOK /\ MountRoot /\ MountAlone /\ MountUsed
      /\ proc[p].pc = "idle"
      /\ s \in Slots /\ s \in 0 .. NR_INODE /\ s # 0
      /\ inode[s].count = 0 /\ ~ inode[s].dirt /\ ~ inode[s].lock
      /\ CountOK(s) /\ LockOK(s) /\ DiskOK(s) /\ PlaceOK(p)
  BY <1>1 DEF InodesInv, At, Slots, ConstantsOK, Unused
<1>3. sb.imount # s /\ \A q \in Procs : proc[q].slot # s
  BY <1>2, NotInUse
<1>4. OnlyProc(p) /\ proc'[p] = proc[p] /\ proc' \in [Procs -> Doing]
  BY <1>1, <1>2 DEF OnlyProc, TypeOK
<1>5. Becomes(s, NULL, 0, FALSE, FALSE, FALSE, FALSE, 0, 0)
  BY <1>1, <1>2, <1>3, Typed, NodeRecords
<1>6. TypeOK'
  BY <1>1, <1>2, <1>3, <1>4, <1>5 DEF TypeOK, Does, Becomes
<1>. USE DEF Does, IsDoing, Becomes, IsNode, OnlyProc, OnlySlot
<1>7. \A q \in Procs : PlaceOK(q)'
  <2>. SUFFICES ASSUME NEW q \in Procs PROVE PlaceOK(q)'
    OBVIOUS
  <2>1. PlaceOK(q) /\ PlaceOK(p)
    BY DEF InodesInv
  <2>2. CASE q = p
    BY <1>1, <1>2, <1>3, <1>4, <1>5, <2>1, <2>2, SMTT(20) DEF PlaceOK, LockOK, Locks, SlotPlaces, Slots
  <2>3. CASE q # p
    <3>1. proc'[q] = proc[q]
      BY <2>3, <1>4
    <3>. QED BY <1>1, <1>2, <1>3, <1>5, <2>1, <2>3, <3>1, Typed, SMTT(20) DEF PlaceOK, LockOK, Locks, SlotPlaces, Slots
  <2>. QED BY <2>2, <2>3
<1>8. \A t \in Slots : CountOK(t)'
  <2>1. ~ inode[s].pipe /\ CountTrue(s) /\ \A t \in Slots : Uses(p, t)' <=> Uses(p, t)
    BY <1>1, <1>2, <1>4 DEF Uses, CountOK
  <2>2. CountOK(s)'
    <3>1. CountTrue(s)'
      BY <1>1, <1>2, <1>4, <1>5, <2>1, CountStep
    <3>. QED BY <1>5, <3>1 DEF CountOK
  <2>3. ASSUME NEW t \in Slots \ {s} PROVE CountOK(t)'
    BY <1>1, <1>2, <1>3, <1>4, <1>5, <2>1, <2>3, CountOther DEF InodesInv
  <2>. QED BY <2>2, <2>3
<1>9. \A t \in Slots : LockOK(t)'
  BY <1>1, <1>2, <1>3, <1>4, <1>5 DEF LockOK, Locks, InodesInv
<1>10. \A id \in Ids : LinksOK(id)'
  <2>. SUFFICES ASSUME NEW id \in Ids PROVE LinksOK(id)'
    OBVIOUS
  <2>1. LinksOK(id) /\ (LookedFor(id)' <=> LookedFor(id)) /\ \A t \in Slots : Reading(t)' <=> Reading(t)
    BY <1>1, <1>2, <1>3, <1>4 DEF InodesInv, LookedFor, Reading
  <2>. QED BY <1>1, <1>2, <1>3, <1>5, <2>1, LinksEvicted DEF ConstantsOK
<1>11. MountRoot' /\ MountAlone' /\ \A q \in Procs : MountPlace(q)'
  <2>1. MountRoot'
    BY <1>1, <1>2, <1>3, <1>5, Typed, SMTT(20) DEF MountRoot, Slots
  <2>2. MountAlone'
    BY <1>1, <1>2, <1>3, <1>4 DEF MountAlone
  <2>3. ASSUME NEW q \in Procs PROVE MountPlace(q)'
    <3>1. MountPlace(q) /\ PlaceOK(q) /\ MountPlace(p) /\ PlaceOK(p)
      BY DEF InodesInv
    <3>. QED BY <1>1, <1>2, <1>3, <1>4, <1>5, <3>1, Typed, SMTT(20) DEF MountPlace, PlaceOK, SlotPlaces
  <2>. QED BY <2>1, <2>2, <2>3
<1>12. MountUsed'
  <2>1. LookedFor(MOUNTED)' => LookedFor(MOUNTED)
    BY <1>1, <1>2, <1>3, <1>4 DEF LookedFor
  <2>2. IsMounted => inode'[sb.imount].mount
    BY <1>1, <1>2, <1>3, <1>5, Typed DEF IsMounted, Slots
  <2>3. ASSUME NEW t \in Slots, inode'[t].id = MOUNTED, inode'[t].count > 0
        PROVE  inode[t].id = MOUNTED /\ inode[t].count > 0
    BY <1>1, <1>2, <1>3, <1>5, <2>3, Typed DEF ConstantsOK, Ids
  <2>. QED BY <1>1, <1>2, <1>3, <1>5, <2>1, <2>2, <2>3, UsedSame
<1>13. OneOK' /\ \A t \in Slots : DiskOK(t)'
  BY <1>1, <1>2, <1>3, <1>5 DEF OneOK, DiskOK, InodesInv
<1>. QED BY <1>6, <1>7, <1>8, <1>9, <1>10, <1>11, <1>12, <1>13 DEF InodesInv

\* A number that is free is nowhere in the table and nobody looks for it.
LEMMA NewInodeKeeps ==
    ASSUME ConstantsOK, InodesInv, NEW p \in Procs, NewInode(p)
    PROVE  InodesInv'
<1>1. PICK s \in Unused, n \in Nums \ imap :
         /\ At(p, "idle")
         /\ inode' = [Taken(s) EXCEPT ![s] = [@ EXCEPT !.id = <<1, n>>, !.nlinks = 1, !.dirt = TRUE]]
         /\ imap' = imap \cup {n}
         /\ Holds(p, s)
         /\ UNCHANGED <<disk, named, sb, panic>>
  BY DEF NewInode
<1>2. /\ TypeOK /\ OneOK /\ MountRoot /\ MountAlone /\ MountUsed
      /\ proc[p].pc = "idle" /\ <<1, n>> \in Ids /\ <<1, n>> # NULL
      /\ s \in Slots /\ s \in 0 .. NR_INODE /\ s # 0
      /\ inode[s].count = 0 /\ ~ inode[s].dirt /\ ~ inode[s].lock
      /\ CountOK(s) /\ LockOK(s) /\ DiskOK(s) /\ PlaceOK(p)
  BY <1>1 DEF InodesInv, At, Slots, ConstantsOK, Unused, Ids
<1>. DEFINE x == <<1, n>>
<1>3. /\ sb.imount # s /\ (\A q \in Procs : proc[q].slot # s)
      /\ x # MOUNTED /\ Having(x) = {} /\ ~ LookedFor(x) /\ n \notin named
  <2>1. sb.imount # s /\ \A q \in Procs : proc[q].slot # s
    BY <1>2, NotInUse
  <2>2. x # MOUNTED /\ x[2] = n /\ LinksOK(x) /\ n \notin named
    BY <1>2 DEF MOUNTED, InodesInv, TypeOK
  <2>. QED BY <1>2, <2>1, <2>2 DEF LinksOK
<1>4. Does(p, "held", s, NULL, 0)
  BY <1>1, <1>2, <1>3, DoingRecords DEF Places, ConstantsOK
<1>5. Becomes(s, x, 1, FALSE, TRUE, FALSE, FALSE, 1, 0)
  BY <1>1, <1>2, <1>3, Typed, NodeRecords
<1>6. TypeOK'
  BY <1>1, <1>2, <1>3, <1>4, <1>5 DEF TypeOK, Does, Becomes
<1>. USE DEF Does, IsDoing, Becomes, IsNode, OnlyProc, OnlySlot
<1>7. \A q \in Procs : PlaceOK(q)'
  <2>. SUFFICES ASSUME NEW q \in Procs PROVE PlaceOK(q)'
    OBVIOUS
  <2>1. PlaceOK(q) /\ PlaceOK(p)
    BY DEF InodesInv
  <2>2. CASE q = p
    BY <1>1, <1>2, <1>3, <1>4, <1>5, <2>1, <2>2, SMTT(20) DEF PlaceOK, LockOK, Locks, SlotPlaces, Slots
  <2>3. CASE q # p
    <3>1. proc'[q] = proc[q]
      BY <2>3, <1>4
    <3>. QED BY <1>1, <1>2, <1>3, <1>5, <2>1, <2>3, <3>1, Typed, SMTT(20) DEF PlaceOK, LockOK, Locks, SlotPlaces, Slots
  <2>. QED BY <2>2, <2>3
<1>8. \A t \in Slots : CountOK(t)'
  <2>1. ~ Uses(p, s) /\ Uses(p, s)' /\ \A t \in Slots \ {s} : ~ Uses(p, t) /\ ~ Uses(p, t)'
    BY <1>2, <1>4 DEF Uses, PlaceOK, SlotPlaces
  <2>2. CountTrue(s) /\ ((sb.imount = s)' <=> (sb.imount = s)) /\ inode'[s].count = inode[s].count + 1
    BY <1>1, <1>2, <1>3, <1>5 DEF CountOK
  <2>3. CountOK(s)'
    <3>1. CountTrue(s)'
      BY <1>2, <1>4, <2>1, <2>2, CountStep
    <3>. QED BY <1>2, <1>5, <3>1 DEF CountOK
  <2>4. ASSUME NEW t \in Slots \ {s} PROVE CountOK(t)'
    BY <1>1, <1>2, <1>3, <1>4, <1>5, <2>1, <2>4, CountOther DEF InodesInv
  <2>. QED BY <2>3, <2>4
<1>9. \A t \in Slots : LockOK(t)'
  BY <1>1, <1>2, <1>3, <1>4, <1>5 DEF LockOK, Locks, InodesInv
<1>10. \A id \in Ids : LinksOK(id)'
  <2>. SUFFICES ASSUME NEW id \in Ids PROVE LinksOK(id)'
    OBVIOUS
  <2>1. LinksOK(id) /\ (LookedFor(id)' <=> LookedFor(id)) /\ \A t \in Slots : Reading(t)' <=> Reading(t)
    BY <1>1, <1>2, <1>3, <1>4 DEF InodesInv, LookedFor, Reading
  <2>2. CASE id = x
    <3>1. Having(id)' = {s} /\ ~ Reading(s)' /\ id[2] \in imap'
      BY <1>1, <1>2, <1>3, <1>4, <1>5, <2>1, <2>2 DEF Having, Reading
    <3>. QED BY <1>1, <1>5, <2>1, <3>1 DEF LinksOK
  <2>3. CASE id # x
    <3>1. imap \subseteq imap' /\ inode'[s].id # id
      BY <1>1, <1>5, <2>3
    <3>. QED BY <1>1, <1>2, <1>3, <1>5, <2>1, <3>1, LinksEvicted DEF ConstantsOK
  <2>. QED BY <2>2, <2>3
<1>11. MountRoot' /\ MountAlone' /\ \A q \in Procs : MountPlace(q)'
  <2>1. MountRoot'
    BY <1>1, <1>2, <1>3, <1>5, Typed, SMTT(20) DEF MountRoot, Slots
  <2>2. MountAlone'
    BY <1>1, <1>2, <1>3, <1>4 DEF MountAlone
  <2>3. ASSUME NEW q \in Procs PROVE MountPlace(q)'
    <3>1. MountPlace(q) /\ PlaceOK(q) /\ MountPlace(p) /\ PlaceOK(p)
      BY DEF InodesInv
    <3>. QED BY <1>1, <1>2, <1>3, <1>4, <1>5, <3>1, Typed, SMTT(20) DEF MountPlace, PlaceOK, SlotPlaces
  <2>. QED BY <2>1, <2>2, <2>3
<1>12. MountUsed'
  <2>1. LookedFor(MOUNTED)' => LookedFor(MOUNTED)
    BY <1>1, <1>2, <1>3, <1>4 DEF LookedFor
  <2>2. IsMounted => inode'[sb.imount].mount
    BY <1>1, <1>2, <1>3, <1>5, Typed DEF IsMounted, Slots
  <2>3. ASSUME NEW t \in Slots, inode'[t].id = MOUNTED
        PROVE  inode'[t] = inode[t]
    BY <1>3, <1>5, <2>3
  <2>. QED BY <1>1, <1>2, <2>1, <2>2, <2>3, UsedSame
<1>13. OneOK' /\ \A t \in Slots : DiskOK(t)'
  <2>1. OneOK'
    BY <1>2, <1>3, <1>5 DEF OneOK, Having
  <2>2. \A t \in Slots : DiskOK(t)'
    BY <1>1, <1>5 DEF DiskOK, InodesInv
  <2>. QED BY <2>1, <2>2
<1>. QED BY <1>6, <1>7, <1>8, <1>9, <1>10, <1>11, <1>12, <1>13 DEF InodesInv

\* What is written is the inode that is locked: its block and the table agree
\* after that.
LEMMA WrittenKeeps ==
    ASSUME ConstantsOK, InodesInv, NEW p \in Procs, NEW s \in Slots, NEW dev, NEW pc, NEW want,
           Locks(p, s), inode[s].id # NULL, dev = inode[s].id[1], Written(s, dev),
           Does(p, pc, proc[p].slot, want, proc[p].at), UNCHANGED <<imap, named, sb, panic>>,
           \/ proc[p].pc = "write" /\ pc = "held"
           \/ proc[p].pc = "umountwrite" /\ pc = "umount"
           \/ proc[p].pc = "syncwrite" /\ pc = "sync"
    PROVE  InodesInv'
<1>. DEFINE i == inode[s]
<1>1. /\ UNCHANGED <<imap, named, sb, panic>> /\ Locks(p, s)
  BY DEF TypeOK
<1>2. /\ TypeOK /\ OneOK /\ MountRoot /\ MountAlone /\ MountUsed
      /\ i.id # NULL
      /\ PlaceOK(p) /\ LockOK(s) /\ CountOK(s) /\ (proc[p].slot \in Slots => CountOK(proc[p].slot))
  BY <1>1 DEF InodesInv, At, Slots, ConstantsOK
<1>3. /\ i.id \in Ids /\ Having(i.id) = {s} /\ ~ Reading(s) /\ ~ i.pipe
      /\ \A q \in Procs \ {p} : ~ Locks(q, s)
      /\ \/ proc[p].pc = "write" /\ pc = "held"
         \/ proc[p].pc = "umountwrite" /\ pc = "umount"
         \/ proc[p].pc = "syncwrite" /\ pc = "sync"
  <2>1. i.id \in Ids /\ Having(i.id) = {s} /\ \A q \in Procs \ {p} : ~ Locks(q, s)
    BY <1>1, <1>2, Typed DEF Having, OneOK, LockOK
  <2>2. ~ Reading(s) /\ ~ i.pipe
    BY <1>2, <2>1 DEF Reading, Locks, CountOK
  <2>. QED BY <2>1, <2>2
<1>4. Does(p, pc, proc[p].slot, want, proc[p].at)
  OBVIOUS
<1>5. /\ Becomes(s, i.id, i.count, FALSE, FALSE, i.mount, i.pipe, i.nlinks, i.data)
      /\ disk' \in [Ids -> Contents]
      /\ disk'[i.id].nlinks = i.nlinks /\ disk'[i.id].data = i.data
      /\ \A x \in Ids \ {i.id} : disk'[x] = disk[x]
  BY <1>2, WrittenFacts
<1>6. TypeOK'
  BY <1>1, <1>2, <1>3, <1>4, <1>5 DEF TypeOK, Does, Becomes
<1>. USE DEF Does, IsDoing, Becomes, IsNode, OnlyProc, OnlySlot
<1>7. \A q \in Procs : PlaceOK(q)'
  <2>. SUFFICES ASSUME NEW q \in Procs PROVE PlaceOK(q)'
    OBVIOUS
  <2>1. PlaceOK(q) /\ PlaceOK(p)
    BY DEF InodesInv
  <2>2. CASE q = p
    BY <1>1, <1>2, <1>3, <1>4, <1>5, <2>1, <2>2, SMTT(20) DEF PlaceOK, LockOK, Locks, SlotPlaces, Slots
  <2>3. CASE q # p
    <3>1. proc'[q] = proc[q]
      BY <2>3, <1>4
    <3>. QED BY <1>1, <1>2, <1>3, <1>5, <2>1, <2>3, <3>1, Typed, SMTT(20) DEF PlaceOK, LockOK, Locks, SlotPlaces, Slots
  <2>. QED BY <2>2, <2>3
<1>8. \A t \in Slots : CountOK(t)'
  <2>1. \A t \in Slots : Uses(p, t)' <=> Uses(p, t)
    BY <1>1, <1>2, <1>3, <1>4 DEF Uses, PlaceOK, SlotPlaces
  <2>2. CountOK(s)'
    <3>1. /\ CountOK(s) /\ ((sb.imount = s)' <=> (sb.imount = s)) /\ inode'[s].count = inode[s].count
          /\ inode'[s].pipe = inode[s].pipe
      BY <1>1, <1>2, <1>3, <1>5 DEF InodesInv
    <3>2. ~ inode[s].pipe => CountTrue(s)'
      BY <1>2, <1>4, <2>1, <3>1, CountStep DEF CountOK
    <3>. QED BY <1>1, <1>2, <1>3, <1>4, <1>5, <3>1, <3>2 DEF CountOK
  <2>3. ASSUME NEW t \in Slots \ {s} PROVE CountOK(t)'
    BY <1>1, <1>2, <1>3, <1>4, <1>5, <2>1, <2>3, CountOther DEF InodesInv
  <2>. QED BY <2>2, <2>3
<1>9. \A t \in Slots : LockOK(t)'
  BY <1>1, <1>2, <1>3, <1>4, <1>5 DEF LockOK, Locks, InodesInv
<1>10. \A id \in Ids : LinksOK(id)'
  <2>. SUFFICES ASSUME NEW id \in Ids PROVE LinksOK(id)'
    OBVIOUS
  <2>1. LinksOK(id) /\ (LookedFor(id)' <=> LookedFor(id)) /\ \A t \in Slots : Reading(t)' <=> Reading(t)
    BY <1>1, <1>2, <1>3, <1>4 DEF InodesInv, LookedFor, Reading
  <2>2. Having(id)' = Having(id) /\ \A t \in Having(id) : inode'[t].nlinks = inode[t].nlinks
    BY <1>2, <1>5 DEF Having
  <2>3. CASE id = i.id
    BY <1>1, <1>3, <1>5, <2>1, <2>2, <2>3 DEF LinksOK, Reachable
  <2>4. CASE id # i.id
    BY <1>1, <1>5, <2>1, <2>2, <2>4, LinksSame DEF Having
  <2>. QED BY <2>3, <2>4
<1>11. MountRoot' /\ MountAlone' /\ \A q \in Procs : MountPlace(q)'
  <2>1. MountRoot'
    <3>1. \A t \in Slots : inode'[t].id = inode[t].id /\ inode'[t].mount = inode[t].mount
      BY <1>5
    <3>. QED BY <1>1, <1>2, <3>1, Typed DEF MountRoot, Slots
  <2>2. MountAlone'
    BY <1>1, <1>2, <1>3, <1>4 DEF MountAlone
  <2>3. ASSUME NEW q \in Procs PROVE MountPlace(q)'
    <3>1. MountPlace(q) /\ PlaceOK(q) /\ MountPlace(p) /\ PlaceOK(p)
      BY DEF InodesInv
    <3>. QED BY <1>1, <1>2, <1>3, <1>4, <1>5, <3>1, Typed, SMTT(20) DEF MountPlace, PlaceOK, SlotPlaces
  <2>. QED BY <2>1, <2>2, <2>3
<1>12. MountUsed'
  <2>1. LookedFor(MOUNTED)' => LookedFor(MOUNTED)
    BY <1>1, <1>2, <1>3, <1>4 DEF LookedFor
  <2>2. IsMounted => inode'[sb.imount].mount
    BY <1>1, <1>2, <1>3, <1>5, Typed DEF IsMounted, Slots
  <2>3. ASSUME NEW t \in Slots, inode'[t].id = MOUNTED, inode'[t].count > 0
        PROVE  inode[t].id = MOUNTED /\ inode[t].count > 0
    BY <1>1, <1>2, <1>3, <1>5, <2>3, Typed DEF ConstantsOK, Ids
  <2>. QED BY <1>1, <1>2, <1>3, <1>5, <2>1, <2>2, <2>3, UsedSame
<1>13. OneOK' /\ \A t \in Slots : DiskOK(t)'
  <2>1. OneOK'
    BY <1>2, <1>5 DEF OneOK
  <2>2. ASSUME NEW t \in Slots PROVE DiskOK(t)'
    <3>1. CASE t = s
      BY <1>5, <3>1 DEF DiskOK
    <3>2. CASE t # s
      <4>1. DiskOK(t) /\ inode'[t] = inode[t] /\ inode[t].id \in Ids \cup {NULL}
        BY <1>2, <1>5, <3>2, Typed DEF InodesInv
      <4>2. inode[t].id # i.id
        BY <1>2, <3>2 DEF OneOK
      <4>. QED BY <1>5, <4>1, <4>2 DEF DiskOK
    <3>. QED BY <3>1, <3>2
  <2>. QED BY <2>1, <2>2
<1>. QED BY <1>6, <1>7, <1>8, <1>9, <1>10, <1>11, <1>12, <1>13 DEF InodesInv

\* iput has written the inode.
LEMMA WriteInodeKeeps ==
    ASSUME ConstantsOK, InodesInv, NEW p \in Procs, WriteInode(p)
    PROVE  InodesInv'
<1>1. PICK s \in Slots : proc[p].slot = s
  BY DEF WriteInode, At, InodesInv, PlaceOK, SlotPlaces
<1>2. /\ TypeOK /\ proc[p].pc = "write" /\ Locks(p, s) /\ inode[s].id # NULL
      /\ inode[s].id[1] = inode[proc[p].slot].id[1]
  BY <1>1 DEF InodesInv, WriteInode, At, PlaceOK, CountOK, LockOK, Locks
<1>3. Does(p, "held", proc[p].slot, proc[p].want, proc[p].at)
  BY <1>2, DoingRecords DEF WriteInode, Places, ConstantsOK
<1>4. Written(s, inode[s].id[1]) /\ UNCHANGED <<imap, named, sb, panic>>
  BY <1>1, <1>2 DEF WriteInode
<1>. DEFINE dev == inode[s].id[1]
<1>. HIDE DEF dev
<1>5. PICK d : d = dev
  OBVIOUS
<1>. QED BY <1>2, <1>3, <1>4, <1>5, WrittenKeeps DEF dev

\* sync_inodes has written an inode.
LEMMA SyncWriteKeeps ==
    ASSUME ConstantsOK, InodesInv, NEW p \in Procs, SyncWrite(p)
    PROVE  InodesInv'
<1>1. PICK s \in Slots : proc[p].at = s
  BY DEF SyncWrite, At, InodesInv, PlaceOK, SlotPlaces
<1>2. /\ TypeOK /\ proc[p].pc = "syncwrite" /\ Locks(p, s) /\ inode[s].id # NULL
      /\ inode[s].id[1] = proc[p].want[1]
  BY <1>1 DEF InodesInv, SyncWrite, At, PlaceOK, CountOK, LockOK, Locks
<1>3. Does(p, "sync", proc[p].slot, NULL, proc[p].at)
  BY <1>2, DoingRecords DEF SyncWrite, Places, ConstantsOK
<1>4. Written(s, inode[s].id[1]) /\ UNCHANGED <<imap, named, sb, panic>>
  BY <1>1, <1>2 DEF SyncWrite
<1>. DEFINE dev == inode[s].id[1]
<1>. HIDE DEF dev
<1>5. PICK d : d = dev
  OBVIOUS
<1>. QED BY <1>2, <1>3, <1>4, <1>5, WrittenKeeps DEF dev

\* umount has written the directory.
LEMMA UmountWriteKeeps ==
    ASSUME ConstantsOK, InodesInv, NEW p \in Procs, UmountWrite(p)
    PROVE  InodesInv'
<1>1. PICK s \in Slots : proc[p].slot = s
  BY DEF UmountWrite, At, InodesInv, PlaceOK, SlotPlaces
<1>2. /\ TypeOK /\ proc[p].pc = "umountwrite" /\ Locks(p, s) /\ inode[s].id # NULL
      /\ inode[s].id[1] = 1
  BY <1>1 DEF InodesInv, UmountWrite, At, PlaceOK, CountOK, LockOK, Locks, MountPlace, MountRoot, Slots
<1>3. Does(p, "umount", proc[p].slot, proc[p].want, proc[p].at)
  BY <1>2, DoingRecords DEF UmountWrite, Places, ConstantsOK
<1>4. Written(s, inode[s].id[1]) /\ UNCHANGED <<imap, named, sb, panic>>
  BY <1>1, <1>2 DEF UmountWrite
<1>. DEFINE dev == inode[s].id[1]
<1>. HIDE DEF dev
<1>5. PICK d : d = dev
  OBVIOUS
<1>. QED BY <1>2, <1>3, <1>4, <1>5, WrittenKeeps DEF dev

\* sync_inodes locks an inode that nobody is deleting.
LEMMA SyncLockKeeps ==
    ASSUME ConstantsOK, ~ raced', InodesInv, NEW p \in Procs, SyncLock(p)
    PROVE  InodesInv'
<1>0. PICK s \in Slots : proc[p].at = s
  BY DEF SyncLock, At, InodesInv, PlaceOK, SlotPlaces
<1>. DEFINE i == inode[s]
<1>1. /\ At(p, "sync") /\ ~ i.lock /\ i.dirt /\ ~ i.pipe
      /\ \A q \in Procs : ~ (proc[q].pc = "trunc" /\ proc[q].slot = s)
      /\ inode' = [inode EXCEPT ![s].lock = TRUE]
      /\ proc' = [proc EXCEPT ![p].pc = "syncwrite", ![p].want = i.id]
      /\ UNCHANGED <<disk, imap, named, sb, panic>>
  BY <1>0 DEF SyncLock
<1>2. /\ TypeOK /\ OneOK /\ MountRoot /\ MountAlone /\ MountUsed
      /\ proc[p].at = s /\ s \in Slots /\ proc[p].pc = "sync"
      /\ CountOK(s) /\ LockOK(s) /\ DiskOK(s) /\ PlaceOK(p)
  BY <1>0, <1>1 DEF InodesInv, At, Slots, ConstantsOK, PlaceOK, SlotPlaces
<1>3. i.id \in Ids \cup {NULL} /\ i.id # NULL /\ i.count # 0 /\ ~ Reading(s)
  BY <1>1, <1>2, Typed DEF CountOK, LockOK, Locks, Reading
<1>4. Does(p, "syncwrite", proc[p].slot, i.id, proc[p].at)
  BY <1>1, <1>2, <1>3, DoingRecords DEF Places, ConstantsOK
<1>5. Becomes(s, i.id, i.count, TRUE, i.dirt, i.mount, i.pipe, i.nlinks, i.data)
  BY <1>1, <1>2, <1>3, Typed, NodeRecords
<1>6. TypeOK'
  BY <1>1, <1>2, <1>3, <1>4, <1>5 DEF TypeOK, Does, Becomes
<1>. USE DEF Does, IsDoing, Becomes, IsNode, OnlyProc, OnlySlot
<1>7. \A q \in Procs : PlaceOK(q)'
  <2>. SUFFICES ASSUME NEW q \in Procs PROVE PlaceOK(q)'
    OBVIOUS
  <2>1. PlaceOK(q) /\ PlaceOK(p)
    BY DEF InodesInv
  <2>2. CASE q = p
    BY <1>1, <1>2, <1>3, <1>4, <1>5, <2>1, <2>2, SMTT(20) DEF PlaceOK, LockOK, Locks, SlotPlaces, Slots
  <2>3. CASE q # p
    <3>1. proc'[q] = proc[q]
      BY <2>3, <1>4
    <3>. QED BY <1>1, <1>2, <1>3, <1>5, <2>1, <2>3, <3>1, Typed, SMTT(20) DEF PlaceOK, LockOK, Locks, SlotPlaces, Slots
  <2>. QED BY <2>2, <2>3
<1>8. \A t \in Slots : CountOK(t)'
  <2>1. \A t \in Slots : ~ Uses(p, t)' /\ ~ Uses(p, t) /\ proc'[p].slot # t
    BY <1>2, <1>4 DEF Uses, PlaceOK, SlotPlaces
  <2>2. CountOK(s)'
    <3>1. CountTrue(s)'
      BY <1>1, <1>2, <1>4, <1>5, <2>1, CountStep DEF CountOK
    <3>. QED BY <1>1, <1>2, <1>3, <1>5, <3>1 DEF CountOK
  <2>3. ASSUME NEW t \in Slots \ {s} PROVE CountOK(t)'
    BY <1>1, <1>2, <1>3, <1>4, <1>5, <2>1, <2>3, CountOther DEF InodesInv
  <2>. QED BY <2>2, <2>3
<1>9. \A t \in Slots : LockOK(t)'
  BY <1>1, <1>2, <1>3, <1>4, <1>5 DEF LockOK, Locks, InodesInv
<1>10. \A id \in Ids : LinksOK(id)'
  <2>. SUFFICES ASSUME NEW id \in Ids PROVE LinksOK(id)'
    OBVIOUS
  <2>1. LinksOK(id) /\ (LookedFor(id)' => LookedFor(id)) /\ \A t \in Slots : Reading(t)' <=> Reading(t)
    BY <1>1, <1>2, <1>3, <1>4 DEF InodesInv, LookedFor, Reading
  <2>2. Having(id)' = Having(id) /\ \A t \in Having(id) : inode'[t].nlinks = inode[t].nlinks
    BY <1>1, <1>2, <1>3, <1>5 DEF Having
  <2>. QED BY <1>1, <2>1, <2>2, LinksSame DEF Having
<1>11. MountRoot' /\ MountAlone' /\ \A q \in Procs : MountPlace(q)'
  <2>1. MountRoot'
    BY <1>1, <1>2, <1>3, <1>5, Typed, SMTT(20) DEF MountRoot, Slots
  <2>2. MountAlone'
    BY <1>1, <1>2, <1>3, <1>4 DEF MountAlone
  <2>3. ASSUME NEW q \in Procs PROVE MountPlace(q)'
    <3>1. MountPlace(q) /\ PlaceOK(q) /\ MountPlace(p) /\ PlaceOK(p)
      BY DEF InodesInv
    <3>. QED BY <1>1, <1>2, <1>3, <1>4, <1>5, <3>1, Typed, SMTT(20) DEF MountPlace, PlaceOK, SlotPlaces
  <2>. QED BY <2>1, <2>2, <2>3
<1>12. MountUsed'
  <2>1. LookedFor(MOUNTED)' => LookedFor(MOUNTED)
    BY <1>1, <1>2, <1>3, <1>4 DEF LookedFor
  <2>2. IsMounted => inode'[sb.imount].mount
    BY <1>1, <1>2, <1>3, <1>5, Typed DEF IsMounted, Slots
  <2>3. ASSUME NEW t \in Slots, inode'[t].id = MOUNTED, inode'[t].count > 0
        PROVE  inode[t].id = MOUNTED /\ inode[t].count > 0
    BY <1>1, <1>2, <1>3, <1>5, <2>3, Typed DEF ConstantsOK, Ids
  <2>. QED BY <1>1, <1>2, <1>3, <1>5, <2>1, <2>2, <2>3, UsedSame
<1>13. OneOK' /\ \A t \in Slots : DiskOK(t)'
  BY <1>1, <1>2, <1>3, <1>5 DEF OneOK, DiskOK, InodesInv
<1>. QED BY <1>6, <1>7, <1>8, <1>9, <1>10, <1>11, <1>12, <1>13 DEF InodesInv

\* iget counts the inode that it finds and gives back the slot it took. The inode
\* is reachable and not locked, so that nobody reads or deletes it.
LEMMA IgetFoundKeeps ==
    ASSUME ConstantsOK, InodesInv, NEW p \in Procs, IgetFound(p)
    PROVE  InodesInv'
<1>a. PICK x : x = Sought(p)
  OBVIOUS
<1>0. PICK s \in Slots, e \in Slots : /\ proc[p].slot = e /\ Sought(p) = x /\ s \in Having(x) /\ ~ inode[s].lock
         /\ inode' = [inode EXCEPT ![s].count = @ + 1, ![proc[p].slot].count = 0]
         /\ Holds(p, s)
  BY <1>a DEF IgetFound, At, InodesInv, PlaceOK, SlotPlaces, Having
<1>. DEFINE i == inode[s]
            j == inode[e]
<1>1. /\ At(p, "scan") /\ s \in Having(x) /\ ~ i.lock
      /\ inode' = [inode EXCEPT ![s].count = @ + 1, ![e].count = 0]
      /\ Holds(p, s)
      /\ UNCHANGED <<disk, imap, named, sb, panic>>
  BY <1>0 DEF IgetFound
<1>2. /\ TypeOK /\ OneOK /\ MountRoot /\ MountAlone /\ MountUsed
      /\ proc[p].slot = e /\ e \in Slots /\ proc[p].pc = "scan" /\ j.id = NULL /\ j.count = 1 /\ ~ j.pipe
      /\ s \in Slots /\ s \in 0 .. NR_INODE /\ i.id = x /\ ~ i.lock
      /\ CountOK(s) /\ CountOK(e) /\ LockOK(s) /\ LockOK(e) /\ PlaceOK(p)
  BY <1>0, <1>1 DEF InodesInv, At, Slots, ConstantsOK, PlaceOK, SlotPlaces, Having
<1>3. /\ x \in Ids /\ x # NULL /\ Reachable(x) /\ s # e /\ ~ i.pipe
      /\ x = MOUNTED => IsMounted
      /\ sb.imount # e /\ (\A q \in Procs \ {p} : proc[q].slot # e)
      /\ ~ j.lock /\ ~ j.dirt /\ ~ j.mount
      /\ \A q \in Procs : proc[q].slot = s => proc[q].pc \notin {"read", "trunc"}
  <2>1. proc[p].want \in Ids /\ MOUNTED \in Ids /\ LookedFor(proc[p].want)
    BY <1>2 DEF PlaceOK, LookedFor, Ids
  <2>2. x \in Ids /\ Reachable(x) /\ LinksOK(x) /\ (x # MOUNTED => x = proc[p].want)
    BY <1>0, <2>1 DEF Sought, Reachable, InodesInv
  <2>3. ASSUME x = MOUNTED PROVE IsMounted
    <3>1. CASE proc[p].want = MOUNTED
      BY <1>2, <2>1, <3>1 DEF MountUsed
    <3>2. CASE proc[p].want # MOUNTED
      <4>1. PICK t \in Slots : inode[t].mount
        BY <1>0, <2>3, <3>2 DEF Sought, Covered, Having
      <4>. QED BY <1>2, <4>1 DEF MountRoot, IsMounted, Slots, ConstantsOK
    <3>. QED BY <3>1, <3>2
  <2>4. sb.imount # e /\ \A q \in Procs \ {p} : proc[q].slot # e
    BY <1>2, InUseOnce
  <2>5. ASSUME NEW q \in Procs, proc[q].slot = s PROVE proc[q].pc \notin {"read", "trunc"}
    <3>1. proc[q].pc # "read"
      BY <1>2, <2>5 DEF LockOK, Locks
    <3>2. ~ Reading(s)
      BY <1>2 DEF LockOK, Locks, Reading
    <3>3. i.nlinks = 1
      BY <1>1, <2>2, <3>2 DEF LinksOK
    <3>. QED BY <1>2, <2>5, <3>1, <3>3 DEF InodesInv, PlaceOK
  <2>6. ~ j.lock /\ ~ j.dirt /\ ~ j.mount /\ x # NULL /\ ~ i.pipe
    BY <1>2, <2>2 DEF CountOK, ConstantsOK
  <2>. QED BY <1>2, <2>2, <2>3, <2>4, <2>5, <2>6
<1>4. Does(p, "held", s, NULL, 0)
  BY <1>0, <1>2, DoingRecords DEF ConstantsOK
<1>5. /\ IsNode(inode'[s], i.id, i.count + 1, i.lock, i.dirt, i.mount, i.pipe, i.nlinks, i.data)
      /\ IsNode(inode'[e], j.id, 0, j.lock, j.dirt, j.mount, j.pipe, j.nlinks, j.data)
      /\ (\A t \in Slots \ {s, e} : inode'[t] = inode[t]) /\ inode' \in [Slots -> InCore]
  BY <1>1, <1>2, <1>3, NodeTwo
<1>14. \A t \in Slots : /\ inode'[t].id = inode[t].id /\ inode'[t].mount = inode[t].mount
                        /\ inode'[t].dirt = inode[t].dirt /\ inode'[t].lock = inode[t].lock
                        /\ inode'[t].nlinks = inode[t].nlinks /\ inode'[t].data = inode[t].data
  <2>. SUFFICES ASSUME NEW t \in Slots
        PROVE  /\ inode'[t].id = inode[t].id /\ inode'[t].mount = inode[t].mount
               /\ inode'[t].dirt = inode[t].dirt /\ inode'[t].lock = inode[t].lock
               /\ inode'[t].nlinks = inode[t].nlinks /\ inode'[t].data = inode[t].data
    OBVIOUS
  <2>1. CASE t = s
    BY <1>5, <2>1 DEF IsNode
  <2>2. CASE t = e
    BY <1>5, <2>2 DEF IsNode
  <2>3. CASE t # s /\ t # e
    BY <1>5, <2>3
  <2>. QED BY <2>1, <2>2, <2>3
<1>6. TypeOK'
  BY <1>1, <1>2, <1>3, <1>4, <1>5 DEF TypeOK, Does, Becomes
<1>. USE DEF Does, IsDoing, Becomes, IsNode, OnlyProc, OnlySlot
<1>7. \A q \in Procs : PlaceOK(q)'
  <2>1. PlaceOK(p)'
    <3>1. proc'[p].pc = "held" /\ proc'[p].slot = s /\ s \in Slots /\ inode'[s].id # NULL /\ ~ inode'[s].pipe
      BY <1>2, <1>3, <1>4, <1>5
    <3>. QED BY <3>1 DEF PlaceOK, SlotPlaces
  <2>2. ASSUME NEW q \in Procs \ {p} PROVE PlaceOK(q)'
    <3>1. PlaceOK(q) /\ proc'[q] = proc[q] /\ proc[q].slot # e
      BY <1>3, <1>4 DEF InodesInv
    <3>2. CASE proc[q].slot = s
      <4>1. proc[q].pc \notin {"scan", "read", "trunc", "pipe"}
        BY <1>2, <1>3, <3>1, <3>2 DEF PlaceOK
      <4>2. inode'[s].id # NULL /\ ~ inode'[s].pipe
        BY <1>2, <1>3, <1>5
      <4>3. proc[q].pc = "syncwrite" => proc[q].slot \notin Slots
        BY <3>1 DEF PlaceOK, SlotPlaces
      <4>. QED BY <3>1, <3>2, <4>1, <4>2, <4>3 DEF PlaceOK
    <3>3. CASE proc[q].slot # s
      <4>1. proc[q].slot \in Slots => inode'[proc[q].slot] = inode[proc[q].slot]
        BY <1>5, <3>1, <3>3
      <4>2. proc[q].pc = "syncwrite" => inode'[proc[q].at].id = inode[proc[q].at].id
        BY <1>14, <3>1 DEF PlaceOK
      <4>. QED BY <3>1, <4>1, <4>2 DEF PlaceOK, SlotPlaces
    <3>. QED BY <3>2, <3>3
  <2>. QED BY <2>1, <2>2
<1>8. \A t \in Slots : CountOK(t)'
  <2>1. /\ ~ Uses(p, s) /\ Uses(p, s)' /\ Uses(p, e) /\ ~ Uses(p, e)'
        /\ \A t \in Slots \ {s, e} : ~ Uses(p, t) /\ ~ Uses(p, t)'
    BY <1>2, <1>3, <1>4 DEF Uses
  <2>2. CountTrue(s) /\ CountTrue(e) /\ sb' = sb
    BY <1>1, <1>2, <1>3 DEF CountOK
  <2>3. CountOK(s)'
    <3>1. CountTrue(s)'
      BY <1>2, <1>4, <1>5, <2>1, <2>2, CountStep
    <3>. QED BY <1>2, <1>3, <1>5, <3>1, Typed DEF CountOK
  <2>4. CountOK(e)'
    <3>1. inode'[e].count = inode[e].count - 1
      BY <1>2, <1>5
    <3>2. CountTrue(e)'
      BY <1>2, <1>4, <2>1, <2>2, <3>1, CountStep
    <3>. QED BY <1>2, <1>3, <1>5, <3>2 DEF CountOK
  <2>5. ASSUME NEW t \in Slots \ {s, e} PROVE CountOK(t)'
    <3>1. CountOK(t) /\ inode'[t] = inode[t] /\ proc'[p].slot # t
      BY <1>4, <1>5, <2>5 DEF InodesInv
    <3>. QED BY <1>4, <2>1, <2>2, <2>5, <3>1, CountOther
  <2>. QED BY <2>3, <2>4, <2>5
<1>9. \A t \in Slots : LockOK(t)'
  BY <1>1, <1>2, <1>3, <1>4, <1>5 DEF LockOK, Locks, InodesInv
<1>10. \A id \in Ids : LinksOK(id)'
  <2>. SUFFICES ASSUME NEW id \in Ids PROVE LinksOK(id)'
    OBVIOUS
  <2>1. LinksOK(id) /\ (LookedFor(id)' => LookedFor(id)) /\ \A t \in Slots : Reading(t)' <=> Reading(t)
    BY <1>1, <1>2, <1>3, <1>4 DEF InodesInv, LookedFor, Reading
  <2>0. \A t \in Slots : inode'[t].id = inode[t].id /\ inode'[t].nlinks = inode[t].nlinks
    BY <1>5
  <2>2. Having(id)' = Having(id) /\ \A t \in Having(id) : inode'[t].nlinks = inode[t].nlinks
    BY <2>0 DEF Having
  <2>. QED BY <1>1, <2>1, <2>2, LinksSame DEF Having
<1>11. MountRoot' /\ MountAlone' /\ \A q \in Procs : MountPlace(q)'
  <2>1. MountRoot'
    <3>1. \A t \in Slots : inode'[t].id = inode[t].id /\ inode'[t].mount = inode[t].mount
      BY <1>14
    <3>2. sb' = sb /\ MountRoot /\ (sb.imount # 0 => sb.imount \in Slots)
      BY <1>1, <1>2, Typed DEF Slots, ConstantsOK
    <3>. QED BY <3>1, <3>2 DEF MountRoot
  <2>2. MountAlone'
    BY <1>1, <1>2, <1>3, <1>4 DEF MountAlone
  <2>3. ASSUME NEW q \in Procs PROVE MountPlace(q)'
    <3>1. MountPlace(q) /\ PlaceOK(q) /\ MountPlace(p) /\ PlaceOK(p)
      BY DEF InodesInv
    <3>2. \A t \in Slots : inode'[t].id = inode[t].id /\ inode'[t].mount = inode[t].mount
      BY <1>14
    <3>3. sb' = sb /\ (proc'[q].pc = "held" \/ proc'[q] = proc[q])
      <4>1. CASE q = p
        BY <1>1, <1>4, <4>1
      <4>2. CASE q # p
        BY <1>1, <1>4, <4>2
      <4>. QED BY <4>1, <4>2
    <3>4. proc[q].pc \in SlotPlaces => proc[q].slot \in Slots
      BY <3>1 DEF PlaceOK
    <3>. QED BY <3>1, <3>2, <3>3, <3>4 DEF MountPlace, SlotPlaces
  <2>. QED BY <2>1, <2>2, <2>3
<1>12. MountUsed'
  <2>1. LookedFor(MOUNTED)' => LookedFor(MOUNTED)
    BY <1>1, <1>2, <1>3, <1>4 DEF LookedFor
  <2>2. \A t \in Slots : inode'[t].id = inode[t].id /\ inode'[t].mount = inode[t].mount
    BY <1>14
  <2>3. IsMounted' <=> IsMounted
    <3>1. sb' = sb
      BY <1>1
    <3>2. sb.imount # 0 => sb.imount \in Slots
      BY <1>2, Typed DEF Slots, ConstantsOK
    <3>. QED BY <2>2, <3>1, <3>2 DEF IsMounted
  <2>4. ASSUME NEW t \in Slots, inode'[t].id = MOUNTED, inode'[t].count > 0, t # s
        PROVE  inode[t].id = MOUNTED /\ inode[t].count > 0
    BY <1>1, <1>2, <1>3, <1>5, <2>2, <2>4
  <2>. QED BY <1>2, <1>3, <2>1, <2>2, <2>3, <2>4 DEF MountUsed, Having
<1>13. OneOK' /\ \A t \in Slots : DiskOK(t)'
  <2>1. \A t \in Slots : inode'[t].id = inode[t].id /\ inode'[t].dirt = inode[t].dirt
                        /\ inode'[t].lock = inode[t].lock /\ inode'[t].nlinks = inode[t].nlinks
                        /\ inode'[t].data = inode[t].data
    BY <1>14
  <2>2. disk' = disk /\ OneOK /\ \A t \in Slots : DiskOK(t)
    BY <1>1, <1>2 DEF InodesInv
  <2>3. OneOK'
    BY <2>1, <2>2 DEF OneOK
  <2>4. ASSUME NEW t \in Slots PROVE DiskOK(t)'
    <3>1. DiskOK(t) /\ inode'[t].id = inode[t].id /\ inode'[t].dirt = inode[t].dirt /\ inode'[t].lock = inode[t].lock
          /\ inode'[t].nlinks = inode[t].nlinks /\ inode'[t].data = inode[t].data
      BY <2>1, <2>2
    <3>. QED BY <2>2, <3>1 DEF DiskOK
  <2>. QED BY <2>3, <2>4
<1>. QED BY <1>6, <1>7, <1>8, <1>9, <1>10, <1>11, <1>12, <1>13 DEF InodesInv

\* One end of a pipe is closed.
LEMMA IputPipeOneKeeps ==
    ASSUME ConstantsOK, InodesInv, NEW p \in Procs, NEW s \in Slots, proc[p].slot = s, inode[s].count > 1, IputPipe(p)
    PROVE  InodesInv'
<1>. DEFINE i == inode[s]
<1>0. (inode[s].count > 1) = TRUE
  OBVIOUS
<1>1. /\ At(p, "pipe")
      /\ inode' = [inode EXCEPT ![s] = [@ EXCEPT !.count = i.count - 1, !.pipe = TRUE]]
      /\ UNCHANGED proc
      /\ UNCHANGED <<disk, imap, named, sb, panic>>
  BY <1>0 DEF IputPipe
<1>2. /\ TypeOK /\ OneOK /\ MountRoot /\ MountAlone /\ MountUsed
      /\ proc[p].slot = s /\ s \in Slots /\ proc[p].pc = "pipe" /\ i.id = NULL /\ i.pipe /\ sb.imount # s
      /\ CountOK(s) /\ LockOK(s) /\ PlaceOK(p)
  BY <1>0, <1>1 DEF InodesInv, At, Slots, ConstantsOK, PlaceOK, SlotPlaces, CountOK
<1>3. /\ i.count - 1 \in Nat /\ i.count - 1 > 0 /\ (\A q \in Procs \ {p} : proc[q].slot # s)
      /\ ~ i.lock /\ ~ i.dirt /\ ~ i.mount
  BY <1>2, Typed DEF CountOK
<1>4. OnlyProc(p) /\ proc'[p] = proc[p] /\ proc' \in [Procs -> Doing]
  BY <1>1, <1>2 DEF OnlyProc, TypeOK
<1>5. Becomes(s, i.id, i.count - 1, i.lock, i.dirt, i.mount, TRUE, i.nlinks, i.data)
  BY <1>1, <1>2, <1>3, Typed, NodeRecords
<1>6. TypeOK'
  BY <1>1, <1>2, <1>3, <1>4, <1>5 DEF TypeOK, Does, Becomes
<1>. USE DEF Does, IsDoing, Becomes, IsNode, OnlyProc, OnlySlot
<1>7. \A q \in Procs : PlaceOK(q)'
  <2>. SUFFICES ASSUME NEW q \in Procs PROVE PlaceOK(q)'
    OBVIOUS
  <2>1. PlaceOK(q) /\ PlaceOK(p)
    BY DEF InodesInv
  <2>2. CASE q = p
    BY <1>1, <1>2, <1>3, <1>4, <1>5, <2>1, <2>2, SMTT(20) DEF PlaceOK, LockOK, Locks, SlotPlaces, Slots
  <2>3. CASE q # p
    <3>1. proc'[q] = proc[q]
      BY <2>3, <1>4
    <3>. QED BY <1>1, <1>2, <1>3, <1>5, <2>1, <2>3, <3>1, Typed, SMTT(20) DEF PlaceOK, LockOK, Locks, SlotPlaces, Slots
  <2>. QED BY <2>2, <2>3
<1>8. \A t \in Slots : CountOK(t)'
  <2>1. \A t \in Slots : Uses(p, t)' <=> Uses(p, t)
    BY <1>1, <1>2, <1>3, <1>4 DEF Uses
  <2>2. CountOK(s)'
    BY <1>1, <1>2, <1>3, <1>4, <1>5 DEF CountOK
  <2>3. ASSUME NEW t \in Slots \ {s} PROVE CountOK(t)'
    BY <1>1, <1>2, <1>3, <1>4, <1>5, <2>1, <2>3, CountOther DEF InodesInv
  <2>. QED BY <2>2, <2>3
<1>9. \A t \in Slots : LockOK(t)'
  BY <1>1, <1>2, <1>3, <1>4, <1>5 DEF LockOK, Locks, InodesInv
<1>10. \A id \in Ids : LinksOK(id)'
  <2>. SUFFICES ASSUME NEW id \in Ids PROVE LinksOK(id)'
    OBVIOUS
  <2>1. LinksOK(id) /\ (LookedFor(id)' => LookedFor(id)) /\ \A t \in Slots : Reading(t)' <=> Reading(t)
    BY <1>1, <1>2, <1>3, <1>4 DEF InodesInv, LookedFor, Reading
  <2>2. Having(id)' = Having(id) /\ \A t \in Having(id) : inode'[t].nlinks = inode[t].nlinks
    BY <1>1, <1>2, <1>3, <1>5 DEF Having
  <2>. QED BY <1>1, <2>1, <2>2, LinksSame DEF Having
<1>11. MountRoot' /\ MountAlone' /\ \A q \in Procs : MountPlace(q)'
  <2>1. MountRoot'
    BY <1>1, <1>2, <1>3, <1>5, Typed, SMTT(20) DEF MountRoot, Slots
  <2>2. MountAlone'
    BY <1>1, <1>2, <1>3, <1>4 DEF MountAlone
  <2>3. ASSUME NEW q \in Procs PROVE MountPlace(q)'
    <3>1. MountPlace(q) /\ PlaceOK(q) /\ MountPlace(p) /\ PlaceOK(p)
      BY DEF InodesInv
    <3>. QED BY <1>1, <1>2, <1>3, <1>4, <1>5, <3>1, Typed, SMTT(20) DEF MountPlace, PlaceOK, SlotPlaces
  <2>. QED BY <2>1, <2>2, <2>3
<1>12. MountUsed'
  <2>1. LookedFor(MOUNTED)' => LookedFor(MOUNTED)
    BY <1>1, <1>2, <1>3, <1>4 DEF LookedFor
  <2>2. IsMounted => inode'[sb.imount].mount
    BY <1>1, <1>2, <1>3, <1>5, Typed DEF IsMounted, Slots
  <2>3. ASSUME NEW t \in Slots, inode'[t].id = MOUNTED, inode'[t].count > 0
        PROVE  inode[t].id = MOUNTED /\ inode[t].count > 0
    BY <1>1, <1>2, <1>3, <1>5, <2>3, Typed DEF ConstantsOK, Ids
  <2>. QED BY <1>1, <1>2, <1>3, <1>5, <2>1, <2>2, <2>3, UsedSame
<1>13. OneOK' /\ \A t \in Slots : DiskOK(t)'
  BY <1>1, <1>2, <1>3, <1>5 DEF OneOK, DiskOK, InodesInv
<1>. QED BY <1>6, <1>7, <1>8, <1>9, <1>10, <1>11, <1>12, <1>13 DEF InodesInv

\* With the last end the inode is no pipe any more and unused.
LEMMA IputPipeBothKeeps ==
    ASSUME ConstantsOK, InodesInv, NEW p \in Procs, NEW s \in Slots, proc[p].slot = s, ~ (inode[s].count > 1), IputPipe(p)
    PROVE  InodesInv'
<1>. DEFINE i == inode[s]
<1>0. (inode[s].count > 1) = FALSE
  OBVIOUS
<1>1. /\ At(p, "pipe")
      /\ inode' = [inode EXCEPT ![s] = [@ EXCEPT !.count = i.count - 1, !.pipe = FALSE]]
      /\ Ends(p)
      /\ UNCHANGED <<disk, imap, named, sb, panic>>
  BY <1>0 DEF IputPipe
<1>2. /\ TypeOK /\ OneOK /\ MountRoot /\ MountAlone /\ MountUsed
      /\ proc[p].slot = s /\ s \in Slots /\ proc[p].pc = "pipe" /\ i.id = NULL /\ i.pipe /\ sb.imount # s
      /\ CountOK(s) /\ LockOK(s) /\ PlaceOK(p)
  BY <1>0, <1>1 DEF InodesInv, At, Slots, ConstantsOK, PlaceOK, SlotPlaces, CountOK
<1>3. /\ i.count - 1 \in Nat /\ i.count - 1 = 0 /\ (\A q \in Procs \ {p} : proc[q].slot # s)
      /\ ~ i.lock /\ ~ i.dirt /\ ~ i.mount
  BY <1>2, Typed DEF CountOK
<1>4. Does(p, "idle", 0, NULL, 0)
  BY <1>1, <1>2, <1>3, DoingRecords DEF Places, ConstantsOK
<1>5. Becomes(s, i.id, i.count - 1, i.lock, i.dirt, i.mount, FALSE, i.nlinks, i.data)
  BY <1>1, <1>2, <1>3, Typed, NodeRecords
<1>6. TypeOK'
  BY <1>1, <1>2, <1>3, <1>4, <1>5 DEF TypeOK, Does, Becomes
<1>. USE DEF Does, IsDoing, Becomes, IsNode, OnlyProc, OnlySlot
<1>7. \A q \in Procs : PlaceOK(q)'
  <2>. SUFFICES ASSUME NEW q \in Procs PROVE PlaceOK(q)'
    OBVIOUS
  <2>1. PlaceOK(q) /\ PlaceOK(p)
    BY DEF InodesInv
  <2>2. CASE q = p
    BY <1>1, <1>2, <1>3, <1>4, <1>5, <2>1, <2>2, SMTT(20) DEF PlaceOK, LockOK, Locks, SlotPlaces, Slots
  <2>3. CASE q # p
    <3>1. proc'[q] = proc[q]
      BY <2>3, <1>4
    <3>. QED BY <1>1, <1>2, <1>3, <1>5, <2>1, <2>3, <3>1, Typed, SMTT(20) DEF PlaceOK, LockOK, Locks, SlotPlaces, Slots
  <2>. QED BY <2>2, <2>3
<1>8. \A t \in Slots : CountOK(t)'
  <2>1. \A t \in Slots \ {s} : ~ Uses(p, t) /\ ~ Uses(p, t)'
    BY <1>2, <1>4 DEF Uses, PlaceOK, SlotPlaces, Slots
  <2>2. CountOK(s)'
    <3>1. Holders(s)' = {}
      BY <1>2, <1>3, <1>4 DEF Holders, Slots
    <3>2. Cardinality(Holders(s))' = 0
      BY <3>1, FS_EmptySet
    <3>3. CountTrue(s)'
      BY <1>1, <1>2, <1>3, <1>5, <3>2 DEF CountTrue, One
    <3>. QED BY <1>2, <1>3, <1>5, <3>3 DEF CountOK
  <2>3. ASSUME NEW t \in Slots \ {s} PROVE CountOK(t)'
    BY <1>1, <1>2, <1>3, <1>4, <1>5, <2>1, <2>3, CountOther DEF InodesInv, Slots
  <2>. QED BY <2>2, <2>3
<1>9. \A t \in Slots : LockOK(t)'
  BY <1>1, <1>2, <1>3, <1>4, <1>5 DEF LockOK, Locks, InodesInv
<1>10. \A id \in Ids : LinksOK(id)'
  <2>. SUFFICES ASSUME NEW id \in Ids PROVE LinksOK(id)'
    OBVIOUS
  <2>1. LinksOK(id) /\ (LookedFor(id)' => LookedFor(id)) /\ \A t \in Slots : Reading(t)' <=> Reading(t)
    BY <1>1, <1>2, <1>3, <1>4 DEF InodesInv, LookedFor, Reading
  <2>2. Having(id)' = Having(id) /\ \A t \in Having(id) : inode'[t].nlinks = inode[t].nlinks
    BY <1>1, <1>2, <1>3, <1>5 DEF Having
  <2>. QED BY <1>1, <2>1, <2>2, LinksSame DEF Having
<1>11. MountRoot' /\ MountAlone' /\ \A q \in Procs : MountPlace(q)'
  <2>1. MountRoot'
    BY <1>1, <1>2, <1>3, <1>5, Typed, SMTT(20) DEF MountRoot, Slots
  <2>2. MountAlone'
    BY <1>1, <1>2, <1>3, <1>4 DEF MountAlone
  <2>3. ASSUME NEW q \in Procs PROVE MountPlace(q)'
    <3>1. MountPlace(q) /\ PlaceOK(q) /\ MountPlace(p) /\ PlaceOK(p)
      BY DEF InodesInv
    <3>. QED BY <1>1, <1>2, <1>3, <1>4, <1>5, <3>1, Typed, SMTT(20) DEF MountPlace, PlaceOK, SlotPlaces
  <2>. QED BY <2>1, <2>2, <2>3
<1>12. MountUsed'
  <2>1. LookedFor(MOUNTED)' => LookedFor(MOUNTED)
    BY <1>1, <1>2, <1>3, <1>4 DEF LookedFor
  <2>2. IsMounted => inode'[sb.imount].mount
    BY <1>1, <1>2, <1>3, <1>5, Typed DEF IsMounted, Slots
  <2>3. ASSUME NEW t \in Slots, inode'[t].id = MOUNTED, inode'[t].count > 0
        PROVE  inode[t].id = MOUNTED /\ inode[t].count > 0
    BY <1>1, <1>2, <1>3, <1>5, <2>3, Typed DEF ConstantsOK, Ids
  <2>. QED BY <1>1, <1>2, <1>3, <1>5, <2>1, <2>2, <2>3, UsedSame
<1>13. OneOK' /\ \A t \in Slots : DiskOK(t)'
  BY <1>1, <1>2, <1>3, <1>5 DEF OneOK, DiskOK, InodesInv
<1>. QED BY <1>6, <1>7, <1>8, <1>9, <1>10, <1>11, <1>12, <1>13 DEF InodesInv

\* Either way.
LEMMA IputPipeKeeps ==
    ASSUME ConstantsOK, InodesInv, NEW p \in Procs, IputPipe(p)
    PROVE  InodesInv'
<1>1. PICK s \in Slots : proc[p].slot = s
  BY DEF IputPipe, At, InodesInv, PlaceOK, SlotPlaces
<1>2. CASE inode[s].count > 1
  BY <1>1, <1>2, IputPipeOneKeeps
<1>3. CASE ~ (inode[s].count > 1)
  BY <1>1, <1>3, IputPipeBothKeeps
<1>. QED BY <1>2, <1>3

\* sys_mount takes the super block: nobody else can mount.
LEMMA MountKeeps ==
    ASSUME ConstantsOK, InodesInv, NEW p \in Procs, Mount(p)
    PROVE  InodesInv'
<1>0. PICK s \in Slots : proc[p].slot = s
  BY DEF Mount, At, InodesInv, PlaceOK, SlotPlaces
<1>. DEFINE i == inode[s]
<1>1. /\ At(p, "held") /\ i.id = <<1, 2>> /\ i.count = 1 /\ sb.dev = 0
      /\ sb' = [sb EXCEPT !.dev = 2, !.lock = TRUE]
      /\ Goes(p, "super")
      /\ UNCHANGED <<inode, disk, imap, named, panic>>
  BY <1>0 DEF Mount
<1>2. /\ TypeOK /\ OneOK /\ MountRoot /\ MountAlone /\ MountUsed
      /\ proc[p].slot = s /\ s \in Slots /\ s \in 0 .. NR_INODE /\ proc[p].pc = "held" /\ i.id # NULL /\ ~ i.pipe
      /\ CountOK(s) /\ LockOK(s) /\ DiskOK(s) /\ PlaceOK(p)
  BY <1>0, <1>1 DEF InodesInv, At, Slots, ConstantsOK, PlaceOK, SlotPlaces
<1>3. /\ sb' \in [dev : {0, 2}, lock : BOOLEAN, imount : 0 .. NR_INODE] /\ sb'.imount = sb.imount /\ sb'.dev = 2 /\ sb'.lock
      /\ sb.imount = 0
      /\ \A q \in Procs : proc[q].pc # "super"
  <2>1. /\ sb \in [dev : {0, 2}, lock : BOOLEAN, imount : 0 .. NR_INODE]
    BY <1>2 DEF TypeOK
  <2>2. sb.imount = 0 /\ \A q \in Procs : proc[q].pc # "super"
    BY <1>1, <1>2 DEF MountRoot, InodesInv, MountPlace
  <2>. QED BY <1>1, <2>1, <2>2
<1>4. Does(p, "super", s, proc[p].want, proc[p].at)
  BY <1>1, <1>2, <1>3, DoingRecords DEF Places, ConstantsOK
<1>6. TypeOK'
  BY <1>1, <1>2, <1>3, <1>4 DEF TypeOK, Does, Becomes
<1>. USE DEF Does, IsDoing, Becomes, IsNode, OnlyProc, OnlySlot
<1>7. \A q \in Procs : PlaceOK(q)'
  <2>. SUFFICES ASSUME NEW q \in Procs PROVE PlaceOK(q)'
    OBVIOUS
  <2>1. PlaceOK(q) /\ PlaceOK(p)
    BY DEF InodesInv
  <2>2. CASE q = p
    BY <1>1, <1>2, <1>3, <1>4, <2>1, <2>2, SMTT(20) DEF PlaceOK, LockOK, Locks, SlotPlaces, Slots
  <2>3. CASE q # p
    <3>1. proc'[q] = proc[q]
      BY <2>3, <1>4
    <3>. QED BY <1>1, <1>2, <1>3, <2>1, <2>3, <3>1, Typed, SMTT(20) DEF PlaceOK, LockOK, Locks, SlotPlaces, Slots
  <2>. QED BY <2>2, <2>3
<1>8. \A t \in Slots : CountOK(t)'
  <2>1. \A t \in Slots : Uses(p, t)' <=> Uses(p, t)
    BY <1>1, <1>2, <1>3, <1>4 DEF Uses, PlaceOK, SlotPlaces
  <2>. QED BY <1>1, <1>2, <1>3, <1>4, <2>1, CountOther DEF InodesInv, PlaceOK, SlotPlaces
<1>9. \A t \in Slots : LockOK(t)'
  BY <1>1, <1>2, <1>3, <1>4 DEF LockOK, Locks, InodesInv
<1>10. \A id \in Ids : LinksOK(id)'
  <2>. SUFFICES ASSUME NEW id \in Ids PROVE LinksOK(id)'
    OBVIOUS
  <2>1. LinksOK(id) /\ (LookedFor(id)' => LookedFor(id)) /\ \A t \in Slots : Reading(t)' <=> Reading(t)
    BY <1>1, <1>2, <1>3, <1>4 DEF InodesInv, LookedFor, Reading
  <2>2. Having(id)' = Having(id) /\ \A t \in Having(id) : inode'[t].nlinks = inode[t].nlinks
    BY <1>1, <1>2, <1>3 DEF Having
  <2>. QED BY <1>1, <2>1, <2>2, LinksSame DEF Having
<1>11. MountRoot' /\ MountAlone' /\ \A q \in Procs : MountPlace(q)'
  <2>1. MountRoot'
    BY <1>1, <1>2, <1>3, Typed, SMTT(20) DEF MountRoot, Slots
  <2>2. MountAlone'
    BY <1>1, <1>2, <1>3, <1>4 DEF MountAlone
  <2>3. ASSUME NEW q \in Procs PROVE MountPlace(q)'
    <3>1. MountPlace(q) /\ PlaceOK(q) /\ MountPlace(p) /\ PlaceOK(p)
      BY DEF InodesInv
    <3>. QED BY <1>1, <1>2, <1>3, <1>4, <3>1, Typed, SMTT(20) DEF MountPlace, PlaceOK, SlotPlaces
  <2>. QED BY <2>1, <2>2, <2>3
<1>12. MountUsed'
  <2>1. LookedFor(MOUNTED)' => LookedFor(MOUNTED)
    BY <1>1, <1>2, <1>3, <1>4 DEF LookedFor
  <2>2. sb'.imount = sb.imount /\ inode' = inode /\ MountUsed
    BY <1>1, <1>2, <1>3
  <2>. QED BY <2>1, <2>2 DEF MountUsed, IsMounted, Having
<1>13. OneOK' /\ \A t \in Slots : DiskOK(t)'
  BY <1>1, <1>2, <1>3 DEF OneOK, DiskOK, InodesInv
<1>. QED BY <1>6, <1>7, <1>8, <1>9, <1>10, <1>11, <1>12, <1>13 DEF InodesInv

\* The mounted directory passes from the count of its user to the super block.
LEMMA MountDoneKeeps ==
    ASSUME ConstantsOK, InodesInv, NEW p \in Procs, NEW s \in Slots, proc[p].slot = s, At(p, "super"), UNCHANGED <<disk, imap, named, panic>>,
           sb' = [sb EXCEPT !.lock = FALSE, !.imount = s],
           inode' = [inode EXCEPT ![s] = [@ EXCEPT !.mount = TRUE, !.dirt = TRUE]], Ends(p)
    PROVE  InodesInv'
<1>. DEFINE i == inode[s]
<1>1. /\ sb' = [sb EXCEPT !.lock = FALSE, !.imount = s]
      /\ inode' = [inode EXCEPT ![s] = [@ EXCEPT !.mount = TRUE, !.dirt = TRUE]]
      /\ Ends(p)
      /\ UNCHANGED <<disk, imap, named, panic>>
  BY DEF At
<1>2. /\ TypeOK /\ OneOK /\ MountRoot /\ MountAlone /\ MountUsed
      /\ proc[p].slot = s /\ s \in Slots /\ s \in 0 .. NR_INODE /\ proc[p].pc = "super" /\ i.id # NULL /\ ~ i.pipe
      /\ CountOK(s) /\ LockOK(s) /\ DiskOK(s) /\ PlaceOK(p)
      /\ MountPlace(p)
  BY <1>1 DEF InodesInv, At, Slots, ConstantsOK, PlaceOK, SlotPlaces
<1>3. /\ sb' \in [dev : {0, 2}, lock : BOOLEAN, imount : 0 .. NR_INODE] /\ sb'.imount = s /\ sb'.dev = 2 /\ ~ sb'.lock /\ s # 0
      /\ sb.imount = 0 /\ i.id = <<1, 2>> /\ i.id # MOUNTED
      /\ (\A q \in Procs \ {p} : proc[q].pc \notin {"super", "umount", "umountwrite"})
      /\ i.count > 0 /\ ~ Reading(s)
      /\ \A q \in Procs \ {p} : proc[q].slot = s => proc[q].pc \notin {"read", "trunc"}
  <2>1. /\ sb \in [dev : {0, 2}, lock : BOOLEAN, imount : 0 .. NR_INODE]
    BY <1>2 DEF TypeOK
  <2>2. sb.imount = 0 /\ i.id = <<1, 2>>
    BY <1>2 DEF MountRoot, InodesInv, MountPlace
  <2>3. \A q \in Procs \ {p} : proc[q].pc \notin {"super", "umount", "umountwrite"}
    <3>. SUFFICES ASSUME NEW q \in Procs \ {p} PROVE proc[q].pc \notin {"super", "umount", "umountwrite"}
      OBVIOUS
    <3>1. PlaceOK(q) /\ MountPlace(q)
      BY DEF InodesInv
    <3>. QED BY <1>2, <2>2, <3>1 DEF MountAlone, MountPlace, PlaceOK, SlotPlaces, Slots
  <2>4. sb.dev = 2 /\ s # 0 /\ <<1, 2>> # MOUNTED
    BY <1>2 DEF MountPlace, MOUNTED, Slots
  <2>5. /\ i.count > 0 /\ ~ Reading(s)
        /\ \A q \in Procs \ {p} : proc[q].slot = s => proc[q].pc \notin {"read", "trunc"}
    BY <1>2, InUse, ReadAlone
  <2>. QED BY <1>1, <1>2, <2>1, <2>2, <2>3, <2>4, <2>5
<1>4. Does(p, "idle", 0, NULL, 0)
  BY <1>1, <1>2, <1>3, DoingRecords DEF Places, ConstantsOK
<1>5. Becomes(s, i.id, i.count, i.lock, TRUE, TRUE, i.pipe, i.nlinks, i.data)
  BY <1>1, <1>2, <1>3, Typed, NodeRecords
<1>6. TypeOK'
  BY <1>1, <1>2, <1>3, <1>4, <1>5 DEF TypeOK, Does, Becomes
<1>. USE DEF Does, IsDoing, Becomes, IsNode, OnlyProc, OnlySlot
<1>7. \A q \in Procs : PlaceOK(q)'
  <2>. SUFFICES ASSUME NEW q \in Procs PROVE PlaceOK(q)'
    OBVIOUS
  <2>1. PlaceOK(q) /\ PlaceOK(p)
    BY DEF InodesInv
  <2>2. CASE q = p
    BY <1>1, <1>2, <1>3, <1>4, <1>5, <2>1, <2>2, SMTT(20) DEF PlaceOK, LockOK, Locks, SlotPlaces, Slots
  <2>3. CASE q # p
    <3>1. proc'[q] = proc[q]
      BY <2>3, <1>4
    <3>. QED BY <1>1, <1>2, <1>3, <1>5, <2>1, <2>3, <3>1, Typed, SMTT(20) DEF PlaceOK, LockOK, Locks, SlotPlaces, Slots
  <2>. QED BY <2>2, <2>3
<1>8. \A t \in Slots : CountOK(t)'
  <2>1. Uses(p, s) /\ ~ Uses(p, s)' /\ \A t \in Slots \ {s} : ~ Uses(p, t) /\ ~ Uses(p, t)'
    BY <1>2, <1>4 DEF Uses, PlaceOK, SlotPlaces, Slots
  <2>2. CountTrue(s) /\ sb.imount # s /\ sb'.imount = s /\ inode'[s].count = inode[s].count
    BY <1>1, <1>2, <1>3, <1>5 DEF CountOK
  <2>3. CountOK(s)'
    <3>1. CountTrue(s)'
      BY <1>2, <1>4, <2>1, <2>2, CountStep
    <3>2. ~ inode'[s].pipe /\ inode'[s].id # NULL /\ inode'[s].count # 0
      <4>1. ~ i.pipe /\ i.id # NULL /\ i.count > 0 /\ i.count \in Nat
        BY <1>2, <1>3, Typed
      <4>. HIDE DEF i
      <4>. QED BY <1>5, <4>1
    <3>. QED BY <3>1, <3>2 DEF CountOK
  <2>4. ASSUME NEW t \in Slots \ {s} PROVE CountOK(t)'
    <3>1. CountOK(t) /\ inode'[t] = inode[t] /\ proc'[p].slot # t /\ ((sb.imount = t)' <=> (sb.imount = t))
      BY <1>3, <1>4, <1>5, <2>4 DEF InodesInv, Slots
    <3>. QED BY <1>4, <2>1, <2>4, <3>1, CountOther
  <2>. QED BY <2>3, <2>4
<1>9. \A t \in Slots : LockOK(t)'
  BY <1>1, <1>2, <1>3, <1>4, <1>5 DEF LockOK, Locks, InodesInv
<1>10. \A id \in Ids : LinksOK(id)'
  <2>. SUFFICES ASSUME NEW id \in Ids PROVE LinksOK(id)'
    OBVIOUS
  <2>1. LinksOK(id) /\ (LookedFor(id)' => LookedFor(id)) /\ \A t \in Slots : Reading(t)' <=> Reading(t)
    BY <1>1, <1>2, <1>3, <1>4 DEF InodesInv, LookedFor, Reading
  <2>2. Having(id)' = Having(id) /\ \A t \in Having(id) : inode'[t].nlinks = inode[t].nlinks
    BY <1>1, <1>2, <1>3, <1>5 DEF Having
  <2>. QED BY <1>1, <2>1, <2>2, LinksSame DEF Having
<1>11. MountRoot' /\ MountAlone' /\ \A q \in Procs : MountPlace(q)'
  <2>1. MountRoot'
    <3>1. \A t \in Slots : inode'[t].mount => t = s
      BY <1>2, <1>3, <1>5 DEF MountRoot, Slots
    <3>. QED BY <1>3, <1>5, <3>1 DEF MountRoot
  <2>2. MountAlone'
    BY <1>1, <1>2, <1>3, <1>4 DEF MountAlone
  <2>3. ASSUME NEW q \in Procs PROVE MountPlace(q)'
    <3>1. proc'[q].pc \notin {"super", "umount", "umountwrite"}
      BY <1>3, <1>4
    <3>. QED BY <3>1 DEF MountPlace
  <2>. QED BY <2>1, <2>2, <2>3
<1>12. MountUsed'
  BY <1>3, <1>5 DEF MountUsed, IsMounted
<1>13. OneOK' /\ \A t \in Slots : DiskOK(t)'
  BY <1>1, <1>2, <1>3, <1>5 DEF OneOK, DiskOK, InodesInv
<1>. QED BY <1>6, <1>7, <1>8, <1>9, <1>10, <1>11, <1>12, <1>13 DEF InodesInv

\* A device that cannot be read is given up.
LEMMA MountFailsKeeps ==
    ASSUME ConstantsOK, InodesInv, NEW p \in Procs, NEW s \in Slots, proc[p].slot = s, At(p, "super"), UNCHANGED <<disk, imap, named, panic>>,
           sb' = [sb EXCEPT !.lock = FALSE, !.dev = 0],
           Goes(p, "held"), UNCHANGED inode
    PROVE  InodesInv'
<1>. DEFINE i == inode[s]
<1>1. /\ sb' = [sb EXCEPT !.lock = FALSE, !.dev = 0]
      /\ Goes(p, "held")
      /\ UNCHANGED <<inode, disk, imap, named, panic>>
  BY DEF At
<1>2. /\ TypeOK /\ OneOK /\ MountRoot /\ MountAlone /\ MountUsed
      /\ proc[p].slot = s /\ s \in Slots /\ s \in 0 .. NR_INODE /\ proc[p].pc = "super" /\ i.id # NULL /\ ~ i.pipe
      /\ CountOK(s) /\ LockOK(s) /\ DiskOK(s) /\ PlaceOK(p)
      /\ MountPlace(p)
  BY <1>1 DEF InodesInv, At, Slots, ConstantsOK, PlaceOK, SlotPlaces
<1>3. /\ sb' \in [dev : {0, 2}, lock : BOOLEAN, imount : 0 .. NR_INODE] /\ sb'.imount = sb.imount /\ sb'.dev = 0 /\ ~ sb'.lock
      /\ sb.imount = 0
      /\ (\A q \in Procs \ {p} : proc[q].pc \notin {"super", "umount", "umountwrite"})
  <2>1. /\ sb \in [dev : {0, 2}, lock : BOOLEAN, imount : 0 .. NR_INODE]
    BY <1>2 DEF TypeOK
  <2>2. sb.imount = 0 /\ i.id = <<1, 2>>
    BY <1>2 DEF MountRoot, InodesInv, MountPlace
  <2>3. \A q \in Procs \ {p} : proc[q].pc \notin {"super", "umount", "umountwrite"}
    <3>. SUFFICES ASSUME NEW q \in Procs \ {p} PROVE proc[q].pc \notin {"super", "umount", "umountwrite"}
      OBVIOUS
    <3>1. PlaceOK(q) /\ MountPlace(q)
      BY DEF InodesInv
    <3>. QED BY <1>2, <2>2, <3>1 DEF MountAlone, MountPlace, PlaceOK, SlotPlaces, Slots
  <2>. QED BY <1>1, <2>1, <2>2, <2>3
<1>4. Does(p, "held", s, proc[p].want, proc[p].at)
  BY <1>1, <1>2, <1>3, DoingRecords DEF Places, ConstantsOK
<1>6. TypeOK'
  BY <1>1, <1>2, <1>3, <1>4 DEF TypeOK, Does, Becomes
<1>. USE DEF Does, IsDoing, Becomes, IsNode, OnlyProc, OnlySlot
<1>7. \A q \in Procs : PlaceOK(q)'
  <2>. SUFFICES ASSUME NEW q \in Procs PROVE PlaceOK(q)'
    OBVIOUS
  <2>1. PlaceOK(q) /\ PlaceOK(p)
    BY DEF InodesInv
  <2>2. CASE q = p
    BY <1>1, <1>2, <1>3, <1>4, <2>1, <2>2, SMTT(20) DEF PlaceOK, LockOK, Locks, SlotPlaces, Slots
  <2>3. CASE q # p
    <3>1. proc'[q] = proc[q]
      BY <2>3, <1>4
    <3>. QED BY <1>1, <1>2, <1>3, <2>1, <2>3, <3>1, Typed, SMTT(20) DEF PlaceOK, LockOK, Locks, SlotPlaces, Slots
  <2>. QED BY <2>2, <2>3
<1>8. \A t \in Slots : CountOK(t)'
  <2>1. \A t \in Slots : Uses(p, t)' <=> Uses(p, t)
    BY <1>1, <1>2, <1>3, <1>4 DEF Uses, PlaceOK, SlotPlaces
  <2>. QED BY <1>1, <1>2, <1>3, <1>4, <2>1, CountOther DEF InodesInv, PlaceOK, SlotPlaces
<1>9. \A t \in Slots : LockOK(t)'
  BY <1>1, <1>2, <1>3, <1>4 DEF LockOK, Locks, InodesInv
<1>10. \A id \in Ids : LinksOK(id)'
  <2>. SUFFICES ASSUME NEW id \in Ids PROVE LinksOK(id)'
    OBVIOUS
  <2>1. LinksOK(id) /\ (LookedFor(id)' => LookedFor(id)) /\ \A t \in Slots : Reading(t)' <=> Reading(t)
    BY <1>1, <1>2, <1>3, <1>4 DEF InodesInv, LookedFor, Reading
  <2>2. Having(id)' = Having(id) /\ \A t \in Having(id) : inode'[t].nlinks = inode[t].nlinks
    BY <1>1, <1>2, <1>3 DEF Having
  <2>. QED BY <1>1, <2>1, <2>2, LinksSame DEF Having
<1>11. MountRoot' /\ MountAlone' /\ \A q \in Procs : MountPlace(q)'
  <2>1. MountRoot'
    <3>1. sb'.imount = 0 /\ inode' = inode
      BY <1>1, <1>3
    <3>. QED BY <1>2, <1>3, <3>1 DEF MountRoot
  <2>2. MountAlone'
    BY <1>3, <1>4 DEF MountAlone
  <2>3. ASSUME NEW q \in Procs PROVE MountPlace(q)'
    <3>1. proc'[q].pc \notin {"super", "umount", "umountwrite"}
      BY <1>3, <1>4
    <3>. QED BY <3>1 DEF MountPlace
  <2>. QED BY <2>1, <2>2, <2>3
<1>12. MountUsed'
  <2>1. LookedFor(MOUNTED)' => LookedFor(MOUNTED)
    BY <1>1, <1>2, <1>3, <1>4 DEF LookedFor
  <2>2. sb'.imount = sb.imount /\ inode' = inode /\ MountUsed
    BY <1>1, <1>2, <1>3
  <2>. QED BY <2>1, <2>2 DEF MountUsed, IsMounted, Having
<1>13. OneOK' /\ \A t \in Slots : DiskOK(t)'
  BY <1>1, <1>2, <1>3 DEF OneOK, DiskOK, InodesInv
<1>. QED BY <1>6, <1>7, <1>8, <1>9, <1>10, <1>11, <1>12, <1>13 DEF InodesInv

\* Either way.
LEMMA MountReadKeeps ==
    ASSUME ConstantsOK, InodesInv, NEW p \in Procs, MountRead(p)
    PROVE  InodesInv'
<1>1. PICK s \in Slots : proc[p].slot = s
  BY DEF MountRead, At, InodesInv, PlaceOK, SlotPlaces
<1>2. At(p, "super") /\ UNCHANGED <<disk, imap, named, panic>>
  BY DEF MountRead
<1>3. CASE /\ sb' = [sb EXCEPT !.lock = FALSE, !.imount = s]
           /\ inode' = [inode EXCEPT ![s] = [@ EXCEPT !.mount = TRUE, !.dirt = TRUE]] /\ Ends(p)
  BY <1>1, <1>2, <1>3, MountDoneKeeps
<1>4. CASE sb' = [sb EXCEPT !.lock = FALSE, !.dev = 0] /\ Goes(p, "held") /\ UNCHANGED inode
  BY <1>1, <1>2, <1>4, MountFailsKeeps
<1>. QED BY <1>1, <1>3, <1>4 DEF MountRead

\* Nothing of the device is in use, and nobody is on the way to it.
LEMMA UmountKeeps ==
    ASSUME ConstantsOK, ~ raced', InodesInv, NEW p \in Procs, Umount(p)
    PROVE  InodesInv'
<1>0. PICK s \in Slots : sb.imount = s
  BY Typed DEF Umount, InodesInv, Slots, ConstantsOK
<1>. DEFINE i == inode[s]
<1>1. /\ At(p, "idle") /\ sb.dev = 2 /\ ~ sb.lock /\ sb.imount = s
      /\ \A t \in Slots : inode[t].id = MOUNTED => inode[t].count = 0
      /\ ~ LookedFor(MOUNTED) /\ ~ Unmounting
      /\ inode' = [inode EXCEPT ![s].mount = FALSE]
      /\ proc' = [proc EXCEPT ![p].pc = "umount", ![p].slot = s]
      /\ UNCHANGED <<disk, imap, named, sb, panic>>
  BY <1>0 DEF Umount
<1>2. /\ TypeOK /\ OneOK /\ MountRoot /\ MountAlone /\ MountUsed
      /\ proc[p].pc = "idle" /\ s \in Slots /\ s \in 0 .. NR_INODE /\ s # 0 /\ i.id = <<1, 2>> /\ ~ i.pipe
      /\ CountOK(s) /\ LockOK(s) /\ DiskOK(s) /\ PlaceOK(p)
  BY <1>0, <1>1 DEF InodesInv, At, Slots, ConstantsOK, MountRoot, CountOK
<1>3. /\ i.id # NULL /\ i.id # MOUNTED
      /\ \A q \in Procs : proc[q].pc \notin {"super", "umount", "umountwrite"}
  <2>1. i.id # NULL /\ i.id # MOUNTED
    BY <1>2 DEF MOUNTED, Ids, ConstantsOK
  <2>. SUFFICES ASSUME NEW q \in Procs PROVE proc[q].pc \notin {"super", "umount", "umountwrite"}
    BY <2>1
  <2>2. MountPlace(q)
    BY DEF InodesInv
  <2>. QED BY <1>1, <2>2 DEF MountPlace, Unmounting
<1>4. Does(p, "umount", s, proc[p].want, proc[p].at)
  BY <1>1, <1>2, <1>3, DoingRecords DEF Places, ConstantsOK
<1>5. Becomes(s, i.id, i.count, i.lock, i.dirt, FALSE, i.pipe, i.nlinks, i.data)
  BY <1>1, <1>2, <1>3, Typed, NodeRecords
<1>6. TypeOK'
  BY <1>1, <1>2, <1>3, <1>4, <1>5 DEF TypeOK, Does, Becomes
<1>. USE DEF Does, IsDoing, Becomes, IsNode, OnlyProc, OnlySlot
<1>7. \A q \in Procs : PlaceOK(q)'
  <2>1. PlaceOK(p)'
    BY <1>2, <1>3, <1>4, <1>5 DEF PlaceOK, SlotPlaces
  <2>2. ASSUME NEW q \in Procs \ {p} PROVE PlaceOK(q)'
    <3>1. PlaceOK(q) /\ proc'[q] = proc[q]
      BY <1>4 DEF InodesInv
    <3>2. \A t \in Slots : /\ inode'[t].id = inode[t].id /\ inode'[t].count = inode[t].count
                           /\ inode'[t].dirt = inode[t].dirt /\ inode'[t].lock = inode[t].lock
                           /\ inode'[t].nlinks = inode[t].nlinks /\ inode'[t].pipe = inode[t].pipe
                           /\ (~ inode[t].mount => ~ inode'[t].mount)
      BY <1>5
    <3>. QED BY <3>1, <3>2 DEF PlaceOK, SlotPlaces
  <2>. QED BY <2>1, <2>2
<1>8. \A t \in Slots : CountOK(t)'
  <2>1. \A t \in Slots : ~ Uses(p, t)' /\ ~ Uses(p, t)
    BY <1>2, <1>4 DEF Uses, PlaceOK, SlotPlaces
  <2>2. CountOK(s)'
    <3>1. CountTrue(s)'
      BY <1>1, <1>2, <1>4, <1>5, <2>1, CountStep DEF CountOK
    <3>. QED BY <1>1, <1>2, <1>3, <1>5, <3>1 DEF CountOK
  <2>3. ASSUME NEW t \in Slots \ {s} PROVE CountOK(t)'
    BY <1>1, <1>2, <1>3, <1>4, <1>5, <2>1, <2>3, CountOther DEF InodesInv
  <2>. QED BY <2>2, <2>3
<1>9. \A t \in Slots : LockOK(t)'
  BY <1>1, <1>2, <1>3, <1>4, <1>5 DEF LockOK, Locks, InodesInv
<1>10. \A id \in Ids : LinksOK(id)'
  <2>. SUFFICES ASSUME NEW id \in Ids PROVE LinksOK(id)'
    OBVIOUS
  <2>1. LinksOK(id) /\ (LookedFor(id)' => LookedFor(id)) /\ \A t \in Slots : Reading(t)' <=> Reading(t)
    BY <1>1, <1>2, <1>3, <1>4 DEF InodesInv, LookedFor, Reading
  <2>2. Having(id)' = Having(id) /\ \A t \in Having(id) : inode'[t].nlinks = inode[t].nlinks
    BY <1>1, <1>2, <1>3, <1>5 DEF Having
  <2>. QED BY <1>1, <2>1, <2>2, LinksSame DEF Having
<1>11. MountRoot' /\ MountAlone' /\ \A q \in Procs : MountPlace(q)'
  <2>1. MountRoot'
    BY <1>1, <1>2, <1>3, <1>5, Typed DEF MountRoot, Slots
  <2>2. MountAlone'
    BY <1>3, <1>4 DEF MountAlone
  <2>3. ASSUME NEW q \in Procs PROVE MountPlace(q)'
    <3>1. CASE q = p
      BY <1>1, <1>4, <1>5, <3>1 DEF MountPlace
    <3>2. CASE q # p
      BY <1>3, <1>4, <3>2 DEF MountPlace
    <3>. QED BY <3>1, <3>2
  <2>. QED BY <2>1, <2>2, <2>3
<1>12. MountUsed'
  <2>1. ~ LookedFor(MOUNTED)'
    BY <1>1, <1>2, <1>3, <1>4 DEF LookedFor
  <2>2. ASSUME NEW t \in Slots, inode'[t].id = MOUNTED PROVE ~ (inode'[t].count > 0)
    BY <1>1, <1>3, <1>5, <2>2
  <2>. QED BY <2>1, <2>2 DEF MountUsed, Having
<1>13. OneOK' /\ \A t \in Slots : DiskOK(t)'
  BY <1>1, <1>2, <1>3, <1>5 DEF OneOK, DiskOK, InodesInv
<1>. QED BY <1>6, <1>7, <1>8, <1>9, <1>10, <1>11, <1>12, <1>13 DEF InodesInv

\* The directory is written first.
LEMMA UmountLockKeeps ==
    ASSUME ConstantsOK, InodesInv, NEW p \in Procs, NEW s \in Slots, proc[p].slot = s, At(p, "umount"), ~ inode[s].lock,
           inode[s].count = 1 /\ inode[s].dirt,
           inode' = [inode EXCEPT ![s].lock = TRUE],
           Goes(p, "umountwrite"),
           UNCHANGED sb,
           UNCHANGED <<disk, imap, named, panic>>
    PROVE  InodesInv'
<1>. DEFINE i == inode[s]
<1>1. /\ inode[s].count = 1 /\ inode[s].dirt
      /\ inode' = [inode EXCEPT ![s].lock = TRUE]
      /\ Goes(p, "umountwrite")
      /\ UNCHANGED sb
      /\ UNCHANGED <<disk, imap, named, panic>>
  BY DEF At
<1>2. /\ TypeOK /\ OneOK /\ MountRoot /\ MountAlone /\ MountUsed
      /\ proc[p].slot = s /\ s \in Slots /\ s \in 0 .. NR_INODE /\ s # 0 /\ proc[p].pc = "umount" /\ i.id # NULL /\ ~ i.lock
      /\ CountOK(s) /\ LockOK(s) /\ DiskOK(s) /\ PlaceOK(p)
      /\ MountPlace(p)
  BY <1>1 DEF InodesInv, At, Slots, ConstantsOK, PlaceOK, SlotPlaces
<1>3. /\ (\A q \in Procs \ {p} : proc[q].pc \notin {"super", "umount", "umountwrite"})
      /\ i.id = <<1, 2>> /\ i.id # MOUNTED /\ ~ i.pipe /\ sb.imount = s /\ ~ i.mount /\ sb.dev = 2 /\ ~ sb.lock
      /\ ~ Reading(s) /\ i.nlinks = 1 /\ i.count > 0
      /\ (\A q \in Procs : proc[q].slot = s => proc[q].pc \notin {"read", "trunc", "pipe", "scan"})
      /\ i.count = 1 => \A q \in Procs \ {p} : proc[q].slot # s
  <2>1. \A q \in Procs \ {p} : proc[q].pc \notin {"super", "umount", "umountwrite"}
    <3>. SUFFICES ASSUME NEW q \in Procs \ {p} PROVE proc[q].pc \notin {"super", "umount", "umountwrite"}
      OBVIOUS
    <3>1. MountPlace(q)
      BY DEF InodesInv
    <3>. QED BY <1>2, <3>1 DEF MountAlone, MountPlace, MountRoot
  <2>2. i.id = <<1, 2>> /\ i.id # MOUNTED /\ ~ i.pipe /\ sb.imount = s /\ ~ i.mount /\ sb.dev = 2 /\ ~ sb.lock
    BY <1>2 DEF MountRoot, MountPlace, MOUNTED, CountOK
  <2>3. ~ Reading(s)
    BY <1>2 DEF Reading, LockOK, Locks
  <2>4. i.nlinks = 1
    <3>1. <<1, 2>> \in Ids /\ s \in Having(<<1, 2>>)
      BY <1>2, <2>2 DEF Ids, Having, TypeOK
    <3>2. LinksOK(<<1, 2>>) /\ Reachable(<<1, 2>>)
      BY <1>2, <3>1 DEF InodesInv, Reachable, TypeOK
    <3>. QED BY <2>3, <3>1, <3>2 DEF LinksOK
  <2>5. i.count > 0
    BY <1>2, InUse
  <2>6. \A q \in Procs : proc[q].slot = s => proc[q].pc \notin {"read", "trunc", "pipe", "scan"}
    <3>. SUFFICES ASSUME NEW q \in Procs, proc[q].slot = s PROVE proc[q].pc \notin {"read", "trunc", "pipe", "scan"}
      OBVIOUS
    <3>1. PlaceOK(q)
      BY DEF InodesInv
    <3>. QED BY <1>2, <2>2, <2>3, <2>4, <3>1 DEF PlaceOK, Reading
  <2>7. ASSUME i.count = 1, NEW q \in Procs \ {p} PROVE proc[q].slot # s
    <3>1. Cardinality(Holders(s)) = 0
      BY <1>2, <2>2, <2>7, HoldersFinite DEF CountOK, CountTrue, One, ConstantsOK
    <3>2. Holders(s) = {}
      BY <3>1, HoldersFinite, FS_EmptySet DEF ConstantsOK
    <3>. QED BY <2>1, <3>2 DEF Holders
  <2>. QED BY <2>1, <2>2, <2>3, <2>4, <2>5, <2>6, <2>7
<1>4. Does(p, "umountwrite", s, proc[p].want, proc[p].at)
  BY <1>1, <1>2, <1>3, DoingRecords DEF Places, ConstantsOK
<1>5. Becomes(s, i.id, i.count, TRUE, i.dirt, i.mount, i.pipe, i.nlinks, i.data)
  BY <1>1, <1>2, <1>3, Typed, NodeRecords
<1>6. TypeOK'
  BY <1>1, <1>2, <1>3, <1>4, <1>5 DEF TypeOK, Does, Becomes
<1>. USE DEF Does, IsDoing, Becomes, IsNode, OnlyProc, OnlySlot
<1>7. \A q \in Procs : PlaceOK(q)'
  <2>. SUFFICES ASSUME NEW q \in Procs PROVE PlaceOK(q)'
    OBVIOUS
  <2>1. PlaceOK(q) /\ PlaceOK(p)
    BY DEF InodesInv
  <2>2. CASE q = p
    BY <1>1, <1>2, <1>3, <1>4, <1>5, <2>1, <2>2, SMTT(20) DEF PlaceOK, LockOK, Locks, SlotPlaces, Slots
  <2>3. CASE q # p
    <3>1. proc'[q] = proc[q]
      BY <2>3, <1>4
    <3>. QED BY <1>1, <1>2, <1>3, <1>5, <2>1, <2>3, <3>1, Typed, SMTT(20) DEF PlaceOK, LockOK, Locks, SlotPlaces, Slots
  <2>. QED BY <2>2, <2>3
<1>8. \A t \in Slots : CountOK(t)'
  <2>1. \A t \in Slots : Uses(p, t)' <=> Uses(p, t)
    BY <1>1, <1>2, <1>3, <1>4 DEF Uses, PlaceOK, SlotPlaces
  <2>2. CountOK(s)'
    <3>1. /\ CountOK(s) /\ ((sb.imount = s)' <=> (sb.imount = s)) /\ inode'[s].count = inode[s].count
          /\ inode'[s].pipe = inode[s].pipe
      BY <1>1, <1>2, <1>3, <1>5 DEF InodesInv
    <3>2. ~ inode[s].pipe => CountTrue(s)'
      BY <1>2, <1>4, <2>1, <3>1, CountStep DEF CountOK
    <3>. QED BY <1>1, <1>2, <1>3, <1>4, <1>5, <3>1, <3>2 DEF CountOK
  <2>3. ASSUME NEW t \in Slots \ {s} PROVE CountOK(t)'
    BY <1>1, <1>2, <1>3, <1>4, <1>5, <2>1, <2>3, CountOther DEF InodesInv
  <2>. QED BY <2>2, <2>3
<1>9. \A t \in Slots : LockOK(t)'
  BY <1>1, <1>2, <1>3, <1>4, <1>5 DEF LockOK, Locks, InodesInv
<1>10. \A id \in Ids : LinksOK(id)'
  <2>. SUFFICES ASSUME NEW id \in Ids PROVE LinksOK(id)'
    OBVIOUS
  <2>1. LinksOK(id) /\ (LookedFor(id)' => LookedFor(id)) /\ \A t \in Slots : Reading(t)' <=> Reading(t)
    BY <1>1, <1>2, <1>3, <1>4 DEF InodesInv, LookedFor, Reading
  <2>2. Having(id)' = Having(id) /\ \A t \in Having(id) : inode'[t].nlinks = inode[t].nlinks
    BY <1>1, <1>2, <1>3, <1>5 DEF Having
  <2>. QED BY <1>1, <2>1, <2>2, LinksSame DEF Having
<1>11. MountRoot' /\ MountAlone' /\ \A q \in Procs : MountPlace(q)'
  <2>1. MountRoot'
    BY <1>1, <1>2, <1>3, <1>5, Typed, SMTT(20) DEF MountRoot, Slots
  <2>2. MountAlone'
    BY <1>1, <1>2, <1>3, <1>4 DEF MountAlone
  <2>3. ASSUME NEW q \in Procs PROVE MountPlace(q)'
    <3>1. MountPlace(q) /\ PlaceOK(q) /\ MountPlace(p) /\ PlaceOK(p)
      BY DEF InodesInv
    <3>. QED BY <1>1, <1>2, <1>3, <1>4, <1>5, <3>1, Typed, SMTT(20) DEF MountPlace, PlaceOK, SlotPlaces
  <2>. QED BY <2>1, <2>2, <2>3
<1>12. MountUsed'
  <2>1. LookedFor(MOUNTED)' => LookedFor(MOUNTED)
    BY <1>1, <1>2, <1>3, <1>4 DEF LookedFor
  <2>2. IsMounted => inode'[sb.imount].mount
    BY <1>1, <1>2, <1>3, <1>5, Typed DEF IsMounted, Slots
  <2>3. ASSUME NEW t \in Slots, inode'[t].id = MOUNTED, inode'[t].count > 0
        PROVE  inode[t].id = MOUNTED /\ inode[t].count > 0
    BY <1>1, <1>2, <1>3, <1>5, <2>3, Typed DEF ConstantsOK, Ids
  <2>. QED BY <1>1, <1>2, <1>3, <1>5, <2>1, <2>2, <2>3, UsedSame
<1>13. OneOK' /\ \A t \in Slots : DiskOK(t)'
  BY <1>1, <1>2, <1>3, <1>5 DEF OneOK, DiskOK, InodesInv
<1>. QED BY <1>6, <1>7, <1>8, <1>9, <1>10, <1>11, <1>12, <1>13 DEF InodesInv

\* The super block gives up its count: the directory is on the disk, and the
\* device can be mounted again.
LEMMA UmountDoneKeeps ==
    ASSUME ConstantsOK, InodesInv, NEW p \in Procs, NEW s \in Slots, proc[p].slot = s, At(p, "umount"), ~ inode[s].lock,
           ~ (inode[s].count = 1 /\ inode[s].dirt),
           inode' = [inode EXCEPT ![s].count = @ - 1],
           Ends(p),
           sb' = [sb EXCEPT !.imount = 0, !.dev = 0],
           UNCHANGED <<disk, imap, named, panic>>
    PROVE  InodesInv'
<1>. DEFINE i == inode[s]
<1>1. /\ ~ (inode[s].count = 1 /\ inode[s].dirt)
      /\ inode' = [inode EXCEPT ![s].count = @ - 1]
      /\ Ends(p)
      /\ sb' = [sb EXCEPT !.imount = 0, !.dev = 0]
      /\ UNCHANGED <<disk, imap, named, panic>>
  BY DEF At
<1>2. /\ TypeOK /\ OneOK /\ MountRoot /\ MountAlone /\ MountUsed
      /\ proc[p].slot = s /\ s \in Slots /\ s \in 0 .. NR_INODE /\ s # 0 /\ proc[p].pc = "umount" /\ i.id # NULL /\ ~ i.lock
      /\ CountOK(s) /\ LockOK(s) /\ DiskOK(s) /\ PlaceOK(p)
      /\ MountPlace(p)
  BY <1>1 DEF InodesInv, At, Slots, ConstantsOK, PlaceOK, SlotPlaces
<1>3. /\ (\A q \in Procs \ {p} : proc[q].pc \notin {"super", "umount", "umountwrite"})
      /\ i.id = <<1, 2>> /\ i.id # MOUNTED /\ ~ i.pipe /\ sb.imount = s /\ ~ i.mount /\ sb.dev = 2 /\ ~ sb.lock
      /\ ~ Reading(s) /\ i.nlinks = 1 /\ i.count > 0
      /\ (\A q \in Procs : proc[q].slot = s => proc[q].pc \notin {"read", "trunc", "pipe", "scan"})
      /\ i.count = 1 => \A q \in Procs \ {p} : proc[q].slot # s
      /\ i.count - 1 \in Nat
      /\ sb' \in [dev : {0, 2}, lock : BOOLEAN, imount : 0 .. NR_INODE] /\ sb'.imount = 0
  <2>1. \A q \in Procs \ {p} : proc[q].pc \notin {"super", "umount", "umountwrite"}
    <3>. SUFFICES ASSUME NEW q \in Procs \ {p} PROVE proc[q].pc \notin {"super", "umount", "umountwrite"}
      OBVIOUS
    <3>1. MountPlace(q)
      BY DEF InodesInv
    <3>. QED BY <1>2, <3>1 DEF MountAlone, MountPlace, MountRoot
  <2>2. i.id = <<1, 2>> /\ i.id # MOUNTED /\ ~ i.pipe /\ sb.imount = s /\ ~ i.mount /\ sb.dev = 2 /\ ~ sb.lock
    BY <1>2 DEF MountRoot, MountPlace, MOUNTED, CountOK
  <2>3. ~ Reading(s)
    BY <1>2 DEF Reading, LockOK, Locks
  <2>4. i.nlinks = 1
    <3>1. <<1, 2>> \in Ids /\ s \in Having(<<1, 2>>)
      BY <1>2, <2>2 DEF Ids, Having, TypeOK
    <3>2. LinksOK(<<1, 2>>) /\ Reachable(<<1, 2>>)
      BY <1>2, <3>1 DEF InodesInv, Reachable, TypeOK
    <3>. QED BY <2>3, <3>1, <3>2 DEF LinksOK
  <2>5. i.count > 0
    BY <1>2, InUse
  <2>6. \A q \in Procs : proc[q].slot = s => proc[q].pc \notin {"read", "trunc", "pipe", "scan"}
    <3>. SUFFICES ASSUME NEW q \in Procs, proc[q].slot = s PROVE proc[q].pc \notin {"read", "trunc", "pipe", "scan"}
      OBVIOUS
    <3>1. PlaceOK(q)
      BY DEF InodesInv
    <3>. QED BY <1>2, <2>2, <2>3, <2>4, <3>1 DEF PlaceOK, Reading
  <2>7. ASSUME i.count = 1, NEW q \in Procs \ {p} PROVE proc[q].slot # s
    <3>1. Cardinality(Holders(s)) = 0
      BY <1>2, <2>2, <2>7, HoldersFinite DEF CountOK, CountTrue, One, ConstantsOK
    <3>2. Holders(s) = {}
      BY <3>1, HoldersFinite, FS_EmptySet DEF ConstantsOK
    <3>. QED BY <2>1, <3>2 DEF Holders
  <2>8. i.count - 1 \in Nat
    BY <1>2, <2>5, Typed
  <2>9. sb' \in [dev : {0, 2}, lock : BOOLEAN, imount : 0 .. NR_INODE] /\ sb'.imount = 0
    <3>1. sb \in [dev : {0, 2}, lock : BOOLEAN, imount : 0 .. NR_INODE] /\ 0 \in 0 .. NR_INODE
      BY <1>2 DEF TypeOK, ConstantsOK
    <3>. QED BY <1>1, <3>1
  <2>. QED BY <2>1, <2>2, <2>3, <2>4, <2>5, <2>6, <2>7, <2>8, <2>9
<1>4. Does(p, "idle", 0, NULL, 0)
  BY <1>1, <1>2, <1>3, DoingRecords DEF Places, ConstantsOK
<1>5. Becomes(s, i.id, i.count - 1, i.lock, i.dirt, i.mount, i.pipe, i.nlinks, i.data)
  BY <1>1, <1>2, <1>3, Typed, NodeRecords
<1>6. TypeOK'
  BY <1>1, <1>2, <1>3, <1>4, <1>5 DEF TypeOK, Does, Becomes
<1>. USE DEF Does, IsDoing, Becomes, IsNode, OnlyProc, OnlySlot
<1>7. \A q \in Procs : PlaceOK(q)'
  <2>. SUFFICES ASSUME NEW q \in Procs PROVE PlaceOK(q)'
    OBVIOUS
  <2>1. PlaceOK(q) /\ PlaceOK(p)
    BY DEF InodesInv
  <2>2. CASE q = p
    BY <1>1, <1>2, <1>3, <1>4, <1>5, <2>1, <2>2, SMTT(20) DEF PlaceOK, LockOK, Locks, SlotPlaces, Slots
  <2>3. CASE q # p
    <3>1. proc'[q] = proc[q]
      BY <2>3, <1>4
    <3>. QED BY <1>1, <1>2, <1>3, <1>5, <2>1, <2>3, <3>1, Typed, SMTT(20) DEF PlaceOK, LockOK, Locks, SlotPlaces, Slots
  <2>. QED BY <2>2, <2>3
<1>8. \A t \in Slots : CountOK(t)'
  <2>1. \A t \in Slots : ~ Uses(p, t) /\ ~ Uses(p, t)'
    BY <1>2, <1>4 DEF Uses, Slots
  <2>2. CountTrue(s) /\ sb.imount = s /\ sb'.imount # s /\ inode'[s].count = inode[s].count - 1
    BY <1>2, <1>3, <1>5 DEF CountOK
  <2>3. CountOK(s)'
    <3>1. CountTrue(s)'
      BY <1>2, <1>4, <2>1, <2>2, CountStep
    <3>2. ~ inode'[s].pipe /\ inode'[s].id # NULL /\ ~ inode'[s].lock /\ inode'[s].nlinks > 0
      <4>1. ~ i.pipe /\ i.id # NULL /\ ~ i.lock /\ i.nlinks = 1
        BY <1>2, <1>3
      <4>. HIDE DEF i
      <4>. QED BY <1>5, <4>1
    <3>3. inode'[s].count = 0 => ~ inode'[s].dirt
      BY <1>1, <1>3, <1>5
    <3>. QED BY <3>1, <3>2, <3>3 DEF CountOK
  <2>4. ASSUME NEW t \in Slots \ {s} PROVE CountOK(t)'
    <3>1. CountOK(t) /\ inode'[t] = inode[t] /\ proc'[p].slot # t /\ ((sb.imount = t)' <=> (sb.imount = t))
      BY <1>3, <1>4, <1>5, <2>4 DEF InodesInv, Slots
    <3>. QED BY <1>4, <2>1, <2>4, <3>1, CountOther
  <2>. QED BY <2>3, <2>4
<1>9. \A t \in Slots : LockOK(t)'
  BY <1>1, <1>2, <1>3, <1>4, <1>5 DEF LockOK, Locks, InodesInv
<1>10. \A id \in Ids : LinksOK(id)'
  <2>. SUFFICES ASSUME NEW id \in Ids PROVE LinksOK(id)'
    OBVIOUS
  <2>1. LinksOK(id) /\ (LookedFor(id)' => LookedFor(id)) /\ \A t \in Slots : Reading(t)' <=> Reading(t)
    BY <1>1, <1>2, <1>3, <1>4 DEF InodesInv, LookedFor, Reading
  <2>2. Having(id)' = Having(id) /\ \A t \in Having(id) : inode'[t].nlinks = inode[t].nlinks
    BY <1>1, <1>2, <1>3, <1>5 DEF Having
  <2>. QED BY <1>1, <2>1, <2>2, LinksSame DEF Having
<1>11. MountRoot' /\ MountAlone' /\ \A q \in Procs : MountPlace(q)'
  <2>1. MountRoot'
    <3>1. \A t \in Slots : ~ inode'[t].mount
      BY <1>2, <1>3, <1>5 DEF MountRoot
    <3>. QED BY <1>3, <3>1 DEF MountRoot
  <2>2. MountAlone'
    BY <1>3, <1>4 DEF MountAlone
  <2>3. ASSUME NEW q \in Procs PROVE MountPlace(q)'
    <3>1. proc'[q].pc \notin {"super", "umount", "umountwrite"}
      BY <1>3, <1>4
    <3>. QED BY <3>1 DEF MountPlace
  <2>. QED BY <2>1, <2>2, <2>3
<1>12. MountUsed'
  <2>1. ~ LookedFor(MOUNTED)' /\ \A t \in Having(MOUNTED) : ~ (inode[t].count > 0)
    BY <1>2, <1>3, <1>4 DEF LookedFor, MountUsed, IsMounted
  <2>2. ASSUME NEW t \in Slots, inode'[t].id = MOUNTED PROVE ~ (inode'[t].count > 0)
    BY <1>3, <1>5, <2>1, <2>2 DEF Having
  <2>. QED BY <2>1, <2>2 DEF MountUsed, Having
<1>13. OneOK' /\ \A t \in Slots : DiskOK(t)'
  BY <1>1, <1>2, <1>3, <1>5 DEF OneOK, DiskOK, InodesInv
<1>. QED BY <1>6, <1>7, <1>8, <1>9, <1>10, <1>11, <1>12, <1>13 DEF InodesInv

\* Either way.
LEMMA UmountPutKeeps ==
    ASSUME ConstantsOK, InodesInv, NEW p \in Procs, UmountPut(p)
    PROVE  InodesInv'
<1>1. PICK s \in Slots : proc[p].slot = s
  BY DEF UmountPut, At, InodesInv, PlaceOK, SlotPlaces
<1>0. MountPlace(p) /\ proc[p].pc = "umount"
  BY DEF InodesInv, UmountPut, At
<1>5. inode[s].count # 0
  BY <1>0, <1>1, NotInUse DEF MountPlace
<1>2. At(p, "umount") /\ ~ inode[s].lock /\ UNCHANGED <<disk, imap, named, panic>>
  BY <1>1, <1>5 DEF UmountPut, At, InodesInv, TypeOK
<1>3. CASE inode[s].count = 1 /\ inode[s].dirt
  <2>1. inode' = [inode EXCEPT ![s].lock = TRUE] /\ Goes(p, "umountwrite") /\ UNCHANGED sb
    BY <1>1, <1>3, <1>5 DEF UmountPut
  <2>. QED BY <1>1, <1>2, <1>3, <2>1, UmountLockKeeps
<1>4. CASE ~ (inode[s].count = 1 /\ inode[s].dirt)
  <2>1. inode' = [inode EXCEPT ![s].count = @ - 1] /\ Ends(p) /\ sb' = [sb EXCEPT !.imount = 0, !.dev = 0]
    BY <1>1, <1>4, <1>5 DEF UmountPut
  <2>. QED BY <1>1, <1>2, <1>4, <2>1, UmountDoneKeeps
<1>. QED BY <1>3, <1>4

\* At the start no inode is in the table.
LEMMA InitOK ==
    ASSUME ConstantsOK, Init
    PROVE  InodesInv
<1>1. /\ <<1, 2>> \in Ids /\ MOUNTED \in Ids /\ MOUNTED # <<1, 2>> /\ 0 \in 0 .. NR_INODE
      /\ \A s \in Slots : inode[s] = Clear
      /\ \A p \in Procs : proc[p] = Idle
      /\ \A id \in {<<1, 2>>, MOUNTED} : disk[id].nlinks = 1
      /\ \A id \in Ids : Having(id) = {}
  BY DEF ConstantsOK, Ids, MOUNTED, Init, Having, Clear
<1>2. TypeOK
  <2>1. Clear \in InCore /\ Idle \in Doing
    BY <1>1 DEF Clear, InCore, Idle, Doing, Places
  <2>2. \A id \in Ids : [nlinks |-> IF id \in {<<1, 2>>, MOUNTED} THEN 1 ELSE 0, data |-> 0] \in Contents
    BY DEF Contents
  <2>. QED BY <1>1, <2>1, <2>2 DEF Init, TypeOK, ConstantsOK
<1>3. \A p \in Procs : PlaceOK(p) /\ MountPlace(p)
  BY <1>1 DEF PlaceOK, MountPlace, Idle, SlotPlaces, Slots
<1>4. \A s \in Slots : CountOK(s) /\ LockOK(s) /\ DiskOK(s)
  <2>. SUFFICES ASSUME NEW s \in Slots PROVE CountOK(s) /\ LockOK(s) /\ DiskOK(s)
    OBVIOUS
  <2>1. Holders(s) = {} /\ sb.imount # s /\ s # 0
    BY <1>1 DEF Holders, Idle, Slots, Init
  <2>2. Cardinality(Holders(s)) = 0
    BY <2>1, FS_EmptySet
  <2>3. CountOK(s)
    BY <1>1, <2>1, <2>2 DEF CountOK, CountTrue, One, Clear
  <2>4. LockOK(s) /\ DiskOK(s)
    BY <1>1, <2>1 DEF LockOK, Locks, DiskOK, Clear, Idle
  <2>. QED BY <2>3, <2>4
<1>5. \A id \in Ids : LinksOK(id)
  <2>. SUFFICES ASSUME NEW id \in Ids PROVE LinksOK(id)
    OBVIOUS
  <2>1. Having(id) = {} /\ ~ LookedFor(id)
    BY <1>1 DEF LookedFor, Idle
  <2>2. ASSUME id # MOUNTED, id[2] \in named PROVE id = <<1, 2>>
    BY <2>2 DEF Ids, Init
  <2>. QED BY <1>1, <2>1, <2>2 DEF LinksOK, Reachable
<1>6. MountRoot /\ MountAlone /\ MountUsed /\ OneOK
  BY <1>1 DEF Init, MountRoot, MountAlone, MountUsed, OneOK, Having, LookedFor, Clear, Idle
<1>. QED BY <1>2, <1>3, <1>4, <1>5, <1>6 DEF InodesInv

\* The invariant speaks of the variables of the specification only.
LEMMA StutterKeeps ==
    ASSUME InodesInv, UNCHANGED vars
    PROVE  InodesInv'
<1>1. TypeOK' /\ \A p \in Procs : PlaceOK(p)' /\ MountPlace(p)'
  BY DEF vars, InodesInv, TypeOK, PlaceOK, MountPlace
<1>2. \A s \in Slots : CountOK(s)' /\ LockOK(s)' /\ DiskOK(s)'
  <2>. SUFFICES ASSUME NEW s \in Slots PROVE CountOK(s)' /\ LockOK(s)' /\ DiskOK(s)'
    OBVIOUS
  <2>1. CountOK(s) /\ LockOK(s) /\ DiskOK(s)
    BY DEF InodesInv
  <2>2. Holders(s)' = Holders(s)
    BY DEF Holders, vars
  <2>3. CountOK(s)'
    BY <2>1, <2>2 DEF vars, CountOK, CountTrue
  <2>. QED BY <2>1, <2>3 DEF vars, LockOK, Locks, DiskOK
<1>3. \A id \in Ids : LinksOK(id)'
  BY DEF vars, InodesInv, LinksOK, Reachable, LookedFor, Reading, Having
<1>4. MountRoot' /\ MountAlone' /\ MountUsed' /\ OneOK'
  BY DEF vars, InodesInv, MountRoot, MountAlone, MountUsed, IsMounted, OneOK, LookedFor, Having
<1>. QED BY <1>1, <1>2, <1>3, <1>4 DEF InodesInv

\* Every operation keeps the invariant unless it takes something away from
\* under somebody who is on the way to it, and what was raced stays raced.
LEMMA StepKeeps ==
    ASSUME ConstantsOK, raced \in BOOLEAN, [Next]_vars, ~ raced => InodesInv
    PROVE  raced' \in BOOLEAN /\ (~ raced' => InodesInv')
<1>0. raced' \in BOOLEAN /\ (~ raced' => ~ raced)
  BY DEF Next, vars, Unlink, SyncLock, Umount, LookedFor, Unmounting
<1>. SUFFICES ASSUME ~ raced', InodesInv PROVE InodesInv'
  BY <1>0
<1>1. CASE UNCHANGED vars
  BY <1>1, StutterKeeps
<1>2. ASSUME NEW p \in Procs,
             \/ Lookup(p) \/ IgetEmpty(p) \/ IgetFound(p) \/ IgetCrosses(p) \/ IgetNew(p) \/ ReadInode(p)
             \/ Change(p) \/ NewInode(p) \/ AddEntry(p) \/ Unlink(p)
      PROVE  InodesInv'
  BY <1>2, LookupKeeps, IgetEmptyKeeps, IgetFoundKeeps, IgetCrossesKeeps, IgetNewKeeps, ReadInodeKeeps,
     ChangeKeeps, NewInodeKeeps, AddEntryKeeps, UnlinkKeeps
<1>3. ASSUME NEW p \in Procs,
             \/ IputShared(p) \/ IputDirty(p) \/ IputClean(p) \/ IputDelete(p) \/ FreeInode(p)
             \/ WriteInode(p) \/ SyncStart(p) \/ SyncSkip(p) \/ SyncLock(p) \/ SyncWrite(p)
      PROVE  InodesInv'
  BY <1>3, IputSharedKeeps, IputDirtyKeeps, IputCleanKeeps, IputDeleteKeeps, FreeInodeKeeps, WriteInodeKeeps,
     SyncStartKeeps, SyncSkipKeeps, SyncLockKeeps, SyncWriteKeeps
<1>4. ASSUME NEW p \in Procs,
             \/ GetPipe(p) \/ GetPipeFails(p) \/ IputPipe(p)
             \/ Mount(p) \/ MountRead(p) \/ Umount(p) \/ UmountPut(p) \/ UmountWrite(p)
      PROVE  InodesInv'
  BY <1>4, GetPipeKeeps, GetPipeFailsKeeps, IputPipeKeeps, MountKeeps, MountReadKeeps, UmountKeeps, UmountPutKeeps,
     UmountWriteKeeps
<1>. QED BY <1>1, <1>2, <1>3, <1>4 DEF Next

\* The invariant says what the table promises.
LEMMA InvAgrees ==
    ASSUME ConstantsOK, InodesInv
    PROVE  OneInodePerNumber /\ UnusedIsClean /\ MountIsHeld
<1>1. OneInodePerNumber
  <2>1. OneOK /\ ~ panic /\ (\A s \in Slots : CountOK(s)) /\ (\A p \in Procs : PlaceOK(p))
    BY DEF InodesInv, TypeOK
  <2>. QED BY <2>1 DEF OneInodePerNumber, OneOK, CountOK, CountTrue, One, PlaceOK
<1>2. UnusedIsClean
  <2>. SUFFICES ASSUME NEW s \in Slots
       PROVE  /\ inode[s].count = 0 => ~ inode[s].dirt /\ ~ inode[s].lock
              /\ inode[s].id # NULL /\ ~ inode[s].dirt /\ ~ inode[s].lock =>
                    disk[inode[s].id] = [nlinks |-> inode[s].nlinks, data |-> inode[s].data]
    BY DEF UnusedIsClean
  <2>1. CountOK(s) /\ DiskOK(s)
    BY DEF InodesInv
  <2>2. ASSUME inode[s].id # NULL, ~ inode[s].dirt, ~ inode[s].lock
        PROVE  disk[inode[s].id] = [nlinks |-> inode[s].nlinks, data |-> inode[s].data]
    <3>1. disk[inode[s].id] \in Contents
      BY <2>2, Typed DEF InodesInv
    <3>2. disk[inode[s].id].nlinks = inode[s].nlinks /\ disk[inode[s].id].data = inode[s].data
      BY <2>1, <2>2 DEF DiskOK
    <3>. QED BY <3>1, <3>2 DEF Contents
  <2>. QED BY <2>1, <2>2 DEF CountOK
<1>3. MountIsHeld
  <2>1. ASSUME NEW s \in Slots, inode[s].mount PROVE sb.imount = s /\ inode[s].count > 0
    <3>1. sb.imount = s
      BY <2>1 DEF InodesInv, MountRoot
    <3>2. inode[s].count # 0
      BY <3>1, NotInUse
    <3>. QED BY <3>1, <3>2, Typed DEF InodesInv
  <2>2. ASSUME NEW s \in Slots, inode[s].id = MOUNTED, inode[s].count > 0 PROVE sb.imount # 0
    BY <2>2 DEF InodesInv, MountUsed, IsMounted, Having
  <2>. QED BY <2>1, <2>2 DEF MountIsHeld
<1>. QED BY <1>1, <1>2, <1>3

UnracedInv == raced \in BOOLEAN /\ (~ raced => InodesInv)

\* The invariant holds until the first race.
LEMMA InvHolds == Spec => []UnracedInv
<1>1. Init => UnracedInv
  BY InitOK, ConstantsHold DEF UnracedInv, Init
<1>2. UnracedInv /\ [Next]_vars => UnracedInv'
  BY StepKeeps, ConstantsHold DEF UnracedInv
<1>. QED BY <1>1, <1>2, PTL DEF Spec

\* However iget, iput, deletion, sync and mounting are interleaved (fs/inode.c,
\* fs/bitmap.c, fs/super.c), until one of the three races that the code leaves
\* open has happened: an inode is once in the table, its count is the
\* number of its users, free_inode never finds another user and never panics,
\* what is not marked is on the disk, an unused slot loses nothing when it is
\* taken, and an inode of the mounted device is in use only while it is mounted.
THEOREM InodesAlwaysAgree == Spec => []InodesAgree
<1>1. UnracedInv => InodesAgree
  BY InvAgrees, ConstantsHold DEF UnracedInv, InodesAgree
<1>. QED BY <1>1, InvHolds, PTL

\* The table, the blocks, the bit map and the super block keep their types
\* until then.
THEOREM InodesTyped == Spec => [](~ raced => TypeOK)
<1>1. UnracedInv => (~ raced => TypeOK)
  BY DEF UnracedInv, InodesInv
<1>. QED BY <1>1, InvHolds, PTL

=============================================================================
