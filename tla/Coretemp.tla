------------------------------ MODULE Coretemp ------------------------------
(***************************************************************************)
(* The coretemp kernel module: a platform device for each zone (a die),    *)
(* with a set of sysfs files for each core that has a CPU online and one   *)
(* for the package.  CPU hotplug calls back into the driver, one callback  *)
(* at a time and while the CPU is up; readers of the files run at the same *)
(* time and ask the CPU named in temp_data for a register.                 *)
(*                                                                         *)
(* temp_data is reduced to the CPU it asks and to whether it has a value.  *)
(* A register of a core reads as the core.  sysfs_remove_group hides the   *)
(* files, then waits for the readers that are inside them.                 *)
(***************************************************************************)
EXTENDS Integers, FiniteSets, FiniteSetsExt

CONSTANTS CPUs,
          Core,          \* TO_CORE_ID: the core of a CPU
          Zone,          \* topology_logical_die_id: the zone of a CPU
          MAX_CORE_DATA,
          Readers,
          MayFail        \* what may fail in the online callback

VARIABLE ct

NoCpu == 0   \* the CPUs are numbers from 1

Zones == {Zone[c] : c \in CPUs}
PKG_SYSFS_ATTR_NO == 1
TO_ATTR_NO(c) == Core[c] + 2
Attrs == {PKG_SYSFS_ATTR_NO} \cup {TO_ATTR_NO(c) : c \in CPUs}
Siblings(c) == {d \in CPUs : Core[d] = Core[c] /\ Zone[d] = Zone[c]}

NoData == [cpu |-> NoCpu, valid |-> FALSE]
Outside == [pc |-> "out", zone |-> NoCpu, attr |-> NoCpu, cpu |-> NoCpu]
NoCallback == [step |-> "none", cpu |-> NoCpu]

Init ==
    \E up \in SUBSET CPUs \ {{}} :
      ct = [phase |-> "out",                       \* of the module
            online |-> up, known |-> {},           \* CPUs that are up, that the driver was told of
            frozen |-> {},                         \* CPUs that are down for a suspend
            callback |-> NoCallback,
            dev |-> [z \in Zones |-> FALSE],       \* zone_devices
            mask |-> [z \in Zones |-> {}],         \* pdata->cpumask
            data |-> [z \in Zones |-> [a \in Attrs |-> NoData]],
            files |-> [z \in Zones |-> {}],        \* the groups in sysfs
            reader |-> [r \in Readers |-> Outside],
            oops |-> FALSE]

Inside(z, a) == {r \in Readers : ct.reader[r].pc # "out" /\ ct.reader[r].zone = z /\ ct.reader[r].attr = a}
Locked(z, a) == \E r \in Inside(z, a) : ct.reader[r].pc # "in"

-----------------------------------------------------------------------------
(* A CPU comes up *)

\* create_core_data, which fails or adds the data and its files.
AddCore(s, z, a, c, fails) ==
    IF fails \/ a > MAX_CORE_DATA - 1 THEN s
    ELSE [s EXCEPT !.data[z][a] = [cpu |-> c, valid |-> FALSE], !.files[z] = @ \cup {a}]

\* The first CPU of a zone adds the device and its package.
AddDevice(s, z, c, fails) ==
    IF s.dev[z] THEN s
    ELSE AddCore([s EXCEPT !.dev[z] = TRUE, !.mask[z] = {}],
                 z, PKG_SYSFS_ATTR_NO, c, "package" \in fails)

\* A thread sibling that is there has added the core.
AddThread(s, z, c, fails) ==
    [IF s.mask[z] \cap Siblings(c) = {} THEN AddCore(s, z, TO_ATTR_NO(c), c, "core" \in fails) ELSE s
     EXCEPT !.mask[z] = @ \cup {c}, !.known = @ \cup {c}]

\* Without its device the callback fails, and so does the CPU.
coretemp_cpu_online(s, c, fails) ==
    IF ~ s.dev[Zone[c]] /\ "device" \in fails THEN s
    ELSE AddThread(AddDevice(s, Zone[c], c, fails), Zone[c], c, fails)

-----------------------------------------------------------------------------
(* A CPU goes down: the callback waits for readers and for update_lock *)

\* Whom the callback of c asks to go on with the core.
Target(c) == (ct.mask[Zone[c]] \cap Siblings(c)) \ {c}

Goto(s, step) == [s EXCEPT !.callback.step = step]

\* The end of a callback: the CPU goes down, unless it is the module that goes.
Ended(s) ==
    LET c == s.callback.cpu IN
    [s EXCEPT !.known = @ \ {c}, !.callback = NoCallback,
              !.online = IF s.phase = "in" THEN @ \ {c} ELSE @]

coretemp_cpu_offline(s, c) ==
    LET t == [s EXCEPT !.callback = [step |-> "core", cpu |-> c]] IN
    IF ~ s.dev[Zone[c]] \/ TO_ATTR_NO(c) > MAX_CORE_DATA - 1 THEN Ended(t)
    ELSE [t EXCEPT !.mask[Zone[c]] = @ \ {c}]

Calls(step) == ct.callback.step = step

\* A sibling goes on with the core.
TransferCore ==
    LET c == ct.callback.cpu
        z == Zone[c]
        a == TO_ATTR_NO(c) IN
    /\ Calls("core") /\ Target(c) # {}
    /\ IF ct.data[z][a].cpu = c
       THEN /\ ~ Locked(z, a)
            /\ \E t \in Target(c) : ct' = Goto([ct EXCEPT !.data[z][a].cpu = t], "zone")
       ELSE ct' = Goto(ct, "zone")

\* The last sibling: sysfs_remove_group of no data is a bad pointer.
HideCore ==
    LET c == ct.callback.cpu
        z == Zone[c] IN
    /\ Calls("core") /\ Target(c) = {}
    /\ ct' = IF ct.data[z][TO_ATTR_NO(c)] = NoData THEN [ct EXCEPT !.oops = TRUE]
             ELSE Goto([ct EXCEPT !.files[z] = @ \ {TO_ATTR_NO(c)}], "free")

FreeCore ==
    LET c == ct.callback.cpu
        a == TO_ATTR_NO(c) IN
    /\ Calls("free") /\ Inside(Zone[c], a) = {}
    /\ ct' = Goto([ct EXCEPT !.data[Zone[c]][a] = NoData], "zone")

\* The last CPU of a zone removes the device, which removes what is left of it.
NoZone ==
    LET z == Zone[ct.callback.cpu] IN
    /\ Calls("zone") /\ ct.mask[z] = {}
    /\ ct' = Goto([ct EXCEPT !.dev[z] = FALSE], "remove")

\* coretemp_remove, one element of core_data after the other.
Left == {a \in Attrs : ct.data[Zone[ct.callback.cpu]][a] # NoData}

HideNext ==
    /\ Calls("remove") /\ Left # {}
    /\ ct' = Goto([ct EXCEPT !.files[Zone[ct.callback.cpu]] = @ \ {Max(Left)}], "freeNext")

FreeNext ==
    LET z == Zone[ct.callback.cpu] IN
    /\ Calls("freeNext") /\ Inside(z, Max(Left)) = {}
    /\ ct' = Goto([ct EXCEPT !.data[z][Max(Left)] = NoData], "remove")

Removed == Calls("remove") /\ Left = {} /\ ct' = Ended(ct)

\* Another CPU goes on with the package.
KeepZone ==
    LET c == ct.callback.cpu
        z == Zone[c] IN
    /\ Calls("zone") /\ ct.mask[z] # {}
    /\ IF ct.data[z][PKG_SYSFS_ATTR_NO].cpu = c
       THEN /\ ~ Locked(z, PKG_SYSFS_ATTR_NO)
            /\ ct' = Ended([ct EXCEPT !.data[z][PKG_SYSFS_ATTR_NO].cpu = Min(ct.mask[z])])
       ELSE ct' = Ended(ct)

Callback ==
    \/ TransferCore \/ HideCore \/ FreeCore
    \/ NoZone \/ HideNext \/ FreeNext \/ Removed \/ KeepZone

-----------------------------------------------------------------------------
(* The module and the CPUs *)

Quiet == Calls("none") /\ ct.frozen = {} /\ ~ ct.oops

\* cpuhp_setup_state calls back for every CPU that is up; if one call fails it
\* takes the others back and the module is not loaded.
coretemp_init == Quiet /\ ct.phase = "out" /\ ct' = [ct EXCEPT !.phase = "loading"]

Setup(c) ==
    /\ Quiet /\ ct.phase = "loading"
    /\ c \in ct.online \ ct.known /\ \A d \in ct.online \ ct.known : c <= d
    /\ \E fails \in SUBSET MayFail :
         LET s == coretemp_cpu_online(ct, c, fails) IN
         ct' = IF c \in s.known THEN s ELSE [s EXCEPT !.phase = "unloading"]

Loaded ==
    /\ Quiet /\ ct.phase = "loading" /\ ct.online \subseteq ct.known
    /\ ct' = [ct EXCEPT !.phase = "in"]

coretemp_exit == Quiet /\ ct.phase = "in" /\ ct' = [ct EXCEPT !.phase = "unloading"]

Teardown(c) ==
    /\ Quiet /\ ct.phase = "unloading" /\ c \in ct.known
    /\ ct' = coretemp_cpu_offline(ct, c)

Unloaded ==
    /\ Quiet /\ ct.phase = "unloading" /\ ct.known = {}
    /\ ct' = [ct EXCEPT !.phase = "out"]

CpuUp(c) ==
    /\ Quiet /\ c \notin ct.online /\ ct.phase \in {"in", "out"}
    /\ IF ct.phase = "out" THEN ct' = [ct EXCEPT !.online = @ \cup {c}]
       ELSE \E fails \in SUBSET MayFail :
              LET s == coretemp_cpu_online(ct, c, fails) IN
              ct' = IF c \in s.known THEN [s EXCEPT !.online = @ \cup {c}] ELSE s

CpuDown(c) ==
    /\ Quiet /\ c \in ct.online /\ ct.online # {c} /\ ct.phase \in {"in", "out"}
    /\ ct' = IF ct.phase = "out" THEN [ct EXCEPT !.online = @ \ {c}] ELSE coretemp_cpu_offline(ct, c)

\* cpuhp_tasks_frozen: the driver ignores the callbacks of a suspend, during
\* which no program runs; its CPUs come back.
Suspend ==
    /\ Quiet /\ ct.phase = "in" /\ \A r \in Readers : ct.reader[r].pc = "out"
    /\ Cardinality(ct.online) > 1
    /\ ct' = [ct EXCEPT !.frozen = ct.online \ {Min(ct.online)}, !.online = {Min(ct.online)}]

Resume ==
    /\ ct.frozen # {}
    /\ ct' = [ct EXCEPT !.online = @ \cup ct.frozen, !.frozen = {}]

-----------------------------------------------------------------------------
(* The files *)

Open(r, z, a) ==
    /\ ct.reader[r].pc = "out" /\ ct.frozen = {} /\ a \in ct.files[z]
    /\ ct' = [ct EXCEPT !.reader[r] = [pc |-> "in", zone |-> z, attr |-> a, cpu |-> NoCpu]]

\* show_label, show_tjmax and show_ttarget need no lock.
Show(r) ==
    /\ ct.reader[r].pc = "in"
    /\ ct' = [ct EXCEPT !.reader[r] = Outside]

\* show_crit_alarm asks the CPU, show_temp does if its value is older than a
\* second; both under update_lock.
LockUpdate(r) ==
    LET rd == ct.reader[r]
        td == ct.data[rd.zone][rd.attr] IN
    /\ rd.pc = "in" /\ ~ Locked(rd.zone, rd.attr)
    /\ ct' = [ct EXCEPT !.reader[r].pc = "asks", !.reader[r].cpu = td.cpu]

\* show_temp with a value that is young enough.
ShowCached(r) ==
    LET rd == ct.reader[r] IN
    /\ rd.pc = "in" /\ ~ Locked(rd.zone, rd.attr) /\ ct.data[rd.zone][rd.attr].valid
    /\ ct' = [ct EXCEPT !.reader[r] = Outside]

\* rdmsr_on_cpu has the answer; show_temp keeps it.
Answered(r) ==
    LET rd == ct.reader[r] IN
    /\ rd.pc = "asks"
    /\ \E keep \in BOOLEAN :
         ct' = [ct EXCEPT !.reader[r] = Outside,
                          !.data[rd.zone][rd.attr].valid = @ \/ keep]

Read(r) ==
    \/ \E z \in Zones, a \in Attrs : Open(r, z, a)
    \/ Show(r) \/ LockUpdate(r) \/ ShowCached(r) \/ Answered(r)

Next ==
    \/ coretemp_init \/ Loaded \/ coretemp_exit \/ Unloaded
    \/ \E c \in CPUs : Setup(c) \/ Teardown(c) \/ CpuUp(c) \/ CpuDown(c)
    \/ Suspend \/ Resume
    \/ Callback
    \/ \E r \in Readers : Read(r)

Spec == Init /\ [][Next]_ct

-----------------------------------------------------------------------------

\* A reader asks a CPU that is up, and one of the core or zone its file is
\* about, however CPUs come and go (coretemp_cpu_offline transfers the target).
AsksRightCpu ==
    \A r \in Readers :
      LET rd == ct.reader[r] IN
      rd.pc = "asks" => /\ rd.cpu \in ct.online /\ Zone[rd.cpu] = rd.zone
                        /\ rd.attr \in {PKG_SYSFS_ATTR_NO, TO_ATTR_NO(rd.cpu)}

\* No file and no reader is left without its data, and no pointer to no data is
\* followed (coretemp_remove_core).
FilesHaveData ==
    /\ ~ ct.oops
    /\ \A z \in Zones, a \in Attrs :
         a \in ct.files[z] \/ Inside(z, a) # {} => ct.data[z][a] # NoData

\* Between callbacks a zone has a device for as long as the driver knows a CPU
\* of it, files for the cores of these CPUs and no others, and its data names
\* CPUs the driver knows.
ZoneFollowsCpus ==
    Calls("none") =>
      \A z \in Zones :
        LET mine == {c \in ct.known : Zone[c] = z}
            cores == {TO_ATTR_NO(c) : c \in mine} IN
        /\ ct.dev[z] <=> mine # {}
        /\ ct.mask[z] = mine
        /\ ct.files[z] \ {PKG_SYSFS_ATTR_NO} = cores
        /\ \A a \in Attrs : ct.data[z][a].cpu \in mine \cup {NoCpu}

=============================================================================
