--------------------------- MODULE ProcessMemory ----------------------------
(***************************************************************************)
(* What memory management promises: every process has an address space of  *)
(* its own.  A store of user code changes one page of one process; fork    *)
(* copies all pages; exec replaces them by the image of a file.  No page   *)
(* is missing.  Heap and stack are private.  What sharing lets through     *)
(* concerns the pages of a file only:                                      *)
(*   - Share: a page that a process has not touched may turn out to be     *)
(*     what another process that runs the file has there;                  *)
(*   - KernelStore: a store of the kernel may reach others that see the    *)
(*     same at that page;                                                  *)
(*   - during exec, a process that has the new file may still show pages   *)
(*     of the old.                                                         *)
(* What a process stores is its number.                                    *)
(***************************************************************************)
EXTENDS Naturals

CONSTANTS NR_TASKS, DataPages, HeapPages, Stack, Files, ZERO, KERNEL, NULL

VARIABLES
    space,      \* the contents of the pages of each process, NULL if none
    runs,       \* the file that it runs
    leaving     \* those that are between two files

vars == <<space, runs, leaving>>

Slots == 1 .. NR_TASKS - 1

Pages == DataPages \cup HeapPages \cup {Stack}

Image(data, stack) ==
    [a \in Pages |-> IF a \in DataPages THEN data
                     ELSE IF a = Stack THEN stack ELSE ZERO]

Init ==
    /\ space = [p \in Slots |-> IF p = 1 THEN Image(KERNEL, ZERO) ELSE NULL]
    /\ runs = [p \in Slots |-> NULL]
    /\ leaving = {}

Lives(p) == space[p] # NULL /\ p \notin leaving

Store(p, a) ==
    /\ UNCHANGED <<runs, leaving>>
    /\ Lives(p)
    /\ space' = [space EXCEPT ![p][a] = p]

Sees(p, a) == {q \in Slots : space[q] # NULL /\ space[q][a] = space[p][a]}

KernelStore(p, a) ==
    /\ UNCHANGED <<runs, leaving>>
    /\ runs[p] # NULL /\ a \in DataPages
    /\ Lives(p)
    /\ \E S \in SUBSET Sees(p, a) :
          space' = [q \in Slots |-> IF q \in S \cup {p} THEN [space[q] EXCEPT ![a] = p] ELSE space[q]]

Share(p, q, a) ==
    /\ UNCHANGED <<runs, leaving>>
    /\ p # q /\ runs[p] = runs[q] /\ runs[p] # NULL
    /\ Lives(p) /\ space[q] # NULL
    /\ space[p][a] = runs[p]
    /\ space' = [space EXCEPT ![p][a] = space[q][a]]

Fork(p, q) ==
    /\ UNCHANGED leaving
    /\ runs' = [runs EXCEPT ![q] = runs[p]]
    /\ Lives(p) /\ space[q] = NULL
    /\ space' = [space EXCEPT ![q] = space[p]]

Leave(p, file) ==
    /\ Lives(p)
    /\ leaving' = leaving \cup {p}
    /\ runs' = [runs EXCEPT ![p] = file]
    /\ \E D \in SUBSET DataPages :
          space' = [space EXCEPT ![p] = [a \in Pages |-> IF a \in D THEN file ELSE space[p][a]]]

Enter(p) ==
    /\ p \in leaving
    /\ leaving' = leaving \ {p}
    /\ UNCHANGED runs
    /\ space' = [space EXCEPT ![p] = Image(runs[p], p)]

Exit(p) ==
    /\ Lives(p)
    /\ space' = [space EXCEPT ![p] = NULL]
    /\ runs' = [runs EXCEPT ![p] = NULL]
    /\ UNCHANGED leaving

Step(p) ==
    \/ \E a \in Pages : Store(p, a) \/ KernelStore(p, a)
    \/ \E q \in Slots, a \in DataPages : Share(p, q, a)
    \/ \E q \in Slots : Fork(p, q)
    \/ \E file \in Files : Leave(p, file)
    \/ Enter(p)
    \/ Exit(p)

Next == UNCHANGED vars \/ \E p \in Slots : Step(p)

Spec == Init /\ [][Next]_vars

=============================================================================
