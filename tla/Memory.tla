------------------------------- MODULE Memory -------------------------------
(***************************************************************************)
(* Memory management: mm/memory.c, with its callers in fork, exec, exit    *)
(* and the system calls that store into user memory (verify_area).         *)
(*                                                                         *)
(* Pages of physical memory are counted in mem_map.  A fork shares all     *)
(* pages and write-protects them (copy_page_tables); a write to a shared   *)
(* page copies it (un_wp_page).  A page of an executable file is read in   *)
(* when it is touched (do_no_page), unless another process that runs the   *)
(* same file has it and has not written to it: then it is shared           *)
(* (share_page, try_to_share).                                             *)
(*                                                                         *)
(* Every process has two page tables here, one for its data and heap and   *)
(* one for its stack.  Page 0 stands for the memory below LOW_MEM, which   *)
(* is not counted: the pages of the kernel that init and its children run  *)
(* on, and the address 0 that free_page ignores.  A change of a page table *)
(* acts at once: the calls of invalidate() are taken for granted.          *)
(*                                                                         *)
(* A handler runs to its end unless it sleeps; user code is interleaved.   *)
(* So other processes run                                                  *)
(*   "retry"  after a write fault, before the CPU repeats the instruction: *)
(*            a timer tick falls in between;                               *)
(*   "store"  after verify_area, before the kernel stores into user        *)
(*            memory, or returns without a store;                          *)
(*   "load", "sysLoad", "exec"  while a page, or the arguments, are read;  *)
(*   "close"  in do_execve, between the new executable and the release of  *)
(*            the old pages: closing a file sleeps.                        *)
(***************************************************************************)
EXTENDS Integers, FiniteSets, FiniteSetsExt

CONSTANTS
    NR_TASKS,                       \* task[0] is not modelled
    NR_PAGES,                       \* pages above LOW_MEM
    Starts,                         \* where main memory may start among them
    DataPages, HeapPages, Stack,    \* the pages of an address space
    Files,                          \* executables
    ZERO, KERNEL, NULL

ASSUME TasksAndPages == NR_TASKS \in Nat /\ NR_TASKS >= 2 /\ NR_PAGES \in Nat
ASSUME InitFits == \A start \in Starts : start \in 1 .. NR_PAGES - 1

Slots == 1 .. NR_TASKS - 1
Frames == 1 .. NR_PAGES
LOW == 0
USED == 100     \* the count of a page that is not in main memory

Pages == DataPages \cup HeapPages \cup {Stack}
Dirs == {1, 2}
Dir(a) == IF a = Stack THEN 2 ELSE 1

Entry == [page : Frames \cup {LOW}, rw : BOOLEAN, dirty : BOOLEAN]

ASSUME PagesAreFinite == IsFiniteSet(Pages)
ASSUME StackIsItsOwn == Stack \notin DataPages \cup HeapPages
ASSUME NullIsNothing == NULL \notin Entry /\ NULL \notin Pages \cup Files
ASSUME NullIsNoSpace == NULL \notin [Pages -> Slots \cup Files \cup {ZERO, KERNEL}]

VARIABLES
    mem_map,     \* how often a page is used
    content,     \* what is in a page: the process that stored there, or the file
    task,        \* the page of the task structure of each process
    dir,         \* the pages of its page tables
    pte,         \* the entries of its page tables
    executable,
    pc,          \* where it is
    held,        \* a page that it got and has not put into its tables yet
    at           \* the address that a write fault or a system call is about

tables == <<dir, pte>>
vars == <<mem_map, content, task, dir, pte, executable, pc, held, at>>

Places == {"none", "user", "retry", "store", "load", "sysLoad", "exec", "close", "zombie"}

TypeOK ==
    /\ mem_map \in [Frames -> Nat]
    /\ content \in [Frames \cup {LOW} -> Slots \cup Files \cup {ZERO, KERNEL}]
    /\ task \in [Slots -> Frames \cup {LOW}]
    /\ dir \in [Slots -> [Dirs -> Frames \cup {LOW}]]
    /\ pte \in [Slots -> [Pages -> Entry \cup {NULL}]]
    /\ executable \in [Slots -> Files \cup {NULL}]
    /\ pc \in [Slots -> Places]
    /\ held \in [Slots -> Frames \cup {LOW}]
    /\ at \in [Slots -> Pages \cup Files \cup {NULL}]

Present(p, a) == pte[p][a] # NULL

-----------------------------------------------------------------------------
(* mem_map.                                                                *)

FreePages == {f \in Frames : mem_map[f] = 0}

\* The n-th page that get_free_page finds: it searches from the end.
get_free_page(n) ==
    CHOOSE f \in FreePages : Cardinality({g \in FreePages : g >= f}) = n

\* It clears the pages it gives away.
Taken(fs) == [f \in Frames |-> IF f \in fs THEN 1 ELSE mem_map[f]]
Cleared(fs) == [f \in Frames \cup {LOW} |-> IF f \in fs THEN ZERO ELSE content[f]]

\* How often the page tables of p use page f.
Uses(p, f) ==
    Cardinality({a \in Pages : Present(p, a) /\ pte[p][a].page = f})
        + Cardinality({d \in Dirs : dir[p][d] = f})

OneIf(condition) == IF condition THEN 1 ELSE 0

\* mem_init; then main forks init, which runs on pages of the kernel.
Init ==
    /\ \E start \in Starts :
          mem_map = [f \in Frames |-> IF f < start THEN USED ELSE OneIf(f >= NR_PAGES - 1)]
    /\ content = [f \in Frames \cup {LOW} |-> IF f = LOW THEN KERNEL ELSE ZERO]
    /\ task = [p \in Slots |-> IF p = 1 THEN NR_PAGES ELSE LOW]
    /\ dir = [p \in Slots |-> [d \in Dirs |-> IF p = 1 /\ d = 1 THEN NR_PAGES - 1 ELSE LOW]]
    /\ pte = [p \in Slots |-> [a \in Pages |->
                IF p = 1 /\ a \in DataPages
                THEN [page |-> LOW, rw |-> FALSE, dirty |-> FALSE] ELSE NULL]]
    /\ executable = [p \in Slots |-> NULL]
    /\ pc = [p \in Slots |-> IF p = 1 THEN "user" ELSE "none"]
    /\ held = [p \in Slots |-> LOW]
    /\ at = [p \in Slots |-> NULL]

-----------------------------------------------------------------------------
(* Where a process is, and what it may access.                             *)

At(p, place) == pc[p] = place

\* Before its first exec a process has a limit of 640 kB.
Accessible(p, a) == executable[p] # NULL \/ a \in DataPages

\* do_exit, also called by oom(): free_page_tables; free_page(page) in do_no_page.
\* The executable is released later, when there are no pages left to share.
do_exit(p) ==
    /\ mem_map' = [f \in Frames |-> mem_map[f] - Uses(p, f) - OneIf(held[p] = f)]
    /\ dir' = [dir EXCEPT ![p] = [d \in Dirs |-> LOW]]
    /\ pte' = [pte EXCEPT ![p] = [a \in Pages |-> NULL]]
    /\ executable' = [executable EXCEPT ![p] = NULL]
    /\ pc' = [pc EXCEPT ![p] = "zombie"]
    /\ held' = [held EXCEPT ![p] = LOW]
    /\ at' = [at EXCEPT ![p] = NULL]
    /\ UNCHANGED <<content, task>>

\* The page table for a is missing: put_page and try_to_share get a page for it.
NoTable(p, a) == dir[p][Dir(a)] = LOW

NewTable(p, a, n) == IF NoTable(p, a) THEN {get_free_page(n)} ELSE {}

WithTable(p, a, n) ==
    IF NoTable(p, a) THEN [dir EXCEPT ![p][Dir(a)] = get_free_page(n)] ELSE dir

-----------------------------------------------------------------------------
(* do_no_page: the page is not present.                                    *)

NoPage(p, a) ==
    /\ Accessible(p, a)
    /\ ~ Present(p, a)
    /\ At(p, "user") \/ (At(p, "store") /\ at[p] = a)

FromFile(p, a) == executable[p] # NULL /\ a \in DataPages

\* get_empty_page: a page of zeroes for heap and stack.
get_empty_page(p, a) ==
    LET new == {get_free_page(1)} \cup NewTable(p, a, 2) IN
    /\ NoPage(p, a)
    /\ ~ FromFile(p, a)
    /\ IF Cardinality(FreePages) < 1 + OneIf(NoTable(p, a))
       THEN do_exit(p)
       ELSE /\ dir' = WithTable(p, a, 2)
            /\ mem_map' = Taken(new)
            /\ content' = Cleared(new)
            /\ pte' = [pte EXCEPT ![p][a] = [page |-> get_free_page(1), rw |-> TRUE, dirty |-> FALSE]]
            /\ UNCHANGED <<task, executable, pc, held, at>>

\* Slip: the executables are not compared.
SharersAny(p, a) ==
    {q \in Slots \ {p} : /\ Present(q, a)
                         /\ ~ pte[q][a].dirty
                         /\ pte[q][a].page # LOW}

\* try_to_share succeeds with these processes.
Sharers(p, a) ==
    {q \in Slots \ {p} : /\ executable[q] = executable[p]
                         /\ Present(q, a)
                         /\ ~ pte[q][a].dirty
                         /\ pte[q][a].page # LOW}

\* share_page: task[] is searched from the end.
share_page(p, a) ==
    LET q == Max(Sharers(p, a))
        e == [pte[q][a] EXCEPT !.rw = FALSE]
    IN
    /\ NoPage(p, a)
    /\ FromFile(p, a)
    /\ Sharers(p, a) # {}
    /\ IF NoTable(p, a) /\ FreePages = {}
       THEN do_exit(p)
       ELSE /\ dir' = WithTable(p, a, 1)
            /\ pte' = [pte EXCEPT ![q][a] = e, ![p][a] = e]
            /\ mem_map' = [Taken(NewTable(p, a, 1)) EXCEPT ![e.page] = @ + 1]
            /\ content' = Cleared(NewTable(p, a, 1))
            /\ UNCHANGED <<task, executable, pc, held, at>>

\* Nobody to share with: get a page and sleep in bread_page.  A process that
\* is in the iput of do_execve still names its file but may not count any more.
LoadPage(p, a) ==
    /\ NoPage(p, a)
    /\ FromFile(p, a)
    /\ \A q \in Sharers(p, a) : pc[q] = "exec"
    /\ IF FreePages = {}
       THEN do_exit(p)
       ELSE /\ mem_map' = Taken({get_free_page(1)})
            /\ content' = Cleared({get_free_page(1)})
            /\ held' = [held EXCEPT ![p] = get_free_page(1)]
            /\ pc' = [pc EXCEPT ![p] = IF @ = "user" THEN "load" ELSE "sysLoad"]
            /\ at' = [at EXCEPT ![p] = a]
            /\ UNCHANGED <<task, dir, pte, executable>>

\* bread_page returns, put_page enters the page.
PageLoaded(p) ==
    LET a == at[p] IN
    /\ At(p, "load") \/ At(p, "sysLoad")
    /\ IF NoTable(p, a) /\ FreePages = {}
       THEN do_exit(p)
       ELSE /\ dir' = WithTable(p, a, 1)
            /\ mem_map' = Taken(NewTable(p, a, 1))
            /\ content' = [Cleared(NewTable(p, a, 1)) EXCEPT ![held[p]] = executable[p]]
            /\ pte' = [pte EXCEPT ![p][a] = [page |-> held[p], rw |-> TRUE, dirty |-> FALSE]]
            /\ held' = [held EXCEPT ![p] = LOW]
            /\ pc' = [pc EXCEPT ![p] = IF @ = "load" THEN "user" ELSE "store"]
            /\ at' = [at EXCEPT ![p] = IF pc[p] = "load" THEN NULL ELSE a]
            /\ UNCHANGED <<task, executable>>

-----------------------------------------------------------------------------
(* Writing: by user code, and by the kernel on behalf of it.               *)

\* The CPU marks the entry dirty.
StoreTo(p, a) ==
    /\ content' = [content EXCEPT ![pte[p][a].page] = p]
    /\ pte' = [pte EXCEPT ![p][a].dirty = TRUE]
    /\ pc' = [pc EXCEPT ![p] = "user"]
    /\ at' = [at EXCEPT ![p] = NULL]
    /\ UNCHANGED <<mem_map, task, dir, executable, held>>

Writing(p, a) == At(p, "user") \/ (At(p, "retry") /\ at[p] = a)

Write(p, a) ==
    /\ Writing(p, a)
    /\ Present(p, a) /\ pte[p][a].rw
    /\ StoreTo(p, a)

\* un_wp_page: take the page if nobody else uses it, else copy it.
un_wp_page(p, a) ==
    LET old == pte[p][a].page
        new == get_free_page(1)
    IN  IF old # LOW /\ mem_map[old] = 1
        THEN /\ pte' = [pte EXCEPT ![p][a].rw = TRUE]
             /\ UNCHANGED <<mem_map, content>>
        ELSE /\ mem_map' = [f \in Frames |-> IF f = new THEN 1 ELSE mem_map[f] - OneIf(f = old)]
             /\ content' = [content EXCEPT ![new] = content[old]]
             /\ pte' = [pte EXCEPT ![p][a] = [page |-> new, rw |-> TRUE, dirty |-> FALSE]]

CannotCopy(p, a) ==
    /\ FreePages = {}
    /\ ~ (pte[p][a].page # LOW /\ mem_map[pte[p][a].page] = 1)

\* do_wp_page: user code writes to a page that is write-protected.
do_wp_page(p, a) ==
    /\ Writing(p, a)
    /\ Present(p, a) /\ ~ pte[p][a].rw
    /\ IF CannotCopy(p, a)
       THEN do_exit(p)
       ELSE /\ un_wp_page(p, a)
            /\ pc' = [pc EXCEPT ![p] = "retry"]
            /\ at' = [at EXCEPT ![p] = a]
            /\ UNCHANGED <<task, dir, executable, held>>

\* A system call that may store at address a: verify_area calls write_verify,
\* which leaves a page that is not there to the page fault of the store.
verify_area(p, a) ==
    LET protected == Present(p, a) /\ ~ pte[p][a].rw IN
    /\ At(p, "user")
    /\ Accessible(p, a)
    /\ IF protected /\ CannotCopy(p, a)
       THEN do_exit(p)
       ELSE /\ IF protected THEN un_wp_page(p, a) ELSE UNCHANGED <<mem_map, content, pte>>
            /\ pc' = [pc EXCEPT ![p] = "store"]
            /\ at' = [at EXCEPT ![p] = a]
            /\ UNCHANGED <<task, dir, executable, held>>

\* put_fs_byte: in kernel mode the 80386 ignores the write protection.
put_fs(p) ==
    /\ At(p, "store")
    /\ Present(p, at[p])
    /\ StoreTo(p, at[p])

\* The system call returns without a store: an error, end of file, fewer bytes
\* than asked for, no child to wait for.
no_store(p) ==
    /\ At(p, "store")
    /\ pc' = [pc EXCEPT ![p] = "user"]
    /\ at' = [at EXCEPT ![p] = NULL]
    /\ UNCHANGED <<mem_map, content, task, dir, pte, executable, held>>

-----------------------------------------------------------------------------
(* Processes come and go.                                                  *)

EmptySlots == {q \in Slots : pc[q] = "none"}

ProtectIn(p, ds) ==
    [a \in Pages |-> IF Present(p, a) /\ Dir(a) \in ds /\ pte[p][a].page # LOW
                     THEN [pte[p][a] EXCEPT !.rw = FALSE] ELSE pte[p][a]]

TablesOf(p) == {d \in Dirs : dir[p][d] # LOW}

\* Slip: only the entries of the child are write-protected.
ForkKeepsWrite(p) ==
    LET q == Min(EmptySlots)
        TableFor(d) == get_free_page(1 + Cardinality({c \in TablesOf(p) : c <= d}))
        new == {get_free_page(1)} \cup {TableFor(d) : d \in TablesOf(p)}
    IN
    /\ At(p, "user")
    /\ EmptySlots # {}
    /\ Cardinality(FreePages) > Cardinality(TablesOf(p))
    /\ task' = [task EXCEPT ![q] = get_free_page(1)]
    /\ dir' = [dir EXCEPT ![q] = [d \in Dirs |-> IF d \in TablesOf(p) THEN TableFor(d) ELSE LOW]]
    /\ pte' = [pte EXCEPT ![q] = [a \in Pages |-> IF Present(p, a)
                                    THEN [pte[p][a] EXCEPT !.rw = FALSE] ELSE NULL]]
    /\ mem_map' = [f \in Frames |-> Taken(new)[f]
                     + Cardinality({a \in Pages : Present(p, a) /\ pte[p][a].page = f})]
    /\ content' = Cleared(new)
    /\ executable' = [executable EXCEPT ![q] = executable[p]]
    /\ pc' = [pc EXCEPT ![q] = "user"]
    /\ UNCHANGED <<held, at>>

\* copy_process and copy_page_tables: a page for the task structure, one for
\* each page table; all pages are shared and write-protected.
Fork(p) ==
    LET q == Min(EmptySlots)
        TableFor(d) == get_free_page(1 + Cardinality({c \in TablesOf(p) : c <= d}))
        new == {get_free_page(1)} \cup {TableFor(d) : d \in TablesOf(p)}
    IN
    /\ At(p, "user")
    /\ EmptySlots # {}
    /\ Cardinality(FreePages) > Cardinality(TablesOf(p))
    /\ task' = [task EXCEPT ![q] = get_free_page(1)]
    /\ dir' = [dir EXCEPT ![q] = [d \in Dirs |-> IF d \in TablesOf(p) THEN TableFor(d) ELSE LOW]]
    /\ pte' = [pte EXCEPT ![p] = ProtectIn(p, Dirs),
                          ![q] = [a \in Pages |-> IF Present(p, a)
                                    THEN [pte[p][a] EXCEPT !.rw = FALSE] ELSE NULL]]
    /\ mem_map' = [f \in Frames |-> Taken(new)[f]
                     + Cardinality({a \in Pages : Present(p, a) /\ pte[p][a].page = f})]
    /\ content' = Cleared(new)
    /\ executable' = [executable EXCEPT ![q] = executable[p]]
    /\ pc' = [pc EXCEPT ![q] = "user"]
    /\ UNCHANGED <<held, at>>

\* Slip: the page of the task structure is not given back.
ForkFailsLeaks(p) ==
    /\ At(p, "user")
    /\ EmptySlots # {}
    /\ FreePages # {}
    /\ Cardinality(FreePages) <= Cardinality(TablesOf(p))
    /\ mem_map' = Taken({get_free_page(1)})
    /\ pte' = [pte EXCEPT ![p] = ProtectIn(p, Dirs)]
    /\ UNCHANGED <<content, task, dir, executable, pc, held, at>>

\* There is no page for a page table: copy_mem frees what was copied, but the
\* pages of the father remain write-protected.
ForkFails(p) ==
    LET copied == {d \in TablesOf(p) :
                     Cardinality({c \in TablesOf(p) : c <= d}) < Cardinality(FreePages)}
    IN
    /\ At(p, "user")
    /\ EmptySlots # {}
    /\ Cardinality(FreePages) <= Cardinality(TablesOf(p))
    /\ pte' = [pte EXCEPT ![p] = ProtectIn(p, copied)]
    /\ UNCHANGED <<mem_map, content, task, dir, executable, pc, held, at>>

\* do_execve: copy_strings gets a page for the arguments.
Exec(p, file) ==
    /\ At(p, "user")
    /\ p # 1
    /\ FreePages # {}
    /\ mem_map' = [mem_map EXCEPT ![get_free_page(1)] = 1]
    /\ content' = [content EXCEPT ![get_free_page(1)] = p]
    /\ held' = [held EXCEPT ![p] = get_free_page(1)]
    /\ at' = [at EXCEPT ![p] = file]
    /\ pc' = [pc EXCEPT ![p] = "exec"]
    /\ UNCHANGED <<task, dir, pte, executable>>

\* exec_error1 and exec_error2: the pages of the arguments are freed.
ExecFails(p) ==
    /\ At(p, "exec")
    /\ mem_map' = [mem_map EXCEPT ![held[p]] = @ - 1]
    /\ held' = [held EXCEPT ![p] = LOW]
    /\ at' = [at EXCEPT ![p] = NULL]
    /\ pc' = [pc EXCEPT ![p] = "user"]
    /\ UNCHANGED <<content, task, dir, pte, executable>>

\* The point of no return: the old executable is released, the new one is set.
ExecSwitch(p) ==
    /\ At(p, "exec")
    /\ executable' = [executable EXCEPT ![p] = at[p]]
    /\ at' = [at EXCEPT ![p] = NULL]
    /\ pc' = [pc EXCEPT ![p] = "close"]
    /\ UNCHANGED <<mem_map, content, task, dir, pte, held>>

\* After the files are closed: free_page_tables, then change_ldt puts the
\* arguments on the stack.  It ignores that put_page may fail.
ExecDone(p) ==
    LET left == [f \in Frames |-> mem_map[f] - Uses(p, f)]
        none == {f \in Frames : left[f] = 0} = {}
        new  == Max({f \in Frames : left[f] = 0})
    IN
    /\ At(p, "close")
    /\ mem_map' = [f \in Frames |-> IF ~ none /\ f = new THEN 1 ELSE left[f]]
    /\ dir' = [dir EXCEPT ![p] = [d \in Dirs |-> IF d = 2 /\ ~ none THEN new ELSE LOW]]
    /\ pte' = [pte EXCEPT ![p] = [a \in Pages |-> IF a = Stack /\ ~ none
                 THEN [page |-> held[p], rw |-> TRUE, dirty |-> TRUE] ELSE NULL]]
    /\ held' = [held EXCEPT ![p] = LOW]
    /\ pc' = [pc EXCEPT ![p] = "user"]
    /\ content' = IF none THEN content ELSE Cleared({new})
    /\ UNCHANGED <<task, executable, at>>

Exit(p) == At(p, "user") /\ p # 1 /\ do_exit(p)

\* release, called by sys_waitpid in the father of p.
release(p) ==
    /\ pc[p] = "zombie"
    /\ p # 1
    /\ \E q \in Slots \ {p} : At(q, "user")
    /\ task' = [task EXCEPT ![p] = LOW]
    /\ mem_map' = [mem_map EXCEPT ![task[p]] = @ - 1]
    /\ pc' = [pc EXCEPT ![p] = "none"]
    /\ UNCHANGED <<content, dir, pte, executable, held, at>>

-----------------------------------------------------------------------------

Fault(p) ==
    \/ \E a \in Pages : \/ get_empty_page(p, a) \/ share_page(p, a) \/ LoadPage(p, a)
                        \/ do_wp_page(p, a)
    \/ PageLoaded(p)

Access(p) ==
    \/ \E a \in Pages : verify_area(p, a) \/ Write(p, a)
    \/ put_fs(p) \/ no_store(p)

Call(p) ==
    \/ Fork(p) \/ ForkFails(p) \/ Exit(p) \/ release(p)
    \/ \E file \in Files : Exec(p, file)
    \/ ExecFails(p) \/ ExecSwitch(p) \/ ExecDone(p)

Next == \E p \in Slots : Fault(p) \/ Access(p) \/ Call(p)

Spec == Init /\ [][Next]_vars

-----------------------------------------------------------------------------

\* mem_map counts the uses of each page: entries of page tables, page tables,
\* task structures, and the pages that a sleeping handler holds.  No page is
\* lost, and none is freed while it is used, also when memory runs out.
CountIsUses ==
    \A f \in Frames :
        LET uses == Cardinality({p \in Slots : task[p] = f})
                    + Cardinality({p \in Slots : held[p] = f})
                    + Cardinality({u \in Slots \X Pages :
                        Present(u[1], u[2]) /\ pte[u[1]][u[2]].page = f})
                    + Cardinality({u \in Slots \X Dirs : dir[u[1]][u[2]] = f})
        IN  mem_map[f] = uses \/ (mem_map[f] = USED /\ uses = 0)

\* A page that a process can write to is used by nobody else.
WritableIsPrivate ==
    \A p \in Slots, a \in Pages :
        Present(p, a) /\ pte[p][a].rw => pte[p][a].page # LOW /\ mem_map[pte[p][a].page] = 1

\* A page of a file that is clean, which try_to_share gives to other processes,
\* has not been changed by anybody.
CleanIsUnchanged ==
    \A p \in Slots, a \in DataPages :
        pc[p] = "user" /\ executable[p] # NULL /\ Present(p, a) /\ ~ pte[p][a].dirty
            => content[pte[p][a].page] \notin Slots

\* What process p reads at a, when the faults that it takes have been served.
View(p, a) ==
    IF Present(p, a) THEN content[pte[p][a].page]
    ELSE IF FromFile(p, a) THEN executable[p] ELSE ZERO

\* The address spaces of the processes.
Gone == {"none", "zombie"}
Space == [p \in Slots |-> IF pc[p] \in Gone THEN NULL ELSE [a \in Pages |-> View(p, a)]]

Leaving == {p \in Slots : pc[p] = "close"}

Processes == INSTANCE ProcessMemory WITH space <- Space, runs <- executable, leaving <- Leaving

\* Demand loading and copy-on-write are invisible: processes have address
\* spaces of their own, but for what sharing does to the pages of a file.
ImplementsProcessMemory == Processes!Spec

=============================================================================
