------------------------------- MODULE MCUnits -------------------------------
(***************************************************************************)
(* Components that share no state with each other, checked in one run: a   *)
(* behaviour is one of the inode table, of the floppy driver, of the       *)
(* scheduler and its timers, of the console, of malloc, of do_execve, of   *)
(* aufs or of coretemp.  The table of inodes stays as it is when another   *)
(* component runs.                                                         *)
(***************************************************************************)
EXTENDS Inodes, Integers, TLC

VARIABLES
    unit,       \* the component
    s           \* its state, if it is not the inode table

\* One block on each of two drives, one of them out of reach of DMA.
Flp == INSTANCE Floppy
       WITH fd <- s, Blocks <- {<<0, 1>>, <<1, 1>>}, High <- {<<0, 1>>}, Size <- 4,
            NR_REQUEST <- 3, MAX_ERRORS <- 1, MaxFaults <- 1

Tim == INSTANCE Timers
       WITH sc <- s, Tasks <- {1, 2}, Priority <- 2, Width <- 5, Increments <- {1}, HZ <- 1,
            SPINUP <- 2, KEEP <- 3, LINGER <- 2, Drives <- {0}, TIME_REQUESTS <- 3,
            MaxJiffies <- 6

Con == INSTANCE Console
       WITH con <- s, Columns <- 3, Lines <- 3, MemRows <- 4, NPAR <- 2, TabSize <- 2,
            MaxChars <- 4

\* Two inodes, a directory of two blocks with one entry each, five blocks for
\* files.
Auf == INSTANCE Aufs
       WITH au <- s, si_lasti <- 4, si_blocks <- 8, DirEnd <- 3, PerBlock <- 1,
            Names <- {"a", "b"}, Files <- <<"a", "b">>, Objs <- {1, 2}, Contents <- FALSE,
            MaxWrite <- 2, MaxFaults <- 1, MaxCalls <- 3

\* Two objects in a page of the small size, one in a page of the large one.
Mal == INSTANCE Malloc
       WITH ma <- s, PerPage <- <<2, 1>>, Pages <- 1 .. 5, DescsPerPage <- 2, IrqFrees <- FALSE

Plain(owner, suid, header) ==
    [regular |-> TRUE, owner |-> owner, suid |-> suid, x |-> {"owner", "others"}, header |-> header,
     interp |-> NULL, i_arg |-> NULL, i_name |-> NULL]
Script(interp, i_arg, i_name) ==
    [Plain("user", TRUE, "script") EXCEPT !.interp = interp, !.i_arg = i_arg, !.i_name = i_name]

\* Programs, scripts, and what is neither.
Programs ==
    [own |-> [Plain("user", FALSE, "ZMAGIC") EXCEPT !.x = {"owner"}],
     su |-> Plain("root", TRUE, "ZMAGIC"),
     sh |-> Plain("root", FALSE, "ZMAGIC"),
     script |-> Script("sh", "-x", "sh"),
     nameless |-> Script(NULL, NULL, NULL),
     orphan |-> Script("gone", NULL, "gone"),
     nested |-> Script("script", NULL, "script"),
     old |-> Plain("user", FALSE, "OMAGIC"),
     hidden |-> Plain("user", FALSE, "unreadable"),
     data |-> [Plain("root", FALSE, "ZMAGIC") EXCEPT !.x = {}],
     dir |-> [Plain("root", FALSE, "none") EXCEPT !.regular = FALSE],
     gone |-> NULL]

\* An area of 16 bytes, which the longest arguments of a script fill.
Exe == INSTANCE Exec
       WITH ex <- s, Names <- DOMAIN Programs, File <- Programs,
            Length <- [n \in DOMAIN Programs \cup {"-x", "b", "long", "env"} |->
                         CASE n = "long" -> 5 [] n = "script" -> 3 [] OTHER -> 1],
            Calls <- [name : DOMAIN Programs, argv : {<<"b">>, <<"b", "long">>},
                      env : {<<>>, <<"env">>, <<"long", "env">>}],
            PAGE_SIZE <- 4, MAX_ARG_PAGES <- 5, NPages <- 5

\* A core of two threads and one of one thread.
Cor == INSTANCE Coretemp
       WITH ct <- s, CPUs <- {1, 2, 3}, Core <- <<0, 0, 1>>, Zone <- <<0, 0, 0>>,
            MAX_CORE_DATA <- 9, Readers <- Procs, MayFail <- {"device", "package"}

UnitInit ==
    /\ Init
    /\ \/ unit = "inodes" /\ s = NULL
       \/ unit = "floppy" /\ Flp!Init
       \/ unit = "timers" /\ Tim!Init
       \/ unit = "console" /\ Con!Init
       \/ unit = "aufs" /\ Auf!Init
       \/ unit = "malloc" /\ Mal!Init
       \/ unit = "exec" /\ Exe!Init
       \/ unit = "coretemp" /\ Cor!Init

Of(u, A) == unit = u /\ A /\ UNCHANGED <<unit, vars>>

UnitNext ==
    \/ unit = "inodes" /\ Next /\ UNCHANGED <<unit, s>>
    \/ Of("floppy", Flp!Next)
    \/ Of("timers", Tim!Next)
    \/ Of("console", Con!Next)
    \/ Of("aufs", Auf!Next)
    \/ Of("malloc", Mal!Next)
    \/ Of("exec", Exe!Next)
    \/ Of("coretemp", Cor!Next)

UnitSpec == UnitInit /\ [][UnitNext]_<<unit, s, vars>>

\* Processes are told apart by nothing but their name.
Alike == Permutations(Procs)

-----------------------------------------------------------------------------

\* A valid buffer holds its block of its floppy, and transfers go to the drive
\* that is selected: see ValidIsDisk and DriveIsSelected of Floppy.
FloppyIsRead == unit = "floppy" => Flp!ValidIsDisk /\ Flp!DriveIsSelected

\* Timers do not run early, motors have their speed: see Timers.
NeverEarly == unit = "timers" => Tim!NeverEarly

\* Every character changes the screen as it should and leaves the cursor where
\* its address says: see ShowsScreen and PosIsCursor of Console.
ShowsScreen ==
    [][unit = "console" => /\ Con!Visible(s') = Con!Expected(Con!Visible(s), s, s'.last)
                           /\ Con!PosIsCursor']_s

\* The CPU is idle only when no task can run: see Timers.
IdleOnlyWhenIdle ==
    [][unit = "timers" /\ s.current # 0 /\ s'.current = 0 => Tim!Runnable(s'.task) = {}]_s

\* No block of aufs has two owners, the counts are true, names lead to their
\* files and the device can be mounted again: see FilesApart and NamesLead of
\* Aufs.  Readers of coretemp ask a CPU that is up and find their data, however
\* CPUs and the module come and go: see Coretemp.
ModulesHold ==
    /\ unit = "aufs" => Auf!FilesApart /\ Auf!NamesLead
    /\ unit = "coretemp" => Cor!AsksRightCpu /\ Cor!FilesHaveData /\ Cor!ZoneFollowsCpus

\* malloc gives nothing to two users and free_s finds every object, though
\* handlers change the chains it walks; do_execve loses no page and no inode and
\* passes on the arguments of its caller: see Malloc and Exec.
MallocAndExec ==
    /\ unit = "malloc" => Mal!ObjectsApart /\ Mal!ChainsComplete
    /\ unit = "exec" => Exe!NothingIsLost /\ Exe!RunsAsCalled

=============================================================================
