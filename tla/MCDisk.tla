------------------------------- MODULE MCDisk -------------------------------
(***************************************************************************)
(* The hard disk and what is kept on it for TLC: a behaviour is one of the *)
(* request list alone, with more devices than the driver needs, one of the *)
(* driver, or one of the file system.                                      *)
(***************************************************************************)
EXTENDS Naturals, Sequences, TLC

CONSTANTS NULL

VARIABLES part, hd, table, list, fs, file, task, prog

elevator == <<table, list>>
files == <<fs, file, task, prog>>
vars == <<part, hd, elevator, files>>

\* Two partitions, the first with an odd number of sectors: its block 1 is
\* out of range, and both blocks 0 end a partition.
HdPart == (1 :> [start_sect |-> 0, nr_sects |-> 3])
          @@ (2 :> [start_sect |-> 3, nr_sects |-> 2])

Disk == INSTANCE HardDisk
        WITH Blocks <- {<<1, 0>>, <<1, 1>>, <<2, 0>>}, MAX_ERRORS <- 3, NR_REQUEST <- 3

Elevator == INSTANCE RequestQueue
            WITH Devs <- {1, 2}, Sectors <- {0, 2}, NR_REQUEST <- 4,
                 request <- table, queue <- list

P(abs, dirs, base) == [abs |-> abs, dirs |-> dirs, base |-> base]
A == P(TRUE, <<>>, "a")
AB == P(TRUE, <<"a">>, "b")
B == P(FALSE, <<>>, "b")
Up == P(FALSE, <<"..">>, "")
Creat == {"creat", "trunc"}

\* Names; data of two files; deleted data; descriptors; exec and terminals;
\* permissions.
Programs ==
    {[calls |-> {"mkdir", "rmdir", "unlink", "link", "open", "close", "chdir"},
      paths |-> {A, AB, B, Up}, flags |-> {{}, Creat}],
     [calls |-> {"open", "close", "write", "lseek", "read"},
      paths |-> {A, B}, flags |-> {Creat, {"append", "write"}}],
     [calls |-> {"open", "close", "write", "lseek", "read", "unlink"},
      paths |-> {A}, flags |-> {Creat}],
     [calls |-> {"open", "close", "dup", "dup2", "pipe", "fork", "exit", "unlink"},
      paths |-> {A}, flags |-> {Creat}],
     [calls |-> {"mknod", "open", "fcntl", "fork", "exec", "exit"},
      paths |-> {A}, flags |-> {Creat}],
     [calls |-> {"mkdir", "open", "chmod", "chown", "chroot", "unlink", "exec"},
      paths |-> {A, AB}, flags |-> {Creat, {"creat", "excl"}}]}

Files == INSTANCE FileSystem
         WITH Procs <- {"p1", "p2"}, First <- "p1", NI <- 3, NZ <- 5, N_DIRECT <- 1, CELLS <- 2,
              NR_OPEN <- 2, NR_FILE <- 2, Devs <- {4, 5}, MAX_POS <- 9, Offsets <- {0, 6},
              Counts <- {3}

Init ==
    /\ part \in {"disk", "elevator", "files"}
    /\ Disk!Init /\ Elevator!Init /\ Files!Init
    /\ part # "files" => prog = CHOOSE p \in Programs : TRUE

InDisk(Step) == part = "disk" /\ Step /\ UNCHANGED <<part, elevator, files>>
InElevator(Step) == part = "elevator" /\ Step /\ UNCHANGED <<part, hd, files>>
InFiles(Step) == part = "files" /\ Step /\ UNCHANGED <<part, hd, elevator>>

\* Programs may end, drivers never.
Next ==
    \/ InDisk(Disk!Next)
    \/ InElevator(Elevator!Next)
    \/ InFiles(Files!Next)
    \/ InFiles(UNCHANGED files)

\* The device finishes what it has started: the fairness of each part.
Spec ==
    /\ Init /\ [][Next]_vars
    /\ WF_vars(InDisk(Disk!hd_interrupt))
    /\ WF_vars(InElevator(Elevator!EndRequest))

-----------------------------------------------------------------------------

\* A valid buffer holds the two sectors of its block: see HardDisk.
ValidIsDisk == Disk!ValidIsDisk

\* Every request to the hard disk ends, whatever fails, and requests that keep
\* coming starve none: see EveryBufferUnlocked of HardDisk and EveryRequestServed
\* of RequestQueue.
EveryRequestEnds == Disk!EveryBufferUnlocked /\ Elevator!EveryRequestServed

\* Bitmaps, link counts and reference counts agree after every call: see
\* FileSystem.
ConsistentFS == Files!ConsistentFS

\* A file holds what was written to it and to no other: see FileSystem.
ImplementsFileStore == Files!ImplementsFileStore

=============================================================================
