-------------------------------- MODULE Exec --------------------------------
(***************************************************************************)
(* do_execve of fs/exec.c: which file is run for a name, by whom, with     *)
(* which arguments, and what is left of a call that fails.                 *)
(*                                                                         *)
(* Arguments are copied downwards into an area of MAX_ARG_PAGES pages, the *)
(* environment first; p is where the last copied byte is, 0 if one of the  *)
(* copies failed.  A string is a model value with a length, its final zero *)
(* included.  A file is a record: what namei and its first block tell.     *)
(* Groups, closing on exec and signal handlers are not modelled here.      *)
(***************************************************************************)
EXTENDS Integers, FiniteSets, Sequences, SequencesExt

CONSTANTS Names,          \* the names of files, which are strings too
          File,           \* what a name leads to, or NULL
          Length,         \* of a string
          Calls,          \* [name, argv, env]: calls that programs make
          PAGE_SIZE, MAX_ARG_PAGES,
          NPages,         \* the free pages at first
          NULL

VARIABLE ex

Inodes == {n \in Names : File[n] # NULL}
Root == "root"
Idle == [pc |-> "user", name |-> NULL, argv |-> <<>>, env |-> <<>>, argc |-> 0, envc |-> 0,
         inode |-> NULL, sh_bang |-> FALSE, p |-> 0, area |-> <<>>, page |-> {}, e_uid |-> NULL]

Init ==
    \E uid \in {Root, "user"} :
      ex = [call |-> Idle,
            image |-> [argv |-> <<>>, env |-> <<>>, of |-> NULL, by |-> Idle, euid |-> uid],
            executable |-> NULL,
            euid |-> uid,
            stack |-> 0,                          \* pages of the arguments of the program
            free |-> NPages,                      \* what get_free_page can return
            i_count |-> [n \in Inodes |-> 0],     \* references do_execve and the process have
            wild |-> FALSE]                       \* a byte was copied below the area

C == ex.call

-----------------------------------------------------------------------------

Bytes(list) == FoldLeft(LAMBDA n, s : n + Length[s], 0, list)
PagesOf(low, high) == {b \div PAGE_SIZE : b \in low .. high - 1}

\* From the last string to the first.  p - len < 0 is never true of unsigned
\* numbers.  Of the pages that are needed as many are taken as there are.
copy_strings(s, list) ==
    LET c == s.call
        low == c.p - Bytes(list)
        need == PagesOf(low, c.p) \ c.page IN
    IF c.p = 0 THEN s
    ELSE IF low < 0 THEN [s EXCEPT !.wild = TRUE]
    ELSE IF Cardinality(need) > s.free
    THEN [s EXCEPT !.free = 0, !.call.p = 0,
                   !.call.page = @ \cup CHOOSE some \in SUBSET need : Cardinality(some) = s.free]
    ELSE [s EXCEPT !.free = @ - Cardinality(need), !.call.page = @ \cup need,
                   !.call.p = low, !.call.area = list \o @]

Put(s) == [s EXCEPT !.i_count[s.call.inode] = @ - 1]        \* iput(inode)

exec_error1(s) ==
    [s EXCEPT !.free = @ + Cardinality(s.call.page), !.call = Idle]
exec_error2(s) == exec_error1(Put(s))

Goto(s, pc) == [s EXCEPT !.call.pc = pc]
At(pc) == C.pc = pc /\ ~ ex.wild

\* namei, here and for the interpreter.
Named(s, name, pc) == Goto([s EXCEPT !.call.inode = name, !.i_count[name] = @ + 1], pc)

\* The strings i .. of a list the program gave; count counted them.
Given(list, n) == SubSeq(list, Len(list) - n + 1, Len(list))

-----------------------------------------------------------------------------

Execve ==
    /\ At("user")
    /\ \E call \in Calls :
         IF File[call.name] = NULL THEN ex' = ex
         ELSE ex' = Named([ex EXCEPT !.call = [Idle EXCEPT !.name = call.name,
                                                           !.argv = call.argv, !.argc = Len(call.argv),
                                                           !.env = call.env, !.envc = Len(call.env),
                                                           !.p = PAGE_SIZE * MAX_ARG_PAGES - 4]],
                          call.name, "restart_interp")

\* The bits for the owner or for others; root may run what anybody may run.
MayRun(f, euid) ==
    \/ (IF euid = f.owner THEN "owner" ELSE "others") \in f.x
    \/ f.x # {} /\ euid = Root

Check ==
    LET f == File[C.inode] IN
    /\ At("restart_interp")
    /\ ex' = IF ~ f.regular \/ ~ MayRun(f, ex.euid) THEN exec_error2(ex)
             ELSE Goto([ex EXCEPT !.call.e_uid = IF f.suid THEN f.owner ELSE ex.euid], "bread")

\* bread and the header.
Bread ==
    LET f == File[C.inode] IN
    /\ At("bread")
    /\ ex' = IF f.header = "unreadable" THEN exec_error2(ex)
             ELSE IF f.header = "script" /\ ~ C.sh_bang THEN Goto(Put(ex), "sh_bang")
             ELSE IF f.header # "ZMAGIC" THEN exec_error2(ex)
             ELSE Goto(ex, "copy")

\* The first line names the interpreter and perhaps an argument.  The inode of
\* the script is put already.
ShBang ==
    LET f == File[C.inode] IN
    /\ At("sh_bang")
    /\ ex' = IF f.interp = NULL THEN exec_error1(ex)
             ELSE Goto([copy_strings(ex, Given(C.env, C.envc)) EXCEPT
                          !.call.sh_bang = TRUE, !.call.argc = @ - 1], "sh_args")

\* The arguments behind the name, then what takes the place of the name.
ShArgs ==
    LET f == File[C.inode]
        one == copy_strings(ex, Given(C.argv, IF C.argc > 0 THEN C.argc ELSE 0))
        two == copy_strings(one, <<C.name>>)
        three == IF f.i_arg = NULL THEN two ELSE copy_strings(two, <<f.i_arg>>)
        four == copy_strings(three, <<f.i_name>>) IN
    /\ At("sh_args")
    /\ ex' = IF four.call.p = 0 /\ ~ four.wild THEN exec_error1(four)
             ELSE Goto([four EXCEPT !.call.argc = @ + (IF f.i_arg = NULL THEN 2 ELSE 3)], "interp")

Interp ==
    LET interp == File[C.inode].interp IN
    /\ At("interp")
    /\ ex' = IF File[interp] = NULL THEN exec_error1(ex) ELSE Named(ex, interp, "restart_interp")

\* Without a script the arguments are copied now.
Copy ==
    LET one == copy_strings(ex, Given(C.env, C.envc))
        two == copy_strings(one, Given(C.argv, C.argc)) IN
    /\ At("copy")
    /\ ex' = IF C.sh_bang THEN Goto(ex, "commit")
             ELSE IF two.call.p = 0 /\ ~ two.wild THEN exec_error2(two)
             ELSE Goto(two, "commit")

\* create_tables goes through the strings from p up: argc of them, then envc.
create_tables(area, argc, envc) ==
    [argv |-> SubSeq(area, 1, argc), env |-> SubSeq(area, argc + 1, argc + envc)]

\* "The point of no return": the old program and its pages go.
Commit ==
    LET tables == create_tables(C.area, C.argc, C.envc)
        old == ex.executable IN
    /\ At("commit")
    /\ ex' = [ex EXCEPT !.i_count = [n \in Inodes |-> @[n] - (IF n = old THEN 1 ELSE 0)],
                        !.executable = C.inode,
                        !.free = @ + ex.stack,
                        !.stack = Cardinality(C.page),
                        !.image = [argv |-> tables.argv, env |-> tables.env, of |-> C.inode,
                                   by |-> C, euid |-> ex.euid],
                        !.euid = C.e_uid,
                        !.call = Idle]

Next == Execve \/ Check \/ Bread \/ ShBang \/ ShArgs \/ Interp \/ Copy \/ Commit

Spec == Init /\ [][Next]_ex

-----------------------------------------------------------------------------

\* A call that ends, well or not, has put every inode but the one of the program
\* that runs, and freed every page but those of its arguments.
NothingIsLost ==
    C.pc = "user" =>
      /\ \A n \in Inodes : ex.i_count[n] = IF n = ex.executable THEN 1 ELSE 0
      /\ ex.free + ex.stack = NPages

\* The program that was started for a name: itself, or the interpreter of it.
Program(name) == IF File[name].header = "script" THEN File[name].interp ELSE name
Words(c) ==
    LET f == File[c.name] IN
    IF f.header # "script" THEN c.argv
    ELSE <<f.i_name>> \o (IF f.i_arg = NULL THEN <<>> ELSE <<f.i_arg>>) \o <<c.name>> \o SubSeq(c.argv, 2, Len(c.argv))

\* A program finds the arguments and the environment it was called with, behind
\* those of the line after #!, has the rights of its own file and was allowed to
\* the caller; nothing is copied below the area.
RunsAsCalled ==
    /\ ~ ex.wild
    /\ ex.image.of # NULL =>
         LET by == ex.image.by
             f == File[Program(by.name)] IN
         /\ ex.image.of = Program(by.name) /\ ex.executable = ex.image.of
         /\ ex.image.argv = Words(by) /\ ex.image.env = by.env
         /\ f.regular /\ f.header = "ZMAGIC" /\ MayRun(f, ex.image.euid)
         /\ MayRun(File[by.name], ex.image.euid)
         /\ ex.euid = IF f.suid THEN f.owner ELSE ex.image.euid

=============================================================================
