---------------------------- MODULE KconfigConf ----------------------------
(***************************************************************************)
(* The program conf (conf.c), run again and again over the files of a      *)
(* source tree, and killed at any point: it reads .config, asks the user   *)
(* for the symbols that have no value, gives values by a rule, and writes  *)
(* the files.  The recursion of conf and check_conf over the menus is a    *)
(* stack of the nodes that are still to be visited.                        *)
(***************************************************************************)
EXTENDS KconfigFile

CONSTANTS OldFiles,   \* .config files that an earlier Kconfig left
          Modes,      \* the ways conf may be called
          Later,      \* the ways it may be called again
          Runs,       \* bound on the calls of conf
          Draws,      \* draws of rand() for the symbols
          Lucky,      \* draws of rand() for the choices
          Integers3   \* what the user may answer for an integer

VARIABLES st,         \* the table of symbols of the running program
          mode,       \* input_mode
          pc,         \* where main is
          work,       \* the calls of conf and check_conf still to be made
          conf_cnt,   \* the new symbols found in this round
          rootEntry,
          disk,       \* config, .old, the temporary file, defconfig, auto.conf
          touched,    \* the symbols whose files are newer than the last build
          built,      \* auto.conf as the last build saw it
          runs

confVars == <<st, mode, pc, work, conf_cnt, rootEntry, disk, touched, built, runs>>

Missing == <<Line("none", no)>>     \* a file that is not there

Asking == {"oldconfig", "oldaskconfig", "syncconfig"}
NewMode == [allyesconfig |-> "yes", allmodconfig |-> "mod", allnoconfig |-> "no",
            alldefconfig |-> "default", defconfig |-> "default", randconfig |-> "random"]

Visit(do, n) == [do |-> do, n |-> n]
VisitAll(do, list) == [i \in 1 .. Len(list) |-> Visit(do, list[i])]

ConfInit ==
    /\ st = FreshTable
    /\ mode = "none"
    /\ pc = "off"
    /\ work = <<>>
    /\ conf_cnt = 0
    /\ rootEntry = 0
    /\ \E f \in OldFiles :
         disk = [config |-> f, old |-> Missing, tmp |-> Missing, defconfig |-> Missing, auto |-> Missing]
    /\ touched = {}
    /\ built = <<>>
    /\ runs = 0

Read(lines) == IF lines = Missing THEN ReadNothing(FreshTable) ELSE conf_read(FreshTable, lines)

(* main, up to the point where it asks, gives values or writes *)
Start(m) ==
    /\ pc = "off"
    /\ runs < Runs /\ (runs > 0 => m \in Later)
    /\ runs' = runs + 1
    /\ mode' = m
    /\ ~(m = "defconfig" /\ disk.defconfig = Missing)
    /\ ~(m = "syncconfig" /\ disk.config = Missing)
    /\ st' = IF m \in {"defconfig", "savedefconfig", "olddefconfig"} \union Asking
             THEN Read(IF m = "defconfig" THEN disk.defconfig ELSE disk.config)
             ELSE FreshTable
    /\ pc' = CASE m \in Asking -> "ask"
               [] m \in DOMAIN NewMode -> "new"
               [] OTHER -> "write"
    /\ work' = CASE m = "oldaskconfig" -> <<Visit("conf", 0)>>
                 [] m \in Asking \ {"oldaskconfig"} -> <<Visit("check", 0)>>
                 [] OTHER -> <<>>
    /\ rootEntry' = 0
    /\ conf_cnt' = 0
    /\ UNCHANGED <<disk, touched, built>>

(* conf_set_all_new_symbols; for randconfig until nothing is new *)
SetNew ==
    /\ pc = "new"
    /\ \E draw \in Draws, lucky \in Lucky :
         \E x \in {conf_set_all_new_symbols(st, NewMode[mode], draw, lucky)} :
            /\ st' = x.st
            /\ pc' = IF mode = "randconfig" /\ x.more THEN "new" ELSE "write"
    /\ UNCHANGED <<mode, work, conf_cnt, rootEntry, disk, touched, built, runs>>

-----------------------------------------------------------------------------
(* Asking *)

Top == Head(work)
Rest == Tail(work)
Go(u, list) == st' = u /\ work' = list \o Rest

UnchangedAsking == UNCHANGED <<mode, pc, disk, touched, built, runs>>

(* conf_askvalue does not ask for what cannot be changed, and oldconfig not *)
(* for what has a value.                                                    *)
Asked(u, s) == sym_is_changable(u, s) /\ ~(mode # "oldaskconfig" /\ s \in u.user)

(* The tables after the question for the tristate symbol s. *)
AnswersTristate(u, s) ==
    IF Asked(u, s) THEN {SetTristate(u, s, v) : v \in {x \in no .. yes : MaySetTristate(u, s, x)}}
    ELSE {u}

(* ... and for the integer s; an empty line keeps the value. *)
AnswersInt(u, s) ==
    IF Asked(u, s) THEN {SetInt(u, s, x) : x \in {x \in Integers3 \union {u.cur[s]} :
                                                  x # Empty /\ sym_string_within_range(u, s, x)}}
    ELSE {u}

(* conf_sym, conf_string *)
Answers(u, s) == IF Type[s] = "int" THEN AnswersInt(u, s) ELSE AnswersTristate(u, s)

(* check_conf *)
RECURSIVE menu_get_parent_menu(_)
menu_get_parent_menu(n) ==
    IF n = 0 \/ (K.prompt[n] # 0 /\ K.props[K.prompt[n]].type = "menu") THEN n
    ELSE menu_get_parent_menu(K.parent[n])

CheckConf ==
    /\ pc = "ask" /\ work # <<>> /\ Top.do = "check"
    /\ LET n == Top.n
           s == K.sym[n]
           kids == VisitAll("check", K.kids[n])
           isNew(u) == /\ s # "none"
                       /\ s \notin u.user
                       /\ sym_is_changable(u, s) \/ (IsChoice(s) /\ u.cur[s] = yes)
           found(u, menu) == /\ Go(u, <<Visit("conf", menu)>> \o kids)
                             /\ conf_cnt' = 1
                             /\ rootEntry' = menu
           step(x) == IF x.ok /\ isNew(x.st) THEN found(x.st, menu_get_parent_menu(n))
                      ELSE /\ Go(x.st, IF x.ok THEN kids ELSE <<>>)
                           /\ UNCHANGED <<conf_cnt, rootEntry>>
       IN  step(Look(st, n))
    /\ UnchangedAsking

Conf == pc = "ask" /\ work # <<>> /\ Top.do = "conf"

(* conf, of a menu or a symbol that is not a choice.  A menu inside the one *)
(* that is asked about is only searched for new symbols.                    *)
ConfEntry ==
    /\ Conf
    /\ LET n == Top.n
           s == K.sym[n]
           kids == VisitAll("conf", K.kids[n])
           search == /\ K.props[K.prompt[n]].type = "menu"
                     /\ mode # "oldaskconfig" /\ rootEntry # n
           step(x) == IF ~x.ok THEN Go(x.st, <<>>)
                      ELSE IF search THEN Go(x.st, <<Visit("check", n)>>)
                      ELSE IF s = "none" THEN Go(x.st, kids)
                      ELSE \E u \in Answers(x.st, s) : Go(u, kids)
       IN  /\ s = "none" \/ ~IsChoice(s)
           /\ step(Look(st, n))
    /\ UNCHANGED <<conf_cnt, rootEntry>>
    /\ UnchangedAsking

(* The visible children of a choice: [st, seen]. *)
Offered(u, n) ==
    LET put(x, y, m) == [st |-> y.st,
                         seen |-> IF y.ok /\ K.sym[m] # "none" THEN Append(x.seen, m) ELSE x.seen]
    IN  FoldLeft(LAMBDA x, m : put(x, Look(x.st, m), m), [st |-> u, seen |-> <<>>], K.kids[n])

(* The child that becomes the value: the only one there is, the present one *)
(* if the choice is not new, or any.                                        *)
Takes(x, c, isNew) ==
    {m \in Range(x.seen) :
        Len(x.seen) = 1 \/ mode = "oldaskconfig" \/ isNew \/ K.sym[m] = x.st.pick[c]}

(* conf, of a choice, with conf_choice *)
ConfChoice ==
    /\ Conf
    /\ LET n == Top.n
           c == K.sym[n]
           set(u, s) == IF MaySetTristate(u, s, yes) THEN SetTristate(u, s, yes) ELSE u
           choose(x, isNew) == \E m \in Takes(x, c, isNew) :
                                  Go(set(x.st, K.sym[m]), VisitAll("conf", K.kids[m]))
           decided(u, isNew) == IF u.cur[c] = no THEN Go(u, <<>>)
                                ELSE IF u.cur[c] = mod THEN Go(u, VisitAll("conf", K.kids[n]))
                                ELSE choose(Offered(u, n), isNew)
           toggled(u) == IF sym_is_changable(u, c) THEN AnswersTristate(u, c) ELSE {u}
           step(x) == IF ~x.ok THEN Go(x.st, <<>>)
                      ELSE \E u \in {sym_calc_value(w, c) : w \in toggled(x.st)} :
                              decided(u, c \notin x.st.user)
       IN  /\ c # "none" /\ IsChoice(c)
           /\ step(Look(st, n))
    /\ UNCHANGED <<conf_cnt, rootEntry>>
    /\ UnchangedAsking

AskedAll_once == pc' = "write" /\ UNCHANGED <<work, conf_cnt, mode>>

(* The round is over: another one until no symbol was new. *)
AskedAll ==
    /\ IF mode = "oldaskconfig" \/ conf_cnt # 0
       THEN work' = <<Visit("check", 0)>> /\ conf_cnt' = 0 /\ pc' = pc
       ELSE pc' = "write" /\ UNCHANGED <<work, conf_cnt>>
    /\ mode' = IF mode = "oldaskconfig" THEN "oldconfig" ELSE mode

EndRound ==
    /\ pc = "ask" /\ work = <<>>
    /\ AskedAll
    /\ UNCHANGED <<st, rootEntry, disk, touched, built, runs>>

-----------------------------------------------------------------------------
(* Writing *)

UnchangedWriting == UNCHANGED <<mode, work, conf_cnt, rootEntry, built, runs>>

(* conf_write: the new file is written beside the old one ... *)
WriteConfig ==
    /\ pc = "write" /\ mode # "savedefconfig"
    /\ IF mode = "syncconfig" /\ ~st.changed
       THEN pc' = "split" /\ UNCHANGED <<st, disk>>
       ELSE /\ \E x \in {PrintConfig(st)} : st' = x.st /\ disk' = [disk EXCEPT !.tmp = x.out]
            /\ pc' = "rename_old"
    /\ UnchangedWriting /\ UNCHANGED touched

(* ... which is renamed first. *)
RenameOld ==
    /\ pc = "rename_old"
    /\ disk' = IF disk.config = Missing THEN disk
               ELSE [disk EXCEPT !.old = disk.config, !.config = Missing]
    /\ pc' = "rename_new"
    /\ UnchangedWriting /\ UNCHANGED <<st, touched>>

RenameNew ==
    /\ pc = "rename_new"
    /\ disk' = [disk EXCEPT !.config = disk.tmp, !.tmp = Missing]
    /\ st' = [st EXCEPT !.changed = FALSE]
    /\ pc' = IF mode = "syncconfig" THEN "split" ELSE "saved"
    /\ UnchangedWriting /\ UNCHANGED touched

WriteDefconfig ==
    /\ pc = "write" /\ mode = "savedefconfig"
    /\ \E x \in {conf_write_defconfig(st)} :
          st' = x.st /\ disk' = [disk EXCEPT !.defconfig = x.out]
    /\ pc' = "saved"
    /\ UnchangedWriting /\ UNCHANGED touched

(* conf_write_autoconf: touch the files of what changed, which may fail    *)
(* half way, then replace auto.conf.                                       *)
Compared ==
    LET again(u) == IF disk.auto = Missing THEN u ELSE [u EXCEPT !.valid = {}]
    IN  CalcAll(again(sym_clear_all_valid(st)))
OldAuto == IF disk.auto = Missing THEN <<>> ELSE disk.auto

SplitConfig_ignores_errors ==
    /\ pc = "split"
    /\ \E u \in {Compared} : \E t \in SUBSET Touched(u, OldAuto) : st' = u /\ touched' = touched \union t
    /\ pc' = "auto"
    /\ UnchangedWriting /\ UNCHANGED disk

SplitConfig ==
    /\ pc = "split"
    /\ \E u \in {Compared} : \E t \in SUBSET Touched(u, OldAuto) :
          /\ st' = u
          /\ touched' = touched \union t
          /\ pc' = IF t = Touched(u, OldAuto) THEN "auto" ELSE "failed"
    /\ UnchangedWriting /\ UNCHANGED disk

RenameAuto ==
    /\ pc = "auto"
    /\ disk' = [disk EXCEPT !.auto = AutoLines(CalcAll(st))]
    /\ pc' = "saved"
    /\ UnchangedWriting /\ UNCHANGED <<st, touched>>

(* The program ends, or is killed. *)
Stop ==
    /\ pc # "off"
    /\ pc' = "off"
    /\ st' = FreshTable
    /\ mode' = "none"
    /\ work' = <<>>
    /\ conf_cnt' = 0
    /\ rootEntry' = 0
    /\ UNCHANGED <<disk, touched, built, runs>>

(* make compiles what a touched file or a first auto.conf asks for. *)
Build ==
    /\ pc = "off" /\ disk.auto # Missing
    /\ built # disk.auto \/ touched # {}
    /\ built' = disk.auto
    /\ touched' = {}
    /\ UNCHANGED <<st, mode, pc, work, conf_cnt, rootEntry, disk, runs>>

ConfNext ==
    \/ \E m \in Modes : Start(m)
    \/ SetNew \/ CheckConf \/ ConfEntry \/ ConfChoice \/ EndRound
    \/ WriteConfig \/ RenameOld \/ RenameNew \/ WriteDefconfig
    \/ SplitConfig \/ RenameAuto \/ Stop \/ Build

-----------------------------------------------------------------------------
(* Properties *)

Values(u) == CalcAll(u).cur

(* What conf saved, a program that reads .config finds: every symbol has   *)
(* the value it had, and nothing needs saving again.  (A choice that is m  *)
(* is excepted from the latter: it marks values for writing by a           *)
(* visibility they had before, and a line too many looks unsaved.)         *)
SavedIsRead ==
    pc = "saved" /\ mode # "savedefconfig" =>
        \A u \in {Read(disk.config)} :
        /\ Values(u) = Values(st)
        /\ (\A c \in ChoiceSyms : st.cur[c] # mod) => ~u.changed

(* The minimal file says as much as the full one: 'conf --defconfig' with  *)
(* it gives every symbol the value it had when the file was saved.         *)
DefconfigRestores ==
    pc = "saved" /\ mode = "savedefconfig" =>
        LET u == conf_set_all_new_symbols(Read(disk.defconfig), "default", <<>>, <<>>).st
        IN  Values(u) = Values(st)

(* A choice that is y has exactly one value that is y, and it is the one   *)
(* the choice names.                                                       *)
OneOfChoice ==
    pc = "saved" =>
        \A u \in {CalcAll(st)}, c \in ChoiceSyms :
            LET on == {s \in Syms : K.choiceOf[s] = c /\ u.cur[s] = yes}
            IN  /\ u.cur[c] = yes => on = {u.pick[c]}
                /\ u.cur[c] # yes => on = {}

(* After oldconfig nothing is new: every symbol that can be seen and       *)
(* changed has a value of the user's, so that the next oldconfig asks      *)
(* nothing.                                                                *)
NothingLeftNew ==
    pc = "saved" /\ mode \in {"oldconfig", "syncconfig"} =>
        \A u \in {CalcAll(st)}, i \in 1 .. Len(K.nodes) :
            LET s == K.sym[K.nodes[i]] IN
            s # "none" /\ Look(u, K.nodes[i]).ok /\ sym_is_changable(u, s) => s \in u.user

(* Every symbol whose value in auto.conf is not the one the last build saw *)
(* has its file touched, so that make builds what depends on it: also when *)
(* conf was killed on the way.                                             *)
ValueIn(lines, s) == {lines[i].val : i \in {j \in 1 .. Len(lines) : lines[j].sym = s}}
ChangesAreTouched ==
    disk.auto # Missing =>
        \A s \in Syms : ValueIn(disk.auto, s) # ValueIn(built, s) => s \in touched

=============================================================================
