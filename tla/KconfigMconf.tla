---------------------------- MODULE KconfigMconf ----------------------------
(***************************************************************************)
(* The menu program (mconf.c): it draws the entries of a menu, takes one   *)
(* key, changes the table of symbols or opens another menu, and draws      *)
(* again.  conf calls itself for a menu inside the menu: trail is the      *)
(* stack of these calls.  Drawing calculates what it shows and nothing     *)
(* else, so that what a key does works on values of different age.         *)
(***************************************************************************)
EXTENDS KconfigFile

CONSTANTS SavedFiles,   \* what .config may hold when the session begins
          Typed,        \* the numbers the user may type
          Single,       \* single_menu_mode
          MaxKeys       \* bound on the keys of a session

VARIABLES table,        \* the symbols
          trail,        \* the menus that conf is in, and the searches among them
          opened,       \* menu->data: the menus unfolded in single_menu_mode
          show_all_options,
          filename,     \* ".config" or the other file
          files,        \* what the files hold
          asked,        \* whether the session ended with the question to save
          forgotten,    \* a file that is not there made it forget that something changed
          keys

mconfVars == <<table, trail, opened, show_all_options, filename, files, asked, forgotten, keys>>

Names == {"config", "other"}
NoFile == <<Line("none", no)>>

ReadFile(u, f) == IF f = NoFile THEN ReadNothing(u) ELSE conf_read(u, f)

MconfInit ==
    \E f \in SavedFiles :
       /\ files = [n \in Names |-> IF n = "config" THEN f ELSE NoFile]
       /\ table = FreshTable
       /\ trail = <<0>>
       /\ opened = {}
       /\ show_all_options = FALSE
       /\ filename = "config"
       /\ asked = "starting"
       /\ forgotten = FALSE
       /\ keys = 0

(* main: conf_read, then the root menu *)
MconfMain ==
    /\ asked = "starting"
    /\ table' = ReadFile(table, files[filename])
    /\ asked' = "running"
    /\ UNCHANGED <<trail, opened, show_all_options, filename, files, forgotten, keys>>

-----------------------------------------------------------------------------
(* build_conf.  A drawing is the table it leaves and the items, each with  *)
(* its node and its tag: m a menu, t a symbol or choice that can be set, s *)
(* an integer, : nothing.                                                  *)

IsMenu(n) == K.prompt[n] # 0 /\ K.props[K.prompt[n]].type = "menu"

Item(d, n, tag) == [d EXCEPT !.items = Append(@, [n |-> n, tag |-> tag])]

(* Looks at the children up to the first that is visible. *)
menu_is_empty(u, n) ==
    FoldLeft(LAMBDA x, m : IF x.ok THEN x ELSE Look(x.st, m), [st |-> u, ok |-> FALSE], K.kids[n])

(* The visible child that holds the value of the choice c, or -1. *)
DefMenu(u, n, c) ==
    LET put(x, y, m) == [st |-> y.st, m |-> IF y.ok /\ K.sym[m] = u.pick[c] THEN m ELSE x.m]
    IN  FoldLeft(LAMBDA x, m : put(x, Look(x.st, m), m), [st |-> u, m |-> -1], K.kids[n])

RECURSIVE build_conf(_, _, _)
Below(d, n, current) == FoldLeft(LAMBDA x, m : build_conf(x, m, current), d, K.kids[n])

(* An entry without a symbol: a menu, a comment. *)
BuildMenu(d, n, current) ==
    IF n = current THEN Below(d, n, current)
    ELSE IF ~IsMenu(n) THEN Below(Item(d, n, ":"), n, current)
    ELSE IF Single THEN IF n \in opened THEN Below(Item(d, n, "m"), n, current) ELSE Item(d, n, "m")
    ELSE Item([d EXCEPT !.st = menu_is_empty(d.st, n).st], n, "m")

BuildChoice(d, n, current) ==
    LET c == K.sym[n]
        put(x) == Item([d EXCEPT !.st = x.st], n,
                       IF sym_is_changable(x.st, c) \/ x.m # -1 THEN "t" ELSE ":")
        go(x) == IF x.st.cur[c] # yes THEN Below(put(x), n, current)
                 ELSE IF x.m # -1 /\ K.kids[x.m] # <<>> THEN build_conf(put(x), x.m, current)
                 ELSE put(x)
    IN  go(DefMenu(d.st, n, c))

BuildSymbol(d, n, current) ==
    LET s == K.sym[n]
        tag == IF IsChoiceValue(s) /\ d.st.cur[s] = yes THEN ":"
               ELSE IF Type[s] = "int" THEN "s" ELSE "t"
    IN  IF n = current THEN Below(Item(d, n, ":"), n, current)
        ELSE IF tag # "s" /\ IsMenu(n) THEN Item([d EXCEPT !.st = menu_is_empty(d.st, n).st], n, tag)
        ELSE Below(Item(d, n, tag), n, current)

build_conf(d, n, current) ==
    LET draw(x) ==
            LET e == [d EXCEPT !.st = x.st] IN
            IF IF show_all_options THEN K.prompt[n] = 0 ELSE ~x.ok THEN e
            ELSE IF K.sym[n] = "none" THEN BuildMenu(e, n, current)
            ELSE IF IsChoice(K.sym[n]) THEN BuildChoice(e, n, current)
            ELSE BuildSymbol(e, n, current)
    IN  draw(Look(d.st, n))

Drawn == build_conf([st |-> table, items |-> <<>>], Last(trail), Last(trail))

-----------------------------------------------------------------------------
(* The keys of conf *)

Running == asked = "running" /\ keys < MaxKeys
UnchangedFiles == UNCHANGED <<filename, files, asked, forgotten>>

Try(u, s, v) == IF MaySetTristate(u, s, v) THEN SetTristate(u, s, v) ELSE u

(* The first of the values that may be set is. *)
SetFirst(u, s, vals) ==
    LET may == SelectSeq(vals, LAMBDA v : MaySetTristate(u, s, v))
    IN  IF may = <<>> THEN u ELSE SetTristate(u, s, may[1])

(* What y, n, m and space try in turn: y falls back on m, and space is      *)
(* sym_toggle_tristate_value, that goes round.                              *)
Attempts(u, s) == {<<yes, mod>>, <<no>>, <<mod>>,
                   <<(u.cur[s] + 1) % 3, (u.cur[s] + 2) % 3, u.cur[s]>>}

(* One of y, n, m and space on an item that can be set. *)
SetKey(d) ==
    /\ Running
    /\ \E i \in 1 .. Len(d.items) :
          /\ d.items[i].tag = "t"
          /\ \E vals \in Attempts(d.st, K.sym[d.items[i].n]) :
                table' = SetFirst(d.st, K.sym[d.items[i].n], vals)
    /\ keys' = keys + 1
    /\ UNCHANGED <<trail, opened, show_all_options>> /\ UnchangedFiles

(* Return on a choice that is y: one of its visible values. *)
ChoiceKey(d) ==
    /\ Running
    /\ \E i \in 1 .. Len(d.items) :
          LET n == d.items[i].n
              c == K.sym[n]
              put(x, y, m) == [st |-> y.st, on |-> IF y.ok THEN x.on \union {m} ELSE x.on]
              offered == FoldLeft(LAMBDA x, m : put(x, Look(x.st, m), m),
                                  [st |-> d.st, on |-> {}], K.kids[n])
          IN  /\ d.items[i].tag = "t" /\ IsChoice(c) /\ d.st.cur[c] = yes
              /\ \E x \in {offered} : \E m \in x.on :
                   /\ K.sym[m] # "none"
                   /\ table' = Try(x.st, K.sym[m], yes)
    /\ keys' = keys + 1
    /\ UNCHANGED <<trail, opened, show_all_options>> /\ UnchangedFiles

(* Return on an integer: the number that is typed, if it is in the range. *)
StringKey(d) ==
    /\ Running
    /\ \E i \in 1 .. Len(d.items), x \in Typed :
          LET s == K.sym[d.items[i].n]
          IN  /\ d.items[i].tag = "s"
              /\ table' = IF sym_string_within_range(d.st, s, x) THEN SetInt(d.st, s, x) ELSE d.st
    /\ keys' = keys + 1
    /\ UNCHANGED <<trail, opened, show_all_options>> /\ UnchangedFiles

(* Return on a menu, or on a symbol that is one. *)
MenuKey(d) ==
    /\ Running
    /\ \E i \in 1 .. Len(d.items) :
          LET n == d.items[i].n
              folds == d.items[i].tag = "m" /\ Single
              enters == \/ d.items[i].tag = "m" /\ ~Single
                        \/ d.items[i].tag = "t" /\ IsMenu(n)
          IN  /\ folds \/ enters
              /\ table' = d.st
              /\ opened' = IF ~folds THEN opened ELSE IF n \in opened THEN opened \ {n} ELSE opened \union {n}
              /\ trail' = IF folds THEN trail ELSE Append(trail, n)
    /\ keys' = keys + 1
    /\ UNCHANGED show_all_options /\ UnchangedFiles

(* sym_re_search calculates the symbols that match: one of them, or all.   *)
Matches == LET named == SelectSeq(SymOrder, LAMBDA s : ~IsChoice(s))
           IN  {<<s>> : s \in Range(named)} \union {named}

RECURSIVE Locations(_)
Locations(n) == IF K.parent[n] = 0 THEN <<>> ELSE <<K.parent[n]>> \o Locations(K.parent[n])

(* get_prompt_str, x is what it leaves and the entries one can jump to: the *)
(* entry n itself if it is visible, or the nearest menu around it that is, *)
(* but nothing unless one of them is.                                      *)
get_prompt_str(x, n) ==
    LET put(y, z, m) == [st |-> z.st, location |-> IF y.location = 0 /\ z.ok THEN m ELSE y.location]
        around == FoldLeft(LAMBDA y, m : put(y, Look(y.st, m), m), [st |-> x.st, location |-> 0], Locations(n))
        at(own) == [st |-> own.st, targets |-> x.targets \union {IF own.ok THEN n ELSE around.location}]
    IN  IF around.location = 0 THEN [x EXCEPT !.st = around.st] ELSE at(Look(around.st, n))

(* The results of a search. *)
Found(u, matching) ==
    FoldLeft(get_prompt_str,
             [st |-> FoldLeft(sym_calc_value, u, matching), targets |-> {}],
             SelectSeq(K.nodes, LAMBDA n : K.prompt[n] # 0 /\ K.sym[n] \in Range(matching)))

(* search_conf: the user looks at the results, or jumps from there to the  *)
(* menu around an entry.  Who comes back to the results searches again.    *)
SearchKey(d) ==
    /\ Running
    /\ \E matching \in Matches : \E x \in {Found(d.st, matching)} :
          /\ table' = x.st
          /\ trail' \in {trail} \union {Append(trail, K.parent[n]) : n \in x.targets}
    /\ keys' = keys + 1
    /\ UNCHANGED <<opened, show_all_options>> /\ UnchangedFiles

ShowAllKey(d) ==
    /\ Running
    /\ table' = d.st
    /\ show_all_options' = ~show_all_options
    /\ keys' = keys + 1
    /\ UNCHANGED <<trail, opened>> /\ UnchangedFiles

(* conf_save, conf_load, to and from either file *)
SaveKey(d) ==
    /\ Running
    /\ \E f \in Names, p \in {PrintConfig(d.st)} :
          /\ table' = [p.st EXCEPT !.changed = FALSE]
          /\ files' = [files EXCEPT ![f] = p.out]
          /\ filename' = f
    /\ forgotten' = FALSE
    /\ keys' = keys + 1
    /\ UNCHANGED <<trail, opened, show_all_options, asked>>

(* conf_read says that nothing is changed before it finds no file; the      *)
(* table stays, and escape leads back to the menu.                         *)
LoadKey(d) ==
    /\ Running
    /\ \E f \in Names :
          \/ /\ files[f] # NoFile
             /\ table' = [conf_read(d.st, files[f]) EXCEPT !.changed = TRUE]
             /\ filename' = f /\ forgotten' = FALSE
          \/ /\ files[f] = NoFile
             /\ table' = sym_calc_value([d.st EXCEPT !.changed = FALSE], ModulesSym)
             /\ forgotten' = (forgotten \/ d.st.changed)
             /\ UNCHANGED filename
    /\ keys' = keys + 1
    /\ UNCHANGED <<trail, opened, show_all_options, files, asked>>

(* Exit or escape leaves a menu, and at the last one, or on SIGINT, the     *)
(* session: handle_exit asks only if something changed.                     *)
handle_exit(d) ==
    IF ~d.st.changed THEN asked' = "not asked" /\ table' = d.st /\ files' = files
    ELSE \/ \E p \in {PrintConfig(d.st)} :
              /\ files' = [files EXCEPT ![filename] = p.out]
              /\ table' = [p.st EXCEPT !.changed = FALSE]
              /\ asked' = "saved"
         \/ asked' = "discarded" /\ table' = d.st /\ files' = files

ExitKey(d) ==
    /\ asked = "running"
    /\ \/ /\ Len(trail) > 1
          /\ table' = d.st
          /\ trail' = Front(trail)
          /\ UNCHANGED <<files, asked>>
       \/ handle_exit(d) /\ UNCHANGED trail
    /\ UNCHANGED <<opened, show_all_options, filename, forgotten, keys>>

(* Every key comes after the menu was drawn. *)
MconfNext ==
    \/ MconfMain
    \/ /\ asked = "running"
       /\ \E d \in {Drawn} :
            \/ SetKey(d) \/ ChoiceKey(d) \/ StringKey(d) \/ MenuKey(d) \/ SearchKey(d)
            \/ ShowAllKey(d) \/ SaveKey(d) \/ LoadKey(d) \/ ExitKey(d)

-----------------------------------------------------------------------------
(* A choice that may be m and has a value nobody has seen: it counts as new *)
(* itself once it was calculated, and then becomes m.                       *)
Unsettled(u) == \E c \in ChoiceSyms : Type[c] = "tristate" /\ c \notin u.user

(* What a menu shows is true: every value on the screen is the one that    *)
(* calculating all symbols anew would give.                                *)
ShownIsTrue ==
    asked = "running" =>
        \A d \in {Drawn} : \A fresh \in {CalcAll(sym_clear_all_valid(table))} :
            ~Unsettled(d.st) =>
                \A i \in 1 .. Len(d.items) :
                    LET s == K.sym[d.items[i].n] IN
                    s # "none" => /\ d.st.cur[s] = fresh.cur[s]
                                  /\ sym_is_changable(d.st, s) = sym_is_changable(fresh, s)

(* A session that ends by saving, or without the question to save, leaves  *)
(* nothing behind: who reads its file finds the values it showed.  Without *)
(* the question only if no attempt to load a file that is not there came   *)
(* after the last change that was asked for.                               *)
NothingUnsaved ==
    asked = "saved" \/ (asked = "not asked" /\ ~forgotten) =>
        CalcAll(ReadFile(FreshTable, files[filename])).cur = CalcAll(table).cur

=============================================================================
