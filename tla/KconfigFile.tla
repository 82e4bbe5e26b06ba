---------------------------- MODULE KconfigFile ----------------------------
(***************************************************************************)
(* Configuration files (confdata.c): reading one into the table of symbols,*)
(* writing the full and the minimal one, and giving a value to every       *)
(* symbol that has none.  A file is a sequence of lines [sym, val]; a      *)
(* boolean that is n has the line "# CONFIG_x is not set", val = no.       *)
(***************************************************************************)
EXTENDS KconfigSymbols

Line(s, v) == [sym |-> s, val |-> v]

-----------------------------------------------------------------------------
(* Reading *)

(* conf_set_sym_val takes every value but an m for a boolean symbol. *)
Acceptable(s, v) == Type[s] = "tristate" \/ Type[s] = "int" \/ v # mod

SetChoice_without_value(st, s) ==
    LET c == K.choiceOf[s] IN
    IF c = "none" THEN st ELSE [st EXCEPT !.def[c] = EXPR_OR(@, st.def[s])]

(* A line sets a choice value, and the choice with it. *)
SetChoice(st, s) ==
    LET c == K.choiceOf[s]
        v == st.def[s]
        clash == v = mod /\ st.def[c] = yes
    IN  IF c = "none" THEN st
        ELSE [st EXCEPT !.user = IF clash THEN @ \ {c} ELSE @,
                        !.warn = @ \/ clash \/ (v = yes /\ st.def[c] # no),
                        !.defpick[c] = IF v = yes THEN s ELSE @,
                        !.def[c] = EXPR_OR(@, v)]

ReadLine(st, l) ==
    LET again == [st EXCEPT !.warn = @ \/ l.sym \in st.user]
        set(u) == SetChoice([u EXCEPT !.def[l.sym] = l.val, !.user = @ \union {l.sym}], l.sym)
    IN  CASE l.sym \notin Syms -> [st EXCEPT !.changed = TRUE]
          [] l.sym \in Syms /\ ~Acceptable(l.sym, l.val) -> [again EXCEPT !.warn = TRUE]
          [] OTHER -> set(again)

(* conf_read_simple, of a file that is there *)
conf_read_simple(st, lines) ==
    FoldLeft(ReadLine,
             [st EXCEPT !.valid = {},
                        !.user = ChoiceSyms,
                        !.def = [s \in Syms |-> Zero(s)],
                        !.defpick = [c \in ChoiceSyms |-> "none"],
                        !.warn = FALSE],
             lines)

(* The value calculated for a symbol is not what the file said. *)
Unsaved(st, s) ==
    /\ ~IsChoice(s)
    /\ \/ s \in st.user /\ (s \notin st.write \/ st.cur[s] # st.def[s])
       \/ s \notin st.user /\ s \in st.write

(* The values of generated symbols are forgotten, and integers out of their *)
(* range.  u.n counts conf_unsaved.                                         *)
ResetGenerated(u, s) ==
    LET st == u.st
        keep == IF st.visible[s] = no /\ u.n = 0 THEN [st EXCEPT !.user = @ \ {s}] ELSE st
    IN  IF s \notin st.user \/ IsChoiceValue(s) THEN u
        ELSE IF Type[s] = "int" /\ ~sym_string_within_range(keep, s, st.def[s])
             THEN [st |-> [keep EXCEPT !.valid = @ \ {s}, !.user = @ \ {s}], n |-> u.n + 1]
             ELSE [u EXCEPT !.st = keep]

Counted(st, n, s) == [st |-> st, n |-> IF Unsaved(st, s) THEN n + 1 ELSE n]
CheckUnsaved(st) ==
    FoldLeft(LAMBDA u, s : Counted(sym_calc_value(u.st, s), u.n, s), [st |-> st, n |-> 0],
             SymOrder)
EndRead(u) == [u.st EXCEPT !.changed = @ \/ u.st.warn \/ u.n # 0]
conf_read(st, lines) ==
    EndRead(FoldLeft(ResetGenerated,
                     CheckUnsaved(Settle(conf_read_simple([st EXCEPT !.changed = FALSE], lines),
                                         Sym(ModulesSym))),
                     SymOrder))

(* conf_read when there is no file *)
ReadNothing(st) == sym_calc_value([st EXCEPT !.changed = TRUE], ModulesSym)

-----------------------------------------------------------------------------
(* What of the menus can be seen.  A symbol that is on but cannot be seen  *)
(* itself counts as set by the user once one of its children is seen.      *)

RECURSIVE Look(_, _)
(* menu_is_visible: [st, ok] *)
LookInto(x, n) == IF x.ok THEN x ELSE Look(x.st, n)
SetByChild(x, s) == IF x.ok THEN [x EXCEPT !.st.user = @ \union {s}] ELSE x
LookBelow(st, n, own) ==
    IF own \/ K.sym[n] = "none" \/ st.cur[K.sym[n]] = no THEN [st |-> st, ok |-> own]
    ELSE SetByChild(FoldLeft(LookInto, [st |-> st, ok |-> FALSE], K.kids[n]), K.sym[n])
LookAt(st, n) ==
    LookBelow(st, n, IF K.sym[n] = "none" THEN Tested(st, PromptVis(K, n)) # no
                     ELSE st.visible[K.sym[n]] # no)
LookAtMenu(st, n) ==
    IF Tested(st, K.visibility[n]) = no THEN [st |-> st, ok |-> FALSE]
    ELSE LookAt(Settle(st, IF K.sym[n] = "none" THEN PromptVis(K, n) ELSE Sym(K.sym[n])), n)
Look(st, n) ==
    IF K.prompt[n] = 0 THEN [st |-> st, ok |-> FALSE]
    ELSE LookAtMenu(Settle(st, K.visibility[n]), n)

-----------------------------------------------------------------------------
(* Writing *)

(* What the writers calculate at a node: the symbol, or whether a menu is  *)
(* visible.                                                                *)
AtNode(st, n) == IF K.sym[n] = "none" THEN Look(st, n).st ELSE sym_calc_value(st, K.sym[n])

(* A symbol is written once: at its first node. *)
WriteNode(u, n) ==
    LET s == K.sym[n]
        put(st) == IF s = "none" \/ IsChoice(s) \/ s \notin st.write THEN [u EXCEPT !.st = st]
                   ELSE [st |-> [st EXCEPT !.write = @ \ {s}], out |-> Append(u.out, Line(s, st.cur[s]))]
    IN  put(AtNode(u.st, n))

(* What conf_write prints, and the table it leaves. *)
PrintConfig(st) ==
    FoldLeft(WriteNode, [st |-> IF st.changed THEN st ELSE sym_clear_all_valid(st), out |-> <<>>], K.nodes)

(* The minimal file leaves out what has its default or cannot be changed. *)
IsChoiceDefault(st, s) ==
    /\ IsChoiceValue(s)
    /\ K.choiceOf[s] \notin Optional
    /\ sym_choice_default(st, K.choiceOf[s]) = s
    /\ Type[s] = "boolean" /\ st.cur[s] = yes

Skipped(st, s) == \/ ~sym_is_changable(st, s)
                  \/ st.cur[s] = sym_get_string_default(st, s)
                  \/ IsChoiceDefault(st, s)
PutUnlessDefault(st, out, s) ==
    IF s = "none" \/ s \notin st.write THEN [st |-> st, out |-> out]
    ELSE [st |-> [st EXCEPT !.write = @ \ {s}],
          out |-> IF Skipped(st, s) THEN out ELSE Append(out, Line(s, st.cur[s]))]
WriteDefaultNode(u, n) ==
    IF K.sym[n] # "none" /\ IsChoice(K.sym[n]) THEN u
    ELSE PutUnlessDefault(AtNode(u.st, n), u.out, K.sym[n])

conf_write_defconfig(st) ==
    FoldLeft(WriteDefaultNode, [st |-> sym_clear_all_valid(st), out |-> <<>>], K.nodes)

-----------------------------------------------------------------------------
(* conf_split_config: the symbols whose value is not the one that auto     *)
(* .conf holds; a file of each is touched, for make to see.                *)
RestOf(lines) == [s \in {lines[i].sym : i \in 1 .. Len(lines)} |->
                     (CHOOSE i \in 1 .. Len(lines) : lines[i].sym = s)]
Touched(st, auto) ==
    LET old == RestOf(auto)
        same(s) == IF s \in st.write
                   THEN IF s \in DOMAIN old THEN st.cur[s] = auto[old[s]].val
                        ELSE Type[s] # "int" /\ st.cur[s] = no
                   ELSE s \notin DOMAIN old
    IN  {s \in Syms : ~IsChoice(s) /\ ~same(s)}

(* What conf_write_autoconf writes: every symbol that is not n. *)
AutoLines(st) ==
    LET on == SelectSeq(SymOrder, LAMBDA s : s \in st.write /\ (Type[s] = "int" \/ st.cur[s] # no))
    IN  [i \in 1 .. Len(on) |-> Line(on[i], st.cur[on[i]])]

-----------------------------------------------------------------------------
(* conf_set_all_new_symbols *)

(* A boolean or tristate symbol without a value takes the value v. *)
GiveValue(st, s, v, random) ==
    IF s \in st.user \union st.valid \/ Type[s] = "int" THEN st
    ELSE [st EXCEPT !.def[s] = v,
                    !.user = IF IsChoice(s) /\ random THEN @ ELSE @ \union {s}]

(* The value that the mode gives to s; a draw stands for rand(). *)
Given(mode, draw, s) ==
    CASE mode = "yes" -> yes
      [] mode = "mod" -> mod
      [] mode = "no" -> no
      [] mode = "random" -> IF Type[s] = "boolean" /\ draw[s] = mod THEN yes ELSE draw[s]

NewValues(st, mode, draw) ==
    IF mode = "default" THEN st
    ELSE FoldLeft(LAMBDA u, s : GiveValue(u, s, Given(mode, draw, s), mode = "random"), st, SymOrder)

NeedSet(st, mode) ==
    IF mode = "random" THEN st
    ELSE [st EXCEPT !.needset = @ \union {s \in Syms : IsChoiceValue(s) \/ (IsChoice(s) /\ s \notin st.user)}]

(* One value of a choice that is y is drawn, the others are n. *)
randomize_choice_values(st, c, v) ==
    LET values == Range(K.list[c])
    IN  IF st.cur[c] # yes THEN [st |-> st, more |-> FALSE]
        ELSE [st |-> [st EXCEPT !.def = [s \in Syms |-> IF s \in values THEN IF s = v THEN yes ELSE no ELSE @[s]],
                                !.defpick[c] = v,
                                !.user = @ \union values \union {c},
                                !.valid = @ \ (values \union {c})],
              more |-> TRUE]

(* The choices that have no value yet; lucky is the value drawn of each. *)
NewChoice(u, c, mode, lucky) ==
    LET set(st) == IF mode = "random" THEN randomize_choice_values(st, c, lucky[c])
                   ELSE [st |-> set_all_choice_values(st, c), more |-> TRUE]
    IN  IF ~IsChoice(c) \/ c \in u.st.user THEN u ELSE set(sym_calc_value(u.st, c))

(* Returns [st, more]: more is has_changed, which main only uses for random *)
conf_set_all_new_symbols(st, mode, draw, lucky) ==
    LET given == NewValues(st, mode, draw)
        some == \E s \in Syms \ (st.user \union st.valid) : Type[s] # "int"
        all(u) == FoldLeft(LAMBDA w, c : NewChoice(w, c, mode, lucky),
                           [st |-> NeedSet(u, mode), more |-> some], SymOrder)
    IN  all(sym_clear_all_valid(given))

=============================================================================
