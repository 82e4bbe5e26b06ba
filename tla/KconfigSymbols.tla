--------------------------- MODULE KconfigSymbols ---------------------------
(***************************************************************************)
(* The symbols of a configuration and their values (symbol.c).  A symbol's *)
(* value is calculated on demand and kept until sym_clear_all_valid; the   *)
(* calculation of one symbol calculates those its conditions name.         *)
(*                                                                         *)
(* Every routine takes the table of all symbols, st, and returns what it   *)
(* leaves of it.  Flags are sets of symbols.  Values are numbers: n, m, y  *)
(* are 0, 1, 2, and an integer symbol without a value has Empty.           *)
(***************************************************************************)
EXTENDS KconfigMenu

(* rootmenu and the properties of the symbols: conf_parse makes them       *)
(* before the programs look at them, and nothing changes them afterwards.  *)
VARIABLE K

Syms == Range(SymOrder)
Empty == -1
IsChoiceValue(s) == K.choiceOf[s] # "none"

PropsOf(T, s, types) == SelectSeq(T.props, LAMBDA p : p.sym = s /\ p.type \in types)

RECURSIVE Walk(_, _)
(* The nodes below n, in the order of the menus. *)
Walk(T, n) == FlattenSeq([i \in 1 .. Len(T.kids[n]) |-> <<T.kids[n][i]>> \o Walk(T, T.kids[n][i])])

(* A finalized tree with the lists that the programs run through. *)
WithLists(T) == T @@ [prompts  |-> [s \in Syms |-> PropsOf(T, s, {"prompt", "menu"})],
                   defaults |-> [s \in Syms |-> PropsOf(T, s, {"default"})],
                   ranges   |-> [s \in Syms |-> PropsOf(T, s, {"range"})],
                   nodes    |-> Walk(T, 0)]

Zero(s) == IF Type[s] = "int" THEN Empty ELSE no

(* The table before anything was read or calculated. *)
FreshTable ==
    [valid |-> {}, write |-> {}, user |-> {}, needset |-> {},
     cur |-> [s \in Syms |-> Zero(s)],           \* curr
     pick |-> [c \in ChoiceSyms |-> "none"],     \* curr.val of a choice
     def |-> [s \in Syms |-> Zero(s)],           \* def[S_DEF_USER]
     defpick |-> [c \in ChoiceSyms |-> "none"],  \* def[S_DEF_USER].val of a choice
     visible |-> [s \in Syms |-> no],
     dir_dep |-> [s \in Syms |-> no],
     rev_dep |-> [s \in Syms |-> no],
     implied |-> [s \in Syms |-> no],
     modval |-> no,                              \* modules_val
     warn |-> FALSE,                              \* conf_warnings # 0
     changed |-> FALSE]                          \* sym_change_count # 0

has_value(st, s) == s \in st.user

sym_get_type(st, s) ==
    IF Type[s] = "tristate" /\ ((IsChoiceValue(s) /\ st.visible[s] = yes) \/ st.modval = no)
    THEN "boolean" ELSE Type[s]

Tested(st, e) == expr_calc_value(st.cur, e)

-----------------------------------------------------------------------------
(* sym_calc_value *)

RECURSIVE sym_calc_value(_, _)

(* expr_calc_value calculates every symbol the expressions name. *)
SettleAll(st, es) ==
    FoldLeft(LAMBDA u, s : sym_calc_value(u, s), st,
             FlattenSeq([i \in 1 .. Len(es) |-> Symbols(es[i])]))
Settle(st, e) == SettleAll(st, <<e>>)

VisOf(ps) == [i \in 1 .. Len(ps) |-> ps[i].vis]

(* The first of the properties whose condition is not n, or 0. *)
FirstVisible(st, ps) ==
    SelectInSeq(ps, LAMBDA p : Tested(st, p.vis) # no)

(* sym_calc_visibility, for the prompts: a value of a choice that is y is  *)
(* not visible as a module, and without modules m counts as y ...          *)
NotInChoice(st, s, v) ==
    IF IsChoiceValue(s) /\ Type[s] = "tristate" /\ v = mod /\ st.cur[K.choiceOf[s]] = yes
    THEN no ELSE v
WithoutModules(st, s, v) == IF v = mod /\ (Type[s] # "tristate" \/ st.modval = no) THEN yes ELSE v
PutVisible(st, s) ==
    [st EXCEPT !.visible[s] = WithoutModules(st, s,
        FoldLeft(LAMBDA v, p : EXPR_OR(v, NotInChoice(st, s, Tested(st, p.vis))), no, K.prompts[s]))]
CalcPrompts(st, s) == PutVisible(SettleAll(st, VisOf(K.prompts[s])), s)

(* ... and for the dependencies of a symbol that is not a choice value *)
AsBoolean(st, s, v) == IF v = mod /\ sym_get_type(st, s) = "boolean" THEN yes ELSE v
OrNo(e) == IF e = None THEN Sym("n") ELSE e
PutDeps(st, s) ==
    [st EXCEPT !.dir_dep[s] = AsBoolean(st, s, Tested(st, K.dir_dep[s])),
               !.rev_dep[s] = AsBoolean(st, s, Tested(st, OrNo(K.rev_dep[s])))]
PutImplied(st, s, e) == [st EXCEPT !.implied[s] = AsBoolean(st, s, Tested(st, e))]
CalcImplied(st, s) ==
    IF st.dir_dep[s] = no THEN [st EXCEPT !.implied[s] = no]
    ELSE PutImplied(Settle(st, K.implied[s]), s, OrNo(K.implied[s]))
CalcDeps(st, s) ==
    IF IsChoiceValue(s) THEN st
    ELSE CalcImplied(PutDeps(SettleAll(st, <<K.dir_dep[s], K.rev_dep[s]>>), s), s)

sym_calc_visibility(st, s) == CalcDeps(CalcPrompts(st, s), s)

(* The default of a choice: the first default that is visible, or else the *)
(* first visible value.                                                    *)
FirstOf(list) == IF list = <<>> THEN "none" ELSE list[1]
NamedBy(ps) == [i \in 1 .. Len(ps) |-> ps[i].ex.sym]
sym_choice_default(st, c) ==
    FirstOf(NamedBy(SelectSeq(K.defaults[c], LAMBDA p :
                      Tested(st, p.vis) # no /\ st.visible[p.ex.sym] # no))
            \o SelectSeq(K.list[c], LAMBDA v : st.visible[v] # no))

CalcValues(st, c) == FoldLeft(LAMBDA w, v : sym_calc_visibility(w, v), st, K.list[c])

(* A visible value that is new makes the choice new. *)
Aged(st, c) ==
    IF \E v \in Range(K.list[c]) : st.visible[v] # no /\ v \notin st.user
    THEN [st EXCEPT !.user = @ \ {c}] ELSE st

PutPick(st, c, v) == [st EXCEPT !.pick[c] = v, !.cur[c] = IF v = "none" THEN no ELSE @]

ChoosePick_unseen(st, c) ==
    PutPick(st, c, IF st.defpick[c] # "none" THEN st.defpick[c] ELSE sym_choice_default(st, c))

ChoosePick(st, c) ==
    PutPick(st, c, IF st.defpick[c] # "none" /\ st.visible[st.defpick[c]] # no
                   THEN st.defpick[c] ELSE sym_choice_default(st, c))

sym_calc_choice(st, c) ==
    ChoosePick(SettleAll(Aged(CalcValues(st, c), c), VisOf(K.defaults[c])), c)

(* The default value of a symbol that the user did not set: the property p *)
(* gives one, and what implies the symbol.                                 *)
PutDefault(st, s, v) == [st EXCEPT !.cur[s] = v, !.write = IF v # no THEN @ \union {s} ELSE @]
GiveDefault(st, s, p) == PutDefault(st, s, EXPR_AND(Tested(st, p.ex), Tested(st, p.vis)))
TakeDefault(st, s, i) ==
    IF i = 0 THEN st ELSE GiveDefault(Settle(st, K.defaults[s][i].ex), s, K.defaults[s][i])
Implied(st, s) ==
    IF st.implied[s] = no THEN st
    ELSE [st EXCEPT !.cur[s] = EXPR_OR(@, st.implied[s]), !.write = @ \union {s}]
FirstDefault(st, s) == TakeDefault(st, s, FirstVisible(st, K.defaults[s]))
Default(st, s) == Implied(FirstDefault(SettleAll(st, VisOf(K.defaults[s])), s), s)

(* The value of a boolean or tristate symbol. *)
Selected(st, s) == IF st.rev_dep[s] # no THEN [st EXCEPT !.write = @ \union {s}] ELSE st
Forced(st, s) == [st EXCEPT !.cur[s] = EXPR_OR(@, st.rev_dep[s])]
FreeValue(st, s) ==
    CASE IsChoiceValue(s) /\ st.visible[s] = yes ->
            [st EXCEPT !.cur[s] = IF st.pick[K.choiceOf[s]] = s THEN yes ELSE no]
      [] ~(IsChoiceValue(s) /\ st.visible[s] = yes) /\ st.visible[s] # no /\ has_value(st, s) ->
            Forced([st EXCEPT !.cur[s] = EXPR_AND(st.def[s], st.visible[s])], s)
      [] OTHER -> Forced(IF IsChoice(s) THEN Selected(st, s) ELSE Default(Selected(st, s), s), s)
MadeYes(st, s) ==
    IF st.cur[s] = mod /\ (sym_get_type(st, s) = "boolean" \/ st.implied[s] = yes)
    THEN [st EXCEPT !.cur[s] = yes] ELSE st
NewTristate(st, s) == MadeYes(FreeValue(st, s), s)

(* sym_validate_range: a value below the range becomes its lower bound, one *)
(* above it the upper one.                                                  *)
Number(v) == IF v = Empty THEN 0 ELSE v
Clamp(st, s, r, x) == CASE x < Value(st.cur, r.a) -> Value(st.cur, r.a)
                        [] x >= Value(st.cur, r.a) /\ x > Value(st.cur, r.b) -> Value(st.cur, r.b)
                        [] OTHER -> st.cur[s]
ClampTo(st, s, i) ==
    IF i = 0 THEN st ELSE [st EXCEPT !.cur[s] = Clamp(st, s, K.ranges[s][i].ex, Number(st.cur[s]))]
FirstRange(st, s) == ClampTo(st, s, FirstVisible(st, K.ranges[s]))
ValidateRange(st, s) == FirstRange(SettleAll(st, VisOf(K.ranges[s])), s)

(* The value of an integer. *)
PutNumber(st, s, d) == [st EXCEPT !.cur[s] = Value(st.cur, d), !.write = @ \union {s}]
TakeNumber(st, s, i) ==
    IF i = 0 THEN st ELSE PutNumber(Settle(st, K.defaults[s][i].ex), s, K.defaults[s][i].ex.sym)
FirstNumber(st, s) == TakeNumber(st, s, FirstVisible(st, K.defaults[s]))
NewInt(st, s) ==
    ValidateRange(IF st.visible[s] # no /\ has_value(st, s)
                  THEN [st EXCEPT !.cur[s] = st.def[s]]
                  ELSE FirstNumber(SettleAll(st, VisOf(K.defaults[s])), s), s)

(* set_all_choice_values *)
set_all_choice_values(st, c) ==
    [st EXCEPT !.def = [s \in Syms |-> IF K.choiceOf[s] = c /\ s \notin st.user THEN no ELSE @[s]],
               !.user = @ \union {c},
               !.valid = @ \ {c},
               !.needset = @ \ {c}]

(* What a choice does to its values, and that it is not written itself. *)
FinishChoice(st, c) ==
    LET shown == {v \in Range(K.list[c]) : st.visible[v] # no}
        u == [st EXCEPT !.write = (IF c \in @ THEN @ \union shown ELSE @) \ {c}]
    IN  IF c \notin ChoiceSyms THEN st
        ELSE IF c \in u.needset THEN set_all_choice_values(u, c) ELSE u

(* sym_calc_value, step by step.  A value of a choice that needs one has   *)
(* the choice calculated first; then the visibility, the new value, what a *)
(* choice that is y picks, and what hangs on MODULES.                      *)
ChoiceFirst(st, s) ==
    IF IsChoiceValue(s) /\ s \in st.needset
    THEN Settle([st EXCEPT !.needset = @ \ {s}], Sym(K.choiceOf[s])) ELSE st
Reset(st, s) == [st EXCEPT !.cur[s] = Zero(s),
                           !.pick = [c \in ChoiceSyms |-> IF c = s THEN "none" ELSE @[c]],
                           !.write = IF st.visible[s] # no THEN @ \union {s} ELSE @]
StartValue(st, s) ==
    Reset(sym_calc_visibility([st EXCEPT !.valid = @ \union {s}, !.write = @ \ {s}], s), s)
NewValue(st, s) == IF Type[s] = "int" THEN NewInt(st, s) ELSE NewTristate(st, s)
Pick(st, s) == IF IsChoice(s) /\ st.cur[s] = yes THEN sym_calc_choice(st, s) ELSE st
PutModules(st, s) == IF s = ModulesSym THEN [st EXCEPT !.modval = st.cur[s]] ELSE st

sym_calc_value(st, s) ==
    IF s \in Const \/ s \in st.valid THEN st
    ELSE FinishChoice(PutModules(Pick(NewValue(StartValue(ChoiceFirst(st, s), s), s), s), s), s)

sym_clear_all_valid(st) ==
    sym_calc_value([st EXCEPT !.valid = {}, !.changed = TRUE], ModulesSym)

CalcAll(st) == FoldLeft(LAMBDA u, s : sym_calc_value(u, s), st, SymOrder)

-----------------------------------------------------------------------------
(* Setting values *)

sym_is_changable(st, s) == st.visible[s] > st.rev_dep[s]

sym_tristate_within_range(st, s, val) ==
    LET type == sym_get_type(st, s) IN
    /\ st.visible[s] # no
    /\ type \in {"boolean", "tristate"}
    /\ ~(type = "boolean" /\ val = mod)
    /\ st.visible[s] > st.rev_dep[s]
    /\ ~(st.implied[s] = yes /\ val = mod)
    /\ IF IsChoiceValue(s) /\ st.visible[s] = yes THEN val = yes
       ELSE val >= st.rev_dep[s] /\ val <= st.visible[s]

SetTristate_keeps_valid(st, s, val) ==
    LET c == K.choiceOf[s]
        u == [st EXCEPT !.user = @ \union {s}, !.def[s] = val, !.valid = @ \ {s}, !.changed = TRUE]
    IN  IF c # "none" /\ val = yes
        THEN [u EXCEPT !.defpick[c] = s, !.user = @ \union {c}, !.valid = @ \ {c}] ELSE u

(* What sym_set_tristate_value does once it has accepted the value. *)
SetTristate(st, s, val) ==
    LET c == K.choiceOf[s]
        seen == {v \in Syms : c # "none" /\ K.choiceOf[v] = c /\ st.visible[v] # no}
        u == [st EXCEPT !.user = @ \union {s}, !.def[s] = val]
        w == IF c # "none" /\ val = yes
             THEN [u EXCEPT !.defpick[c] = s, !.user = @ \union {c} \union seen] ELSE u
    IN  IF st.cur[s] # val THEN sym_clear_all_valid(w) ELSE w

MaySetTristate(st, s, val) == st.cur[s] = val \/ sym_tristate_within_range(st, s, val)

(* sym_string_within_range, sym_set_string_value for an integer *)
Within(st, r, x) == x >= Value(st.cur, r.a) /\ x <= Value(st.cur, r.b)
WithinFirst(st, s, x, i) == i = 0 \/ Within(st, K.ranges[s][i].ex, x)
WithinVisible(st, s, x) == WithinFirst(st, s, x, FirstVisible(st, K.ranges[s]))
sym_string_within_range(st, s, x) == WithinVisible(SettleAll(st, VisOf(K.ranges[s])), s, x)

SetInt(st, s, x) ==
    LET u == [st EXCEPT !.user = @ \union {s}, !.def[s] = x]
    IN  IF st.def[s] = x THEN u ELSE sym_clear_all_valid(u)

(* The value a symbol would have if the user had not set it. *)
DefaultTristate(st, s, i) ==
    IF i = 0 THEN no
    ELSE EXPR_AND(Tested(st, K.defaults[s][i].ex), Tested(st, K.defaults[s][i].vis))
NoModuleDefault(st, s, v) ==
    IF v = mod /\ ((~IsChoiceValue(s) /\ Value(st.cur, ModulesSym) = no) \/ Type[s] = "boolean")
    THEN yes ELSE v
DefaultValue(st, s, i) ==
    IF Type[s] = "int" THEN IF i = 0 THEN Empty ELSE Value(st.cur, K.defaults[s][i].ex.sym)
    ELSE EXPR_OR(NoModuleDefault(st, s, EXPR_OR(DefaultTristate(st, s, i), st.rev_dep[s])),
                 st.implied[s])
SettledDefault(st, s, i) ==
    DefaultValue(IF i = 0 THEN st ELSE Settle(st, K.defaults[s][i].ex), s, i)
VisibleDefault(st, s) == SettledDefault(st, s, FirstVisible(st, K.defaults[s]))
sym_get_string_default(st, s) ==
    VisibleDefault(SettleAll(sym_calc_visibility(st, s),
                             <<Sym(ModulesSym)>> \o VisOf(K.defaults[s])), s)

=============================================================================
