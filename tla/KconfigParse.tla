---------------------------- MODULE KconfigParse ----------------------------
(***************************************************************************)
(* Reading a Kconfig file: the statements of the grammar (zconf.y) call    *)
(* the routines of menu.c, and conf_parse finalizes the menu tree at the   *)
(* end.  Every file of bounded size over the given symbols and conditions  *)
(* is read.                                                                *)
(***************************************************************************)
EXTENDS KconfigMenu

CONSTANTS Configs,     \* the symbols a file defines, in this order
          Conditions,  \* the expressions its statements may name
          PromptIfs,   \* the conditions of its prompts
          MaxEntries   \* bound on its entries

VARIABLES tree,        \* rootmenu and what hangs below it
          phase,       \* "options" of the last entry, "block", "done"
          recursive    \* a recursive dependency was reported

parseVars == <<tree, phase, recursive>>

-----------------------------------------------------------------------------
(* The search for recursive dependencies (symbol.c): once the menus are    *)
(* finalized, conf_parse follows what the value of every symbol depends    *)
(* on, with a mark on the symbols of the path and another on those that    *)
(* were visited.                                                           *)
(*                                                                         *)
(* A search is a record: the marks check (SYMBOL_CHECK) and checked        *)
(* (SYMBOL_CHECKED), printed once a cycle was reported, and found, the     *)
(* symbol that sym_check_deps returns, or "none".                          *)

NewSearch == [check |-> {}, checked |-> {}, printed |-> FALSE, found |-> "none"]

Mark(w, syms) == [w EXCEPT !.check = @ \union syms, !.checked = @ \union syms]

RECURSIVE sym_check_deps(_, _, _)

(* The first symbol of the expression that is found on the path ends it. *)
sym_check_expr_deps(T, w, e) ==
    FoldLeft(LAMBDA x, s : IF x.found # "none" THEN x ELSE sym_check_deps(T, x, s), w, Symbols(e))

(* What the value of a symbol depends on, in the order it is followed. *)
DependsOn(T, s) ==
    LET ps == SelectSeq(T.props, LAMBDA p : p.sym = s /\ p.type \notin {"choice", "select"})
        of(p) == IF p.type = "default" /\ ~IsChoice(s) THEN <<p.vis, p.ex>> ELSE <<p.vis>>
    IN  <<T.rev_dep[s]>> \o FlattenSeq([i \in 1 .. Len(ps) |-> of(ps[i])])

sym_check_sym_deps(T, w, s) ==
    FoldLeft(LAMBDA x, e : IF x.found # "none" THEN x ELSE sym_check_expr_deps(T, x, e), w, DependsOn(T, s))

(* A choice is followed first, then its values, all of them on the path. *)
sym_check_choice_deps(T, w, c) ==
    LET values == Range(T.list[c])
        own(x) == [sym_check_sym_deps(T, x, c) EXCEPT !.check = @ \ {c}]
        each(x) == FoldLeft(LAMBDA y, v : IF y.found # "none" THEN y ELSE sym_check_sym_deps(T, y, v),
                            x, T.list[c])
        off(x) == [x EXCEPT !.check = @ \ values,
                            !.found = IF @ \in values THEN c ELSE @]
    IN  off(each(own(Mark(w, values \union {c}))))

(* The cycle ends at the symbol it began with. *)
CloseCycle(w, s) == IF w.found = s THEN [w EXCEPT !.found = "none"] ELSE w

sym_check_deps(T, w, s) ==
    LET plain(x) == [sym_check_sym_deps(T, x, s) EXCEPT !.check = @ \ {s}] IN
    CASE s \in Const \/ s \in w.checked \ w.check -> w
      [] s \in w.check -> [w EXCEPT !.printed = TRUE, !.found = s]
      [] s \notin Const \union w.checked \union w.check /\ T.choiceOf[s] # "none" ->
           CloseCycle(sym_check_deps(T, w, T.choiceOf[s]), s)
      [] s \notin Const \union w.checked \union w.check /\ IsChoice(s) ->
           CloseCycle(sym_check_choice_deps(T, w, s), s)
      [] OTHER -> CloseCycle(plain(Mark(w, {s})), s)

(* conf_parse checks every symbol; what one search returned is only counted *)
CheckAll(T) ==
    FoldLeft(LAMBDA w, s : sym_check_deps(T, [w EXCEPT !.found = "none"], s),
             NewSearch, SymOrder).printed

-----------------------------------------------------------------------------
(* What it has to find.  The values of a choice stand and fall together,   *)
(* and with the choice.                                                    *)

Group(T, s) == IF s \in DOMAIN Type /\ T.choiceOf[s] # "none"
               THEN {v \in DOMAIN Type : T.choiceOf[v] = T.choiceOf[s]} ELSE {s}

Named(T, s) == UNION {Range(Symbols(DependsOn(T, s)[i])) : i \in 1 .. Len(DependsOn(T, s))} \ Const
Successors(T, s) == UNION {Group(T, t) : t \in UNION {Named(T, v) : v \in Group(T, s)}}

(* There is a cycle if some symbols all have a successor among themselves. *)
HasCycle(T) ==
    \E succ \in {[s \in DOMAIN Type |-> Successors(T, s)]} :
        \E S \in SUBSET DOMAIN Type : S # {} /\ \A s \in S : succ[s] \intersect S # {}

-----------------------------------------------------------------------------
(* Reading a file.                                                        *)

Defined == {tree.sym[n] : n \in 1 .. tree.count} \ {"none"}
NextConfig == {Configs[i] : i \in {j \in 1 .. Len(Configs) :
                  Configs[j] \notin Defined /\ \A k \in 1 .. j - 1 : Configs[k] \in Defined}}

(* What a condition may name here: what the file has defined already, and  *)
(* what it never defines.                                                  *)
Nameable(T) == {c \in Conditions :
                   Range(Symbols(c)) \subseteq
                       Const \union (DOMAIN Type \ (Range(Configs) \union ChoiceSyms))
                             \union ({T.sym[n] : n \in 1 .. T.count} \ {T.sym[T.current_entry]})}

(* The nodes above n. *)
Above(T, n) ==
    LET up[k \in 0 .. MaxEntries] == IF k = 0 THEN {T.parent[n]}
                                     ELSE up[k - 1] \union {T.parent[a] : a \in up[k - 1]}
    IN  IF n = 0 THEN {} ELSE up[MaxEntries]

ParseInit == tree = EmptyTree /\ phase = "block" /\ recursive = FALSE

(* config FOO: an entry with its options, depends on ... and prompt "..." if ... *)
ConfigStmt ==
    /\ phase # "done" /\ tree.count < MaxEntries
    /\ \E s \in NextConfig :
          LET T == menu_add_entry(tree, s)
          IN  \E d \in Nameable(T) : tree' = menu_add_dep(T, d)
    /\ phase' = "options" /\ UNCHANGED recursive

PromptOption ==
    /\ phase = "options"
    /\ tree.sym[tree.current_entry] # "none" /\ tree.prompt[tree.current_entry] = 0
    /\ \E c \in PromptIfs : tree' = menu_add_prompt(tree, "prompt", c)
    /\ phase' = "block" /\ UNCHANGED recursive

(* select BAR, of what is defined already *)
SelectOption ==
    /\ phase = "options"
    /\ \E s \in Defined \ {tree.sym[tree.current_entry]} :
          tree' = menu_add_symbol(tree, "select", s, None)
    /\ phase' = "block" /\ UNCHANGED recursive

(* A choice holds config, comment and if statements only. *)
InChoice(T) == T.current_menu # 0 /\ \E n \in {T.current_menu} \union Above(T, T.current_menu) : T.sym[n] \in ChoiceSyms

(* menu "...", with 'visible if' *)
MenuStmt ==
    /\ phase # "done" /\ tree.count < MaxEntries /\ ~InChoice(tree)
    /\ \E v \in Nameable(tree) :
          LET T == menu_add_prompt(menu_add_entry(tree, "none"), "menu", None)
          IN  tree' = menu_add_menu(menu_add_visibility(T, v))
    /\ phase' = "block" /\ UNCHANGED recursive

(* if ... *)
IfStmt ==
    /\ phase # "done" /\ tree.count < MaxEntries
    /\ \E c \in Nameable(tree) \ {None} :
          tree' = menu_add_menu(menu_add_dep(menu_add_entry(tree, "none"), c))
    /\ phase' = "block" /\ UNCHANGED recursive

(* choice *)
ChoiceStmt ==
    /\ phase # "done" /\ tree.count < MaxEntries /\ ~InChoice(tree)
    /\ \E s \in ChoiceSyms \ Defined, c \in Nameable(tree) :
          LET T == menu_add_prompt(menu_add_entry(tree, s), "prompt", None)
          IN  tree' = menu_add_menu(menu_add_dep(T, c))
    /\ phase' = "block" /\ UNCHANGED recursive

(* endmenu, endif, endchoice *)
EndStmt ==
    /\ phase # "done" /\ tree.current_menu # 0
    /\ tree' = menu_end_menu(tree)
    /\ phase' = "block" /\ UNCHANGED recursive

(* conf_parse: the end of the file *)
FinishParse ==
    /\ phase # "done" /\ tree.count > 0 /\ tree.current_menu = 0
    /\ tree' = menu_finalize(tree, 0)
    /\ phase' = "done"
    /\ recursive' = CheckAll(tree')

ParseNext == \/ ConfigStmt \/ PromptOption \/ SelectOption \/ MenuStmt
             \/ IfStmt \/ ChoiceStmt \/ EndStmt \/ FinishParse

-----------------------------------------------------------------------------
(* The values symbols may have as long as no select ignores a dependency:  *)
(* a symbol without its dependencies is n, and so is a choice nobody sees. *)
InFile == Range(Configs) \union ChoiceSyms
          \union (UNION {Range(Symbols(c)) : c \in Conditions \union PromptIfs} \ Const)
TypedValues == {[s \in DOMAIN Type |-> IF s \in InFile THEN v[s] ELSE no] :
                   v \in {w \in [InFile -> no .. yes] : \A s \in InFile : Type[s] = "boolean" => w[s] # mod}}
AllValues == {V \in TypedValues :
                 /\ \A s \in InFile : V[s] # no => expr_calc_value(V, tree.dir_dep[s]) # no
                 /\ \A n \in 1 .. tree.count :
                       tree.sym[n] \in ChoiceSyms /\ V[tree.sym[n]] # no =>
                           expr_calc_value(V, PromptVis(tree, n)) # no}

Nested == {n \in 1 .. tree.count : tree.sym[n] # "none" /\ tree.prompt[n] # 0 /\ tree.parent[n] # 0}
Listed(n) == n \in Range(tree.kids[tree.parent[n]])

(* A recursive dependency is reported exactly when there is one, whichever *)
(* symbol the search begins with and whatever it visited before.           *)
CyclesReported == phase = "done" => (recursive <=> HasCycle(tree))

(* Whatever the symbols' values, an entry that menu_finalize moved below   *)
(* another can be reached: it is in the list of its parent, and as long as *)
(* its own prompt is visible so are all the menus above it.  A front end   *)
(* never descends into a menu that is not visible, and an entry for which  *)
(* this failed could not be set at all.                                    *)
VisibleIsReachable ==
    phase = "done" =>
        /\ \A n \in 1 .. tree.count : Listed(n)
        /\ Nested # {} =>
              \A V \in AllValues : \A n \in Nested :
                  expr_calc_value(V, PromptVis(tree, n)) # no =>
                      \A a \in Above(tree, n) : menu_is_visible(tree, V, a)

=============================================================================
