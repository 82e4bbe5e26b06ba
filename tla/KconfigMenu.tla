----------------------------- MODULE KconfigMenu -----------------------------
(***************************************************************************)
(* The menu tree of the configuration tool (menu.c): the parser adds       *)
(* entries and properties to it, menu_finalize pushes the dependencies of  *)
(* the menus down to what they contain, turns selects round, moves entries *)
(* below the symbol they depend on and dissolves the blocks without a      *)
(* prompt.                                                                 *)
(*                                                                         *)
(* A tree is a record.  Menu nodes are numbered in the order the parser    *)
(* meets them, 0 is rootmenu; the list and next pointers of struct menu    *)
(* are the sequence kids of a node.  The properties of all symbols are one *)
(* sequence, in the order of the file.                                     *)
(***************************************************************************)
EXTENDS KconfigExpr, SequencesExt

CONSTANTS MaxNodes,    \* bound on the entries of a Kconfig file
          SymOrder,    \* the symbols, in the order of the hash table
          ModulesSym,  \* modules_sym: the symbol with 'option modules', or n
          ChoiceSyms,  \* the choice symbols
          Optional     \* the symbols with SYMBOL_OPTIONAL: configs, optional choices

Node == 0 .. MaxNodes

IsChoice(s) == s \in ChoiceSyms

(* _menu_init, and the prompt of the main menu. *)
EmptyTree ==
    [count |-> 0, current_menu |-> 0, current_entry |-> 0,
     sym |-> [n \in Node |-> "none"],
     parent |-> [n \in Node |-> 0],
     kids |-> [n \in Node |-> <<>>],
     dep |-> [n \in Node |-> None],
     visibility |-> [n \in Node |-> None],
     prompt |-> [n \in Node |-> IF n = 0 THEN 1 ELSE 0],
     props |-> <<[menu |-> 0, sym |-> "none", type |-> "menu", ex |-> None, vis |-> None]>>,
     rev_dep |-> [s \in DOMAIN Type |-> None],
     implied |-> [s \in DOMAIN Type |-> None],
     dir_dep |-> [s \in DOMAIN Type |-> None],
     list |-> [c \in ChoiceSyms |-> <<>>],
     choiceOf |-> [s \in DOMAIN Type |-> "none"]]

-----------------------------------------------------------------------------
(* What the parser calls. *)

RECURSIVE Visibilities(_, _, _)
(* The visibilities of all menus above n, joined to vis. *)
Visibilities(T, n, vis) ==
    LET p == T.parent[n] IN
    IF n = 0 THEN vis ELSE Visibilities(T, p, expr_alloc_and(vis, T.visibility[p]))

menu_add_prop(T, type, text, ex, dep) ==
    LET e == T.current_entry
        vis == IF text /\ type = "prompt" THEN Visibilities(T, e, dep) ELSE dep
        p == [menu |-> e, sym |-> T.sym[e], type |-> type, ex |-> ex, vis |-> vis]
    IN  [T EXCEPT !.props = Append(@, p),
                  !.prompt[e] = IF text THEN Len(T.props) + 1 ELSE @]

menu_add_prompt(T, type, dep) == menu_add_prop(T, type, TRUE, None, dep)
menu_add_symbol(T, type, s, dep) == menu_add_prop(T, type, FALSE, Sym(s), dep)

menu_add_entry(T, s) ==
    LET n == T.count + 1
        U == [T EXCEPT !.count = n,
                       !.sym[n] = s,
                       !.parent[n] = T.current_menu,
                       !.kids[T.current_menu] = Append(@, n),
                       !.current_entry = n]
    IN  IF s = "none" THEN U ELSE menu_add_symbol(U, "symbol", s, None)

menu_add_menu(T) == [T EXCEPT !.current_menu = T.current_entry]
menu_end_menu(T) == [T EXCEPT !.current_menu = T.parent[T.current_menu]]

menu_add_dep(T, dep) ==
    [T EXCEPT !.dep[T.current_entry] = expr_alloc_and(@, dep)]

menu_add_visibility(T, e) ==
    [T EXCEPT !.visibility[T.current_entry] = expr_alloc_and(@, e)]

-----------------------------------------------------------------------------
(* menu_finalize *)

RECURSIVE rewrite_m(_)
(* 'm' becomes 'm' && MODULES, so that it is n when there are no modules. *)
rewrite_m(e) ==
    CASE e.op = "not" -> Not(rewrite_m(e.l))
      [] e.op \in Junction -> Two(e.op, rewrite_m(e.l), rewrite_m(e.r))
      [] e.op = "sym" /\ e.sym = "m" -> expr_alloc_and(e, Sym(ModulesSym))
      [] OTHER -> e

(* A dependency rewritten, simplified and joined with the one above it. *)
Inherit(above, e) ==
    expr_eliminate_dups(expr_alloc_and(above, expr_transform(rewrite_m(e))))

(* The visibility of the prompt of a node, or the dependency of the node. *)
PromptVis(T, n) == IF T.prompt[n] = 0 THEN None ELSE T.props[T.prompt[n]].vis
Condition(T, n) == IF T.prompt[n] = 0 THEN T.dep[n] ELSE PromptVis(T, n)

(* The property at i of a child node takes over the condition c: one of a  *)
(* symbol that is not tristate is reduced to a boolean one, and a select   *)
(* is noted at its target.                                                 *)
Boolean(p, e) == IF p.sym # "none" /\ Type[p.sym] # "tristate" THEN expr_trans_bool(e) ELSE e
ReverseDep(e, s, c) == expr_alloc_or(e, expr_alloc_and(Sym(s), c))
PutCondition(T, i, c) ==
    LET p == T.props[i] IN
    [T EXCEPT !.props[i].vis = c,
              !.rev_dep = IF p.type # "select" THEN @
                          ELSE [@ EXCEPT ![p.ex.sym] = ReverseDep(@, p.sym, c)],
              !.implied = IF p.type # "imply" THEN @
                          ELSE [@ EXCEPT ![p.ex.sym] = ReverseDep(@, p.sym, c)]]
PropagateProp(T, n, base, i) ==
    IF T.props[i].menu # n THEN T
    ELSE PutCondition(T, i, Boolean(T.props[i], Inherit(base, T.props[i].vis)))

PropagateProps(T, n, base) ==
    FoldLeft(LAMBDA U, i : PropagateProp(U, n, base, i), [T EXCEPT !.dep[n] = base],
             [i \in 1 .. Len(T.props) |-> i])
Propagate(T, n, above) == PropagateProps(T, n, Inherit(above, T.dep[n]))

(* What the automatic submenus compare: whether a condition holds at all. *)
IfNotNo(e) == expr_eliminate_dups(expr_transform(expr_trans_compare(e, "!=", "n")))

BelongsBelow_if_named(T, n, m) == expr_contains_symbol(Condition(T, m), T.sym[n])

WithoutCommon(e, f) == expr_eliminate_eq([e |-> e, f |-> f]).f

(* The node after n depends on the symbol of n: it names the symbol, and   *)
(* either cannot hold without it or contains all of the symbol's own       *)
(* conditions.                                                             *)
BelongsBelow(T, n, m) ==
    /\ expr_contains_symbol(Condition(T, m), T.sym[n])
    /\ \/ expr_depends_symbol(Condition(T, m), T.sym[n])
       \/ expr_is_yes(WithoutCommon(IfNotNo(Condition(T, m)), IfNotNo(PromptVis(T, n))))

(* The node that follows n in the list of its parent, or 0. *)
NextNode(T, n) ==
    LET list == T.kids[T.parent[n]]
        after == {i \in 1 .. Len(list) : i > 1 /\ list[i - 1] = n}
    IN  IF after = {} THEN 0 ELSE list[CHOOSE i \in after : TRUE]

MoveBelow(T, n, m) ==
    [T EXCEPT !.kids = [T.kids EXCEPT ![T.parent[m]] = SelectSeq(@, LAMBDA x : x # m),
                                      ![n] = Append(@, m)],
              !.parent[m] = n]

RECURSIVE menu_finalize(_, _)
RECURSIVE AutoSubmenu(_, _)
AutoSubmenu(T, n) ==
    LET m == NextNode(T, n) IN
    IF m # 0 /\ BelongsBelow(T, n, m)
    THEN AutoSubmenu(MoveBelow(menu_finalize(T, m), n, m), n)
    ELSE T

RECURSIVE FinalizeKids(_, _, _)
(* A child may take the ones after it away from the list. *)
FinalizeKids(T, n, i) ==
    IF i > Len(T.kids[n]) THEN T
    ELSE FinalizeKids(menu_finalize(T, T.kids[n][i]), n, i + 1)

(* The child m becomes a value of the choice s. *)
MakeChoiceValue(T, s, m) ==
    LET v == T.sym[m]
        onlyY == Comp("=", s, "y")
        U == [T EXCEPT !.choiceOf[v] = s, !.list[s] = Append(@, v), !.current_entry = m]
        W == IF Type[s] = "tristate" /\ Type[v] # "tristate"
             THEN [U EXCEPT !.dep[m] = expr_alloc_and(onlyY, @),
                            !.props = [i \in DOMAIN @ |->
                                          IF @[i].menu = m
                                          THEN [@[i] EXCEPT !.vis = expr_alloc_and(onlyY, @)]
                                          ELSE @[i]]]
             ELSE U
    IN  menu_add_symbol(W, "choice", s, None)

(* The children of a child without a prompt move up, behind it. *)
Dissolve(T, n, i) ==
    LET m == T.kids[n][i]
        up == T.kids[m]
    IN  IF T.prompt[m] # 0 THEN T
        ELSE [T EXCEPT !.kids = [T.kids EXCEPT
                             ![n] = SubSeq(@, 1, i) \o up \o SubSeq(@, i + 1, Len(@)),
                             ![m] = <<>>],
                       !.parent = [k \in Node |-> IF k \in Range(up) THEN n ELSE T.parent[k]]]

RECURSIVE SettleKids(_, _, _)
SettleKid(T, n, i) ==
    LET s == T.sym[n]
        v == T.sym[T.kids[n][i]]
    IN  IF s # "none" /\ IsChoice(s) /\ v # "none" /\ T.choiceOf[v] = "none"
        THEN MakeChoiceValue(T, s, T.kids[n][i]) ELSE T
SettleKids(T, n, i) ==
    IF i > Len(T.kids[n]) THEN T
    ELSE SettleKids(Dissolve(SettleKid(T, n, i), n, i), n, i + 1)

(* A choice that is not optional is kept from being n while it is visible. *)
KeepChoice(T, n) ==
    LET s == T.sym[n] IN
    IF s = "none" \/ T.prompt[n] = 0 \/ s \in Optional THEN T
    ELSE [T EXCEPT !.rev_dep[s] = expr_alloc_or(@, expr_alloc_and(PromptVis(T, n), Sym("m")))]

(* What a menu passes on to the entries in it. *)
PassedOn(T, n) ==
    IF T.sym[n] # "none" /\ IsChoice(T.sym[n]) THEN Sym(T.sym[n]) ELSE Condition(T, n)
Pushed(T, n) == FoldLeft(LAMBDA U, m : Propagate(U, m, PassedOn(T, n)), T, T.kids[n])
Submenu(T, n) == [T EXCEPT !.dir_dep[T.sym[n]] = expr_alloc_or(@, T.dep[n])]
menu_finalize(T, n) ==
    KeepChoice(SettleKids(IF T.kids[n] # <<>> THEN FinalizeKids(Pushed(T, n), n, 1)
                          ELSE IF T.sym[n] # "none" THEN Submenu(AutoSubmenu(T, n), n)
                          ELSE T, n, 1), n)

-----------------------------------------------------------------------------
(* menu_is_visible, for symbols with the values V. *)
RECURSIVE menu_is_visible(_, _, _)
menu_is_visible(T, V, n) ==
    /\ T.prompt[n] # 0
    /\ expr_calc_value(V, T.visibility[n]) # no
    /\ \/ expr_calc_value(V, PromptVis(T, n)) # no
       \/ /\ T.sym[n] # "none" /\ V[T.sym[n]] # no
          /\ \E m \in Range(T.kids[n]) : menu_is_visible(T, V, m)

=============================================================================
