------------------------------ MODULE MCTools ------------------------------
(***************************************************************************)
(* The configuration tools.  A behaviour simplifies one dependency, or     *)
(* parses one Kconfig file, or runs conf over the files of a source tree,  *)
(* or is one session of the menu program.                                  *)
(***************************************************************************)
EXTENDS KconfigSimplify, KconfigParse, KconfigConf, KconfigMconf

CONSTANT NULL

VARIABLE unit

vars == <<unit, K, simplifyVars, parseVars, confVars, mconfVars>>

\* f is boolean, a and u are tristate, v is a value of the choice c.
SimplifyLeaves == {Sym("f"), Sym("a"), Comp("=", "a", "y"), Comp("!=", "a", "n"),
                   Comp("=", "a", "m"), Comp(">", "a", "f")}
SimplifyParents == {Sym("a"), Two("and", Sym("f"), Comp("!=", "a", "m"))}

ParseConfigs == <<"f", "a", "v">>
ParseConditions == {None, Sym("f"), Two("and", Sym("mods"), Two("or", Sym("a"), Sym("f")))}
ParseIfs == {Sym("mods"), Sym("u")}

-----------------------------------------------------------------------------
(* The Kconfig file that conf and the menu program work with.  f depends on *)
(* what is asked for later, a selects s, s is a menu of its own, the choice *)
(* may be m, v can only be y, i is outside its range by default.            *)

MCType == [mods |-> "boolean", a |-> "tristate", f |-> "boolean", s |-> "tristate",
           c |-> "tristate", u |-> "tristate", v |-> "boolean", i |-> "int"]
MCOrder == <<"i", "f", "a", "c", "v", "s", "u", "mods">>

Entry(T, s, d) == menu_add_dep(menu_add_entry(T, s), d)
Prompt(T) == menu_add_prompt(T, "prompt", None)
Ask(T, s, d) == Prompt(Entry(T, s, d))
Block(T) == menu_add_menu(menu_add_prompt(menu_add_entry(T, "none"), "menu", None))
Prop(T, type, e) == menu_add_prop(T, type, FALSE, e, None)

Switches(T) == menu_add_symbol(Ask(Ask(Ask(T, "mods", None), "f", Comp("=", "a", "y")), "a", None),
                               "select", "s", None)
OwnMenu(T) == menu_add_prompt(Entry(T, "s", None), "menu", None)
ChoiceOf(T) == menu_end_menu(Ask(Ask(menu_add_menu(Ask(T, "c", None)), "u", None), "v", Sym("a")))
NumberOf(T) == Prop(Prop(Ask(T, "i", Sym("s")), "range", Comp("range", "c1", "c2")), "default", Sym("c3"))
MCKconfig == menu_end_menu(NumberOf(Block(ChoiceOf(OwnMenu(Switches(EmptyTree))))))
MCK == WithLists(menu_finalize(MCKconfig, 0))

MCFiles == {Missing, <<>>, <<Line("mods", 2), Line("a", 1)>>,
            <<Line("a", 2), Line("u", 2), Line("v", 2)>>,
            <<Line("mods", 2), Line("a", 2), Line("v", 2), Line("i", 3)>>,
            <<Line("mods", 2), Line("s", 1), Line("u", 1), Line("i", 2), Line("gone", 2)>>}
MCDraws == {[s \in Syms |-> CASE s = "a" -> x [] s = "mods" -> y [] OTHER -> z] :
               x \in no .. yes, y \in {no, yes}, z \in no .. yes}
MCLucky == {[c \in ChoiceSyms |-> x] : x \in {"u", "v"}}

-----------------------------------------------------------------------------

NoConf == /\ st = NULL /\ mode = NULL /\ pc = NULL /\ work = NULL /\ conf_cnt = NULL
          /\ rootEntry = NULL /\ disk = NULL /\ touched = NULL /\ built = NULL /\ runs = NULL
NoMconf == /\ table = NULL /\ trail = NULL /\ opened = NULL /\ show_all_options = NULL
           /\ filename = NULL /\ files = NULL /\ asked = NULL /\ forgotten = NULL /\ keys = NULL

NoSimplify == parsed = NULL /\ size = NULL /\ parent = NULL /\ dep = NULL /\ step = NULL
NoParse == tree = NULL /\ phase = NULL /\ recursive = NULL

Init ==
    \/ unit = "simplify" /\ K = NULL /\ SimplifyInit /\ NoParse /\ NoConf /\ NoMconf
    \/ unit = "parse" /\ K = NULL /\ NoSimplify /\ ParseInit /\ NoConf /\ NoMconf
    \/ unit = "conf" /\ K = MCK /\ NoSimplify /\ NoParse /\ ConfInit /\ NoMconf
    \/ unit = "mconf" /\ K = MCK /\ NoSimplify /\ NoParse /\ NoConf /\ MconfInit

Next ==
    /\ UNCHANGED <<unit, K>>
    /\ \/ unit = "simplify" /\ SimplifyNext /\ UNCHANGED <<confVars, mconfVars, parseVars>>
       \/ unit = "parse" /\ ParseNext /\ UNCHANGED <<confVars, mconfVars, simplifyVars>>
       \/ unit = "conf" /\ ConfNext /\ UNCHANGED <<mconfVars, simplifyVars, parseVars>>
       \/ unit = "mconf" /\ MconfNext /\ UNCHANGED <<confVars, simplifyVars, parseVars>>

Spec == Init /\ [][Next]_vars

-----------------------------------------------------------------------------

\* Every step that menu_finalize takes with a dependency keeps its meaning: see
\* KconfigSimplify.
ToolsSimplifiedAlike == unit = "simplify" => SimplifiedAlike

\* Every entry that can be seen can be reached, and recursive dependencies are
\* reported: see VisibleIsReachable and CyclesReported of KconfigParse.
ToolsVisibleIsReachable == unit = "parse" => VisibleIsReachable /\ CyclesReported

\* What is saved is what is read, also from the minimal file: see SavedIsRead
\* and DefconfigRestores of KconfigConf.
ToolsSavedIsRead == unit = "conf" => SavedIsRead /\ DefconfigRestores

\* The choices have one value: see KconfigConf.
ToolsOneOfChoice == unit = "conf" => OneOfChoice

\* oldconfig leaves nothing new: see KconfigConf.
ToolsNothingLeftNew == unit = "conf" => NothingLeftNew

\* make sees every change: see KconfigConf.
ToolsChangesAreTouched == unit = "conf" => ChangesAreTouched

\* What the menus show is true, and a session leaves nothing unsaved that it
\* does not ask about: see ShownIsTrue and NothingUnsaved of KconfigMconf.
ToolsShownIsTrue == unit = "mconf" => ShownIsTrue /\ NothingUnsaved

=============================================================================
