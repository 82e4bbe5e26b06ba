--------------------------- MODULE KconfigSimplify ---------------------------
(***************************************************************************)
(* What becomes of a dependency between the parser, which builds it, and   *)
(* the menus, which test it.  The parser joins operands with the alloc     *)
(* routines of expr.c; menu_finalize then transforms the expression, joins *)
(* it with the dependency of the parent, removes duplicates, reduces it to *)
(* its Boolean use and, for the automatic submenus, compares it with the   *)
(* dependency of the symbol before it.                                     *)
(***************************************************************************)
EXTENDS KconfigExpr

CONSTANTS Leaves,   \* the operands the parser may meet
          Parents,  \* the dependencies of the parent menu
          Operands  \* bound on the operands of one expression

VARIABLES parsed,   \* the expression as written in the Kconfig file
          size,     \* its operands
          parent,   \* the dependency of the parent menu
          dep,      \* what menu_finalize made of it
          step      \* how far it got

simplifyVars == <<parsed, size, parent, dep, step>>

SimplifyInit ==
    /\ parsed = None
    /\ size = 0
    /\ parent \in Parents
    /\ dep = None
    /\ step = "parse"

(* The parser reduces expr && expr, expr || expr, ! expr. *)
ParseOperand ==
    /\ step = "parse" /\ size < Operands
    /\ \E x \in Leaves, f \in {TRUE, FALSE} :
          /\ f => parsed # None
          /\ \/ parsed' = IF f THEN expr_alloc_and(x, parsed) ELSE expr_alloc_and(parsed, x)
             \/ parsed' = IF f THEN expr_alloc_or(x, parsed) ELSE expr_alloc_or(parsed, x)
    /\ size' = size + 1
    /\ UNCHANGED <<parent, dep, step>>

ParseNot ==
    /\ step = "parse" /\ size > 1 /\ parsed.op # "not"
    /\ parsed' = Not(parsed)
    /\ UNCHANGED <<size, parent, dep, step>>

Transform ==
    /\ step = "parse"
    /\ dep' = expr_transform(parsed)
    /\ step' = "transformed"
    /\ UNCHANGED <<parsed, size, parent>>

(* basedep = expr_alloc_and(expr_copy(parentdep), basedep), without dups *)
JoinParent ==
    /\ step = "transformed"
    /\ dep' = expr_eliminate_dups(expr_alloc_and(parent, dep))
    /\ step' = "joined"
    /\ UNCHANGED <<parsed, size, parent>>

(* The condition of a property whose symbol is not tristate. *)
TransBool ==
    /\ step = "joined"
    /\ dep' = expr_trans_bool(dep)
    /\ step' = "boolean"
    /\ UNCHANGED <<parsed, size, parent>>

(* The comparison the automatic submenus work with. *)
TransCompare ==
    /\ step \in {"joined", "boolean"}
    /\ dep' = expr_eliminate_dups(expr_transform(expr_trans_compare(dep, "!=", "n")))
    /\ step' = "compared"
    /\ UNCHANGED <<parsed, size, parent>>

SimplifyNext == ParseOperand \/ ParseNot \/ Transform \/ JoinParent \/ TransBool \/ TransCompare

-----------------------------------------------------------------------------
(* Every value the symbols may have. *)
Used == UNION {{Symbols(e)[i] : i \in 1 .. Len(Symbols(e))} : e \in Leaves \union Parents} \ Const
Valuations == {V \in [Used -> 0 .. 2] : \A s \in Used : Type[s] = "boolean" => V[s] # mod}

Written(V) == IF step \in {"parse", "transformed"} THEN expr_calc_value(V, parsed)
              ELSE EXPR_AND(expr_calc_value(V, parent), expr_calc_value(V, parsed))

NoModule(V) == \A s \in Used : V[s] # mod

(* Simplifying a dependency keeps its value, whatever the symbols are: up  *)
(* to expr_eliminate_dups the value itself, after expr_trans_bool whether  *)
(* it is n.  What expr_trans_compare makes of it is y only when the        *)
(* dependency as written is not n, and always so as long as no symbol is m *)
(* (of a symbol that is m, the routine takes !A to be n).                  *)
SimplifiedAlike ==
    step # "parse" =>
        \A V \in Valuations :
            LET w == Written(V)
                v == expr_calc_value(V, dep)
            IN  CASE step \in {"transformed", "joined"} -> v = w
                  [] step = "boolean" -> (v = no) = (w = no)
                  [] step = "compared" -> /\ v # no => v = yes /\ w # no
                                          /\ NoModule(V) /\ w # no => v = yes

=============================================================================
