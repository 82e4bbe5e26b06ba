----------------------------- MODULE KconfigExpr -----------------------------
(***************************************************************************)
(* The dependency expressions of the configuration tool (expr.c): how they *)
(* are built, simplified, searched and evaluated.  Everything here is a    *)
(* function of its arguments; the modules that use it supply the values of *)
(* the symbols.                                                            *)
(*                                                                         *)
(* An expression is a record.  The C program rewrites trees in place; so   *)
(* does the one routine for which this matters, expr_eliminate_dups1, that *)
(* walks one tree with two pointers into it: here the tree is a value and  *)
(* the pointers are paths.                                                 *)
(***************************************************************************)
EXTENDS Integers, Sequences, TLC

CONSTANT Type   \* the type of each symbol: "boolean", "tristate" or "int"

(* enum expr_type, struct expr.  A missing expression (NULL) is None. *)
None == [op |-> "none"]
Sym(s) == [op |-> "sym", sym |-> s]
Comp(op, a, b) == [op |-> op, a |-> a, b |-> b]
Not(e) == [op |-> "not", l |-> e]
Two(op, e, f) == [op |-> op, l |-> e, r |-> f]

Rel == {"=", "!=", "<", "<=", ">", ">="}
Junction == {"and", "or"}

(* symbol_yes, symbol_mod, symbol_no; numbers are constants too. *)
Tri == [n |-> 0, m |-> 1, y |-> 2]
no == 0
mod == 1
yes == 2
IntConst == [c0 |-> 0, c1 |-> 1, c2 |-> 2, c3 |-> 3]
Const == DOMAIN Tri \union DOMAIN IntConst
TypeOf(s) == IF s \in Const THEN "unknown" ELSE Type[s]

EXPR_AND(x, y) == IF x < y THEN x ELSE y
EXPR_OR(x, y) == IF x > y THEN x ELSE y
EXPR_NOT(x) == 2 - x

expr_is_yes(e) == e = None \/ e = Sym("y")

expr_alloc_and(e, f) ==
    IF e = None THEN f ELSE IF f = None THEN e ELSE Two("and", e, f)

expr_alloc_or(e, f) ==
    IF e = None THEN f ELSE IF f = None THEN e ELSE Two("or", e, f)

-----------------------------------------------------------------------------
(* Values.  V gives every symbol its current value: 0, 1 or 2 for a        *)
(* boolean or tristate symbol, a number for an integer.                    *)

Value(V, s) == IF s \in Const THEN (Tri @@ IntConst)[s] ELSE V[s]

(* expr_parse_string.  Two values are compared as numbers only if both can *)
(* be read as one; the constants y, m and n cannot, and so a tristate      *)
(* symbol is compared with them as a string: "m" < "n" < "y".              *)
Numbers(syms) == syms \intersect DOMAIN Tri = {}
InString == 0 :> 1 @@ 1 :> 0 @@ 2 :> 2

Difference(V, a, b) ==
    IF Numbers({a, b}) THEN Value(V, a) - Value(V, b)
    ELSE InString[Value(V, a)] - InString[Value(V, b)]

Holds(op, d) == CASE op = "="  -> d = 0
                  [] op = "!=" -> d # 0
                  [] op = "<"  -> d < 0
                  [] op = "<=" -> d <= 0
                  [] op = ">"  -> d > 0
                  [] op = ">=" -> d >= 0

RECURSIVE expr_calc_value(_, _)
expr_calc_value(V, e) ==
    CASE e.op = "none" -> yes
      [] e.op = "sym" -> IF TypeOf(e.sym) = "int" \/ e.sym \in DOMAIN IntConst
                         THEN no ELSE Value(V, e.sym)
      [] e.op = "and" -> EXPR_AND(expr_calc_value(V, e.l), expr_calc_value(V, e.r))
      [] e.op = "or"  -> EXPR_OR(expr_calc_value(V, e.l), expr_calc_value(V, e.r))
      [] e.op = "not" -> EXPR_NOT(expr_calc_value(V, e.l))
      [] OTHER -> IF Holds(e.op, Difference(V, e.a, e.b)) THEN yes ELSE no

RECURSIVE Symbols(_)
(* The symbols an expression names, in the order its evaluation meets them. *)
Symbols(e) ==
    CASE e.op = "none" -> <<>>
      [] e.op = "sym" -> <<e.sym>>
      [] e.op = "not" -> Symbols(e.l)
      [] e.op \in Junction -> Symbols(e.l) \o Symbols(e.r)
      [] OTHER -> <<e.a, e.b>>

RECURSIVE expr_contains_symbol(_, _)
expr_contains_symbol(e, s) ==
    CASE e.op = "none" -> FALSE
      [] e.op = "sym" -> e.sym = s
      [] e.op = "not" -> expr_contains_symbol(e.l, s)
      [] e.op \in Junction -> expr_contains_symbol(e.l, s) \/ expr_contains_symbol(e.r, s)
      [] OTHER -> e.a = s \/ e.b = s

RECURSIVE expr_depends_symbol(_, _)
expr_depends_symbol(e, s) ==
    CASE e.op = "and" -> expr_depends_symbol(e.l, s) \/ expr_depends_symbol(e.r, s)
      [] e.op = "sym" -> e.sym = s
      [] e.op = "="  -> e.a = s /\ e.b \in {"y", "m"}
      [] e.op = "!=" -> e.a = s /\ e.b = "n"
      [] OTHER -> FALSE

-----------------------------------------------------------------------------
(* Simplification. *)

(* expr && n -> n, expr && y -> expr, expr || n -> expr, expr || y -> y *)
JoinYn(op, l, r) ==
    LET zero == Sym(IF op = "and" THEN "n" ELSE "y")
        unit == Sym(IF op = "and" THEN "y" ELSE "n")
    IN  CASE l = zero \/ (l # unit /\ r = zero) -> zero
          [] l = unit -> r
          [] l # zero /\ r = unit -> l
          [] OTHER -> Two(op, l, r)

RECURSIVE expr_eliminate_yn(_)
expr_eliminate_yn(e) ==
    IF e.op \notin Junction THEN e
    ELSE JoinYn(e.op, expr_eliminate_yn(e.l), expr_eliminate_yn(e.r))

(* bool FOO!=n => FOO *)
RECURSIVE expr_trans_bool(_)
expr_trans_bool(e) ==
    CASE e.op \in Junction -> Two(e.op, expr_trans_bool(e.l), expr_trans_bool(e.r))
      [] e.op = "not" -> Not(expr_trans_bool(e.l))
      [] e.op = "!=" /\ TypeOf(e.a) = "tristate" /\ e.b = "n" -> Sym(e.a)
      [] OTHER -> e

(* What a negation turns a comparison into. *)
Opposite == [o \in Rel |-> CASE o = "="  -> "!=" [] o = "!=" -> "="
                             [] o = "<=" -> ">"  [] o = ">"  -> "<="
                             [] o = ">=" -> "<"  [] o = "<"  -> ">="]

(* A comparison of a boolean symbol with y, m or n. *)
TransformBoolean(e) ==
    LET equal == e.op = "=" IN
    CASE e.b = "n" -> IF equal THEN Not(Sym(e.a)) ELSE Sym(e.a)
      [] e.b = "m" -> Sym(IF equal THEN "n" ELSE "y")
      [] e.b = "y" -> IF equal THEN Sym(e.a) ELSE Not(Sym(e.a))
      [] OTHER -> e

RECURSIVE expr_transform(_)
RECURSIVE TransformNot(_)
TransformNot_keeps_operator(e) ==
    CASE e.op = "not" -> expr_transform(e.l)
      [] e.op \in Rel -> Comp(Opposite[e.op], e.a, e.b)
      [] e.op \in Junction -> expr_transform(Two(e.op, Not(e.l), Not(e.r)))
      [] e.op = "sym" -> Not(e)

(* !e, where e has been transformed already. *)
TransformNot(e) ==
    CASE e.op = "not" -> expr_transform(e.l)
      [] e.op \in Rel -> Comp(Opposite[e.op], e.a, e.b)
      [] e.op = "or"  -> expr_transform(Two("and", Not(e.l), Not(e.r)))
      [] e.op = "and" -> expr_transform(Two("or", Not(e.l), Not(e.r)))
      [] e.op = "sym" -> CASE e.sym = "y" -> Sym("n")
                           [] e.sym = "m" -> Sym("m")
                           [] e.sym = "n" -> Sym("y")
                           [] OTHER -> Not(e)

expr_transform(e) ==
    CASE e.op \in Junction -> Two(e.op, expr_transform(e.l), expr_transform(e.r))
      [] e.op = "not" -> TransformNot(expr_transform(e.l))
      [] e.op \in {"=", "!="} /\ TypeOf(e.a) = "boolean" -> TransformBoolean(e)
      [] OTHER -> e

(* Inserts comparisons with the constant c, so that the result is y when   *)
(* e op c holds and n when it does not.                                    *)
RECURSIVE expr_trans_compare(_, _, _)
expr_trans_compare(e, op, c) ==
    LET both(f, g) ==
            Two(IF c = "y" THEN e.op ELSE IF e.op = "and" THEN "or" ELSE "and", f, g)
        equal == op = "="
    IN  CASE e.op = "none" -> IF equal THEN Sym(c) ELSE Not(Sym(c))
          [] e.op \in Junction /\ c \in {"y", "n"} ->
                LET f == both(expr_trans_compare(e.l, "=", c),
                              expr_trans_compare(e.r, "=", c))
                IN  IF equal THEN f ELSE Not(f)
          [] e.op \in Junction /\ c = "m" -> IF equal THEN e ELSE Not(e)
          [] e.op = "not" -> expr_trans_compare(e.l, IF equal THEN "!=" ELSE "=", c)
          [] e.op \in Rel ->
                CASE c = "m" -> Sym(IF equal THEN "n" ELSE "y")
                  [] equal = (c = "y") -> e
                  [] OTHER -> Not(e)
          [] e.op = "sym" -> Comp(op, e.sym, c)

(* __expr_eliminate_eq: in a pair of expressions the operands common to    *)
(* both are replaced by the unit of the junction.                          *)
RECURSIVE expr_eq(_, _)
RECURSIVE EliminateEq(_, _)
EliminateEq(op, p) ==
    LET \* one half of e, then the other with what is left of f; and so for f
        halves(x) == [x |-> x, z |-> EliminateEq(op, [e |-> p.e.r, f |-> x.f])]
        both(h) == [e |-> Two(op, h.x.e, h.z.e), f |-> h.z.f]
        halvesOfF(x) == [x |-> x, z |-> EliminateEq(op, [e |-> x.e, f |-> p.f.r])]
        bothOfF(h) == [e |-> h.z.e, f |-> Two(op, h.x.f, h.z.f)]
        unit == Sym(IF op = "and" THEN "y" ELSE "n")
    IN  CASE p.e.op = op -> both(halves(EliminateEq(op, [p EXCEPT !.e = p.e.l])))
          [] p.e.op # op /\ p.f.op = op -> bothOfF(halvesOfF(EliminateEq(op, [p EXCEPT !.f = p.f.l])))
          [] OTHER -> IF (p.e = p.f /\ p.e \in {Sym("y"), Sym("n")}) \/ ~expr_eq(p.e, p.f)
                      THEN p ELSE [e |-> unit, f |-> unit]

(* First for the junction of e, then for that of f; then the units go. *)
EliminateFirst(p) == IF p.e.op \in Junction THEN EliminateEq(p.e.op, p) ELSE p
EliminateSecond(p) ==
    IF p.e.op # p.f.op /\ p.f.op \in Junction THEN EliminateEq(p.f.op, p) ELSE p
EliminateUnits(p) == [e |-> expr_eliminate_yn(p.e), f |-> expr_eliminate_yn(p.f)]
expr_eliminate_eq(p) ==
    IF p.e = None \/ p.f = None THEN p
    ELSE EliminateUnits(EliminateSecond(EliminateFirst(p)))

SameSymbol(p) == p.e.op = "sym" /\ p.f.op = "sym" /\ p.e = p.f
expr_eq(e, f) ==
    /\ e.op = f.op
    /\ CASE e.op \in Rel \union {"sym"} -> e = f
         [] e.op = "not" -> expr_eq(e.l, f.l)
         [] e.op \in Junction -> SameSymbol(expr_eliminate_eq([e |-> e, f |-> f]))

(* What expr_join_or and expr_join_and ask first: both operands are about  *)
(* one boolean or tristate symbol, which is returned.                      *)
CommonSymbol(e, f) ==
    LET of(g) == CASE g.op = "sym" -> g.sym
                   [] g.op \in {"=", "!="} -> g.a
                   [] OTHER -> "none"
        common(s, u) == IF s # "none" /\ s = u /\ TypeOf(s) \in {"boolean", "tristate"}
                        THEN s ELSE "none"
    IN  IF f.op = "not" /\ f.l.op # "sym" THEN "none"
        ELSE common(of(IF e.op = "not" THEN e.l ELSE e), of(IF f.op = "not" THEN f.l ELSE f))

(* Both operands compare with op, one with c and the other with d. *)
Compare(e, f, op, c, d) == e.op = op /\ f.op = op /\ {e.b, f.b} = {c, d}

(* One operand is the symbol itself, the other the comparison op c. *)
Bare(e, f, op, c) == \/ e.op = "sym" /\ f.op = op /\ f.b = c
                     \/ f.op = "sym" /\ e.op = op /\ e.b = c

(* e1 || e2 -> ?, where s is the common symbol *)
expr_join_or(s, e, f) ==
    CASE s = "none" -> None
      [] TypeOf(s) = "tristate" ->
            CASE Compare(e, f, "=", "y", "m") -> Comp("!=", s, "n")
              [] Compare(e, f, "=", "y", "n") -> Comp("!=", s, "m")
              [] Compare(e, f, "=", "m", "n") -> Comp("!=", s, "y")
              [] OTHER -> None
      [] OTHER -> IF {e, f} = {Sym(s), Not(Sym(s))} THEN Sym("y") ELSE None

expr_join_and(s, e, f) ==
    LET \* (a='b') && (a!='c')
        both(x, z) == IF x.b \in Const /\ z.b \in Const
                      THEN IF x.b # z.b THEN Comp("=", s, x.b) ELSE Sym("n")
                      ELSE None
    IN  CASE s = "none" -> None
          [] Bare(e, f, "=", "y") -> Comp("=", s, "y")
          [] Bare(e, f, "!=", "n") -> Sym(s)
          [] Bare(e, f, "!=", "m") -> Comp("=", s, "y")
          [] TypeOf(s) = "tristate" ->
                CASE e.op = "=" /\ f.op = "!=" -> both(e, f)
                  [] e.op = "!=" /\ f.op = "=" -> both(f, e)
                  [] Compare(e, f, "!=", "y", "n") -> Comp("=", s, "m")
                  [] Compare(e, f, "!=", "y", "m") -> Comp("=", s, "n")
                  [] Compare(e, f, "!=", "m", "n") -> Comp("=", s, "y")
                  [] OTHER -> None
          [] OTHER -> None

(* One expression for e and f, if there is one.  (Both join routines start *)
(* with the test for equality.)                                            *)
Join(op, e, f) == CASE expr_eq(e, f) -> e
                    [] op = "or" -> expr_join_or(CommonSymbol(e, f), e, f)
                    [] OTHER -> expr_join_and(CommonSymbol(e, f), e, f)

(* The subtree of e at path p, and e with it replaced. *)
RECURSIVE At(_, _)
At(e, p) == IF p = <<>> THEN e ELSE At(IF Head(p) = 1 THEN e.l ELSE e.r, Tail(p))

RECURSIVE Put(_, _, _)
Put(e, p, f) == IF p = <<>> THEN f
                ELSE IF Head(p) = 1 THEN [e EXCEPT !.l = Put(e.l, Tail(p), f)]
                ELSE [e EXCEPT !.r = Put(e.r, Tail(p), f)]

(* t is the tree and whether something was changed in it (trans_count); p  *)
(* and q are the places of the two expressions that are compared.          *)
RECURSIVE EliminateDups1(_, _, _, _)
(* What is at p is replaced by the unit of the junction and what is at q   *)
(* by j, the one expression for both.                                      *)
PutJoined(op, t, p, q, j) ==
    IF j = None THEN t
    ELSE [e |-> Put(Put(t.e, p, Sym(IF op = "or" THEN "n" ELSE "y")), q, j), changed |-> TRUE]
JoinAt(op, t, p, q) == PutJoined(op, t, p, q, Join(op, At(t.e, p), At(t.e, q)))

EliminateDups1(op, t, p, q) ==
    LET in == At(t.e, p).op
        of == At(t.e, q).op
    IN  CASE in = op ->
                EliminateDups1(op, EliminateDups1(op, t, p \o <<1>>, q), p \o <<2>>, q)
          [] in # op /\ of = op ->
                EliminateDups1(op, EliminateDups1(op, t, p, q \o <<1>>), p, q \o <<2>>)
          [] in # op /\ of # op /\ p = q -> t
          [] OTHER -> JoinAt(op, IF in \in Junction THEN EliminateDups1(in, t, p, p) ELSE t, p, q)

RECURSIVE expr_eliminate_dups(_)
AnotherPass(t) == IF t.changed THEN expr_eliminate_dups(expr_eliminate_yn(t.e)) ELSE t.e
expr_eliminate_dups(e) ==
    IF e.op \in Junction
    THEN AnotherPass(EliminateDups1(e.op, [e |-> e, changed |-> FALSE], <<>>, <<>>))
    ELSE e

=============================================================================
