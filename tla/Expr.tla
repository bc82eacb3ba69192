-------------------------------- MODULE Expr ---------------------------------
(***************************************************************************)
(* The expressions of kconfig (libs/parser/expr.c): their value and the    *)
(* rewriting that menu.c does on every dependency.  An expression is a     *)
(* tree of records; the functions that change it in place, through two     *)
(* pointers into the same tree, are given the tree and two paths into it.  *)
(***************************************************************************)
EXTENDS Integers, Sequences

CONSTANTS Type,       (* the types of the symbols: BOOLEAN, TRISTATE, INT  *)
          TextOrder   (* the place of a number as a text, below 100        *)

\* The constants symbol_yes, symbol_mod and symbol_no have a value and no type.
Const == {"y", "m", "n"}
TypeOf(s) == IF s \in Const THEN "UNKNOWN" ELSE Type[s]

Relation == {"EQUAL", "UNEQUAL", "LTH", "LEQ", "GTH", "GEQ"}
Sym(s) == [t |-> "SYMBOL", s |-> s]
One(e) == [t |-> "NOT", l |-> e]
Two(type, e1, e2) == [t |-> type, l |-> e1, r |-> e2]
Comp(type, s1, s2) == [t |-> type, s |-> s1, v |-> s2]
Null == [t |-> "NULL"]

-----------------------------------------------------------------------------
(* The value of an expression. *)

TriOf(s, val) == CASE s = "y" -> 2 [] s = "m" -> 1 [] s = "n" -> 0 [] OTHER -> val[s]

\* The place of a value's text in the order of strcmp: digits, m, n, y.
Text(s, val) ==
  IF TypeOf(s) = "INT" THEN TextOrder[val[s]]
  ELSE CASE TriOf(s, val) = 1 -> 101 [] TriOf(s, val) = 0 -> 102 [] OTHER -> 103

\* expr_parse_string: a number without digits is a text, as y, m and n are.
Kind(s, val) == IF TypeOf(s) = "INT" /\ val[s] >= 0 THEN "signed" ELSE "string"

\* Numbers are compared as such when both sides are; else as texts.
Order(s1, s2, val) ==
  IF Kind(s1, val) = "string" \/ Kind(s2, val) = "string" THEN Text(s1, val) - Text(s2, val)
  ELSE val[s1] - val[s2]

Holds(type, res) ==
  CASE type = "EQUAL" -> res = 0 [] type = "UNEQUAL" -> res # 0 [] type = "LTH" -> res < 0
    [] type = "LEQ" -> res <= 0 [] type = "GTH" -> res > 0 [] type = "GEQ" -> res >= 0

RECURSIVE expr_calc_value(_, _)
expr_calc_value(e, val) ==
  LET a == expr_calc_value(e.l, val)
      b == expr_calc_value(e.r, val)
  IN  CASE e.t = "NULL" -> 2
        [] e.t = "SYMBOL" ->
             IF e.s \in Const \/ TypeOf(e.s) \in {"BOOLEAN", "TRISTATE"} THEN TriOf(e.s, val) ELSE 0
        [] e.t = "AND" -> IF a < b THEN a ELSE b
        [] e.t = "OR" -> IF a > b THEN a ELSE b
        [] e.t = "NOT" -> 2 - a
        [] e.t \in Relation -> IF Holds(e.t, Order(e.s, e.v, val)) THEN 2 ELSE 0

-----------------------------------------------------------------------------
(* Constants inside an expression. *)

None(type) == IF type = "AND" THEN Sym("y") ELSE Sym("n")
All(type) == IF type = "AND" THEN Sym("n") ELSE Sym("y")

Without(type, a, b) ==
  IF a = All(type) \/ b = All(type) THEN All(type)
  ELSE CASE a = None(type) -> b
         [] a # None(type) /\ b = None(type) -> a
         [] OTHER -> Two(type, a, b)

RECURSIVE expr_eliminate_yn(_)
expr_eliminate_yn(e) ==
  IF e.t \notin {"AND", "OR"} THEN e
  ELSE Without(e.t, expr_eliminate_yn(e.l), expr_eliminate_yn(e.r))

-----------------------------------------------------------------------------
(* Places in a tree. *)

RECURSIVE At(_, _)
At(e, p) == IF p = <<>> THEN e ELSE At(IF Head(p) = "l" THEN e.l ELSE e.r, Tail(p))

RECURSIVE With(_, _, _)
With(e, p, x) ==
  CASE p = <<>> -> x
    [] p # <<>> /\ e.t = "NOT" -> One(With(e.l, Tail(p), x))
    [] p # <<>> /\ e.t # "NOT" /\ Head(p) = "l" -> Two(e.t, With(e.l, Tail(p), x), e.r)
    [] OTHER -> Two(e.t, e.l, With(e.r, Tail(p), x))

L(p) == Append(p, "l")
R(p) == Append(p, "r")

SameLeaf(e1, e2) == e1 = e2

\* Two expressions are equal when everything they have in common can be taken
\* out, and the same constant is left.
RECURSIVE expr_eq(_, _), EliminateEq(_, _, _, _)
EliminateEq(type, pair, p1, p2) ==
  LET e1 == At(pair, p1)
      e2 == At(pair, p2)
  IN  CASE e1.t = type ->
             EliminateEq(type, EliminateEq(type, pair, L(p1), p2), R(p1), p2)
        [] e1.t # type /\ e2.t = type ->
             EliminateEq(type, EliminateEq(type, pair, p1, L(p2)), p1, R(p2))
        [] OTHER ->
             IF (e1.t = "SYMBOL" /\ e1 = e2 /\ e1.s \in {"y", "n"}) \/ ~expr_eq(e1, e2)
             THEN pair ELSE With(With(pair, p1, None(type)), p2, None(type))

\* For the operator of the first, then for that of the second.
FirstTime(pair) ==
  IF pair.l.t \in {"AND", "OR"} THEN EliminateEq(pair.l.t, pair, <<"l">>, <<"r">>) ELSE pair
SecondTime(pair) ==
  IF pair.l.t # pair.r.t /\ pair.r.t \in {"AND", "OR"}
  THEN EliminateEq(pair.r.t, pair, <<"l">>, <<"r">>) ELSE pair
LeftOver(pair) == <<expr_eliminate_yn(pair.l), expr_eliminate_yn(pair.r)>>

expr_eliminate_eq(e1, e2) == LeftOver(SecondTime(FirstTime(Two("PAIR", e1, e2))))

SameConst(r) == r[1].t = "SYMBOL" /\ r[1] = r[2]

expr_eq(e1, e2) ==
  CASE e1.t # e2.t -> FALSE
    [] e1.t = e2.t /\ e1.t \in Relation \cup {"SYMBOL"} -> SameLeaf(e1, e2)
    [] e1.t = e2.t /\ e1.t = "NOT" -> expr_eq(e1.l, e2.l)
    [] OTHER -> SameConst(expr_eliminate_eq(e1, e2))

-----------------------------------------------------------------------------
(* Two operands that say something of the same symbol. *)

\* The symbol an operand is about, or none: a negation counts on the left when
\* it is of a symbol or a comparison, on the right only of a symbol.
About(e, left) ==
  CASE e.t \in {"EQUAL", "UNEQUAL", "SYMBOL"} -> e.s
    [] e.t = "NOT" ->
         IF e.l.t = "SYMBOL" \/ (left /\ e.l.t \in {"EQUAL", "UNEQUAL"}) THEN e.l.s ELSE "none"
    [] OTHER -> "none"

\* The same symbol, and of a type with y, m and n.
Same(e1, e2) ==
  /\ About(e1, TRUE) # "none" /\ About(e1, TRUE) = About(e2, FALSE)
  /\ TypeOf(About(e1, TRUE)) \in {"BOOLEAN", "TRISTATE"}

Both(e1, e2, type, u, v) ==
  e1.t = type /\ e2.t = type /\ {e1.v, e2.v} = {u, v} /\ u # v

expr_join_or(e1, e2) ==
  LET s == About(e1, TRUE)
      tri == TypeOf(s) = "TRISTATE"
  IN  IF expr_eq(e1, e2) THEN e1
      ELSE IF ~Same(e1, e2) THEN Null
      ELSE CASE tri /\ Both(e1, e2, "EQUAL", "y", "m") -> Comp("UNEQUAL", s, "n")
             [] tri /\ Both(e1, e2, "EQUAL", "y", "n") -> Comp("UNEQUAL", s, "m")
             [] tri /\ Both(e1, e2, "EQUAL", "m", "n") -> Comp("UNEQUAL", s, "y")
             [] TypeOf(s) = "BOOLEAN" /\ (e1 = One(e2) \/ e2 = One(e1)) /\ Sym(s) \in {e1, e2} ->
                  Sym("y")
             [] OTHER -> Null

\* One of them is the symbol, the other compares it with v.
OneIs(e1, e2, type, v) ==
  \/ e1.t = "SYMBOL" /\ e2.t = type /\ e2.v = v
  \/ e2.t = "SYMBOL" /\ e1.t = type /\ e1.v = v

NotModIsYes(s) == Comp("EQUAL", s, "y")

expr_join_and(e1, e2) ==
  LET s == About(e1, TRUE)
      tri == TypeOf(s) = "TRISTATE"
      \* (a=b) && (a!=c), for constants.
      Excludes(e, u) == e.t = "EQUAL" /\ u.t = "UNEQUAL" /\ {e.v, u.v} \subseteq Const
      Excluded(e, u) == IF e.v = u.v THEN Sym("n") ELSE Comp("EQUAL", s, e.v)
  IN  IF expr_eq(e1, e2) THEN e1
      ELSE IF ~Same(e1, e2) THEN Null
      ELSE CASE OneIs(e1, e2, "EQUAL", "y") -> Comp("EQUAL", s, "y")
             [] OneIs(e1, e2, "UNEQUAL", "n") -> Sym(s)
             [] OneIs(e1, e2, "UNEQUAL", "m") -> NotModIsYes(s)
             [] tri /\ Excludes(e1, e2) -> Excluded(e1, e2)
             [] tri /\ Excludes(e2, e1) -> Excluded(e2, e1)
             [] tri /\ Both(e1, e2, "UNEQUAL", "y", "n") -> Comp("EQUAL", s, "m")
             [] tri /\ Both(e1, e2, "UNEQUAL", "y", "m") -> Comp("EQUAL", s, "n")
             [] tri /\ Both(e1, e2, "UNEQUAL", "m", "n") -> Comp("EQUAL", s, "y")
             [] OTHER -> Null

\* Every pair of operands of one operator, also within the operands of the
\* other operator; what is joined stays at the second place.  With the tree
\* goes the count of what was joined.
Joined(c, p1, p2, type, tmp) ==
  IF tmp = Null THEN c
  ELSE [e |-> With(With(c.e, p1, None(type)), p2, tmp), trans_count |-> c.trans_count + 1]

Join(c, p1, p2, type) ==
  Joined(c, p1, p2, type,
         IF type = "OR" THEN expr_join_or(At(c.e, p1), At(c.e, p2))
         ELSE expr_join_and(At(c.e, p1), At(c.e, p2)))

RECURSIVE EliminateDups1(_, _, _, _)
EliminateDups1(type, c, p1, p2) ==
  LET e1 == At(c.e, p1)
      e2 == At(c.e, p2)
  IN  CASE e1.t = type ->
             EliminateDups1(type, EliminateDups1(type, c, L(p1), p2), R(p1), p2)
        [] e1.t # type /\ e2.t = type ->
             EliminateDups1(type, EliminateDups1(type, c, p1, L(p2)), p1, R(p2))
        [] e1.t # type /\ e2.t # type /\ p1 = p2 -> c
        [] OTHER ->
             Join(IF e1.t \in {"AND", "OR"} THEN EliminateDups1(e1.t, c, p1, p1) ELSE c, p1, p2, type)

\* Until nothing is joined.
RECURSIVE expr_eliminate_dups(_), OnceMore(_)
OnceMore(c) == IF c.trans_count = 0 THEN c.e ELSE expr_eliminate_dups(expr_eliminate_yn(c.e))
expr_eliminate_dups(e) ==
  IF e.t \notin {"AND", "OR"} THEN e
  ELSE OnceMore(EliminateDups1(e.t, [e |-> e, trans_count |-> 0], <<>>, <<>>))

-----------------------------------------------------------------------------
(* Rewriting. *)

expr_alloc_and(e1, e2) ==
  CASE e1 = Null -> e2 [] e1 # Null /\ e2 = Null -> e1 [] OTHER -> Two("AND", e1, e2)
expr_alloc_or(e1, e2) ==
  CASE e1 = Null -> e2 [] e1 # Null /\ e2 = Null -> e1 [] OTHER -> Two("OR", e1, e2)

Opposite == [EQUAL |-> "UNEQUAL", UNEQUAL |-> "EQUAL", LEQ |-> "GTH", GTH |-> "LEQ",
             GEQ |-> "LTH", LTH |-> "GEQ"]

\* A comparison of a bool with a constant is the symbol, its negation or a
\* constant.
BoolCompare(e) ==
  IF e.t \notin {"EQUAL", "UNEQUAL"} \/ TypeOf(e.s) # "BOOLEAN" \/ e.v \notin Const THEN e
  ELSE CASE e.v = "m" -> IF e.t = "EQUAL" THEN Sym("n") ELSE Sym("y")
         [] (e.v = "y") = (e.t = "EQUAL") /\ e.v # "m" -> Sym(e.s)
         [] OTHER -> One(Sym(e.s))

RECURSIVE expr_transform(_)
expr_transform(e) ==
  CASE e.t \in {"SYMBOL", "NULL"} -> e
    [] e.t \in Relation -> BoolCompare(e)
    [] e.t \in {"AND", "OR"} -> Two(e.t, expr_transform(e.l), expr_transform(e.r))
    [] e.t = "NOT" ->
         LET a == expr_transform(e.l) IN
         CASE a.t = "NOT" -> expr_transform(a.l)
           [] a.t \in Relation -> Comp(Opposite[a.t], a.s, a.v)
           [] a.t = "OR" -> expr_transform(Two("AND", One(a.l), One(a.r)))
           [] a.t = "AND" -> expr_transform(Two("OR", One(a.l), One(a.r)))
           [] a.t = "SYMBOL" ->
                CASE a.s = "y" -> Sym("n") [] a.s = "m" -> Sym("m") [] a.s = "n" -> Sym("y")
                  [] OTHER -> One(a)

RECURSIVE expr_trans_bool(_)
expr_trans_bool(e) ==
  CASE e.t \in {"AND", "OR"} -> Two(e.t, expr_trans_bool(e.l), expr_trans_bool(e.r))
    [] e.t = "NOT" -> One(expr_trans_bool(e.l))
    [] e.t = "UNEQUAL" -> IF TypeOf(e.s) = "TRISTATE" /\ e.v = "n" THEN Sym(e.s) ELSE e
    [] OTHER -> e

Compared(e, type, c) ==
  CASE c = "m" -> IF type = "EQUAL" THEN Sym("n") ELSE Sym("y")
    [] (c = "y") = (type = "EQUAL") /\ c # "m" -> e
    [] OTHER -> One(e)

\* e = sym or e # sym, as an expression; for AND and OR only y and n.
RECURSIVE expr_trans_compare(_, _, _)
expr_trans_compare(e, type, c) ==
  LET Not(x) == IF type = "UNEQUAL" THEN One(x) ELSE x
      Parts(op) == Two(op, expr_trans_compare(e.l, "EQUAL", c), expr_trans_compare(e.r, "EQUAL", c))
  IN  CASE e.t = "NULL" -> Not(Sym(c))
        [] e.t = "AND" -> Not(CASE c = "y" -> Parts("AND") [] c = "n" -> Parts("OR") [] OTHER -> e)
        [] e.t = "OR" -> Not(CASE c = "y" -> Parts("OR") [] c = "n" -> Parts("AND") [] OTHER -> e)
        [] e.t = "NOT" ->
             expr_trans_compare(e.l, IF type = "EQUAL" THEN "UNEQUAL" ELSE "EQUAL", c)
        [] e.t \in Relation -> Compared(e, type, c)
        [] e.t = "SYMBOL" -> Comp(type, e.s, c)

RECURSIVE expr_contains_symbol(_, _)
expr_contains_symbol(e, s) ==
  CASE e.t \in {"AND", "OR"} -> expr_contains_symbol(e.l, s) \/ expr_contains_symbol(e.r, s)
    [] e.t = "NOT" -> expr_contains_symbol(e.l, s)
    [] e.t = "SYMBOL" -> e.s = s
    [] e.t \in Relation -> s \in {e.s, e.v}
    [] OTHER -> FALSE

Requires(e, s) ==
  /\ e.s = s /\ e.t \in {"EQUAL", "UNEQUAL"}
  /\ IF e.t = "EQUAL" THEN e.v \in {"y", "m"} ELSE e.v = "n"

RECURSIVE expr_depends_symbol(_, _)
expr_depends_symbol(e, s) ==
  CASE e.t = "AND" -> expr_depends_symbol(e.l, s) \/ expr_depends_symbol(e.r, s)
    [] e.t = "SYMBOL" -> e.s = s
    [] e.t \in Relation -> Requires(e, s)
    [] OTHER -> FALSE
-----------------------------------------------------------------------------
(* Printing, as a row of tokens; a choice, which has no name, has a token of *)
(* its own.                                                                  *)

\* expr_compare_type: what binds more loosely than the operator around it goes
\* into brackets.
Rank == [OR |-> 1, AND |-> 2, NOT |-> 3, EQUAL |-> 4, UNEQUAL |-> 4, LTH |-> 5, LEQ |-> 5,
         GTH |-> 5, GEQ |-> 5, SYMBOL |-> 9, NONE |-> 0]

RECURSIVE expr_print(_, _)
expr_print(e, prevtoken) ==
  LET text == CASE e.t = "NULL" -> <<"y">>
                [] e.t = "SYMBOL" -> <<e.s>>
                [] e.t = "NOT" -> <<"!">> \o expr_print(e.l, "NOT")
                [] e.t \in Relation -> <<e.s, e.t, e.v>>
                [] OTHER -> expr_print(e.l, e.t) \o <<e.t>> \o expr_print(e.r, e.t)
  IN  IF e.t # "NULL" /\ Rank[prevtoken] > Rank[e.t] THEN <<"(">> \o text \o <<")">> ELSE text

=============================================================================
