------------------------------ MODULE SymStore -------------------------------
(***************************************************************************)
(* The symbols of kconfig (libs/parser/symbol.c): what the user set, what  *)
(* is computed from it when it is asked for, and what stays cached until   *)
(* everything is declared invalid.  The C functions change the symbols     *)
(* they are given and those they meet on the way; here each takes the      *)
(* store of all symbols and returns it as it leaves it.  Dependencies are  *)
(* without a cycle here; SymCheck is about the search for those.           *)
(***************************************************************************)
EXTENDS Expr, FiniteSets, FiniteSetsExt, SequencesExt

CONSTANTS SymbolList,  (* for_all_symbols: the symbols in the order of the *)
                       (*   hash table                                     *)
          Props,       (* of each symbol: prompts, the conditions of its   *)
                       (*   prompts; defaults, [expr, cond]; ranges,       *)
                       (*   [lo, hi, cond]; dir, rev and imp, what it      *)
                       (*   depends on, what selects and implies it        *)
          ChoiceOf,    (* of each choice value, its choice                 *)
          Optional,    (* the choices that may be n                         *)
          AllNoY,      (* the symbols with allnoconfig_y                   *)
          Numeral,     (* the numbers that are written in Props            *)
          Modules      (* modules_sym                                      *)

ASSUME StoreAssumption ==
  /\ ToSet(SymbolList) = DOMAIN Props /\ DOMAIN Props \subseteq DOMAIN Type
  /\ Modules \in DOMAIN Props /\ DOMAIN ChoiceOf \subseteq DOMAIN Props

Symbol == ToSet(SymbolList)

\* F(e), and FoldLeft, with every store computed before the next is begun: TLC
\* would put an argument off until it is looked at, one inside the other.
After(F(_), e) == CHOOSE y \in {F(x) : x \in {e}} : TRUE
Steps(op(_, _), base, seq) ==
  After(LAMBDA b : FoldLeft(LAMBDA y, e : After(LAMBDA x : op(x, e), y), b, seq), base)

no == 0
mod == 1
yes == 2
Least(a, b) == IF a < b THEN a ELSE b
Most(a, b) == IF a > b THEN a ELSE b

sym_is_choice_value(s) == s \in DOMAIN ChoiceOf
sym_is_choice(s) == \E v \in DOMAIN ChoiceOf : ChoiceOf[v] = s
Members(c) == SelectSeq(SymbolList, LAMBDA v : sym_is_choice_value(v) /\ ChoiceOf[v] = c)

\* symbol_empty, as a number and as a choice.
Empty == -1
Unset(s) == IF sym_is_choice(s) THEN "none" ELSE Empty

\* Nothing set, nothing computed.
Blank ==
  [tri |-> [s \in Symbol |-> no], val |-> [s \in Symbol |-> Unset(s)],
   visible |-> [s \in Symbol |-> no], pvis |-> [s \in Symbol |-> [i \in DOMAIN Props[s].prompts |-> no]],
   dir |-> [s \in Symbol |-> no], rev |-> [s \in Symbol |-> no], imp |-> [s \in Symbol |-> no],
   utri |-> [s \in Symbol |-> no], uval |-> [s \in Symbol |-> Unset(s)],
   user |-> {}, valid |-> {}, write |-> {}, need |-> {}, changed |-> FALSE]

sym_has_value(st, s) == s \in st.user
modules_val(st) == st.tri[Modules]

sym_get_type(st, s) ==
  IF Type[s] = "TRISTATE" /\ ((sym_is_choice_value(s) /\ st.visible[s] = yes) \/ modules_val(st) = no)
  THEN "BOOLEAN" ELSE Type[s]

\* The symbols of an expression, from left to right.
RECURSIVE SymsOf(_)
SymsOf(e) ==
  LET Var(s) == IF s \in Symbol THEN <<s>> ELSE <<>> IN
  CASE e.t \in {"AND", "OR"} -> SymsOf(e.l) \o SymsOf(e.r)
    [] e.t = "NOT" -> SymsOf(e.l)
    [] e.t = "SYMBOL" -> Var(e.s)
    [] e.t \in Relation -> Var(e.s) \o Var(e.v)
    [] OTHER -> <<>>

\* The values an expression sees.
Seen(st) ==
  [s \in DOMAIN st.tri \cup DOMAIN Numeral |->
     IF s \in DOMAIN Numeral THEN Numeral[s] ELSE IF Type[s] = "INT" THEN st.val[s] ELSE st.tri[s]]

RECURSIVE Computed(_, _), AllComputed(_, _), ExprValue(_, _)
AllComputed(st, list) ==
  IF ToSet(list) \subseteq st.valid THEN st ELSE AllComputed(Computed(st, Head(list)), Tail(list))

\* The value of an expression, and the store with its symbols computed.
Value(st, e) == [st |-> st, v |-> expr_calc_value(e, Seen(st))]
ExprValue(st, e) == Value(AllComputed(st, SymsOf(e)), e)

\* A symbol is computed as the expression that consists of it.
sym_calc_value(st, s) == ExprValue(st, Sym(s)).st
CalcList(st, list) == Steps(sym_calc_value, st, list)

\* The first property whose condition holds, 0 if none; the store with the
\* conditions up to it computed; and its condition.
RECURSIVE FirstProp(_, _, _), FirstFrom(_, _, _)
FirstFrom(x, props, i) ==
  IF x.v # no THEN [st |-> x.st, i |-> i, v |-> x.v] ELSE FirstProp(x.st, props, i + 1)
FirstProp(st, props, i) ==
  IF i > Len(props) THEN [st |-> st, i |-> 0, v |-> no]
  ELSE FirstFrom(ExprValue(st, props[i].cond), props, i)

sym_get_default_prop(st, s) == FirstProp(st, Props[s].defaults, 1)
sym_get_range_prop(st, s) == FirstProp(st, Props[s].ranges, 1)

\* The number of a symbol or of a numeral, and the store that has it computed.
RangeNumber(st, x) ==
  [st |-> st, v |-> IF x \in DOMAIN Numeral THEN Numeral[x] ELSE Most(st.val[x], 0)]
RangeVal(st, x) == RangeNumber(IF x \in DOMAIN Numeral THEN st ELSE sym_calc_value(st, x), x)

\* The range that holds, if one does, is looked at from below.
ClampTo(hi, s, v) == IF v <= hi.v THEN hi.st ELSE [hi.st EXCEPT !.val[s] = hi.v]
ClampFrom(lo, s, v, x) ==
  IF v < lo.v THEN [lo.st EXCEPT !.val[s] = lo.v] ELSE ClampTo(RangeVal(lo.st, x), s, v)
ClampIn(p, s, v) ==
  IF p.i = 0 THEN p.st
  ELSE ClampFrom(RangeVal(p.st, Props[s].ranges[p.i].lo), s, v, Props[s].ranges[p.i].hi)

sym_validate_range(st, s) ==
  IF Type[s] # "INT" THEN st ELSE ClampIn(sym_get_range_prop(st, s), s, Most(st.val[s], 0))

-----------------------------------------------------------------------------
(* Visibility and limits. *)

\* A prompt of a tristate choice value is not visible as m in a choice that is y.
PromptLimit(st, s, v) ==
  IF sym_is_choice_value(s) /\ Type[s] = "TRISTATE" /\ v = mod /\ st.tri[ChoiceOf[s]] = yes
  THEN no ELSE v

SetPrompt(x, s, i) == [x.st EXCEPT !.pvis[s][i] = PromptLimit(x.st, s, x.v)]

RECURSIVE CalcPrompts(_, _, _)
CalcPrompts(st, s, i) ==
  IF i > Len(Props[s].prompts) THEN st
  ELSE CalcPrompts(SetPrompt(ExprValue(st, Props[s].prompts[i]), s, i), s, i + 1)

\* What is m for a symbol that cannot be is y.
NoMod(st, s, v) == IF v = mod /\ sym_get_type(st, s) = "BOOLEAN" THEN yes ELSE v

CalcPart(st, e, none) == IF e = Null THEN [st |-> st, v |-> none] ELSE ExprValue(st, e)

Implied(st, s) ==
  IF st.dir[s] = no THEN [st |-> st, v |-> no] ELSE CalcPart(st, Props[s].imp, no)

SetVisible(st, s) ==
  LET tri == Max({no} \cup {st.pvis[s][i] : i \in DOMAIN st.pvis[s]}) IN
  [st EXCEPT !.visible[s] =
     IF tri = mod /\ (Type[s] # "TRISTATE" \/ modules_val(st) = no) THEN yes ELSE tri]
SetDir(x, s) == [x.st EXCEPT !.dir[s] = IF x.v = mod THEN yes ELSE x.v]
SetRev(x, s) == [x.st EXCEPT !.rev[s] = NoMod(x.st, s, x.v)]
SetImp(x, s) == [x.st EXCEPT !.imp[s] = NoMod(x.st, s, x.v)]

\* A choice value has no limits of its own.
CalcLimits(st, s) ==
  IF sym_is_choice_value(s) THEN st
  ELSE SetImp(Implied(SetRev(CalcPart(SetDir(CalcPart(st, Props[s].dir, yes), s),
                                      Props[s].rev, no), s), s), s)

sym_calc_visibility(st, s) == CalcLimits(SetVisible(CalcPrompts(st, s, 1), s), s)

-----------------------------------------------------------------------------
(* Choices. *)

\* The visible default that comes first, else the first visible member.
RECURSIVE ChoiceDefault(_, _, _), DefaultFrom(_, _, _)
DefaultFrom(x, c, i) ==
  LET s == Props[c].defaults[i].expr.s IN
  IF x.v # no /\ x.st.visible[s] # no THEN [st |-> x.st, v |-> s] ELSE ChoiceDefault(x.st, c, i + 1)
ChoiceDefault(st, c, i) ==
  IF i > Len(Props[c].defaults)
  THEN LET shown == SelectSeq(Members(c), LAMBDA v : st.visible[v] # no)
       IN  [st |-> st, v |-> IF shown = <<>> THEN "none" ELSE Head(shown)]
  ELSE DefaultFrom(ExprValue(st, Props[c].defaults[i].cond), c, i)

sym_choice_default(st, c) == ChoiceDefault(st, c, 1)

Shown(st, v) == v # "none" /\ st.visible[v] # no

\* The members are made visible or not; a choice counts as set only when its
\* visible members do.
NewMembers(st, c) ==
  IF \E v \in ToSet(Members(c)) : st.visible[v] # no /\ v \notin st.user
  THEN [st EXCEPT !.user = @ \ {c}] ELSE st
TakeDefault(d, c) ==
  IF d.v = "none" THEN [d.st EXCEPT !.tri[c] = no, !.val[c] = "none"] ELSE [d.st EXCEPT !.val[c] = d.v]
TakeMember(st, c) ==
  IF Shown(st, st.uval[c]) THEN [st EXCEPT !.val[c] = st.uval[c]]
  ELSE TakeDefault(sym_choice_default(st, c), c)

sym_calc_choice(st, c) == TakeMember(NewMembers(Steps(sym_calc_visibility, st, Members(c)), c), c)

set_all_choice_values(st, c) ==
  [st EXCEPT !.utri = [s \in Symbol |-> IF s \in ToSet(Members(c)) \ st.user THEN no ELSE @[s]],
             !.user = @ \cup {c}, !.valid = @ \ {c}, !.need = @ \ {c}]

-----------------------------------------------------------------------------
(* Values. *)

Promoted(st, s, v) ==
  IF v = mod /\ (sym_get_type(st, s) = "BOOLEAN" \/ st.imp[s] = yes) THEN yes ELSE v

\* A bool or tristate that is neither set by the user nor a choice: its
\* default, as far as the condition goes, and what implies it.
WriteIf(st, s, cond) == IF cond THEN [st EXCEPT !.write = @ \cup {s}] ELSE st

AsFarAs(x, s, cond) == [st |-> WriteIf(x.st, s, TRUE), v |-> Least(x.v, cond)]
DefaultTo(d, s) ==
  IF d.i = 0 THEN [st |-> d.st, v |-> no]
  ELSE AsFarAs(ExprValue(d.st, Props[s].defaults[d.i].expr), s, d.v)
OrImplied(x, s, imp) == [st |-> WriteIf(x.st, s, imp # no), v |-> Most(x.v, imp)]

DefaultTri(st, s) ==
  IF sym_is_choice(s) THEN [st |-> st, v |-> no]
  ELSE OrImplied(DefaultTo(sym_get_default_prop(st, s), s), s, st.imp[s])

SetTri(x, s, rev) == [x.st EXCEPT !.tri[s] = Promoted(x.st, s, Most(x.v, rev))]

CalcTri(st, s) ==
  LET shown == WriteIf(st, s, st.visible[s] # no) IN
  IF sym_is_choice_value(s) /\ st.visible[s] = yes
  THEN [st EXCEPT !.tri[s] = IF st.val[ChoiceOf[s]] = s THEN yes ELSE no]
  ELSE SetTri(IF st.visible[s] # no /\ sym_has_value(st, s)
              THEN [st |-> shown, v |-> Least(st.utri[s], st.visible[s])]
              ELSE DefaultTri(WriteIf(shown, s, st.rev[s] # no), s),
              s, st.rev[s])

\* A number: the user's, else the default.
SetVal(st, s, x) == [st EXCEPT !.val[s] = IF x \in DOMAIN Numeral THEN Numeral[x] ELSE st.val[x]]
TakeVal(st, s, x) == SetVal(IF x \in DOMAIN Numeral THEN st ELSE sym_calc_value(st, x), s, x)
DefaultVal(d, s) ==
  IF d.i = 0 THEN d.st ELSE TakeVal(WriteIf(d.st, s, TRUE), s, Props[s].defaults[d.i].expr.s)

CalcVal(st, s) ==
  LET shown == WriteIf(st, s, st.visible[s] # no) IN
  IF st.visible[s] # no /\ sym_has_value(st, s) THEN [shown EXCEPT !.val[s] = st.uval[s]]
  ELSE DefaultVal(sym_get_default_prop(shown, s), s)

\* The parts of sym_calc_value, in their order.
Awaited(st, s) ==
  IF sym_is_choice_value(s) /\ s \in st.need
  THEN sym_calc_value([st EXCEPT !.need = @ \ {s}], ChoiceOf[s]) ELSE st
Started(st, s) ==
  [st EXCEPT !.valid = @ \cup {s}, !.write = IF sym_is_choice_value(s) THEN @ ELSE @ \ {s}]
Cleared(st, s) == [st EXCEPT !.tri[s] = no, !.val[s] = Unset(s)]
CalcOwn(st, s) == IF Type[s] = "INT" THEN CalcVal(st, s) ELSE CalcTri(st, s)
CalcChoice(st, s) == IF sym_is_choice(s) /\ st.tri[s] = yes THEN sym_calc_choice(st, s) ELSE st
WriteMembers(st, s) ==
  IF sym_is_choice(s) /\ s \in st.write
  THEN [st EXCEPT !.write = @ \cup {v \in ToSet(Members(s)) : st.visible[v] # no}] ELSE st
SetNeeded(st, s) == IF s \in st.need THEN set_all_choice_values(st, s) ELSE st

Calculated(st, s) == SetNeeded(WriteMembers(sym_validate_range(st, s), s), s)
Computed(st, s) ==
  IF s \in st.valid THEN st
  ELSE After(LAMBDA seen : After(LAMBDA x : Calculated(x, s), CalcChoice(CalcOwn(Cleared(seen, s), s), s)),
             sym_calc_visibility(Started(Awaited(st, s), s), s))

sym_clear_all_valid(st) == sym_calc_value([st EXCEPT !.valid = {}, !.changed = TRUE], Modules)

-----------------------------------------------------------------------------
(* Setting. *)

Within(st, s, v) == v >= st.rev[s] /\ v <= st.visible[s]

sym_tristate_within_range(st, s, v) ==
  /\ st.visible[s] # no /\ sym_get_type(st, s) \in {"BOOLEAN", "TRISTATE"}
  /\ ~(sym_get_type(st, s) = "BOOLEAN" /\ v = mod)
  /\ st.visible[s] > st.rev[s]
  /\ ~(st.imp[s] = yes /\ v = mod)
  /\ IF sym_is_choice_value(s) /\ st.visible[s] = yes THEN v = yes ELSE Within(st, s, v)

sym_is_changable(st, s) == st.visible[s] > st.rev[s]

\* Setting a choice value chooses it, and sets the others that can be seen.
Choose(st, s, v) ==
  LET c == ChoiceOf[s] IN
  IF ~sym_is_choice_value(s) \/ v # yes THEN st
  ELSE [st EXCEPT !.uval[c] = s,
                  !.user = @ \cup {c} \cup {x \in ToSet(Members(c)) : st.visible[x] # no}]

\* The store, and whether the value was taken.
sym_set_tristate_value(st, s, v) ==
  LET st1 == [Choose([st EXCEPT !.user = @ \cup {s}], s, v) EXCEPT !.utri[s] = v]
  IN  IF st.tri[s] # v /\ ~sym_tristate_within_range(st, s, v) THEN [st |-> st, ok |-> FALSE]
      ELSE [st |-> IF st.tri[s] # v THEN sym_clear_all_valid(st1) ELSE st1, ok |-> TRUE]

\* n, m, y and round again, until one is taken.
RECURSIVE Toggle(_, _, _), ToggleFrom(_, _, _, _)
ToggleFrom(x, s, v, was) ==
  IF x.ok \/ v = was THEN [st |-> x.st, v |-> v] ELSE Toggle(x.st, s, v)
Toggle(st, s, v) == ToggleFrom(sym_set_tristate_value(st, s, (v + 1) % 3), s, (v + 1) % 3, st.tri[s])

sym_toggle_tristate_value(st, s) == Toggle(st, s, st.tri[s])

\* A text that a symbol may have; no text is no number.
sym_string_valid(s, v) == IF Type[s] = "INT" THEN v # Empty ELSE v \in {no, mod, yes}

\* Of a number: whether it is within the range that holds, and the store with
\* the range computed.
NotAbove(hi, v) == [st |-> hi.st, ok |-> v <= hi.v]
NotBelow(lo, v, x) == IF v < lo.v THEN [st |-> lo.st, ok |-> FALSE] ELSE NotAbove(RangeVal(lo.st, x), v)
WithinRange(p, s, v) ==
  IF p.i = 0 THEN [st |-> p.st, ok |-> TRUE]
  ELSE NotBelow(RangeVal(p.st, Props[s].ranges[p.i].lo), v, Props[s].ranges[p.i].hi)

sym_string_within_range(st, s, v) ==
  IF ~sym_string_valid(s, v) THEN [st |-> st, ok |-> FALSE]
  ELSE WithinRange(sym_get_range_prop(st, s), s, v)

SetString(x, s, v) ==
  LET st1 == [x.st EXCEPT !.user = @ \cup {s}] IN
  IF ~x.ok THEN x
  ELSE [st |-> IF st1.uval[s] = v THEN st1 ELSE sym_clear_all_valid([st1 EXCEPT !.uval[s] = v]),
        ok |-> TRUE]

sym_set_string_value(st, s, v) == SetString(sym_string_within_range(st, s, v), s, v)

\* The value a symbol has when nobody sets it, for a configuration that holds
\* only what differs from it.
DefaultNumber(x, e) ==
  [st |-> x.st, v |-> IF e.s \in DOMAIN Numeral THEN Numeral[e.s] ELSE x.st.val[e.s]]
DefaultText(st0, x, s, cond, modules) ==
  LET a == Most(Least(x.v, cond), st0.rev[s])
      b == IF a = mod /\ ((~sym_is_choice_value(s) /\ modules = no) \/ Type[s] = "BOOLEAN") THEN yes ELSE a
  IN  [st |-> x.st, v |-> Most(b, st0.imp[s])]
DefaultAs(st0, d, s) ==
  LET e == IF d.i = 0 THEN Null ELSE Props[s].defaults[d.i].expr
      x == IF d.i = 0 THEN [st |-> d.st, v |-> no] ELSE ExprValue(d.st, e)
  IN  CASE Type[s] = "INT" /\ d.i = 0 -> [st |-> d.st, v |-> Empty]
        [] Type[s] = "INT" /\ d.i # 0 -> DefaultNumber(x, e)
        [] OTHER -> DefaultText(st0, x, s, d.v, modules_val(d.st))
DefaultIn(st, s) == DefaultAs(st, sym_get_default_prop(st, s), s)

sym_get_string_default(st, s) == DefaultIn(sym_calc_value(sym_calc_visibility(st, s), Modules), s)

\* sym_get_string_value: m is n without modules.
StringValue(st, s) ==
  IF Type[s] = "INT" THEN st.val[s]
  ELSE IF st.tri[s] = mod /\ modules_val(st) = no THEN no ELSE st.tri[s]
=============================================================================
