-------------------------------- MODULE Menu ---------------------------------
(***************************************************************************)
(* The tree of entries that the parser of kconfig builds (the actions of   *)
(* libs/parser/yconf.y over menu.c) and that menu_finalize rebuilds: every *)
(* condition is passed on to what it stands around, entries that depend on *)
(* the one before go below it, blocks without a prompt are dissolved,      *)
(* choices are given their members.  A file is a row of the statements and *)
(* options the grammar reduces.                                            *)
(***************************************************************************)
EXTENDS Expr, FiniteSets, FiniteSetsExt, SequencesExt

CONSTANTS Symbol,   (* the names; each has its type in Type                *)
          Choice,   (* the names of choices, one for each choice statement *)
          Modules,  (* modules_sym                                         *)
          Files     (* the files read                                      *)

VARIABLES file,           \* what is still to be read
          st,             \* entries m, properties ps, symbols sy
          current_menu, current_entry,
          last_entry_ptr, \* the entry and the field that the next one goes to
          parsed          \* <<the store as it was read>>, once it is finalized

vars == <<file, st, current_menu, current_entry, last_entry_ptr, parsed>>

none == "none"
rootmenu == 1

Entry(s, up) ==
  [sym |-> s, parent |-> up, next |-> 0, list |-> 0, prompt |-> 0, dep |-> Null, visibility |-> Null]
Undefined ==
  [type |-> "UNKNOWN", props |-> <<>>, rev |-> Null, imp |-> Null, dir |-> Null,
   optional |-> FALSE, choiceval |-> FALSE, members |-> <<>>]

TypeOK ==
  /\ current_menu \in DOMAIN st.m /\ current_entry \in DOMAIN st.m
  /\ last_entry_ptr \in (DOMAIN st.m) \X {"list", "next"}
  /\ DOMAIN st.sy = Symbol \cup Choice
  /\ \A i \in DOMAIN st.m : st.m[i].prompt \in 0..Len(st.ps) /\ {st.m[i].next, st.m[i].list} \subseteq 0..Len(st.m)

-----------------------------------------------------------------------------
(* Building the tree. *)

\* m stands for m && MODULES.
RECURSIVE menu_check_dep(_)
menu_check_dep(e) ==
  CASE e.t = "NOT" -> One(menu_check_dep(e.l))
    [] e.t \in {"AND", "OR"} -> Two(e.t, menu_check_dep(e.l), menu_check_dep(e.r))
    [] e = Sym("m") -> Two("AND", e, Sym(Modules))
    [] OTHER -> e

\* The entries around one.
RECURSIVE Above(_, _)
Above(m, i) == IF m[i].parent = 0 THEN <<>> ELSE <<m[i].parent>> \o Above(m, m[i].parent)

\* What the menus around a prompt say of their visibility.
Hidden(s, i, dep) ==
  FoldLeft(LAMBDA e, j : expr_alloc_and(e, s.m[j].visibility), dep, Above(s.m, i))

\* A property of entry i and of its symbol; one with a text is its prompt.
menu_add_prop(s, i, type, prompt, expr, dep) ==
  LET vis == IF prompt /\ type = "PROMPT" THEN Hidden(s, i, menu_check_dep(dep)) ELSE menu_check_dep(dep)
      ps == Append(s.ps, [type |-> type, menu |-> i, expr |-> expr, vis |-> vis])
      s1 == [s EXCEPT !.ps = ps, !.m[i].prompt = IF prompt THEN Len(ps) ELSE @]
  IN  IF s.m[i].sym = none THEN s1 ELSE [s1 EXCEPT !.sy[s.m[i].sym].props = Append(@, Len(ps))]

menu_add_symbol(s, i, type, name, dep) == menu_add_prop(s, i, type, FALSE, Sym(name), dep)

menu_set_type(s, i, type) ==
  [s EXCEPT !.sy[s.m[i].sym].type = IF @ = "UNKNOWN" THEN type ELSE @]

\* A new entry at the place of last_entry_ptr.
Linked(s, name) ==
  LET i == Len(s.m) + 1
      m == Append(s.m, Entry(name, current_menu))
      at == last_entry_ptr[1]
      s1 == [s EXCEPT !.m = IF last_entry_ptr[2] = "list" THEN [m EXCEPT ![at].list = i]
                            ELSE [m EXCEPT ![at].next = i]]
  IN  IF name = none THEN s1 ELSE menu_add_symbol(s1, i, "SYMBOL", name, Null)

menu_add_entry(s) ==
  /\ last_entry_ptr' = <<Len(s.m), "next">> /\ current_entry' = Len(s.m)
  /\ st' = s

menu_add_menu(i) == current_menu' = i /\ last_entry_ptr' = <<i, "list">>

-----------------------------------------------------------------------------
(* The rules of the grammar. *)

Reads(rule) == file # <<>> /\ Head(file)[1] = rule /\ file' = Tail(file) /\ UNCHANGED parsed
Arg == Head(file)[2]
Cond == Head(file)[3]
Places == <<current_menu, current_entry, last_entry_ptr>>

Config ==
  /\ Reads("config")
  /\ menu_add_entry([Linked(st, Arg) EXCEPT !.sy[Arg].optional = TRUE]) /\ UNCHANGED current_menu

ChoiceStart ==
  /\ Reads("choice") /\ UNCHANGED current_menu
  /\ menu_add_entry(menu_add_prop(Linked(st, Arg), Len(st.m) + 1, "CHOICE", FALSE, Null, Null))

MenuOrComment ==
  /\ Reads("menu") \/ Reads("comment")
  /\ menu_add_entry(menu_add_prop(Linked(st, none), Len(st.m) + 1, IF Head(file)[1] = "menu" THEN "MENU" ELSE "COMMENT",
                                  TRUE, Null, Null))
  /\ UNCHANGED current_menu

If ==
  /\ Reads("if")
  /\ LET s == Linked(st, none) IN st' = [s EXCEPT !.m[Len(s.m)].dep = menu_check_dep(Arg)]
  /\ current_entry' = Len(st.m) + 1
  /\ menu_add_menu(Len(st.m) + 1)

\* Where the options of a menu or a choice end.
Enter == Reads("enter") /\ menu_add_menu(current_entry) /\ UNCHANGED <<st, current_entry>>

End ==
  /\ Reads("end")
  /\ last_entry_ptr' = <<current_menu, "next">> /\ current_menu' = st.m[current_menu].parent
  /\ UNCHANGED <<st, current_entry>>

SetType == Reads("type") /\ st' = menu_set_type(st, current_entry, Arg) /\ UNCHANGED Places

Option ==
  /\ \/ Reads("prompt") /\ st' = menu_add_prop(st, current_entry, "PROMPT", TRUE, Null, Arg)
     \/ Reads("default") /\ st' = menu_add_prop(st, current_entry, "DEFAULT", FALSE, Arg, Cond)
     \/ Reads("select") /\ st' = menu_add_symbol(st, current_entry, "SELECT", Arg, Cond)
     \/ Reads("imply") /\ st' = menu_add_symbol(st, current_entry, "IMPLY", Arg, Cond)
     \/ Reads("optional") /\ st' = [st EXCEPT !.sy[st.m[current_entry].sym].optional = TRUE]
  /\ UNCHANGED Places

\* The end of a menuconfig statement.
AsMenu ==
  /\ Reads("asmenu") /\ UNCHANGED Places
  /\ st' = IF st.m[current_entry].prompt = 0 THEN st ELSE [st EXCEPT !.ps[st.m[current_entry].prompt].type = "MENU"]

Depends ==
  /\ Reads("depends") /\ UNCHANGED Places
  /\ st' = [st EXCEPT !.m[current_entry].dep = expr_alloc_and(@, menu_check_dep(Arg))]

VisibleIf ==
  /\ Reads("visible") /\ UNCHANGED Places
  /\ st' = [st EXCEPT !.m[current_entry].visibility = expr_alloc_and(@, Arg)]

-----------------------------------------------------------------------------
(* menu_finalize. *)

Rewritten(e) == expr_eliminate_dups(expr_transform(e))
Under(base, e) == expr_eliminate_dups(expr_alloc_and(base, expr_transform(e)))

is_choice(s) == s \in Choice

RECURSIVE Chain(_, _)
Chain(m, i) == IF i = 0 THEN <<>> ELSE <<i>> \o Chain(m, m[i].next)

Own(s, i) ==
  IF s.m[i].sym # none THEN SelectSeq(s.sy[s.m[i].sym].props, LAMBDA j : s.ps[j].menu = i)
  ELSE IF s.m[i].prompt = 0 THEN <<>> ELSE <<s.m[i].prompt>>

\* A choice without a type takes that of its first member with one, and gives
\* it to the members without.
ChoiceTypes(s, p) ==
  LET list == SelectSeq(Chain(s.m, s.m[p].list), LAMBDA i : s.m[i].sym # none)
      typed == SelectSeq(list, LAMBDA i : s.sy[s.m[i].sym].type # "UNKNOWN")
      s1 == IF typed = <<>> THEN s ELSE menu_set_type(s, p, s.sy[s.m[Head(typed)].sym].type)
  IN  FoldLeft(LAMBDA t, i : menu_set_type(t, i, t.sy[t.m[p].sym].type), s1, list)

ParentDep(s, p) ==
  CASE is_choice(s.m[p].sym) -> Sym(s.m[p].sym)
    [] ~is_choice(s.m[p].sym) /\ s.m[p].prompt # 0 -> s.ps[s.m[p].prompt].vis
    [] OTHER -> s.m[p].dep

\* Wrong on purpose: the condition of a select is not kept.
PassBare(s, i, base, j) ==
  LET s1 == [s EXCEPT !.ps[j].vis = Under(base, @)]
  IN  IF s.ps[j].type = "SELECT" THEN [s1 EXCEPT !.sy[s.ps[j].expr.s].rev = expr_alloc_or(@, Sym(s.m[i].sym))] ELSE s1

\* A property of entry i gets a condition; what it selects or implies.
Conditional(s, i, j, vis) ==
  LET by == expr_alloc_and(Sym(s.m[i].sym), vis)
      s1 == [s EXCEPT !.ps[j].vis = vis]
  IN  CASE s.ps[j].type = "SELECT" -> [s1 EXCEPT !.sy[s.ps[j].expr.s].rev = expr_alloc_or(@, by)]
        [] s.ps[j].type = "IMPLY" -> [s1 EXCEPT !.sy[s.ps[j].expr.s].imp = expr_alloc_or(@, by)]
        [] OTHER -> s1

\* A property under what its entry depends on.
PassToProp(s, i, base, j) ==
  LET bool == s.m[i].sym # none /\ s.sy[s.m[i].sym].type # "TRISTATE"
      As(d) == IF bool THEN expr_trans_bool(d) ELSE d
  IN  Conditional(s, i, j, As(Under(base, s.ps[j].vis)))

PassBase(s, i, base) ==
  FoldLeft(LAMBDA t, j : PassToProp(t, i, base, j), [s EXCEPT !.m[i].dep = base], Own(s, i))

PassOn(s, parentdep, i) == PassBase(s, i, Under(parentdep, s.m[i].dep))

\* Entry i goes below the symbol before it: it needs the symbol, or it names it
\* and is not shown unless the symbol is.
Belongs(s, sym, basedep, i) ==
  LET dep == IF s.m[i].prompt # 0 THEN s.ps[s.m[i].prompt].vis ELSE s.m[i].dep
      left == expr_eliminate_eq(Rewritten(expr_trans_compare(dep, "UNEQUAL", "n")), basedep)[2]
  IN  expr_contains_symbol(dep, sym) /\ (expr_depends_symbol(dep, sym) \/ left = Sym("y"))

\* The rest of the list from entry i on, cut off after last.
Below(s, p, last) ==
  IF last = 0 THEN s
  ELSE [s EXCEPT !.m[p].list = s.m[p].next, !.m[p].next = s.m[last].next, !.m[last].next = 0]

\* An entry becomes a member of its choice; a bool one of a tristate choice
\* needs the choice to be y.
Member(s, p, i) ==
  LET c == s.m[p].sym
      v == s.m[i].sym
      is == Comp("EQUAL", c, "y")
      s1 == IF s.sy[c].type = "TRISTATE" /\ s.sy[v].type # "TRISTATE"
            THEN FoldLeft(LAMBDA t, j : [t EXCEPT !.ps[j].vis = expr_alloc_and(is, @)],
                          [s EXCEPT !.m[i].dep = expr_alloc_and(is, @)], Own(s, i))
            ELSE s
  IN  [menu_add_symbol(s1, i, "CHOICE", c, Null)
         EXCEPT !.sy[v].choiceval = TRUE, !.sy[c].members = Append(@, v)]

\* The entries below one without a prompt come behind it.
Dissolved(s, p, i) ==
  LET in == Chain(s.m, s.m[i].list) IN
  [FoldLeft(LAMBDA t, j : [t EXCEPT !.m[j].parent = p], s, in)
     EXCEPT !.m[Last(in)].next = s.m[i].next, !.m[i].next = s.m[i].list, !.m[i].list = 0]

RECURSIVE Tidy(_, _, _)
Tidy(s, p, i) ==
  LET c == s.m[p].sym
      v == s.m[i].sym
      s1 == IF is_choice(c) /\ v # none /\ ~s.sy[v].choiceval THEN Member(s, p, i) ELSE s
      s2 == IF s1.m[i].list # 0 /\ s1.m[i].prompt = 0 THEN Dissolved(s1, p, i) ELSE s1
  IN  IF i = 0 THEN s ELSE Tidy(s2, p, s2.m[i].next)

\* A choice that is not optional is at least m where it is shown.
NotOptional(s, p) ==
  LET c == s.m[p].sym IN
  IF c = none \/ s.m[p].prompt = 0 THEN s
  ELSE IF s.sy[c].optional THEN s
  ELSE [s EXCEPT !.sy[c].rev = expr_alloc_or(@, expr_alloc_and(s.ps[s.m[p].prompt].vis, Sym("m")))]

RECURSIVE menu_finalize(_, _), FinalizeList(_, _), Absorb(_, _, _, _, _)

FinalizeList(s, i) ==
  IF i = 0 THEN s ELSE LET s1 == menu_finalize(s, i) IN FinalizeList(s1, s1.m[i].next)

Absorb(s, p, basedep, i, last) ==
  IF i = 0 THEN Below(s, p, last)
  ELSE IF ~Belongs(s, s.m[p].sym, basedep, i) THEN Below(s, p, last)
  ELSE LET s1 == [menu_finalize(s, i) EXCEPT !.m[i].parent = p]
       IN  Absorb(s1, p, basedep, s1.m[i].next, i)

PassBelow(s, p) ==
  FoldLeft(LAMBDA t, i : PassOn(t, ParentDep(s, p), i), s, Chain(s.m, s.m[p].list))
Block(s, p) ==
  FinalizeList(PassBelow(IF is_choice(s.m[p].sym) THEN ChoiceTypes(s, p) ELSE s, p), s.m[p].list)

DependsAs(s, p) == [s EXCEPT !.sy[s.m[p].sym].dir = expr_alloc_or(@, s.m[p].dep)]
Single(s, p) ==
  LET shown == IF s.m[p].prompt = 0 THEN Null ELSE s.ps[s.m[p].prompt].vis IN
  DependsAs(Absorb(s, p, Rewritten(expr_trans_compare(shown, "UNEQUAL", "n")), s.m[p].next, 0), p)

TidyBelow(s, p) == NotOptional(Tidy(s, p, s.m[p].list), p)

menu_finalize(s, p) ==
  TidyBelow(IF s.m[p].list # 0 THEN Block(s, p)
            ELSE IF s.m[p].sym # none THEN Single(s, p) ELSE s, p)

Finalize ==
  /\ file = <<>> /\ parsed = <<>>
  /\ parsed' = <<st>> /\ st' = menu_finalize(st, rootmenu)
  /\ UNCHANGED <<file, current_menu, current_entry, last_entry_ptr>>

-----------------------------------------------------------------------------
Init ==
  /\ file \in Files
  /\ st = [m |-> <<[Entry(none, 0) EXCEPT !.prompt = 1]>>,
           ps |-> <<[type |-> "MENU", menu |-> rootmenu, expr |-> Null, vis |-> Null]>>,
           sy |-> [s \in Symbol \cup Choice |-> Undefined]]
  /\ current_menu = rootmenu /\ current_entry = rootmenu
  /\ last_entry_ptr = <<rootmenu, "list">> /\ parsed = <<>>

Next ==
  \/ Config \/ ChoiceStart \/ MenuOrComment \/ If \/ Enter \/ End
  \/ SetType \/ Option \/ AsMenu \/ Depends \/ VisibleIf \/ Finalize

Spec == Init /\ [][Next]_vars

-----------------------------------------------------------------------------
(* Properties. *)

Done == parsed # <<>>
Old == parsed[1]

RECURSIVE Walk(_, _)
Walk(m, i) == IF i = 0 THEN <<>> ELSE <<i>> \o Walk(m, m[i].list) \o Walk(m, m[i].next)

\* However the tree is rebuilt, every entry is met once and in the order of the
\* file by who walks along list, next and parent (conf_write does), and none
\* without a prompt stands around others.
TreeInOrder ==
  LET m == st.m IN
  /\ Walk(m, rootmenu) = [i \in DOMAIN m |-> i]
  /\ Done =>
       \A i \in DOMAIN m : \A j \in ToSet(Chain(m, m[i].list)) : m[j].parent = i /\ m[i].prompt # 0

Values == {v \in [Symbol \cup Choice -> 0..2] : \A s \in Symbol \cup Choice : Type[s] = "BOOLEAN" => v[s] # 1}
Min2(a, b) == IF a < b THEN a ELSE b

\* What an entry depends on as it is written: its own conditions and those of
\* all that stands around it.
RECURSIVE AsWritten(_, _)
AsWritten(i, v) ==
  LET p == Old.m[i].parent
      around == CASE p = 0 -> 2
                  [] p # 0 /\ is_choice(Old.m[p].sym) -> v[Old.m[p].sym]
                  [] p # 0 /\ ~is_choice(Old.m[p].sym) /\ Old.m[p].prompt # 0 ->
                       Min2(AsWritten(p, v), expr_calc_value(Old.ps[Old.m[p].prompt].vis, v))
                  [] OTHER -> AsWritten(p, v)
  IN  Min2(around, expr_calc_value(Old.m[i].dep, v))

\* A bool member of a tristate choice is there only while the choice is y.
MemberOff(i, v) ==
  LET p == st.m[i].parent IN
  /\ p # 0 /\ is_choice(st.m[p].sym) /\ st.m[i].sym # none
  /\ st.sy[st.m[p].sym].type = "TRISTATE" /\ st.sy[st.m[i].sym].type # "TRISTATE" /\ v[st.m[p].sym] # 2

PropAsWritten(j, v) == Min2(AsWritten(Old.ps[j].menu, v), expr_calc_value(Old.ps[j].vis, v))

\* After all the passing on and rewriting the condition of a property is what
\* the file says, whatever the symbols are set to; for what is no tristate only
\* as far as n or not.
VisibleAsWritten ==
  Done => \A j \in DOMAIN Old.ps, v \in Values :
            LET i == Old.ps[j].menu
                now == expr_calc_value(st.ps[j].vis, v)
                then == IF MemberOff(i, v) THEN 0 ELSE PropAsWritten(j, v)
            IN  /\ now = 0 <=> then = 0
                /\ st.m[i].sym # none /\ st.sy[st.m[i].sym].type = "TRISTATE" => now = then

\* menu_is_visible, but for the mark it leaves on a symbol.
RECURSIVE menu_is_visible(_, _)
menu_is_visible(i, v) ==
  LET e == st.m[i] IN
  /\ e.prompt # 0 /\ expr_calc_value(e.visibility, v) # 0
  /\ \/ expr_calc_value(st.ps[e.prompt].vis, v) # 0
     \/ e.sym # none /\ v[e.sym] # 0 /\ \E j \in ToSet(Chain(st.m, e.list)) : menu_is_visible(j, v)

Asked(i, v) == st.m[i].sym # none /\ st.m[i].prompt # 0 /\ expr_calc_value(st.ps[st.m[i].prompt].vis, v) # 0

\* What the documentation says of an entry put below another: it is not visible
\* unless the other is shown, or the other is on.
ParentVisible ==
  Done => \A i \in DOMAIN st.m \ {rootmenu}, v \in Values : Asked(i, v) => menu_is_visible(st.m[i].parent, v)

\* It is so wherever every symbol has a prompt, however deep blocks and entries
\* that name each other end up in one another.
PromptedParentVisible ==
  (\A i \in DOMAIN st.m : st.m[i].sym # none => st.m[i].prompt # 0) => ParentVisible

\* A symbol is selected by exactly what selects it in the file, while that is
\* on and the condition holds, and depends on what one of its entries does.
SelectsAsWritten ==
  Done => \A s \in Symbol, v \in Values :
            LET sel == {j \in DOMAIN Old.ps : Old.ps[j].type = "SELECT" /\ Old.ps[j].expr = Sym(s)}
                def == {i \in DOMAIN Old.m : Old.m[i].sym = s}
            IN  /\ (st.sy[s].rev # Null /\ expr_calc_value(st.sy[s].rev, v) # 0) <=>
                     \E j \in sel : v[Old.m[Old.ps[j].menu].sym] # 0 /\ PropAsWritten(j, v) # 0
                /\ def # {} => (expr_calc_value(st.sy[s].dir, v) # 0 <=> \E i \in def : AsWritten(i, v) # 0)

\* A choice and what is in it end up with a type if any of them has one.
TypesSettled ==
  Done => \A c \in Choice : st.sy[c].members # <<>> =>
            LET all == {c} \cup ToSet(st.sy[c].members) IN
            (\E s \in all : st.sy[s].type # "UNKNOWN") => \A s \in all : st.sy[s].type # "UNKNOWN"

\* What the grammar reads in a row of tokens: the operator that is outside of all
\* brackets and binds most loosely, the last of them, divides it.
RECURSIVE Meaning(_, _)
Meaning(w, v) ==
  LET Count(tok, i) == Cardinality({k \in 1..i : w[k] = tok})
      Outside(op) == {i \in DOMAIN w : w[i] = op /\ Count("(", i) = Count(")", i)}
      Sides(op) == LET i == Max(Outside(op)) IN
                   {Meaning(SubSeq(w, 1, i - 1), v), Meaning(SubSeq(w, i + 1, Len(w)), v)}
  IN  IF Outside("OR") # {} THEN Max(Sides("OR"))
      ELSE IF Outside("AND") # {} THEN Min(Sides("AND"))
      ELSE CASE w[1] = "!" -> 2 - Meaning(Tail(w), v)
             [] w[1] = "(" -> Meaning(SubSeq(w, 2, Len(w) - 1), v)
             [] OTHER -> expr_calc_value(IF Len(w) = 1 THEN Sym(w[1]) ELSE Comp(w[2], w[1], w[3]), v)

\* What the help and the search tell of a symbol - what it depends on, what
\* selects and what implies it - reads as it is meant: the brackets stand where
\* the grammar of the configuration language needs them.
PrintedAsMeant ==
  Done => \A e \in {st.ps[j].vis : j \in DOMAIN st.ps}
                    \cup {st.sy[s].rev : s \in Symbol} \cup {st.sy[s].imp : s \in Symbol}, v \in Values :
            Meaning(expr_print(e, "NONE"), v) = expr_calc_value(e, v)
=============================================================================
