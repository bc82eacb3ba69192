------------------------------ MODULE SymCheck -------------------------------
(***************************************************************************)
(* The search for recursive dependencies that conf_parse makes over all    *)
(* symbols (sym_check_deps, libs/parser/symbol.c): marks on the symbols,   *)
(* a stack of those it is at, and the loops it prints.                     *)
(***************************************************************************)
EXTENDS Naturals, Sequences, FiniteSets, SequencesExt

CONSTANTS SymbolList,  (* for_all_symbols                                  *)
          Graphs,      (* of each symbol, what its properties name, in     *)
                       (*   order, without the symbols it selects          *)
          ChoiceOf     (* of each choice value, its choice                 *)

VARIABLES deps,   \* the graph
          i,      \* for_all_symbols has come so far
          f       \* flags: check and checked; the stack; the loops printed

vars == <<deps, i, f>>

Symbol == ToSet(SymbolList)
None == "none"
is_choice_value(s) == s \in DOMAIN ChoiceOf
is_choice(s) == \E v \in DOMAIN ChoiceOf : ChoiceOf[v] = s
Members(c) == SelectSeq(SymbolList, LAMBDA v : is_choice_value(v) /\ ChoiceOf[v] = c)

dep_stack_insert(g, s) == [g EXCEPT !.stack = Append(@, s)]

dep_stack_remove(g) == [g EXCEPT !.stack = Front(@)]

\* The stack from the last symbol met again; a choice value stands for its choice.
sym_check_print_recursive(g, last) ==
  LET whole == IF is_choice_value(last) THEN Append(g.stack, last) ELSE g.stack
      top == IF is_choice_value(last) THEN ChoiceOf[last] ELSE last
      at == {j \in DOMAIN whole : whole[j] = top}
  IN  IF at = {} THEN [g EXCEPT !.loops = Append(@, <<>>), !.stack = whole]
      ELSE [g EXCEPT !.loops = Append(@, SubSeq(whole, CHOOSE j \in at : \A k \in at : k <= j, Len(whole)))]

RECURSIVE sym_check_deps(_, _, _), CheckList(_, _, _), CheckMembers(_, _, _)

\* The symbols a property names, until one closes a loop.
CheckList(d, g, list) ==
  IF list = <<>> THEN [g |-> g, res |-> None]
  ELSE LET x == sym_check_deps(d, g, Head(list))
       IN  IF x.res # None THEN x ELSE CheckList(d, x.g, Tail(list))

sym_check_sym_deps(d, g, s) ==
  LET x == CheckList(d, dep_stack_insert(g, s), d[s])
  IN  [x EXCEPT !.g = dep_stack_remove(@)]

CheckMembers(d, g, list) ==
  IF list = <<>> THEN [g |-> g, res |-> None]
  ELSE LET x == sym_check_sym_deps(d, g, Head(list))
       IN  IF x.res # None THEN x ELSE CheckMembers(d, x.g, Tail(list))

\* Wrong on purpose: the members are not marked while their choice is checked.
MarkedChoice(c) == {c}

Marked(c) == {c} \cup ToSet(Members(c))

sym_check_choice_deps(d, g, c) ==
  LET g1 == dep_stack_insert(g, c)
      g2 == [g1 EXCEPT !.check = @ \cup Marked(c), !.checked = @ \cup {c} \cup ToSet(Members(c))]
      own == sym_check_sym_deps(d, g2, c)
      g3 == [own.g EXCEPT !.check = @ \ {c}]
      x == IF own.res # None THEN [g |-> g3, res |-> own.res] ELSE CheckMembers(d, g3, Members(c))
      g4 == dep_stack_remove([x.g EXCEPT !.check = @ \ ToSet(Members(c))])
  IN  [g |-> g4, res |-> IF is_choice_value(x.res) /\ ChoiceOf[x.res] = c THEN c ELSE x.res]

StartsAtChoice(s) == is_choice_value(s)

sym_check_deps(d, g, s) ==
  LET own == [g EXCEPT !.check = @ \cup {s}, !.checked = @ \cup {s}]
      x == CASE StartsAtChoice(s) ->
                  LET y == sym_check_deps(d, dep_stack_insert(g, s), ChoiceOf[s])
                  IN  [y EXCEPT !.g = dep_stack_remove(@)]
             [] is_choice(s) -> sym_check_choice_deps(d, g, s)
             [] OTHER ->
                  LET y == sym_check_sym_deps(d, own, s) IN [y EXCEPT !.g.check = @ \ {s}]
  IN  IF s \in g.check THEN [g |-> sym_check_print_recursive(g, s), res |-> s]
      ELSE IF s \in g.checked THEN [g |-> g, res |-> None]
      ELSE [x EXCEPT !.res = IF @ = s THEN None ELSE @]

-----------------------------------------------------------------------------
Init ==
  /\ deps \in Graphs /\ i = 1
  /\ f = [check |-> {}, checked |-> {}, stack |-> <<>>, loops |-> <<>>]

\* One symbol after the other.
Check ==
  /\ i <= Len(SymbolList) /\ i' = i + 1
  /\ f' = sym_check_deps(deps, f, SymbolList[i]).g
  /\ UNCHANGED deps

Next == Check

Spec == Init /\ [][Next]_vars

-----------------------------------------------------------------------------
(* Properties. *)

\* A choice and its members are one when loops are looked for; a member may
\* depend on its choice.
Group(s) == IF is_choice_value(s) THEN ChoiceOf[s] ELSE s
Edge(a, b) ==
  \E s, t \in Symbol :
    /\ Group(s) = a /\ Group(t) = b /\ t \in ToSet(deps[s])
    /\ ~(is_choice_value(s) /\ t = ChoiceOf[s])

RECURSIVE Reached(_)
Reached(S) ==
  LET T == S \cup {b \in Symbol : \E a \in S : Edge(a, b)} IN IF T = S THEN S ELSE Reached(T)

Recursive == \E s \in Symbol : s \in Reached({b \in Symbol : Edge(s, b)})

\* When all symbols have been checked a loop has been printed exactly if there
\* is one, wherever the search began.
LoopsFound == i > Len(SymbolList) => (f.loops # <<>> <=> Recursive)

\* What is printed is a loop: each symbol names the next, or is a choice and
\* its member (a choice stands there twice); marks and stack are taken back.
LoopsReal ==
  /\ \A k \in DOMAIN f.loops :
       LET l == f.loops[k] IN
       /\ l # <<>>
       /\ \A j \in DOMAIN l :
            LET next == IF j < Len(l) THEN l[j + 1] ELSE l[1] IN
            \/ next \in ToSet(deps[l[j]])
            \/ is_choice(next) /\ next = l[j]
            \/ is_choice_value(next) /\ ChoiceOf[next] = l[j]
            \/ is_choice_value(l[j]) /\ ChoiceOf[l[j]] = next
  /\ f.check = {} /\ f.stack = <<>>
=============================================================================
