------------------------------ MODULE ConfStore ------------------------------
(***************************************************************************)
(* What confdata.c does with all symbols at once: it reads a configuration *)
(* into them, prints them in the order of the menu, in full or only what   *)
(* differs from the defaults, and sets all that nobody has set.  A file is *)
(* the sequence of its lines, a line a symbol with a value; the line "is   *)
(* not set" has the value no.  The text of a value is left out.            *)
(***************************************************************************)
EXTENDS SymStore

CONSTANTS MenuOrder,  (* the symbols as the menu tree is walked           *)
          Entries     (* of each entry of the menu tree its symbol, the   *)
                      (*   kind and the number k of its prompt, the       *)
                      (*   condition of a prompt without a symbol, the    *)
                      (*   entries below it and the one above; entry 1 is *)
                      (*   rootmenu                                       *)

ASSUME OrderAssumption == ToSet(MenuOrder) \subseteq Symbol

Line(s, v) == [s |-> s, v |-> v]
NoFile == <<Line("no file", no)>>

IsTri(s) == Type[s] # "INT"

-----------------------------------------------------------------------------
(* Reading. *)

Reset(st) ==
  [st EXCEPT !.user = {s \in Symbol : sym_is_choice(s)}, !.valid = {},
             !.utri = [s \in Symbol |-> no], !.uval = [s \in Symbol |-> Unset(s)]]

\* conf_set_sym_val: m is no value of a bool.
Accepts(s, v) == sym_string_valid(s, v) /\ ~(Type[s] = "BOOLEAN" /\ v = mod)

\* What a line of a choice value says of its choice.
TellChoice(x, s) ==
  LET c == ChoiceOf[s]
      v == x.st.utri[s]
      odd == \/ v = mod /\ x.st.utri[c] = yes
             \/ v = yes /\ x.st.utri[c] # no
      st1 == [x.st EXCEPT !.user = IF v = mod /\ odd THEN @ \ {c} ELSE @,
                          !.uval[c] = IF v = yes THEN s ELSE @,
                          !.utri[c] = Most(@, v)]
  IN  IF sym_is_choice_value(s) THEN [x EXCEPT !.st = st1, !.warned = @ \/ odd] ELSE x

ReadLine(x, line) ==
  LET s == line.s
      st1 == [x.st EXCEPT !.user = @ \cup {s},
                          !.utri[s] = IF IsTri(s) THEN line.v ELSE @,
                          !.uval[s] = IF IsTri(s) THEN @ ELSE line.v]
      again == [x EXCEPT !.warned = @ \/ s \in x.st.user]
  IN  IF s \notin Symbol THEN [x EXCEPT !.st.changed = TRUE]
      ELSE IF ~Accepts(s, line.v) THEN [again EXCEPT !.warned = TRUE]
      ELSE TellChoice([again EXCEPT !.st = st1], s)

conf_read_simple(st, file) == Steps(ReadLine, [st |-> Reset(st), warned |-> FALSE], file)

\* Whether what was read is what the symbol now has.
Agrees(st, s) ==
  IF sym_has_value(st, s)
  THEN s \in st.write /\ IF IsTri(s) THEN st.utri[s] = st.tri[s] ELSE st.uval[s] = st.val[s]
  ELSE s \notin st.write

CompareAs(x, st, s) == [x EXCEPT !.st = st, !.unsaved = @ \/ (~sym_is_choice(s) /\ ~Agrees(st, s))]
CompareOne(x, s) == CompareAs(x, sym_calc_value(x.st, s), s)

\* What cannot be seen is new when it is seen again; a number out of range is
\* forgotten.
ResetNumber(x, r, s) ==
  IF r.ok THEN [x EXCEPT !.st = r.st]
  ELSE [x EXCEPT !.st = [r.st EXCEPT !.user = @ \ {s}, !.valid = @ \ {s}], !.unsaved = TRUE]
ResetOne(x, s) ==
  LET st1 == IF ~x.unsaved /\ x.st.visible[s] = no THEN [x.st EXCEPT !.user = @ \ {s}] ELSE x.st IN
  IF s \notin x.st.user \/ sym_is_choice_value(s) THEN x
  ELSE IF IsTri(s) THEN [x EXCEPT !.st = st1]
  ELSE ResetNumber(x, sym_string_within_range(st1, s, x.st.uval[s]), s)

MarkChanged(x, warned) == [x.st EXCEPT !.changed = @ \/ warned \/ x.unsaved]
Compare(r) ==
  LET x == Steps(CompareOne, [st |-> sym_calc_value(r.st, Modules), unsaved |-> FALSE], SymbolList)
  IN  MarkChanged(Steps(ResetOne, x, SymbolList), r.warned)

conf_read(st, file) ==
  IF file = NoFile THEN sym_calc_value([st EXCEPT !.changed = TRUE], Modules)
  ELSE Compare(conf_read_simple([st EXCEPT !.changed = FALSE], file))

-----------------------------------------------------------------------------
(* Writing. *)

\* A symbol is written once, and counts as written from then on.
WriteLine(x, st, s) ==
  IF s \notin st.write THEN [x EXCEPT !.st = st]
  ELSE [st |-> [st EXCEPT !.write = @ \ {s}], out |-> Append(x.out, Line(s, StringValue(st, s)))]
WriteOne(x, s) == IF sym_is_choice(s) THEN x ELSE WriteLine(x, sym_calc_value(x.st, s), s)

\* The lines of conf_write, and the store as it leaves it.
Written(st) ==
  Steps(WriteOne, [st |-> IF st.changed THEN st ELSE sym_clear_all_valid(st), out |-> <<>>], MenuOrder)

\* The member that a choice has anyway.
IsDefault(st, s, d) ==
  d = s /\ Type[s] = "BOOLEAN" /\ st.tri[s] = yes /\ ChoiceOf[s] \notin Optional

\* Only what can be changed and differs from the default.
ChangeOfMember(x, c, s, v) ==
  [st |-> c.st, out |-> IF IsDefault(c.st, s, c.v) THEN x.out ELSE Append(x.out, Line(s, v))]
ChangeFrom(x, d, s, v) ==
  IF v = d.v THEN [x EXCEPT !.st = d.st]
  ELSE IF ~sym_is_choice_value(s) THEN [st |-> d.st, out |-> Append(x.out, Line(s, v))]
  ELSE ChangeOfMember(x, sym_choice_default(d.st, ChoiceOf[s]), s, v)
ChangeIn(x, st, s) ==
  LET st1 == [st EXCEPT !.write = @ \ {s}] IN
  IF s \notin st.write \/ ~sym_is_changable(st, s) THEN [x EXCEPT !.st = st1]
  ELSE ChangeFrom(x, sym_get_string_default(st1, s), s, StringValue(st, s))
WriteChange(x, s) == IF sym_is_choice(s) THEN x ELSE ChangeIn(x, sym_calc_value(x.st, s), s)

conf_write_defconfig(st) ==
  Steps(WriteChange, [st |-> sym_clear_all_valid(st), out |-> <<>>], MenuOrder)

\* auto.conf, tristate.conf and the header: what is not n, in the order of the
\* hash table; choices have no name.
AutoLine(x, st, s) ==
  LET v == StringValue(st, s) IN
  [st |-> st,
   out |-> IF s \in st.write /\ ~sym_is_choice(s) /\ ~(IsTri(s) /\ v = no)
           THEN Append(x.out, Line(s, v)) ELSE x.out]
AutoOne(x, s) == AutoLine(x, sym_calc_value(x.st, s), s)

AutoLines(st) == Steps(AutoOne, [st |-> st, out |-> <<>>], SymbolList)

tristate_print(lines) == SelectSeq(lines, LAMBDA l : Type[l.s] = "TRISTATE")

\* The header defines a name of its own for what is m, and both as 1.
header_print(lines) ==
  [i \in DOMAIN lines |->
     LET l == lines[i] IN
     [s |-> l.s, module |-> IsTri(l.s) /\ l.v = mod, v |-> IF IsTri(l.s) THEN 1 ELSE l.v]]

-----------------------------------------------------------------------------
(* Setting what nobody has set. *)

\* What conf_set_all_new_symbols makes of a symbol; "random" is what pick says.
NewValue(s, mode, pick) ==
  CASE mode = "yes" -> yes
    [] mode = "mod" -> mod
    [] mode = "no" -> IF s \in AllNoY THEN yes ELSE no
    [] mode = "random" -> IF Type[s] = "TRISTATE" \/ pick[s] # mod THEN pick[s] ELSE no

\* One member, the one picked, is on.
randomize_choice_values(st, c, pick) ==
  LET members == ToSet(Members(c))
      on == Members(c)[1 + (pick[c] % Len(Members(c)))]
  IN  IF st.tri[c] # yes THEN st
      ELSE [st EXCEPT !.utri = [s \in Symbol |-> IF s \notin members THEN @[s] ELSE IF s = on THEN yes ELSE no],
                      !.uval[c] = on, !.user = @ \cup members \cup {c}, !.valid = @ \ (members \cup {c})]

NeedChoices(st, mode) ==
  IF mode = "random" THEN st
  ELSE [st EXCEPT !.need = @ \cup {s \in Symbol : \/ sym_is_choice_value(s)
                                                   \/ (sym_is_choice(s) /\ ~sym_has_value(st, s))}]

SetChoice(st, c, mode, pick) ==
  IF mode = "random" THEN [st |-> randomize_choice_values(st, c, pick), more |-> st.tri[c] = yes]
  ELSE [st |-> set_all_choice_values(st, c), more |-> TRUE]

\* The store, and whether something changed: of several choices the last says.
conf_set_all_new_symbols(st, mode, pick) ==
  LET new == {s \in Symbol : IsTri(s) /\ ~sym_has_value(st, s) /\ s \notin st.valid}
      set == IF mode = "default" THEN st
             ELSE [st EXCEPT !.utri = [s \in Symbol |-> IF s \in new THEN NewValue(s, mode, pick) ELSE @[s]],
                             !.user = @ \cup {s \in new : ~(sym_is_choice(s) /\ mode = "random")}]
      OfChoice(x, c) ==
        IF sym_has_value(x.st, c) THEN x ELSE SetChoice(sym_calc_value(x.st, c), c, mode, pick)
  IN  Steps(OfChoice,
               [st |-> NeedChoices(sym_clear_all_valid(set), mode), more |-> new # {}],
               SelectSeq(SymbolList, sym_is_choice))

-----------------------------------------------------------------------------
(* The menu tree as the configurators look at it (libs/parser/menu.c):     *)
(* which entries can be seen.  Looking computes the symbols, and marks as  *)
(* set those that are shown only for what is below them.                   *)

rootmenu == 1
none == "none"

\* An entry that cannot be seen is shown for what is below it, and counts as set.
MarkSet(x, s) == IF x.v THEN [x EXCEPT !.st.user = @ \cup {s}] ELSE x

RECURSIVE menu_is_visible(_, _), AnyVisible(_, _), AnyFrom(_, _)

\* With what it takes computed.
Visible(st, e) ==
  IF e.sym = none THEN [st |-> st, v |-> expr_calc_value(e.cond, Seen(st)) # no]
  ELSE IF st.pvis[e.sym][e.k] # no \/ st.tri[e.sym] = no THEN [st |-> st, v |-> st.pvis[e.sym][e.k] # no]
  ELSE MarkSet(AnyVisible(st, e.list), e.sym)

menu_is_visible(st, m) ==
  LET e == Entries[m] IN
  IF e.kind = none THEN [st |-> st, v |-> FALSE]
  ELSE Visible(CalcList(st, IF e.sym = none THEN SymsOf(e.cond) ELSE <<e.sym>>), e)

AnyFrom(x, ms) == IF x.v THEN x ELSE AnyVisible(x.st, ms)
AnyVisible(st, ms) ==
  IF ms = <<>> THEN [st |-> st, v |-> FALSE] ELSE AnyFrom(menu_is_visible(st, Head(ms)), Tail(ms))

RECURSIVE menu_get_parent_menu(_)
menu_get_parent_menu(m) ==
  IF m = rootmenu \/ Entries[m].kind = "MENU" THEN m ELSE menu_get_parent_menu(Entries[m].up)

\* The entries of a list that can be seen, and the store afterwards.
VisibleOf(s0, ms) ==
  LET With1(x, v, m) == [st |-> v.st, ms |-> IF v.v THEN Append(x.ms, m) ELSE x.ms]
      Look(x, m) == With1(x, menu_is_visible(x.st, m), m)
  IN  Steps(Look, [st |-> s0, ms |-> <<>>], ms)
=============================================================================
