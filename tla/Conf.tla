-------------------------------- MODULE Conf ---------------------------------
(***************************************************************************)
(* frontends/conf/conf.c: the configurator that works line by line.  It    *)
(* walks the menu tree and asks for what is new, again and again until a   *)
(* walk asks nothing, or sets everything by itself, and writes .config.    *)
(* The two functions that walk the tree call each other; what they have    *)
(* still to do is kept as the sequence of the calls that are left.         *)
(***************************************************************************)
EXTENDS ConfStore

CONSTANTS Commands, (* the options main is given, each an input mode *)
          Files,    (* the files read at first    *)
          Numbers,  (* what is typed for a number *)
          Rand,     (* what rand() makes of a symbol *)
          Tty       (* whether there is a terminal *)

VARIABLES input_mode, sync_kconfig,
          st,         \* the symbols
          read,       \* the file that was read
          todo,       \* the calls that are left
          rootEntry, conf_cnt,
          walks,      \* how often check_conf has walked the tree
          answered,   \* the symbols the user was asked for
          pc,         \* where main is
          written     \* what was written

vars == <<input_mode, sync_kconfig, st, read, todo, rootEntry, conf_cnt, walks, answered, pc, written>>

Old == {"oldaskconfig", "oldconfig", "silentoldconfig", "olddefconfig", "listnewconfig"}
DefMode == [allyesconfig |-> "yes", allmodconfig |-> "mod", allnoconfig |-> "no", alldefconfig |-> "default",
            defconfig |-> "default", randconfig |-> "random"]

Call(f, m) == [f |-> f, m |-> m, new |-> FALSE]
Calls(f, ms) == [i \in DOMAIN ms |-> Call(f, ms[i])]

-----------------------------------------------------------------------------
(* main, up to the walks. *)

\* The last option counts, but for what a build asks for.
Init ==
  /\ \E options \in Commands :
       /\ input_mode = (IF options = <<>> THEN "oldaskconfig" ELSE Last(options))
       /\ sync_kconfig = (\E i \in DOMAIN options : options[i] = "silentoldconfig")
  /\ read \in Files
  /\ st = Blank /\ todo = <<>> /\ rootEntry = rootmenu /\ conf_cnt = 0 /\ walks = 0
  /\ answered = {} /\ pc = "read" /\ written = NoFile

\* The configuration is read; not for one of the "all" modes, and there only
\* with KCONFIG_ALLCONFIG.  A build needs one, and so does defconfig.
ReadFile ==
  /\ pc = "read"
  /\ st' = (IF input_mode \in Old \cup {"defconfig", "savedefconfig"} THEN conf_read(st, read)
            ELSE IF read = NoFile THEN st ELSE conf_read_simple(st, read).st)
  /\ pc' = CASE read = NoFile /\ (sync_kconfig \/ input_mode = "defconfig") -> "aborted"
             [] input_mode = "oldaskconfig" -> "ask"
             [] input_mode \in Old \ {"oldaskconfig"} /\ ~(sync_kconfig /\ read = NoFile) -> "check"
             [] input_mode = "savedefconfig" -> "write"
             [] OTHER -> "set"
  /\ todo' = (IF input_mode = "oldaskconfig" THEN <<Call("conf", rootmenu)>>
              ELSE IF input_mode \in Old THEN <<Call("check_conf", rootmenu)>> ELSE <<>>)
  /\ UNCHANGED <<input_mode, sync_kconfig, walks, read, rootEntry, conf_cnt, answered, written>>

SetAll ==
  /\ pc = "set"
  /\ \E pick \in [{s \in Symbol : IsTri(s)} -> IF input_mode = "randconfig" THEN Rand ELSE {no}] :
       \E x \in {conf_set_all_new_symbols(st, DefMode[input_mode], pick)} :
         /\ st' = x.st /\ pc' = (IF input_mode = "randconfig" /\ x.more THEN "set" ELSE "write")
  /\ UNCHANGED <<input_mode, sync_kconfig, walks, read, todo, rootEntry, conf_cnt, answered, written>>

\* Wrong on purpose: one walk is enough.
OneWalk ==
  /\ todo = <<>> /\ pc \in {"ask", "check"} /\ conf_cnt' = 0 /\ UNCHANGED walks
  /\ pc' = "write" /\ input_mode' = (IF pc = "ask" THEN "silentoldconfig" ELSE input_mode)
  /\ UNCHANGED <<sync_kconfig, st, read, todo, rootEntry, answered, written>>

\* "Update until a loop caused no more changes."
Walked ==
  /\ todo = <<>> /\ pc \in {"ask", "check"} /\ conf_cnt' = 0
  /\ input_mode' = (IF pc = "ask" THEN "silentoldconfig" ELSE input_mode)
  /\ IF pc = "ask" \/ (conf_cnt > 0 /\ input_mode \notin {"listnewconfig", "olddefconfig"})
     THEN pc' = "check" /\ todo' = <<Call("check_conf", rootmenu)>> /\ walks' = walks + 1
     ELSE pc' = (IF ~sync_kconfig /\ input_mode = "listnewconfig" THEN "done" ELSE "write") /\ UNCHANGED <<todo, walks>>
  /\ UNCHANGED <<sync_kconfig, st, read, rootEntry, answered, written>>

\* For a build only what changed is written, and auto.conf then (ConfFile).
Write ==
  /\ pc = "write" /\ pc' = "done"
  /\ \E w \in {IF sync_kconfig /\ ~st.changed THEN [st |-> st, out |-> read]
               ELSE IF ~sync_kconfig /\ input_mode = "savedefconfig" THEN conf_write_defconfig(st)
               ELSE Written(st)} :
       st' = w.st /\ written' = w.out
  /\ UNCHANGED <<input_mode, sync_kconfig, walks, read, todo, rootEntry, conf_cnt, answered>>

-----------------------------------------------------------------------------
(* The walks. *)

Then(calls) == todo' = calls \o Tail(todo)
Walk(f) == pc \in {"ask", "check"} /\ todo # <<>> /\ Head(todo).f = f
Aside == UNCHANGED <<input_mode, sync_kconfig, walks, read, answered, pc, written>>

\* What conf does of an entry that can be seen.
ConfCalls(m) ==
  LET e == Entries[m] IN
  CASE e.kind = "MENU" /\ input_mode \in {"silentoldconfig", "listnewconfig", "olddefconfig"} /\ rootEntry # m ->
         <<Call("check_conf", m)>>
    [] e.sym = none -> Calls("conf", e.list)
    [] e.sym # none /\ sym_is_choice(e.sym) -> <<Call("conf_choice", m)>>
    [] OTHER -> <<Call("conf_sym", m)>> \o Calls("conf", e.list)

ConfEntry ==
  /\ Walk("conf")
  /\ LET m == Head(todo).m IN
     \E x \in {menu_is_visible(st, m)} : st' = x.st /\ Then(IF x.v THEN ConfCalls(m) ELSE <<>>)
  /\ Aside /\ UNCHANGED <<rootEntry, conf_cnt>>

IsNew(s0, s) ==
  /\ s # none /\ ~sym_has_value(s0, s)
  /\ \/ sym_is_changable(s0, s)
     \/ sym_is_choice(s) /\ s0.tri[s] = yes

\* The menu around what is new is walked, with everything in it.
CheckEntry ==
  /\ Walk("check_conf")
  /\ LET m == Head(todo).m
         around == menu_get_parent_menu(m)
     IN  \E x \in {menu_is_visible(st, m)} :
           LET asks == x.v /\ IsNew(x.st, Entries[m].sym) /\ input_mode \notin {"listnewconfig", "olddefconfig"}
           IN  /\ st' = x.st
               /\ conf_cnt' = (IF asks THEN 1 ELSE conf_cnt) /\ rootEntry' = (IF asks THEN around ELSE rootEntry)
               /\ Then(IF ~x.v THEN <<>>
                       ELSE (IF asks THEN <<Call("conf", around)>> ELSE <<>>)
                            \o Calls("check_conf", Entries[m].list))
  /\ Aside

-----------------------------------------------------------------------------
(* The questions. *)

\* Whether conf_askvalue waits for the user.
Asks(s) == sym_is_changable(st, s) /\ (input_mode = "oldaskconfig" \/ ~sym_has_value(st, s))

\* Without a terminal a build does not ask: it gives up.
NoTerminal == sync_kconfig /\ ~Tty

Aborted ==
  /\ pc \in {"ask", "check"} /\ todo # <<>> /\ Head(todo).f \in {"conf_sym", "conf_choice", "choose"}
  /\ LET c == Head(todo)
         s == Entries[c.m].sym
     IN  IF c.f = "choose" THEN c.new ELSE Asks(s)
  /\ NoTerminal /\ pc' = "aborted"
  /\ UNCHANGED <<input_mode, sync_kconfig, walks, st, read, todo, rootEntry, conf_cnt, answered, written>>

\* An answer that is taken: a value, or nothing for the value it has.
Answer(s) ==
  \E v \in IF IsTri(s) THEN 0..2 ELSE (Numbers \cup {st.val[s]}) \ {Empty} :
    \E x \in {IF IsTri(s) THEN sym_set_tristate_value(st, s, v) ELSE sym_set_string_value(st, s, v)} :
      x.ok /\ st' = x.st

\* conf_sym and conf_string.  An answer that is not taken is asked for again.
\* conf_choice asks for the choice itself first, then for its member.
AskSym ==
  /\ Walk("conf_sym") \/ Walk("conf_choice")
  /\ LET m == Head(todo).m
         s == Entries[m].sym
     IN  /\ IF Asks(s) THEN ~NoTerminal /\ Answer(s) /\ answered' = answered \cup {s}
            ELSE UNCHANGED <<st, answered>>
         /\ Then(IF Head(todo).f = "conf_sym" THEN <<>>
                 ELSE <<[Call("chosen", m) EXCEPT !.new = ~sym_has_value(st, s)]>>)
  /\ UNCHANGED <<input_mode, sync_kconfig, walks, read, rootEntry, conf_cnt, pc, written>>

\* A choice that is m is asked for member by member.
Chosen ==
  /\ Walk("chosen")
  /\ LET m == Head(todo).m
         s == Entries[m].sym
     IN  /\ st' = sym_calc_value(st, s)
         /\ Then(CASE st'.tri[s] = no -> <<>>
                   [] st'.tri[s] = mod -> Calls("conf", Entries[m].list)
                   [] st'.tri[s] = yes -> <<[Head(todo) EXCEPT !.f = "choose"]>>)
  /\ Aside /\ UNCHANGED <<rootEntry, conf_cnt>>

\* One member that can be seen is set without a question, and the old one is
\* when the choice is not new.  What is below the member follows.
Choose1 ==
  /\ Walk("choose")
  /\ LET c == Head(todo)
         s == Entries[c.m].sym
     IN  \E x \in {VisibleOf(st, SelectSeq(Entries[c.m].list, LAMBDA k : Entries[k].sym # none))} :
           LET now == {k \in ToSet(x.ms) : Entries[k].sym = x.st.val[s]}
               free == Len(x.ms) # 1 /\ (input_mode = "oldaskconfig" \/ c.new)
           IN  /\ free => ~NoTerminal
               /\ \E k \in IF Len(x.ms) = 1 \/ free THEN ToSet(x.ms) ELSE now :
                    /\ st' = sym_set_tristate_value(x.st, Entries[k].sym, yes).st
                    /\ Then(Calls("conf", Entries[k].list) \o <<Call("again", c.m)>>)
               /\ answered' = IF free THEN answered \cup {s} \cup ToSet(Members(s)) ELSE answered
  /\ UNCHANGED <<input_mode, sync_kconfig, walks, read, rootEntry, conf_cnt, pc, written>>

\* Back in conf: if the choice has become m its members follow.
Again ==
  /\ Walk("again")
  /\ LET m == Head(todo).m IN Then(IF st.tri[Entries[m].sym] = mod THEN Calls("conf", Entries[m].list) ELSE <<>>)
  /\ Aside /\ UNCHANGED <<st, rootEntry, conf_cnt>>

Ended == pc \in {"done", "aborted"}

Next ==
  \/ ReadFile \/ SetAll \/ Walked \/ Write
  \/ ConfEntry \/ CheckEntry \/ Aborted \/ AskSym \/ Chosen \/ Choose1 \/ Again
  \/ (Ended /\ UNCHANGED vars)

Spec == Init /\ [][Next]_vars

-----------------------------------------------------------------------------
(* Properties. *)

\* The walks come to an end: each one that asks leaves less that is new, so
\* there are no more of them than symbols.
WalksEnd == walks <= Cardinality(Symbol)

RECURSIVE Reached(_, _)
Reached(s0, m) ==
  menu_is_visible(s0, m).v /\ (m = rootmenu \/ Reached(s0, Entries[m].up))

\* When oldconfig ends, nothing that can be seen and changed is new.
NothingNew ==
  pc = "done" /\ input_mode \in {"oldconfig", "silentoldconfig"} =>
    \A m \in DOMAIN Entries :
      Reached(st, m) => ~IsNew(menu_is_visible(st, m).st, Entries[m].sym)

\* What the file that was read says of a symbol and still may be, stays, unless
\* the user was asked for it.
OldKept ==
  pc = "done" /\ input_mode \in Old /\ read # NoFile =>
    \A final \in {CalcList([st EXCEPT !.valid = {}], SymbolList)}, l \in ToSet(read) :
      LET s == l.s IN
      s \in Symbol \ answered /\ Accepts(s, l.v) /\ ~sym_is_choice_value(s) /\ final.visible[s] # no =>
        IF IsTri(s)
        THEN final.tri[s] = Promoted(final, s, Most(Least(l.v, final.visible[s]), final.rev[s]))
        ELSE sym_string_within_range(final, s, l.v).ok => final.val[s] = l.v

\* What the lines say of all symbols; a choice is what its members are.
Said(lines) ==
  LET Of(s) == {l.v : l \in {k \in ToSet(lines) : k.s = s}}
      Tri(s) == Max({no} \cup IF sym_is_choice(s) THEN UNION {Of(x) : x \in ToSet(Members(s))} ELSE Of(s))
  IN  [s \in Symbol \cup DOMAIN Numeral |->
         IF s \in DOMAIN Numeral THEN Numeral[s]
         ELSE IF IsTri(s) THEN Tri(s) ELSE IF Of(s) = {} THEN Empty ELSE Max(Of(s))]

\* By what is written, nothing is m without modules or on above what it depends
\* on and what selects it, and of a choice with a member that is y the others are n.
WrittenValid ==
  LET said == Said(written)
      Limit(e) == IF e = Null THEN no ELSE expr_calc_value(e, said)
      Full(v) == IF v = mod THEN yes ELSE v
  IN  pc = "done" /\ written # NoFile /\ input_mode # "savedefconfig" =>
        \A l \in ToSet(written) :
          IsTri(l.s) =>
            /\ l.v = mod => said[Modules] # no
            /\ ~sym_is_choice_value(l.s) =>
                 LET limit == Most(Limit(Props[l.s].dir), Limit(Props[l.s].rev))
                 IN  l.v <= IF Type[l.s] = "BOOLEAN" THEN Full(limit) ELSE limit
            /\ sym_is_choice_value(l.s) /\ l.v = yes =>
                 \A k \in ToSet(written) :
                   k.s # l.s /\ k.s \in ToSet(Members(ChoiceOf[l.s])) => k.v = no

\* allyesconfig, allmodconfig and allnoconfig answer every question as they say.
AllAnswered ==
  pc = "done" /\ input_mode \in {"allyesconfig", "allmodconfig", "allnoconfig"} /\ read = NoFile =>
    \A l \in ToSet(written) :
      IsTri(l.s) /\ ~sym_is_choice_value(l.s) /\ sym_is_changable(st, l.s) =>
        l.v = CASE input_mode = "allyesconfig" -> st.visible[l.s]
                [] input_mode = "allnoconfig" -> IF l.s \in AllNoY THEN st.visible[l.s] ELSE st.rev[l.s]
                [] input_mode = "allmodconfig" ->
                     IF sym_get_type(st, l.s) = "BOOLEAN" THEN yes ELSE Most(mod, st.rev[l.s])
=============================================================================
