-------------------------------- MODULE Mconf --------------------------------
(***************************************************************************)
(* frontends/mconf/mconf.c: the configurator with menus.  Each round of    *)
(* its loops builds the items of a menu from the tree, shows a box and     *)
(* does what the key says; a menu calls the menu below it, and search      *)
(* calls the menu that is jumped to.  The boxes themselves are Menubox,    *)
(* Checklist, Inputbox and Textbox; here a box returns what it can return, *)
(* "too small" when the display is, and the calls that are open are a      *)
(* sequence.                                                               *)
(***************************************************************************)
EXTENDS ConfStore

CONSTANTS Files,       (* what is on disk at first: of each name its lines    *)
          Start,       (* the name of the configuration                       *)
          Dirs,        (* the names that can be written                       *)
          Loads,       (* the names that are typed to load                    *)
          Numbers,     (* what is typed for a number                          *)
          Patterns,    (* the symbols that are searched for                   *)
          single_menu_mode,
          MaxSets,     (* bound: how often settings are changed or read       *)
          MaxCalls     (* bound: how many calls are open                      *)

VARIABLES st,               \* the symbols
          disk,             \* of each name the lines of the file
          filename,
          show_all_options,
          unrolled,         \* the menus with menu->data set
          calls,            \* the calls of conf and search_conf that are open
          items,            \* of each item its entry and its tag
          child_count,      \* whether it is not 0: it is never reset
          box,              \* the box that is shown
          at,               \* the entry that box is about
          jump,             \* the entry that search has just jumped to
          signalled,        \* whether sig_handler runs
          res,              \* what dialog_yesno returned
          forgot,           \* history: whether a load that failed has made changes count
                            \* for nothing, since the last time a file was read or written
          sets

vars == <<st, disk, filename, show_all_options, unrolled, calls, items, child_count, box, at, jump,
          signalled, res, forgot, sets>>

Name == DOMAIN Files
conf(m) == [f |-> "conf", m |-> m, s |-> none]
search_conf(s) == [f |-> "search", m |-> 0, s |-> s]

-----------------------------------------------------------------------------
(* build_conf.  A list that is being built is the store and the items; how it *)
(* is built depends on the menu, on Z and on what is unrolled.                *)

Item(m, tag) == [m |-> m, tag |-> tag]
Add(x, m, tag) == [x EXCEPT !.items = Append(@, Item(m, tag))]

\* menu_is_empty, for the arrow after the prompt.
Arrow(x, m) == [x EXCEPT !.st = AnyVisible(@, Entries[m].list).st]

RECURSIVE build_conf(_, _, _)
BuildAll(x, ms, how) == Steps(LAMBDA y, m : build_conf(y, m, how), x, ms)

BuildPlain(x, m, how) ==
  LET e == Entries[m]
      added == Add(x, m, IF e.kind = "MENU" THEN "m" ELSE ":")
  IN  IF e.kind = "MENU" /\ m # how.menu /\ ~single_menu_mode THEN Arrow(added, m)
      ELSE BuildAll(IF m = how.menu THEN x ELSE added,
                    IF e.kind # "MENU" \/ m \in {how.menu} \cup how.unrolled THEN e.list ELSE <<>>, how)

\* The members that can be seen and are the value; the last one counts.  While
\* there is no value a comment is taken for it.
OnNow(v, c) == {d \in ToSet(v.ms) : Entries[d].sym = v.st.val[c]}
LastOn(v, c) == SelectLastInSeq(v.ms, LAMBDA d : d \in OnNow(v, c))
AddChoice(x, v, m) ==
  Add([x EXCEPT !.st = v.st], m,
      IF sym_is_changable(v.st, Entries[m].sym) \/ OnNow(v, Entries[m].sym) # {} THEN "t" ELSE ":")

\* Of a choice that is y only what is below its member is shown with it.
BelowChoice(x, v, m, how) ==
  LET on == IF OnNow(v, Entries[m].sym) = {} THEN <<>> ELSE <<v.ms[LastOn(v, Entries[m].sym)]>> IN
  BuildAll(AddChoice(x, v, m),
           IF v.st.tri[Entries[m].sym] # yes THEN Entries[m].list
           ELSE SelectSeq(on, LAMBDA d : Entries[d].list # <<>>), how)

BuildChoice(x, m, how) == BelowChoice(x, VisibleOf(x.st, Entries[m].list), m, how)

BuildSym(x, m, how) ==
  LET e == Entries[m]
      chosen == sym_is_choice_value(e.sym) /\ x.st.tri[e.sym] = yes
      added == Add(x, m, CASE m = how.menu \/ chosen -> ":" [] ~(m = how.menu \/ chosen) /\ IsTri(e.sym) -> "t"
                           [] OTHER -> "s")
  IN  IF e.kind = "MENU" /\ m # how.menu /\ (chosen \/ IsTri(e.sym)) THEN Arrow(added, m)
      ELSE BuildAll(added, e.list, how)

BuildSeen(x, v, m, how) ==
  LET e == Entries[m] IN
  IF (how.all /\ e.kind = none) \/ (~how.all /\ ~v) THEN x
  ELSE IF e.sym = none THEN BuildPlain(x, m, how)
  ELSE IF sym_is_choice(e.sym) THEN BuildChoice(x, m, how)
  ELSE BuildSym(x, m, how)

BuildFrom(x, seen, m, how) == BuildSeen([x EXCEPT !.st = seen.st], seen.v, m, how)
build_conf(x, m, how) == BuildFrom(x, menu_is_visible(x.st, m), m, how)

-----------------------------------------------------------------------------
(* What search finds of a symbol. *)

\* The entries above one that the results name, rootmenu not; from below.
RECURSIVE Above(_)
Above(m) == IF m = rootmenu THEN <<>> ELSE <<m>> \o Above(Entries[m].up)

Prompts(s) == SelectSeq([m \in DOMAIN Entries |-> m], LAMBDA m : Entries[m].sym = s /\ Entries[m].kind # none)

\* Wrong on purpose: to the entry itself, seen or not.
JumpItemUnseen(x, self, near, m) ==
  [st |-> self.st, items |-> Append(x.items, Item(m, "jump"))]

\* get_prompt_str: one can jump to the entry if it can be seen, else to the
\* nearest one above that can; not if that is rootmenu.
JumpItem(x, self, near, m) ==
  [st |-> self.st, items |-> Append(x.items, Item(IF self.v THEN m ELSE near, "jump"))]

BelowAbove(x, above, m) ==
  IF above.ms = <<>> THEN [x EXCEPT !.st = above.st]
  ELSE JumpItem(x, menu_is_visible(above.st, m), Head(above.ms), m)
get_prompt_str(x, m) == BelowAbove(x, VisibleOf(x.st, Above(Entries[m].up)), m)

Relations(s0, s) == Steps(get_prompt_str, [st |-> sym_calc_value(s0, s), items |-> <<>>], Prompts(s))

-----------------------------------------------------------------------------
(* The loops.  What every round begins with is part of the step before it. *)

\* The members of a choice, for its box.
MemberItems(v) ==
  [st |-> v.st, items |-> [i \in DOMAIN v.ms |-> Item(v.ms[i], IF Entries[v.ms[i]].sym = none THEN ":" ELSE " ")]]

\* handle_exit asks only when something changed.
Leaving(s0) == [st |-> s0, items |-> <<>>, calls |-> <<>>, box |-> IF s0.changed THEN "yesno" ELSE "end"]

\* The next round of the innermost call, of conf or of either.
RoundOf(x, cs, b) == [st |-> x.st, items |-> x.items, calls |-> cs, box |-> b]
ConfRound(s0, cs, m, all, open) ==
  RoundOf(build_conf([st |-> s0, items |-> <<>>], m, [menu |-> m, all |-> all, unrolled |-> open]), cs, "menu")
SearchRound(s0, cs, s) == RoundOf(Relations(s0, s), cs, "search")
Round(s0, cs) ==
  IF cs = <<>> THEN Leaving(s0)
  ELSE IF Last(cs).f = "search" THEN SearchRound(s0, cs, Last(cs).s)
  ELSE ConfRound(s0, cs, Last(cs).m, show_all_options, unrolled)

\* Whether build_conf counted an item: the heading of a menu does not count.
Counts(x) == x.box = "menu" /\ \E i \in DOMAIN x.items : x.items[i].m # x.calls[Len(x.calls)].m

To(x) == st' = x.st /\ items' = x.items /\ calls' = x.calls /\ box' = x.box

\* Only a menu that is empty before anything was counted is left at once.
Loop(round) ==
  \E x \in {round} :
    /\ To(IF x.box = "menu" /\ ~child_count /\ ~Counts(x) THEN Leaving(x.st) ELSE x)
    /\ child_count' = (child_count \/ Counts(x))

SameRound(s0) == ConfRound(s0, calls, Last(calls).m, show_all_options, unrolled)
Again(s0) == Loop(SameRound(s0))

\* A box that is opened from the menu and returns to it.
Ask(b, m, s0, its) == box' = b /\ at' = m /\ st' = s0 /\ items' = its /\ UNCHANGED <<calls, child_count>>

Aside == UNCHANGED <<disk, filename, show_all_options, unrolled, signalled, res, forgot>>
Still == at' = rootmenu /\ jump' = rootmenu

Init ==
  /\ disk = Files /\ filename \in Start
  /\ show_all_options = FALSE /\ unrolled = {} /\ at = rootmenu /\ jump = rootmenu
  /\ signalled = FALSE /\ res = none /\ forgot = FALSE /\ sets = 0
  /\ \E x \in {ConfRound(conf_read(Blank, disk[filename]), <<conf(rootmenu)>>, rootmenu, FALSE, {})} :
       /\ child_count = Counts(x)
       /\ \E y \in {IF child_count THEN x ELSE Leaving(x.st)} :
            st = y.st /\ items = y.items /\ calls = y.calls /\ box = y.box

Menu == box = "menu"
SymOf(i) == Entries[items[i].m].sym
Bounded == sets < MaxSets /\ sets' = sets + 1
Free == UNCHANGED sets

-----------------------------------------------------------------------------
(* The keys of a menu. *)

\* Enter and Space on a menu, and Enter on a symbol with a menu of its own.
Unrolls(i, key) == key = "enter" /\ items[i].tag = "m" /\ single_menu_mode
ChoiceOn(i) == items[i].tag = "t" /\ sym_is_choice(SymOf(i)) /\ st.tri[SymOf(i)] = yes
Opens(i, key) ==
  \/ items[i].tag = "m"
  \/ key = "enter" /\ items[i].tag = "t" /\ ~ChoiceOn(i) /\ Entries[items[i].m].kind = "MENU"

Flip(S, x) == IF x \in S THEN S \ {x} ELSE S \cup {x}
GoInto(i, key) ==
  /\ Menu /\ Free /\ Still /\ Opens(i, key)
  /\ unrolled' = IF Unrolls(i, key) THEN Flip(unrolled, items[i].m) ELSE unrolled
  /\ \E cs \in {IF Unrolls(i, key) THEN calls ELSE Append(calls, conf(items[i].m))} :
       /\ Len(cs) <= MaxCalls
       /\ Loop(ConfRound(st, cs, Last(cs).m, show_all_options, unrolled'))
  /\ UNCHANGED <<disk, filename, show_all_options, signalled, res, forgot>>

\* Enter on a choice or a number.
OpenBox(i) ==
  /\ Menu /\ Free /\ jump' = rootmenu /\ Aside
  /\ \/ ChoiceOn(i) /\ \E x \in {MemberItems(VisibleOf(st, Entries[items[i].m].list))} :
                            Ask("choice", items[i].m, x.st, x.items)
     \/ items[i].tag = "s" /\ Ask("string", items[i].m, st, <<>>)

\* What Y, M and N make of a symbol: Y makes m of what cannot be y.
OrMod(x, s, v) == IF v = yes /\ ~x.ok THEN sym_set_tristate_value(x.st, s, mod).st ELSE x.st
Pressed(s0, s, v) == OrMod(sym_set_tristate_value(s0, s, v), s, v)

PressValue(i, v) ==
  /\ Menu /\ items[i].tag = "t" /\ Bounded
  /\ Again(Pressed(st, SymOf(i), v)) /\ Still /\ Aside

PressSpace(i) ==
  /\ Menu /\ items[i].tag = "t" /\ Bounded
  /\ Again(sym_toggle_tristate_value(st, SymOf(i)).st) /\ Still /\ Aside

\* menu_get_ext_help looks at the entries above as the search does.
Help(i) ==
  /\ box \in {"menu", "choice"} /\ SymOf(i) # none /\ Free /\ jump' = rootmenu /\ Aside
  /\ \E s0 \in {Relations(st, SymOf(i)).st} :
       \/ Menu /\ Again(s0) /\ at' = rootmenu
       \/ box = "choice" /\ st' = s0 /\ UNCHANGED <<items, calls, child_count, box, at>>

PressZ ==
  /\ Menu /\ Free /\ show_all_options' = ~show_all_options
  /\ Loop(ConfRound(st, calls, Last(calls).m, show_all_options', unrolled))
  /\ Still /\ UNCHANGED <<disk, filename, unrolled, signalled, res, forgot>>

PressSlash(s) ==
  /\ Menu /\ Free /\ Len(calls) < MaxCalls
  /\ To(SearchRound(st, Append(calls, search_conf(s)), s)) /\ Still /\ Aside /\ UNCHANGED child_count

Open(b) == Menu /\ Free /\ Ask(b, rootmenu, st, <<>>) /\ jump' = rootmenu /\ Aside

\* Exit, ESC twice, and a display that is too small for a menu; ESC in a box, and
\* Enter where there is no member.
Exit ==
  /\ box \in {"menu", "search", "choice", "string", "load", "save"}
  /\ Loop(Round(st, IF box \in {"menu", "search"} THEN Front(calls) ELSE calls))
  /\ Free /\ Still /\ Aside

-----------------------------------------------------------------------------
(* The boxes. *)

Jump(i) ==
  /\ box = "search" /\ items[i].tag = "jump" /\ Free
  /\ jump' = items[i].m /\ at' = rootmenu /\ Len(calls) < MaxCalls
  /\ Loop(ConfRound(st, Append(calls, conf(Entries[items[i].m].up)), Entries[items[i].m].up, show_all_options, unrolled))
  /\ Aside

\* conf_choice: a comment cannot be chosen, and what is refused is not told.
Choose1(i) ==
  /\ box = "choice" /\ items[i].tag # ":" /\ Bounded
  /\ Again(sym_set_tristate_value(st, SymOf(i), yes).st) /\ Still /\ Aside

\* conf_string: what is refused is asked for again.
Enter1(v) ==
  /\ box = "string" /\ Bounded
  /\ \E x \in {sym_set_string_value(st, Entries[at].sym, v)} :
         IF x.ok THEN Again(x.st) /\ at' = rootmenu
         ELSE st' = x.st /\ UNCHANGED <<items, calls, child_count, box, at>>
  /\ jump' = rootmenu /\ Aside

\* conf_load: a file that does not exist is asked for again; by then nothing
\* counts as changed, and the user may give up.
Load(n) ==
  /\ box = "load" /\ Bounded
  /\ IF disk[n] # NoFile
     THEN /\ Again([conf_read(st, disk[n]) EXCEPT !.changed = TRUE])
          /\ at' = rootmenu /\ filename' = n /\ forgot' = FALSE
     ELSE /\ st' = sym_calc_value([st EXCEPT !.changed = FALSE], Modules)
          /\ forgot' = (forgot \/ st.changed)
          /\ UNCHANGED <<filename, items, calls, child_count, box, at>>
  /\ jump' = rootmenu /\ UNCHANGED <<disk, show_all_options, unrolled, signalled, res>>

\* conf_write, to a name in a directory or not.
Save(n) ==
  /\ box = "save" /\ Free /\ jump' = rootmenu
  /\ IF n \in Dirs
     THEN /\ \E w \in {Written(st)} :
               Again([w.st EXCEPT !.changed = FALSE]) /\ disk' = [disk EXCEPT ![n] = w.out]
          /\ at' = rootmenu /\ filename' = n /\ forgot' = FALSE
     ELSE UNCHANGED <<st, disk, filename, items, calls, child_count, box, at, forgot>>
  /\ UNCHANGED <<show_all_options, unrolled, signalled, res>>

-----------------------------------------------------------------------------
(* The end. *)

Exiting == box = "yesno" /\ Free /\ Still /\ UNCHANGED <<show_all_options, unrolled, forgot>>

\* The configuration is written, if it can be.
AnswerYes ==
  /\ Exiting /\ res' = "yes" /\ box' = "end"
  /\ IF filename \in Dirs
     THEN \E w \in {Written(st)} :
            st' = [w.st EXCEPT !.changed = FALSE] /\ disk' = [disk EXCEPT ![filename] = w.out]
     ELSE UNCHANGED <<st, disk>>
  /\ UNCHANGED <<filename, calls, items, child_count, signalled>>

AnswerNo ==
  /\ Exiting /\ res' = "no" /\ box' = "end"
  /\ UNCHANGED <<st, disk, filename, calls, items, child_count, signalled>>

\* ESC goes on with the menus, unless the program is in its signal handler.
Continue ==
  /\ Exiting /\ UNCHANGED <<disk, filename, signalled>>
  /\ IF signalled THEN res' = "esc" /\ box' = "end" /\ UNCHANGED <<st, calls, items, child_count>>
     ELSE Loop(ConfRound(st, <<conf(rootmenu)>>, rootmenu, show_all_options, unrolled)) /\ UNCHANGED res

\* A display that is too small for the question.
TooSmall ==
  /\ Exiting /\ res' = "too small" /\ box' = "end"
  /\ UNCHANGED <<st, disk, filename, calls, items, child_count, signalled>>

\* sig_handler, while a box waits for a key.
sig_handler ==
  /\ box # "end" /\ ~signalled /\ signalled' = TRUE /\ Still /\ Free
  /\ To(Leaving(st)) /\ UNCHANGED <<disk, filename, show_all_options, unrolled, child_count, res, forgot>>

Ended == box = "end" /\ UNCHANGED vars

Next ==
  \/ \E i \in DOMAIN items :
       \/ OpenBox(i) \/ PressSpace(i) \/ Help(i) \/ Jump(i) \/ Choose1(i)
       \/ \E key \in {"enter", "space"} : GoInto(i, key)
       \/ \E v \in no..yes : PressValue(i, v)
  \/ \E s \in Patterns : PressSlash(s)
  \/ \E b \in {"load", "save"} : Open(b)
  \/ \E v \in Numbers : Enter1(v)
  \/ \E n \in Loads : Load(n)
  \/ \E n \in Name : Save(n)
  \/ PressZ \/ Exit \/ AnswerYes \/ AnswerNo \/ Continue \/ TooSmall
  \/ sig_handler \/ Ended

Spec == Init /\ [][Next]_vars

-----------------------------------------------------------------------------
(* Properties. *)

\* The boxes and the calls fit together: a box that was called from a menu
\* knows its entry, and no call is open at the end.
TypeOK ==
  /\ filename \in Name /\ unrolled \subseteq DOMAIN Entries /\ res \in {none, "yes", "no", "esc", "too small"}
  /\ box \in {"menu", "search", "choice", "string", "load", "save", "yesno", "end"}
  /\ (calls = <<>>) = (box \in {"yesno", "end"})
  /\ (at # rootmenu) = (box \in {"choice", "string"})
  /\ box \notin {"yesno", "end"} => (calls[Len(calls)].f = "search") = (box = "search")
  /\ \A i \in DOMAIN items : items[i].m \in DOMAIN Entries /\ items[i].tag \in {"m", "t", "s", ":", " ", "jump"}

Sees(m) == menu_is_visible(st, m).v
Top == calls[Len(calls)].m
Listed(m) == \E i \in DOMAIN items : items[i].m = m

\* No entry of a menu is listed twice, and none before the one it is below.
ListsOnce ==
  Menu => \A i, j \in DOMAIN items :
            i < j => items[i].m # items[j].m /\ Entries[items[i].m].up # items[j].m

\* Whether one sees the way from the menu down to an entry, and there is no
\* other menu on it.
RECURSIVE Leads(_, _)
Leads(m, top) ==
  LET u == Entries[m].up IN
  m # rootmenu /\ Sees(u) /\ (u = top \/ (Entries[u].kind # "MENU" /\ Leads(u, top)))

\* What can be seen can be reached: an entry is in the list of the menu it is in,
\* or in the box of a choice that is.
NothingHidden ==
  Menu => \A m \in DOMAIN Entries :
            Sees(m) /\ Leads(m, Top) =>
              Listed(m) \/ (Listed(Entries[m].up) /\ sym_is_choice(Entries[Entries[m].up].sym))

\* The menu that search jumps to lists what it jumps to, or the choice it is in.
JumpShows ==
  jump # rootmenu => Listed(jump) \/ (Listed(Entries[jump].up) /\ sym_is_choice(Entries[Entries[jump].up].sym))

\* The value of every symbol, when all is computed.
ValuesIn(s0) == [s \in Symbol |-> StringValue(s0, s)]
Values(s0) == ValuesIn(CalcList(s0, SymbolList))

\* When the program ends without a question, or with the answer that it shall
\* save, the file that it has open reads back as what was set: unless no question
\* was asked because a load that failed had put the count of changes back.
NothingLost ==
  box = "end" /\ ((res = none /\ ~forgot) \/ (res = "yes" /\ filename \in Dirs)) =>
    Values(st) = Values(conf_read(Blank, disk[filename]))

\* After Y, M or N the symbol is what the key says, or nothing has changed; Y
\* makes it m only if it cannot be y.
IsSet(was, now, s, v) ==
  \/ now[s] = v \/ now = was
  \/ v = yes /\ now[s] = mod /\ ~sym_tristate_within_range(st, s, yes)
SetsValue ==
  Menu /\ sets < MaxSets =>
    \A i \in DOMAIN items : \A v \in no..yes :
       items[i].tag = "t" =>
         IsSet(Values(st), Values(SameRound(Pressed(st, SymOf(i), v)).st), SymOf(i), v)
=============================================================================
