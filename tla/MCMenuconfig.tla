---------------------------- MODULE MCMenuconfig ----------------------------
(***************************************************************************)
(* menuconfig: mconf.c with the four boxes of lxdialog, one at a time.     *)
(* Mconf opens boxes as calls that return what a box can return; here each *)
(* box is also run by itself.  The initial states choose the part that is  *)
(* active, and the others stay as they are.                                *)
(***************************************************************************)
EXTENDS Mconf, Menubox, Inputbox, Checklist, Textbox

-----------------------------------------------------------------------------
(* Mconf: a menu with a number, a menu that is a symbol, and a choice with *)
(* an entry below a member.                                                *)

Y == Sym("y")
P(prompts, dir) ==
  [prompts |-> prompts, defaults |-> <<>>, ranges |-> <<>>, dir |-> dir,
   rev |-> Null, imp |-> Null]
Default(e, cond) == [expr |-> e, cond |-> cond]

MCType == [M |-> "BOOLEAN", T |-> "TRISTATE", S |-> "TRISTATE", C |-> "BOOLEAN",
           X |-> "BOOLEAN", B |-> "BOOLEAN", D |-> "BOOLEAN",
           N |-> "INT", c1 |-> "INT", c3 |-> "INT", c5 |-> "INT"]
MCProps ==
  [M |-> P(<<Y>>, Y),
   T |-> P(<<Y>>, Y),
   S |-> [P(<<Sym("T")>>, Sym("T")) EXCEPT !.rev = Sym("D")],
   C |-> [P(<<Y>>, Y) EXCEPT !.rev = Sym("m")],
   X |-> P(<<Sym("C")>>, Sym("C")),
   B |-> P(<<Sym("C")>>, Sym("C")),
   D |-> P(<<Sym("B")>>, Sym("B")),
   N |-> [P(<<Sym("S")>>, Sym("S")) EXCEPT !.defaults = <<Default(Sym("c3"), Y)>>,
            !.ranges = <<[lo |-> "c1", hi |-> "c5", cond |-> Y]>>]]
MCChoice == [X |-> "C", B |-> "C"]
MCSymbolList == <<"M", "T", "S", "N", "X", "C", "B", "D">>
MCMenuOrder == <<"M", "T", "S", "N", "C", "X", "B", "D">>

Ent(s, kind, cond, below, up) ==
  [sym |-> s, kind |-> kind, k |-> 1, cond |-> cond, list |-> below, up |-> up]
MCEntries ==
  <<Ent("none", "MENU", Y, <<2, 3, 5, 7>>, 0),
    Ent("M", "PROMPT", Y, <<>>, 1),
    Ent("T", "MENU", Y, <<4>>, 1),
    Ent("S", "PROMPT", Y, <<6>>, 3),
    Ent("none", "MENU", Y, <<11>>, 1),
    Ent("N", "PROMPT", Y, <<>>, 4),
    Ent("C", "PROMPT", Y, <<8, 9>>, 1),
    Ent("X", "PROMPT", Y, <<>>, 7),
    Ent("B", "PROMPT", Y, <<10>>, 7),
    Ent("D", "PROMPT", Y, <<>>, 9),
    Ent("none", "COMMENT", Sym("M"), <<>>, 5)>>

MCFiles ==
  [config |-> <<Line("M", yes), Line("T", mod), Line("S", mod), Line("N", 5),
                Line("B", yes), Line("D", no)>>,
   other |-> <<Line("T", yes), Line("X", yes)>>,
   nofile |-> NoFile]
MCNumeral == [c1 |-> 1, c3 |-> 3, c5 |-> 5]
MCTextOrder == [v \in -1..9 |-> v + 1]

-----------------------------------------------------------------------------
(* Menubox: menus of none and of four items in windows of two and three    *)
(* rows, whose letters are also the keys of commands.  Inputbox: a field   *)
(* of three cells, texts of up to five letters.                            *)

Labelled(d, hot) == [d |-> d, hot |-> hot]
MCLists ==
  {<<>>,
   <<Labelled(1, "a"), Labelled(3, "s"), Labelled(4, "e"), Labelled(5, "a")>>}

MCLetters == {"a", "b"}
MCInits == {<<>>, <<"a", "b">>, <<"a", "b", "b">>, <<"b", "a", "a", "b", "a">>}

-----------------------------------------------------------------------------
(* Checklist: lists that fit the window and lists that do not, with a      *)
(* comment, and an empty one.                                              *)

Named(s, hot) == [s |-> s, hot |-> hot]
MemberLists ==
  {<<>>, <<Named(1, "a"), Named(2, "b")>>,
   <<Named(1, "a"), Named(0, "*"), Named(2, "a"), Named(3, "s"), Named(4, "b"),
     Named(5, "b")>>}

-----------------------------------------------------------------------------
(* Textbox: texts shorter and longer than a page and than two, with and    *)
(* without results to jump to.                                             *)

T(n, kind, jumps) == [lines |-> n, rest |-> FALSE, kind |-> kind, jumps |-> jumps]
ShownTexts ==
  {T(n, "help", <<>>) : n \in {1, 4, 9}}
  \cup {T(2, "search", <<1>>), T(8, "search", <<1, 3, 4, 5, 7>>),
        T(9, "search", <<0, 2, 4, 6>>)}
  \cup {[lines |-> n, rest |-> TRUE, kind |-> "note", jumps |-> <<>>] : n \in {0, 1}}

-----------------------------------------------------------------------------

VARIABLE part   \* the part that is active

MenuconfigInit ==
  /\ part \in {"mconf", "menubox", "inputbox", "checklist", "textbox"}
  /\ Init
  /\ part = "menubox" \/ (part # "menubox" /\ listed = <<>> /\ height = 3)
  /\ MenuInit
  /\ part = "inputbox" \/ (part # "inputbox" /\ instr = <<>>)
  /\ FieldInit
  /\ ListInit
  /\ part = "textbox" \/ (part # "textbox" /\ text = T(1, "help", <<>>))
  /\ TextInit

MconfPart     == part = "mconf" /\ Next
MenuboxPart   == part = "menubox" /\ MenuNext
InputboxPart  == part = "inputbox" /\ FieldNext
ChecklistPart == part = "checklist" /\ ListNext
TextboxPart   == part = "textbox" /\ TextNext

\* Only a part that is not the active one stays as it is.
MenuconfigNext ==
  /\ UNCHANGED part
  /\ MconfPart     \/ (part # "mconf" /\ UNCHANGED vars)
  /\ MenuboxPart   \/ (part # "menubox" /\ UNCHANGED menuVars)
  /\ InputboxPart  \/ (part # "inputbox" /\ UNCHANGED fieldVars)
  /\ ChecklistPart \/ (part # "checklist" /\ UNCHANGED listVars)
  /\ TextboxPart   \/ (part # "textbox" /\ UNCHANGED textVars)

MenuconfigSpec ==
  MenuconfigInit
  /\ [][MenuconfigNext]_<<part, vars, menuVars, fieldVars, listVars, textVars>>

-----------------------------------------------------------------------------
(* Properties of the parts. *)

\* What can be seen in a menu is listed once, or stands in the box of a choice
\* that is, search jumps to where it is listed, Y, M and N set what they say, and
\* a program that ends without a question, or after Yes, has left what was set in
\* its file, unless a load that failed made it forget that something was (mconf.c).
MenusTell ==
  part = "mconf" => ListsOnce /\ NothingHidden /\ JumpShows /\ NothingLost /\ SetsValue
=============================================================================
