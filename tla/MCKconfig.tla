------------------------------ MODULE MCKconfig ------------------------------
(***************************************************************************)
(* The library of kconfig and the configurator that works line by line:    *)
(* how the tree of a file is built (Menu) and searched for loops           *)
(* (SymCheck), how .config and the files for the build are kept            *)
(* (ConfFile), and what conf.c asks and writes (Conf).  The initial states *)
(* choose the part that is active, and the others stay as they are.        *)
(***************************************************************************)
EXTENDS ConfFile

Y == Sym("y")
P(prompts, dir) ==
  [prompts |-> prompts, defaults |-> <<>>, ranges |-> <<>>, dir |-> dir,
   rev |-> Null, imp |-> Null]
Default(e, cond) == [expr |-> e, cond |-> cond]

MCNumeral == [c1 |-> 1, c3 |-> 3, c5 |-> 5]
MCTextOrder == [v \in -1..9 |-> v + 1]

-----------------------------------------------------------------------------
(* ConfFile: four symbols, a number and a choice of two; there is no       *)
(* .config, or one that names a symbol that is gone, or one that is whole. *)

MCType == [M |-> "BOOLEAN", T |-> "TRISTATE", S |-> "TRISTATE", C |-> "BOOLEAN",
           X |-> "BOOLEAN", B |-> "BOOLEAN", N |-> "INT",
           c1 |-> "INT", c3 |-> "INT", c5 |-> "INT"]
MCProps ==
  [M |-> P(<<Y>>, Y),
   T |-> [P(<<Y>>, Y) EXCEPT !.defaults = <<Default(Sym("m"), Y)>>],
   S |-> [P(<<Sym("M")>>, Sym("M")) EXCEPT !.rev = Sym("T")],
   C |-> [P(<<Sym("T")>>, Sym("T")) EXCEPT !.rev = Sym("T")],
   X |-> P(<<Sym("C")>>, Sym("C")),
   B |-> P(<<Two("AND", Sym("C"), Sym("M"))>>, Two("AND", Sym("C"), Sym("M"))),
   N |-> [P(<<Sym("S")>>, Sym("S")) EXCEPT !.defaults = <<Default(Sym("c3"), Y)>>]]
MCChoice == [X |-> "C", B |-> "C"]
MCSymbolList == <<"N", "S", "X", "C", "B", "T", "M">>
MCMenuOrder == <<"M", "T", "S", "C", "X", "B", "N">>
MCEntries == <<>>
MCFiles ==
  {NoFile,
   <<Line("M", yes), Line("T", mod), Line("gone", yes), Line("S", yes), Line("N", 1)>>,
   <<Line("M", yes), Line("T", yes), Line("S", yes), Line("X", no), Line("B", yes), Line("N", 5)>>}

-----------------------------------------------------------------------------
(* Conf: a menu with a number in it, and a tristate choice with an entry   *)
(* below a member.                                                         *)

AskType == [M |-> "BOOLEAN", T |-> "TRISTATE", S |-> "TRISTATE", C |-> "TRISTATE",
            X |-> "TRISTATE", B |-> "BOOLEAN", D |-> "BOOLEAN",
            N |-> "INT", c1 |-> "INT", c3 |-> "INT", c5 |-> "INT"]
AskProps ==
  [M |-> P(<<Y>>, Y),
   T |-> P(<<Y>>, Y),
   S |-> [P(<<Sym("T")>>, Sym("T")) EXCEPT !.rev = Two("AND", Sym("D"), Sym("T"))],
   C |-> [P(<<Y>>, Y) EXCEPT !.rev = Sym("m")],
   X |-> P(<<Sym("C")>>, Sym("C")),
   B |-> P(<<Two("AND", Sym("C"), Sym("T"))>>, Two("AND", Sym("C"), Sym("T"))),
   D |-> P(<<Sym("B")>>, Sym("B")),
   N |-> [P(<<Sym("S")>>, Sym("S")) EXCEPT !.defaults = <<Default(Sym("c3"), Y)>>,
            !.ranges = <<[lo |-> "c1", hi |-> "c5", cond |-> Y]>>]]
AskChoice == [X |-> "C", B |-> "C"]
AskList == <<"N", "S", "X", "D", "C", "B", "T", "M">>
AskOrder == <<"M", "T", "S", "N", "C", "X", "B", "D">>

Ent(s, kind, cond, below, up) ==
  [sym |-> s, kind |-> kind, k |-> 1, cond |-> cond, list |-> below, up |-> up]
AskEntries ==
  <<Ent("none", "MENU", Y, <<2, 3, 4, 7>>, 0),
    Ent("M", "PROMPT", Y, <<>>, 1),
    Ent("T", "PROMPT", Y, <<>>, 1),
    Ent("none", "MENU", Sym("T"), <<5, 6>>, 1),
    Ent("S", "PROMPT", Y, <<>>, 4),
    Ent("N", "PROMPT", Y, <<>>, 4),
    Ent("C", "PROMPT", Y, <<8, 9>>, 1),
    Ent("X", "PROMPT", Y, <<>>, 7),
    Ent("B", "PROMPT", Y, <<10>>, 7),
    Ent("D", "PROMPT", Y, <<>>, 9)>>

\* No file, one that knows part of the symbols and a number that is out of range,
\* and one that knows what cannot be seen at first.
AskFiles ==
  {NoFile,
   <<Line("M", yes), Line("T", yes), Line("S", yes), Line("N", 9), Line("X", yes)>>,
   <<Line("T", mod), Line("M", yes), Line("S", mod), Line("B", yes), Line("D", yes),
     Line("N", 5)>>}
AskCommands ==
  {<<>>, <<"silentoldconfig", "olddefconfig">>}
  \cup {<<mode>> : mode \in
          {"oldconfig", "silentoldconfig", "olddefconfig", "listnewconfig", "allyesconfig",
           "allmodconfig", "allnoconfig", "alldefconfig", "defconfig", "savedefconfig",
           "randconfig"}}
AllowedNoY == {"T"}
NotOptional == {}
Five == {5}
AnyTri == {0, 1, 2}

VARIABLES input_mode, sync_kconfig, asked, read, calls, rootEntry, conf_cnt,
          walks, answered, main, written

askVars == <<input_mode, sync_kconfig, asked, read, calls, rootEntry, conf_cnt,
             walks, answered, main, written>>

Asking == INSTANCE Conf WITH
  Type <- AskType, Props <- AskProps, ChoiceOf <- AskChoice,
  SymbolList <- AskList, MenuOrder <- AskOrder, Entries <- AskEntries,
  Optional <- NotOptional, AllNoY <- AllowedNoY, Commands <- AskCommands,
  Files <- AskFiles, Numbers <- Five, Rand <- AnyTri, Tty <- FALSE,
  st <- asked, todo <- calls, pc <- main

-----------------------------------------------------------------------------
(* Menu: files of none to five entries: entries in a row that name those   *)
(* before them, the same in an if or a menu, and a tristate choice with a  *)
(* block in it.                                                            *)

TreeSymbols == {"A", "T", "X", "Z"}
TreeChoices == {"D"}
TreeModules == "X"
TreeType == [A |-> "BOOLEAN", T |-> "TRISTATE", X |-> "BOOLEAN", Z |-> "BOOLEAN",
             D |-> "TRISTATE"]
TreeOrder == <<>>

And(e1, e2) == Two("AND", e1, e2)
AA == Sym("A")
TT == Sym("T")
XX == Sym("X")
Few == {Null, XX, One(XX)}
Deps == {Null, AA, One(AA), And(AA, XX), Two("OR", AA, XX), Comp("EQUAL", "A", "n")}
Later ==
  {Null, TT, One(TT), And(TT, XX), Comp("EQUAL", "T", "n"), Comp("UNEQUAL", "T", "m"),
   And(XX, One(AA)), And(TT, Sym("m"))}

Dep(e) == IF e = Null THEN <<>> ELSE <<<<"depends", e>>>>
Entry3(s, body) == <<<<"config", s>>, <<"type", TreeType[s]>>>> \o body
Ask(s, cond, dep) == Entry3(s, <<<<"prompt", cond>>>> \o Dep(dep))
Hid(s, dep) == Entry3(s, <<<<"default", Sym("y"), Null>>>> \o Dep(dep))
InIf(e, body) == <<<<"if", e>>>> \o body \o <<<<"end">>>>
InMenu(dep, vis, body) ==
  <<<<"menu">>>> \o (IF vis = Null THEN <<>> ELSE <<<<"visible", vis>>>>) \o Dep(dep)
  \o <<<<"enter">>>> \o body \o <<<<"end">>>>
Selects(cond) == <<<<"select", "Z", cond>>>>

RowFiles ==
  {Ask("A", c, Null) \o a \o t \o z :
     c \in Few, a \in {<<>>, Selects(Null), <<<<"asmenu">>>>},
     t \in {Ask("T", Null, d) : d \in Deps} \cup {Hid("T", d) : d \in Deps}
           \cup {Ask("T", XX, d) : d \in Deps},
     z \in {Ask("Z", Null, d) : d \in Later}}

BlockFiles ==
  {b \o z :
     b \in {InIf(e, Ask("A", Null, d) \o <<<<"select", "Z", TT>>>> \o Ask("T", c, d2)) :
              e \in {XX, Two("OR", XX, TT), Comp("EQUAL", "X", "n")},
              d \in {Null, Sym("m")}, c \in Few, d2 \in {Null, AA, And(AA, XX)}}
           \cup {InMenu(dep, vis, Ask("A", c, Null)
                                  \o InIf(d2, Ask("T", Null, Null) \o <<<<"imply", "Z", XX>>>>)
                                  \o <<<<"comment">>>>) :
              dep \in Few, vis \in {Null, TT}, c \in Few, d2 \in {AA, One(AA)}},
     z \in {Hid("Z", AA), Ask("Z", Null, TT), Ask("Z", Null, And(XX, One(AA)))}}

ChoiceFiles ==
  {<<<<"choice", "D">>>> \o ty \o <<<<"prompt", c>>>> \o opt \o <<<<"enter">>>> \o body
   \o <<<<"end">>>> \o Ask("Z", Null, d) :
     ty \in {<<>>, <<<<"type", "TRISTATE">>>>}, c \in Few, opt \in {<<>>, <<<<"optional">>>>},
     body \in {Entry3("T", <<<<"prompt", Null>>>>)
                 \o InIf(e, Ask("A", Null, Null) \o Selects(Null)) : e \in {XX, Two("OR", XX, TT)}}
              \cup {Entry3("T", <<<<"prompt", Null>>>>)
                 \o <<<<"config", "A">>, <<"type", "BOOLEAN">>, <<"prompt", e>>>> :
                    e \in {Null, XX, Sym("Z")}},
     d \in {Null, AA, Sym("D"), Comp("EQUAL", "D", "y")}}

TreeFiles == {<<>>} \cup RowFiles \cup BlockFiles \cup ChoiceFiles

VARIABLES file, tree, current_menu, current_entry, last_entry_ptr, parsed

treeVars == <<file, tree, current_menu, current_entry, last_entry_ptr, parsed>>

Tree == INSTANCE Menu WITH
  Symbol <- TreeSymbols, Choice <- TreeChoices, Modules <- TreeModules,
  Type <- TreeType, TextOrder <- TreeOrder, Files <- TreeFiles, st <- tree

-----------------------------------------------------------------------------
(* SymCheck: every graph of two symbols and a choice of two members, which *)
(* name their choice before anything else, as menu_finalize makes them.    *)

LoopSymbols == <<"A", "X", "B", "C", "Y">>
LoopChoice == [X |-> "C", Y |-> "C"]

\* Some of the symbols, in order.
Some(list) == {SelectSeq(list, LAMBDA s : s \in S) : S \in SUBSET ToSet(list)}

LoopGraphs ==
  {[A |-> a, B |-> b, C |-> c, X |-> <<"C">> \o x, Y |-> <<"C">> \o y] :
     a \in Some(<<"A", "B", "X", "C">>), b \in Some(<<"X", "A", "Y">>),
     c \in Some(<<"B", "X">>), x \in Some(<<"A", "Y">>), y \in Some(<<"B">>)}
FirstGraph ==
  [s \in ToSet(LoopSymbols) |-> IF s \in DOMAIN LoopChoice THEN <<"C">> ELSE <<>>]

VARIABLES deps, i, f

loopVars == <<deps, i, f>>

Loops == INSTANCE SymCheck WITH
  SymbolList <- LoopSymbols, Graphs <- LoopGraphs, ChoiceOf <- LoopChoice

-----------------------------------------------------------------------------

VARIABLE part   \* the part that is active

KconfigInit ==
  /\ part \in {"conf", "files", "tree", "loops"}
  /\ part = "conf" \/ (part # "conf" /\ input_mode = "oldconfig" /\ read = NoFile)
  /\ Asking!Init
  /\ Init
  /\ part = "tree" \/ (part # "tree" /\ file = <<>>)
  /\ Tree!Init
  /\ part = "loops" \/ (part # "loops" /\ deps = FirstGraph)
  /\ Loops!Init

ConfPart  == part = "conf" /\ Asking!Next
FilesPart == part = "files" /\ Next
TreePart  == part = "tree" /\ Tree!Next
LoopsPart == part = "loops" /\ Loops!Next

\* Only a part that is not the active one stays as it is, and a tree or a search
\* that is at its end.
KconfigNext ==
  /\ UNCHANGED part
  /\ ConfPart  \/ (part # "conf" /\ UNCHANGED askVars)
  /\ FilesPart \/ (part # "files" /\ UNCHANGED vars)
  /\ TreePart  \/ ((part # "tree" \/ parsed # <<>>) /\ UNCHANGED treeVars)
  /\ LoopsPart \/ ((part # "loops" \/ i > Len(LoopSymbols)) /\ UNCHANGED loopVars)

KconfigSpec == KconfigInit /\ [][KconfigNext]_<<part, askVars, vars, treeVars, loopVars>>

-----------------------------------------------------------------------------
(* Properties of the parts. *)

\* However the tree is rebuilt, it stands in the order of the file, and every
\* condition, selection and dependency is what the file says, for every value
\* of the symbols (yconf.y, menu.c).
TreeAsWritten ==
  part = "tree" =>
    /\ Tree!TypeOK /\ Tree!TreeInOrder /\ Tree!VisibleAsWritten
    /\ Tree!PromptedParentVisible /\ Tree!SelectsAsWritten /\ Tree!TypesSettled
    /\ Tree!PrintedAsMeant

\* A recursive dependency is reported exactly if there is one, and what is
\* printed is one (sym_check_deps of symbol.c).
LoopsFound == part = "loops" => Loops!LoopsFound /\ Loops!LoopsReal

\* The configuration last reported written is in .config or .config.old however
\* saving ends, but for a failing write, which is not looked at, and for a .config
\* that is overwritten (KCONFIG_OVERWRITECONFIG), until it is whole again.  As
\* long as no rename and no write has failed, what does not count as changed is in
\* .config, what is written is the whole configuration, a defconfig is enough to
\* restore it, and auto.conf is what is on in .config, with every change touched
\* before (confdata.c); a save that is tried again leaves out what it wrote.
FilesHold ==
  /\ [](part = "files" =>
          /\ NeverLost
          /\ failed # {} \/ (/\ UnchangedMeansSaved /\ WrittenIsWhole
                        /\ DefconfigIsEnough /\ AutoIsConfig))
  /\ AutoMarksAll

\* conf.c asks until nothing is new, in no more walks than there are symbols,
\* keeps what the file that it read says, answers as its mode says, and writes
\* no value that the dependencies forbid.
ConfSettles ==
  part = "conf" =>
    /\ Asking!WalksEnd /\ Asking!NothingNew /\ Asking!OldKept
    /\ Asking!WrittenValid /\ Asking!AllAnswered
=============================================================================
