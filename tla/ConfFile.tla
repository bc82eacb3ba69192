------------------------------ MODULE ConfFile -------------------------------
(***************************************************************************)
(* The files of confdata.c.  A process reads .config, its symbols are set, *)
(* and it saves: into a temporary file, which takes the place of .config   *)
(* after that one has become .config.old.  For the build it then brings    *)
(* auto.conf, tristate.conf and the header up to date, and touches a file  *)
(* for every symbol that differs from the auto.conf before.  With          *)
(* KCONFIG_OVERWRITECONFIG it writes .config itself, without the other two.*)
(* The process may die between any two of these steps, a rename may fail,  *)
(* and so may a write, which is not looked at.                             *)
(***************************************************************************)
EXTENDS ConfStore

CONSTANTS Numbers,     (* what is typed for a number                       *)
          Files,       (* the files that .config may be at first           *)
          MaxSets,     (* bound: how often something is set                *)
          MaxDeaths    (* bound: how often the process dies or gives up    *)

VARIABLES st,        \* the store of the process
          pc,        \* where the process is
          out,       \* the temporary file of the process
          cfg, old,  \* .config and .config.old
          auto, tri, header,  \* auto.conf, tristate.conf and autoconf.h
          todo,      \* what conf_split_config has still to touch
          touched,   \* what was touched since auto.conf was last replaced
          saved,     \* the configuration that was last reported written
          hurt,      \* whether .config was opened for writing, or a write to it
                     \* was cut short, since it last became all of what was reported
          failed,    \* what has failed for this process: a rename, a write
          sets, deaths

disk == <<cfg, old, auto, tri, header>>
vars == <<st, pc, out, cfg, old, auto, tri, header, todo, touched, saved, hurt,
          failed, sets, deaths>>

Init ==
  /\ st = Blank /\ pc = "none" /\ out = NoFile
  /\ cfg \in Files /\ old = NoFile /\ auto = NoFile /\ tri = NoFile /\ header = NoFile
  /\ todo = <<>> /\ touched = {} /\ saved = cfg /\ hurt = FALSE
  /\ failed = {} /\ sets = 0 /\ deaths = 0

Start ==
  /\ pc = "none" /\ pc' = "up"
  /\ st' = conf_read(Blank, cfg)
  /\ UNCHANGED <<out, disk, todo, touched, saved, hurt, failed, sets, deaths>>

\* The process looks everything up, to show it.
Show ==
  /\ pc = "up" /\ st.valid # Symbol
  /\ st' = CalcList(st, SymbolList)
  /\ UNCHANGED <<pc, out, disk, todo, touched, saved, hurt, failed, sets, deaths>>

Edit ==
  /\ pc = "up" /\ sets < MaxSets /\ sets' = sets + 1
  /\ \E s \in st.valid :
       /\ st.visible[s] # no
       /\ \/ \E v \in 0..2 : IsTri(s) /\ v # st.tri[s] /\ st' = sym_set_tristate_value(st, s, v).st
          \/ \E v \in Numbers : ~IsTri(s) /\ v # st.val[s] /\ st' = sym_set_string_value(st, s, v).st
  /\ UNCHANGED <<pc, out, disk, todo, touched, saved, hurt, failed, deaths>>

-----------------------------------------------------------------------------
(* conf_write *)

\* A file that is not written to its end: the last of the lines is missing.
CutShort(lines) == SubSeq(lines, 1, Len(lines) - 1)

WriteFails == deaths < MaxDeaths /\ deaths' = deaths + 1 /\ failed' = failed \cup {"write"}

\* Into a temporary file, or into .config if the environment says so; whether some
\* of that one or nothing is there is settled when the process ends.
Save ==
  /\ pc = "up"
  /\ \E w \in {Written(st)} : st' = w.st /\ out' = w.out
  /\ \/ pc' = "write" /\ UNCHANGED <<cfg, hurt>>
     \/ pc' = "overwrite" /\ cfg' = <<>> /\ hurt' = TRUE
  /\ UNCHANGED <<old, auto, tri, header, todo, touched, saved, failed, sets, deaths>>

\* Wrong on purpose: the old configuration is removed, not renamed.
RemoveOld ==
  /\ pc = "write" /\ pc' = "backup" /\ cfg' = NoFile
  /\ UNCHANGED <<st, out, old, auto, tri, header, todo, touched, saved, hurt, failed,
                 sets, deaths>>

\* Without a .config this rename fails, which is not looked at.
Backup ==
  /\ pc = "write" /\ pc' = "backup"
  /\ old' = (IF cfg = NoFile THEN old ELSE cfg) /\ cfg' = NoFile
  /\ UNCHANGED <<st, out, auto, tri, header, todo, touched, saved, hurt, failed,
                 sets, deaths>>

\* The file, renamed or written in its place, is .config, and reported as such
\* whether it is whole or not.
Replace ==
  /\ pc \in {"backup", "overwrite"} /\ pc' = "up"
  /\ \/ cfg' = out /\ hurt' = FALSE /\ UNCHANGED <<failed, deaths>>
     \/ WriteFails /\ cfg' = CutShort(out) /\ hurt' = TRUE
  /\ saved' = out /\ out' = NoFile
  /\ st' = [st EXCEPT !.changed = FALSE]
  /\ UNCHANGED <<old, auto, tri, header, todo, touched, sets>>

ReplaceFails ==
  /\ deaths < MaxDeaths /\ deaths' = deaths + 1
  /\ pc = "backup" /\ pc' = "up" /\ out' = NoFile
  /\ failed' = failed \cup {"rename"}
  /\ UNCHANGED <<st, disk, todo, touched, saved, hurt, sets>>

-----------------------------------------------------------------------------
(* conf_write_autoconf *)

\* What auto.conf says of the symbols it names.
AutoValue(file) ==
  IF file = NoFile THEN <<>>
  ELSE [s \in {file[i].s : i \in DOMAIN file} |-> (CHOOSE l \in ToSet(file) : l.s = s).v]

\* Whether conf_split_config touches the file of a symbol.
Differs(st0, s, was) ==
  IF s \in st0.write
  THEN IF s \in DOMAIN was THEN (IF IsTri(s) THEN st0.tri[s] ELSE st0.val[s]) # was[s]
       ELSE IsTri(s) => st0.tri[s] # no
  ELSE s \in DOMAIN was

\* The build wants auto.conf; what was changed has been saved.
Split ==
  /\ pc = "up" /\ ~st.changed /\ pc' = "split"
  /\ LET Reread(st0) == IF auto = NoFile THEN st0 ELSE [st0 EXCEPT !.valid = {}] IN
     st' = CalcList(Reread(sym_clear_all_valid(st)), <<Modules>> \o SymbolList)
  /\ todo' = SelectSeq(SymbolList, LAMBDA s : ~sym_is_choice(s) /\ Differs(st', s, AutoValue(auto)))
  /\ UNCHANGED <<out, disk, touched, saved, hurt, failed, sets, deaths>>

Touch ==
  /\ pc = "split" /\ todo # <<>>
  /\ touched' = touched \cup {Head(todo)} /\ todo' = Tail(todo)
  /\ UNCHANGED <<st, pc, out, disk, saved, hurt, failed, sets, deaths>>

\* The three temporary files, of which one is kept in out.
WriteAuto ==
  /\ pc = "split" /\ todo = <<>> /\ pc' = "header"
  /\ \E a \in {AutoLines(st)} : st' = a.st /\ out' = a.out
  /\ UNCHANGED <<disk, todo, touched, saved, hurt, failed, sets, deaths>>

\* Each of the files may have been cut short, which is not looked at either.
ReplaceHeader ==
  /\ pc = "header" /\ pc' = "tristate"
  /\ \/ header' = header_print(out) /\ UNCHANGED <<failed, deaths>>
     \/ WriteFails /\ header' = header_print(CutShort(out))
  /\ UNCHANGED <<st, out, cfg, old, auto, tri, todo, touched, saved, hurt, sets>>

ReplaceTristate ==
  /\ pc = "tristate" /\ pc' = "auto"
  /\ \/ tri' = tristate_print(out) /\ UNCHANGED <<failed, deaths>>
     \/ WriteFails /\ tri' = tristate_print(CutShort(out))
  /\ UNCHANGED <<st, out, cfg, old, auto, header, todo, touched, saved, hurt, sets>>

\* "This must be the last step."
ReplaceAuto ==
  /\ pc = "auto" /\ pc' = "built" /\ touched' = {}
  /\ \/ auto' = out /\ UNCHANGED <<failed, deaths>>
     \/ WriteFails /\ auto' = CutShort(out)
  /\ UNCHANGED <<st, out, cfg, old, tri, header, todo, saved, hurt, sets>>

\* The process ends, after its work or at any time.
End ==
  /\ pc \notin {"none"} /\ pc' = "none"
  /\ deaths' = (IF pc = "built" THEN deaths ELSE deaths + 1) /\ deaths' <= MaxDeaths
  /\ cfg' \in IF pc = "overwrite" THEN {cfg, CutShort(out)} ELSE {cfg}
  /\ st' = Blank /\ out' = NoFile /\ todo' = <<>> /\ failed' = {}
  /\ UNCHANGED <<old, auto, tri, header, touched, saved, hurt, sets>>

Next ==
  \/ Start \/ Show \/ Edit
  \/ Save \/ Backup \/ Replace \/ ReplaceFails
  \/ Split \/ Touch \/ WriteAuto \/ ReplaceHeader \/ ReplaceTristate \/ ReplaceAuto
  \/ End

Spec == Init /\ [][Next]_vars

-----------------------------------------------------------------------------
(* Properties. *)

\* The values all symbols have when they are looked up anew.
ValuesIn(st0) == [s \in Symbol |-> IF IsTri(s) THEN StringValue(st0, s) ELSE st0.val[s]]
Values(st0) == ValuesIn(CalcList([st0 EXCEPT !.valid = {}, !.need = {}], SymbolList))

\* What a file says is on.
On(file) == {l \in ToSet(file) : ~(IsTri(l.s) /\ l.v = no)}

\* While nothing counts as changed, the file stands for the values in memory:
\* a process that reads it gets the same values, and nothing to save.
UnchangedMeansSaved ==
  pc = "up" /\ ~st.changed /\ cfg # NoFile =>
    Values(conf_read(Blank, cfg)) = Values(st)

\* Whatever fails, the configuration last reported written is in one of the files;
\* but for a write that failed and was not noticed, and for .config while, and
\* after, it is overwritten and has not become whole again.
NeverLost == hurt \/ saved \in {cfg, old}

\* What conf_write_defconfig leaves out comes back by itself.
DefconfigIsEnough ==
  pc = "up" =>
    LET w == conf_write_defconfig(st)
        r == conf_set_all_new_symbols(conf_read(Blank, w.out), "default", <<>>)
    IN  Values(r.st) = Values(st)

\* What a program that includes the header is told.
Defined(lines) ==
  {Line(d.s, CASE ~IsTri(d.s) -> d.v [] d.module -> mod [] OTHER -> yes) : d \in ToSet(lines)}

\* Unless a write failed, auto.conf is replaced when the header and tristate.conf say the same and
\* every symbol whose line changes has been touched since the last time.
AutoMarksAll ==
  [][auto' # auto /\ "write" \notin failed' =>
       /\ Defined(header') = ToSet(auto') /\ tri' = tristate_print(auto')
       /\ \A s \in Symbol :
            (\E l \in ToSet(auto) \ ToSet(auto') : l.s = s) \/ (\E l \in ToSet(auto') \ ToSet(auto) : l.s = s)
              => s \in touched]_vars

\* After a build auto.conf is what is on in .config.
AutoIsConfig ==
  pc = "built" => ToSet(auto) = On(cfg)

\* What is about to become .config is the configuration: the same is on when
\* everything is looked up anew.
WrittenIsWhole ==
  pc \in {"backup", "overwrite"} => On(out) = On(Written(sym_clear_all_valid(st)).out)
=============================================================================
