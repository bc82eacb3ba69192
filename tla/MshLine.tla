------------------------------ MODULE MshLine --------------------------------
(***************************************************************************)
(* What the shell does with a line (components/finsh/msh.c): msh_exec      *)
(* strips blanks, _msh_exec_cmd looks the first word up, msh_split cuts    *)
(* the line into arguments where it lies.  A step is a round of a loop.    *)
(* cmd holds the line and, from length on, the zeroes the shell has        *)
(* cleared it with.                                                        *)
(***************************************************************************)
EXTENDS Integers, Sequences, FiniteSets, Lists

CONSTANTS
  Letter,     (* the characters of names                                   *)
  Table,      (* the names of the commands, sequences of letters           *)
  ARG_MAX,    (* RT_FINSH_ARG_MAX                                          *)
  LineMax     (* bound on the length of a line                             *)

Char == Letter \cup {"blank", "quote", "backslash"}
Nul == "0"

ASSUME LineAssumption ==
  /\ Nul \notin Letter /\ Letter \cap {"blank", "quote", "backslash"} = {}
  /\ Table \subseteq Seq(Letter) /\ ARG_MAX \in Nat \ {0} /\ LineMax \in Nat

VARIABLES entered, (* the line as it was typed                             *)
          cmd,     (* the cells, changed as it is cut                      *)
          ptr,     (* where the call stands; position runs along with it   *)
          argv,    (* where the arguments begin                            *)
          lineAt,  (* the loop it is in                                    *)
          called   (* the command called, with its arguments               *)

mshVars == <<entered, cmd, ptr, argv, lineAt, called>>

lineLength == Len(entered)
BlankAt(i) == cmd[i] = "blank"

\* The bytes from i to the next zero.
StringAt(i) == LET e == CHOOSE k \in i..lineLength + 1 :
                          cmd[k] = Nul /\ \A j \in i..k - 1 : cmd[j] # Nul
               IN  SubSeq(cmd, i, e - 1)

LineInit ==
  /\ entered \in UNION {[1..n -> Char] : n \in 0..LineMax}
  /\ cmd = Append(entered, Nul)
  /\ ptr = 1 /\ argv = <<>> /\ lineAt = "strip" /\ called = <<>>

GotoLoop(l) == lineAt' = l /\ UNCHANGED <<entered, called>>
MovePtr(n) == ptr' = ptr + n
KeepCells == UNCHANGED <<cmd, argv>>
CutHere == cmd' = [cmd EXCEPT ![ptr] = Nul]

-----------------------------------------------------------------------------

\* msh_exec: nothing is done with an empty line.
Strip ==
  /\ lineAt = "strip" /\ KeepCells
  /\ \/ BlankAt(ptr) /\ MovePtr(1) /\ GotoLoop("strip")
     \/ cmd[ptr] = Nul /\ UNCHANGED ptr /\ GotoLoop("done")
     \/ ~BlankAt(ptr) /\ cmd[ptr] # Nul /\ UNCHANGED ptr /\ GotoLoop("lookup")

\* The first word, in _msh_exec_cmd.
Word0 == LET e == CHOOSE k \in ptr..lineLength + 1 :
                    /\ k = lineLength + 1 \/ BlankAt(k)
                    /\ \A j \in ptr..k - 1 : ~BlankAt(j)
         IN  SubSeq(cmd, ptr, e - 1)

\* msh_get_cmd.
KnownCommand == Word0 \in Table

LookupCommand ==
  /\ lineAt = "lookup" /\ KeepCells /\ UNCHANGED ptr
  /\ GotoLoop(IF KnownCommand THEN "blanks" ELSE "done")

Blanks ==
  /\ lineAt = "blanks" /\ UNCHANGED argv
  /\ \/ BlankAt(ptr) /\ CutHere /\ MovePtr(1) /\ GotoLoop("blanks")
     \/ ~BlankAt(ptr) /\ UNCHANGED <<cmd, ptr>> /\ GotoLoop("token")

ArgvFull == Len(argv) >= ARG_MAX

Token ==
  /\ lineAt = "token" /\ UNCHANGED cmd
  /\ \/ /\ ArgvFull \/ ptr > lineLength
        /\ UNCHANGED <<ptr, argv>> /\ GotoLoop("call")
     \/ /\ ~ArgvFull /\ cmd[ptr] = "quote"
        /\ MovePtr(1) /\ argv' = Append(argv, ptr + 1) /\ GotoLoop("string")
     \/ /\ ~ArgvFull /\ ptr <= lineLength /\ cmd[ptr] # "quote"
        /\ UNCHANGED ptr /\ argv' = Append(argv, ptr) /\ GotoLoop("word")

Escaped == cmd[ptr] = "backslash" /\ cmd[ptr + 1] = "quote"

\* A closed string is cut; one that is not closed ends with the line.
InString ==
  /\ lineAt = "string" /\ UNCHANGED argv
  /\ \/ /\ ptr <= lineLength /\ cmd[ptr] # "quote"
        /\ MovePtr(IF Escaped THEN 2 ELSE 1) /\ UNCHANGED cmd /\ GotoLoop("string")
     \/ /\ ptr > lineLength
        /\ UNCHANGED <<cmd, ptr>> /\ GotoLoop("call")
     \/ /\ ptr <= lineLength /\ cmd[ptr] = "quote"
        /\ CutHere /\ MovePtr(1)
        /\ GotoLoop(IF ptr < lineLength THEN "blanks" ELSE "call")

InWord ==
  /\ lineAt = "word" /\ KeepCells
  /\ \/ ptr <= lineLength /\ ~BlankAt(ptr) /\ MovePtr(1) /\ GotoLoop("word")
     \/ ptr <= lineLength /\ BlankAt(ptr) /\ UNCHANGED ptr /\ GotoLoop("blanks")
     \/ ptr > lineLength /\ UNCHANGED ptr /\ GotoLoop("call")

CallCommand ==
  /\ lineAt = "call" /\ lineAt' = "done"
  /\ called' = [i \in 1..Len(argv) |-> StringAt(argv[i])]
  /\ UNCHANGED <<entered, cmd, ptr, argv>>

LineNext ==
  Strip \/ LookupCommand \/ Blanks \/ Token \/ InString \/ InWord \/ CallCommand

LineSpec == LineInit /\ [][LineNext]_mshVars

-----------------------------------------------------------------------------
(* Properties. *)

\* No loop leaves the line and argv holds no more than it has room for.
LineInRange ==
  /\ ptr \in 1..lineLength + 1 /\ Len(argv) <= ARG_MAX
  /\ \A i \in 1..Len(argv) : argv[i] \in 1..lineLength + 1
  /\ Len(cmd) = lineLength + 1 /\ cmd[lineLength + 1] = Nul
  /\ lineAt \in {"strip", "lookup", "blanks", "token", "string", "word", "call",
             "done"}

\* Where a word from i on ends, and a string: at a blank, and at a quote without
\* a backslash before it, or behind the line.
WordEnd(s, i) == Least({k \in i..Len(s) : s[k] = "blank"} \cup {Len(s) + 1})
Closes(s, k) == s[k] = "quote" /\ s[k - 1] # "backslash"
StringEnd(s, i) == Least({k \in i..Len(s) : Closes(s, k)} \cup {Len(s) + 1})

\* The arguments from i on, of which args are those further on: words between
\* blanks, and strings that begin with a quote at the start of an argument.
ArgsFrom(s, i, args) ==
  IF i > Len(s) THEN <<>>
  ELSE IF s[i] = "blank" THEN args[i + 1]
  ELSE IF s[i] = "quote"
       THEN LET e == StringEnd(s, i + 1)
            IN  <<SubSeq(s, i + 1, e - 1)>> \o args[e + 1]
       ELSE LET e == WordEnd(s, i)
            IN  <<SubSeq(s, i, e - 1)>> \o args[e]

\* The arguments in a line.
ArgsAt(s) == LET args[i \in 1..Len(s) + 2] == ArgsFrom(s, i, args) IN args
ArgsOf(s) == ArgsAt(s)[1]

\* A command gets the arguments of its line as they were typed, the first
\* ARG_MAX of them, and is called by its own name.
CalledWithArgs ==
  called # <<>> =>
    /\ called = SubSeq(ArgsOf(entered), 1, Len(called))
    /\ Len(called) = IF Len(ArgsOf(entered)) < ARG_MAX THEN Len(ArgsOf(entered))
                     ELSE ARG_MAX
    /\ called[1] \in Table
=============================================================================
