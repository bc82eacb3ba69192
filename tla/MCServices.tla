----------------------------- MODULE MCServices ------------------------------
(***************************************************************************)
(* The services on top of the kernel, one at a time: the initial states    *)
(* choose the part that is active, and the others stay as they are.        *)
(* The parts this module extends get their values from the configurations: *)
(* small rings and lines; a console that the shell opens and two threads   *)
(* print on; headers of 24 bytes and smallest blocks of 12, as on the      *)
(* board, in a pool of a few blocks; two files of up to two bytes in two   *)
(* blocks; three objects, two of the same name; lines of up to six         *)
(* characters.  Every other part is an instance with values of its own,    *)
(* chosen below so that its boundary cases happen.                         *)
(***************************************************************************)
EXTENDS Shell, Device, MemHeap, Ramfs, Objects, Dfs, MshLine

CONSTANT Parts   \* the parts a run is about

-----------------------------------------------------------------------------
(* rt_malloc: a heap that two small regions, or a larger one, fill.        *)

SmallSizes == {1, 23}

VARIABLES heapHdr, lfree, heapPc, heapJob, heapLive,
          heapFree, heapQueue, heapGiven, heapExpired

smallVars == <<heapHdr, lfree, heapPc, heapJob, heapLive,
               heapFree, heapQueue, heapGiven, heapExpired>>

Small == INSTANCE SmallHeap WITH
  heap_sem <- "heap", Unit <- 4, Hdr <- 12, MinSize <- 12,
  MemSize <- 60, Sizes <- SmallSizes,
  hdr <- heapHdr, pc <- heapPc, job <- heapJob, live <- heapLive,
  free <- heapFree, queue <- heapQueue, given <- heapGiven, expired <- heapExpired

-----------------------------------------------------------------------------
(* The start, with ticks enough to end the delay of mutex_thread_entry.    *)

VARIABLES startAt, done, I, heap, handlers, devices, startConsole, rx_int,
          lists, ready, current, main_at, sleeping, ticks,
          filesystem_operation_table, filesystem_table, fslock, broken

startVars == <<startAt, done, I, heap, handlers, devices, startConsole, rx_int,
               lists, ready, current, main_at, sleeping, ticks,
               filesystem_operation_table, filesystem_table, fslock, broken>>

Start == INSTANCE Startup WITH
  Delay <- 2, TickMax <- 8, at <- startAt, console <- startConsole

-----------------------------------------------------------------------------
(* rt_kprintf: one conversion behind a letter, with every mix of flags,    *)
(* widths, precisions and qualifiers over the boundary numbers of a word   *)
(* of ten bits, into a buffer of eight bytes.                              *)

Numbers == {0, 7, 31, 16, 100, -1, -512, 511}

Dec(n) == LET digits == <<"0", "1", "2", "3", "4", "5", "6", "7", "8", "9">>
          IN  IF n < 10 THEN <<digits[n + 1]>>
              ELSE <<digits[(n \div 10) + 1], digits[(n % 10) + 1]>>

Directives ==
  [flags : SUBSET {"-", "+", " ", "0"}, width : {-1, 1, 4, 6}, star : BOOLEAN,
   precision : {-1, 0, 3}, qualifier : {"NUL", "h"}, letter : {"d", "u"},
   arg : {"num"} \X Numbers]
  \cup [flags : SUBSET {"-"}, width : {-1, 4, 10}, star : BOOLEAN,
        precision : {-1, 2}, qualifier : {"NUL"}, letter : {"s"},
        arg : {"str"} \X {<<>>, <<"a", "b", "c">>, <<"NUL">>}]
  \cup [flags : SUBSET {"-"}, width : {-1, 3}, star : {FALSE},
        precision : {-1}, qualifier : {"NUL"}, letter : {"c"},
        arg : {"chr"} \X {"a"}]
  \cup [flags : {{}}, width : {-1}, star : {FALSE}, precision : {-1},
        qualifier : {"NUL", "l"}, letter : {"%", "z", "NUL"},
        arg : {"num"} \X {0}]

Written(d) ==
  <<"m", "%">>
  \o SelectSeq(<<"-", "+", " ", "0">>, LAMBDA c : c \in d.flags)
  \o (CASE d.width = -1 -> <<>> [] d.width # -1 /\ d.star -> <<"*">>
        [] OTHER -> Dec(d.width))
  \o (IF d.precision = -1 THEN <<>> ELSE <<".">> \o Dec(d.precision))
  \o (IF d.qualifier = "NUL" THEN <<>> ELSE <<d.qualifier>>)
  \o (IF d.letter = "NUL" THEN <<>> ELSE <<d.letter>>)

Passed(d) == (IF d.star /\ d.width # -1 THEN <<d.width>> ELSE <<>>) \o <<d.arg[2]>>

Based ==
  {<<<<"%", x>>, <<n>>, [letter |-> x, arg |-> <<"num", n>>]>> :
     x \in {"x", "X", "o", "p"}, n \in Numbers}

FormatSet == {<<Written(d), Passed(d), d>> : d \in Directives} \cup Based
FirstFormat == <<"%", "p">>

VARIABLES fmt, args, va, fmtAt, str, fmtBuf, sent, asked

formatVars == <<fmt, args, va, fmtAt, str, fmtBuf, sent, asked>>

Printf == INSTANCE Format WITH
  Word <- 1024, Half <- 32, ConsoleBuf <- 8, Formats <- FormatSet,
  at <- fmtAt, buf <- fmtBuf

-----------------------------------------------------------------------------
(* The RAM file system: what is written.                                   *)

FileRuns == {<<>>, <<"a">>, <<"b", "a">>}

-----------------------------------------------------------------------------
(* The list of an object class: two objects of the same name.              *)

NameOf == [o \in Object |-> IF o = "o2" THEN "b" ELSE "a"]

-----------------------------------------------------------------------------
(* The lines of a shell with the commands l and ll.                        *)

Commands == {<<"l">>, <<"l", "l">>}
Letters == {"l"}

-----------------------------------------------------------------------------
(* Two threads mount at the root and at paths one below the other, typed   *)
(* with and without detours, with a device and without.  The board has one *)
(* place; the code does not depend on it.                                  *)

NameChars == {"a", "b", "."}
Paths == {<<"/">>, <<"/", "a">>, <<"/", "a", "/", "b">>, <<"/", "a", "b">>}
Dots == <<".", ".">>
TypedPaths ==
  {<<<<>>, <<>>>>, <<<<>>, <<"a">>>>, <<<<>>, <<"a">>, <<>>>>,
   <<<<"b">>, Dots, <<>>, <<"a">>, <<".">>, <<"b">>, <<>>>>,
   <<<<>>, Dots, <<"a">>, Dots, Dots>>}

-----------------------------------------------------------------------------

ASSUME /\ Small!HeapAssumption /\ Start!StartupAssumption
       /\ Printf!FormatAssumption

VARIABLE part   \* the part that is active

ServicesInit ==
  /\ part \in Parts
  /\ Init /\ Small!Init /\ PoolInit /\ Start!Init
  /\ \/ part = "printf"
     \/ part # "printf" /\ fmt = FirstFormat /\ args = <<0>>
  /\ Printf!Init
  /\ RamfsInit /\ ObjectsInit /\ DeviceInit
  /\ part = "msh" \/ (part # "msh" /\ entered = <<>>)
  /\ LineInit
  /\ DfsInit

ShellPart   == part = "shell" /\ Next
SmallPart   == part = "malloc" /\ Small!Next
PoolPart    == part = "memheap" /\ PoolNext
StartPart   == part = "start" /\ Start!Next
PrintfPart  == part = "printf" /\ Printf!Next
FilesPart   == part = "ramfs" /\ RamfsNext
ListPart    == part = "objects" /\ ObjectsNext
ConsolePart == part = "device" /\ DeviceNext
MshPart     == part = "msh" /\ LineNext
MountsPart  == part = "dfs" /\ DfsNext

\* Only a part that is not the active one stays as it is, one whose text has been
\* printed or called, and files that a call has left for other memory: where the active part can do nothing more is a deadlock.
ServicesNext ==
  /\ UNCHANGED part
  /\ ShellPart   \/ (part # "shell" /\ UNCHANGED vars)
  /\ SmallPart   \/ (part # "malloc" /\ UNCHANGED smallVars)
  /\ PoolPart    \/ (part # "memheap" /\ UNCHANGED poolVars)
  /\ StartPart   \/ (part # "start" /\ UNCHANGED startVars)
  /\ PrintfPart  \/ ((part # "printf" \/ sent # <<>>) /\ UNCHANGED formatVars)
  /\ FilesPart   \/ ((part # "ramfs" \/ wild) /\ UNCHANGED ramfsVars)
  /\ ListPart    \/ (part # "objects" /\ UNCHANGED objectVars)
  /\ ConsolePart \/ (part # "device" /\ UNCHANGED deviceVars)
  /\ MshPart     \/ ((part # "msh" \/ lineAt = "done") /\ UNCHANGED mshVars)
  /\ MountsPart  \/ (part # "dfs" /\ UNCHANGED mountVars)

allVars == <<part, vars, smallVars, poolVars, startVars, formatVars, ramfsVars,
             objectVars, deviceVars, mshVars, mountVars>>

ServicesSpec == ServicesInit /\ [][ServicesNext]_allVars

\* Handlers run to their end, the shell and a thread in rt_malloc get the CPU
\* again, and the start goes on.
LiveSpec ==
  /\ ServicesSpec
  /\ WF_vars(part = "shell" /\ Isr) /\ WF_vars(part = "shell" /\ IsrLeave)
  /\ SF_vars(part = "shell" /\ ShellStep)
  /\ SF_vars(part = "shell" /\ IsrDrained
             /\ UNCHANGED <<pc, ch, rx_sem, indicate, lineVars>>)
  /\ \A t \in Thread : WF_smallVars(part = "malloc" /\ Small!Step(t))
  /\ WF_startVars(StartPart)

-----------------------------------------------------------------------------
(* Properties of the parts. *)

\* Every call of rt_malloc and rt_free comes back (src/mem.c).
CallsReturn == Small!CallsReturn

\* No initialisation meets what is not there yet, and the shell comes to wait
\* for input over a mounted root (src/components.c and what it calls).
StartsUp == part = "start" => []Start!NothingMissing /\ Start!ShellRuns

\* What is written is taken as it is meant: a format by the console, a line by the
\* command that gets its arguments, a path by the mount, and by the search for the
\* file system it is under (src/kservice.c, msh.c, dfs_fs.c).
TextsAsMeant ==
  /\ [](part = "printf" => Printf!PrintsAsMeant)
  /\ [](part = "msh" => CalledWithArgs)
  /\ [](part = "dfs" => PathsMeant)
  /\ FoundNearest
=============================================================================
