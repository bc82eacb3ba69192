-------------------------------- MODULE Dfs ----------------------------------
(***************************************************************************)
(* The tables of the file system layer (components/dfs): file system types *)
(* register, threads mount them at paths and look paths up.  The tables    *)
(* change under fslock, one step each; between its critical sections a     *)
(* mount can be overtaken by other mounts and by lookups.  A path is a     *)
(* sequence of characters.  As it is typed it is the sequence of what      *)
(* stands between its slashes: "/a/.." is empty, a, dot dot.               *)
(***************************************************************************)
EXTENDS Integers, Sequences, FiniteSets, SequencesExt

CONSTANTS
  Mounter,     (* the threads that mount                                   *)
  FsSlot,      (* places in filesystem_table, DFS_FILESYSTEM_MAX of them   *)
  OpsMax,      (* places in filesystem_operation_table, as many            *)
  Type,        (* file system types by name                                *)
  NameChar,    (* the characters of names                                  *)
  Path,        (* the paths looked up, from the root                       *)
  Typed,       (* the paths mounted at, as they are typed                  *)
  Device,      (* block devices, some of which cannot be opened            *)
  none

PathChar == NameChar \cup {"/"}

ASSUME DfsAssumption ==
  /\ FsSlot \subseteq Nat /\ IsFiniteSet(FsSlot) /\ OpsMax \in Nat
  /\ "/" \notin NameChar
  /\ Typed \subseteq Seq(Seq(NameChar)) \ {<<>>}
  /\ Path \subseteq {p \in Seq(PathChar) : p # <<>> /\ p[1] = "/"}
  /\ none \notin Type /\ none \notin FsSlot /\ none \notin Seq(PathChar)

VARIABLES
  ops,       (* the registered types                                       *)
  table,     (* slot -> path, type, and whether it has its data            *)
  mountPc,   (* thread -> where it is in dfs_mount                         *)
  arg,       (* thread -> the type and path it mounts, how the path was    *)
             (*   typed, whether there is a device, and the slot it took   *)
  mounted,   (* the slots whose mount has returned 0                       *)
  found      (* what the last lookup gave: the path and the slot           *)

mountVars == <<ops, table, mountPc, arg, mounted, found>>

NoFs == [path |-> none, type |-> none, data |-> FALSE]
NoArg == [type |-> none, path |-> none, typed |-> none, dev |-> FALSE, slot |-> none]

\* dfs_init.
DfsInit ==
  /\ ops = {} /\ table = [s \in FsSlot |-> NoFs]
  /\ mountPc = [t \in Mounter |-> "out"] /\ arg = [t \in Mounter |-> NoArg]
  /\ mounted = {} /\ found = [path |-> none, slot |-> none]

-----------------------------------------------------------------------------
(* Paths. *)

Dot == <<".">>
DotDot == <<".", ".">>

\* A typed path as it stands there.
Text(typed) ==
  FoldLeft(LAMBDA text, i : text \o (IF i > 1 THEN <<"/">> ELSE <<>>) \o typed[i],
           <<>>, [i \in DOMAIN typed |-> i])

\* up_one: back to behind the slash before the last one; the path may lose its
\* first slash, and behind that there is nothing to go up from.
UpOne(d) ==
  IF d = <<>> THEN none
  ELSE LET slashes == {i \in 1..Len(d) - 1 : d[i] = "/"} \cup {0}
       IN  SubSeq(d, 1, CHOOSE i \in slashes : \A j \in slashes : j <= i)

\* One round of dfs_normalize_path: part i of path p goes behind d.
Round(p, d, i) ==
  CASE d = none -> none
    [] d # none /\ p[i] = Dot -> d
    [] d # none /\ p[i] = DotDot -> UpOne(d)
    [] d # none /\ p[i] = <<>> /\ i > 1 -> d
    [] OTHER -> d \o p[i] \o (IF i < Len(p) THEN <<"/">> ELSE <<>>)

\* No slash at the end, but for the root.
Trimmed(d) ==
  CASE d = none -> none
    [] d = <<>> -> <<"/">>
    [] OTHER -> IF Len(d) > 1 /\ d[Len(d)] = "/" THEN SubSeq(d, 1, Len(d) - 1) ELSE d

\* What the rounds leave behind each part.
Rounds(p) ==
  LET d[i \in 0..Len(p)] == IF i = 0 THEN <<>> ELSE Round(p, d[i - 1], i) IN d

\* dfs_normalize_path; what does not begin with a slash is below
\* working_directory, which is the root.
dfs_normalize_path(typed) ==
  LET p == IF typed[1] = <<>> THEN typed ELSE <<<<>>, <<>>>> \o typed
  IN  Trimmed(Rounds(p)[Len(p)])

-----------------------------------------------------------------------------

\* dfs_register: a name that is taken, or a full table, is refused.
Register(y) ==
  /\ y \notin ops /\ Cardinality(ops) < OpsMax
  /\ ops' = ops \cup {y}
  /\ UNCHANGED <<table, mountPc, arg, mounted, found>>

\* dfs_mount as far as the look into the table of types, which never loses
\* one, and the path; without the type, or above the root, it fails.
Mount(t, y, typed, dev) ==
  /\ mountPc[t] = "out" /\ y \in ops /\ dfs_normalize_path(typed) # none
  /\ mountPc' = [mountPc EXCEPT ![t] = "slot"]
  /\ arg' = [arg EXCEPT ![t] = [type |-> y, path |-> dfs_normalize_path(typed),
                                typed |-> typed, dev |-> dev, slot |-> none]]
  /\ UNCHANGED <<ops, table, mounted, found>>

Fails(t) ==
  /\ mountPc' = [mountPc EXCEPT ![t] = "out"]
  /\ arg' = [arg EXCEPT ![t] = NoArg]

\* Wrong on purpose: only mounts that are done are looked at.
MountedBefore(p) == \E s \in mounted : table[s].path = p

MountedAt(p) == \E s \in FsSlot : table[s].path = p

FreeSlots == {s \in FsSlot : table[s].type = none}

FirstFree == CHOOSE s \in FreeSlots : \A r \in FreeSlots : s <= r

\* The second critical section: the entry is published before the mount.  What
\* is looked for in the table is the path as it was typed.
TakeSlot(t) ==
  /\ mountPc[t] = "slot"
  /\ \/ /\ MountedAt(Text(arg[t].typed)) \/ FreeSlots = {}
        /\ Fails(t) /\ UNCHANGED table
     \/ /\ ~MountedAt(Text(arg[t].typed)) /\ FreeSlots # {}
        /\ table' = [table EXCEPT ![FirstFree] =
                       [path |-> arg[t].path, type |-> arg[t].type,
                        data |-> FALSE]]
        /\ arg' = [arg EXCEPT ![t].slot = FirstFree]
        /\ mountPc' = [mountPc EXCEPT ![t] = IF arg[t].dev THEN "open" ELSE "mount"]
  /\ UNCHANGED <<ops, mounted, found>>

\* The third: the entry is given up again.
GiveUp(t) ==
  /\ table' = [table EXCEPT ![arg[t].slot] = NoFs]
  /\ Fails(t)
  /\ UNCHANGED <<ops, mounted, found>>

\* The device cannot be opened, or can.
OpenDevice(t) ==
  /\ mountPc[t] = "open"
  /\ \/ GiveUp(t)
     \/ /\ mountPc' = [mountPc EXCEPT ![t] = "mount"]
        /\ UNCHANGED <<ops, table, arg, mounted, found>>

\* The type's own mount: dfs_ramfs_mount sets data, or has none to set.
DoMount(t) ==
  /\ mountPc[t] = "mount"
  /\ \/ GiveUp(t)
     \/ /\ table' = [table EXCEPT ![arg[t].slot].data = TRUE]
        /\ mounted' = mounted \cup {arg[t].slot}
        /\ Fails(t)
        /\ UNCHANGED <<ops, found>>

\* p begins with m, and the last name of m ends there.
IsBelow(m, p) ==
  /\ Len(m) <= Len(p) /\ SubSeq(p, 1, Len(m)) = m
  /\ Len(m) > 1 /\ Len(p) > Len(m) => p[Len(m) + 1] = "/"

\* Wrong on purpose: of two matches the later place.
BetterLast(s, r) == s > r

\* Of two matches the longer path, then the later place.
Better(s, r) ==
  \/ Len(table[s].path) > Len(table[r].path)
  \/ Len(table[s].path) = Len(table[r].path) /\ s > r

\* dfs_filesystem_lookup.
LookupPath(p) ==
  LET S == {s \in FsSlot : table[s].type # none /\ IsBelow(table[s].path, p)}
      best == IF S = {} THEN none
              ELSE CHOOSE s \in S : \A r \in S \ {s} : Better(s, r)
  IN  /\ found' = [path |-> p, slot |-> best]
      /\ UNCHANGED <<ops, table, mountPc, arg, mounted>>

DfsNext ==
  \/ \E y \in Type : Register(y)
  \/ \E t \in Mounter, y \in Type, typed \in Typed, dev \in Device :
       Mount(t, y, typed, dev)
  \/ \E t \in Mounter : TakeSlot(t) \/ OpenDevice(t) \/ DoMount(t)
  \/ \E p \in Path : LookupPath(p)

DfsSpec == DfsInit /\ [][DfsNext]_mountVars

-----------------------------------------------------------------------------
(* Properties. *)

DfsTypes ==
  /\ ops \subseteq Type /\ Cardinality(ops) <= OpsMax
  /\ \A s \in FsSlot : table[s].type \in ops \cup {none}
  /\ \A t \in Mounter : arg[t].slot \in FsSlot \cup {none}

\* Every place in use belongs to the mount that took it: one that is still at
\* work, or one that has returned - though two mounts may look for a place one
\* behind the other and a failing one gives its place back.
MountsApart ==
  /\ \A t, u \in Mounter : t # u /\ arg[t].slot # none => arg[t].slot # arg[u].slot
  /\ \A t \in Mounter : arg[t].slot # none =>
       arg[t].slot \notin mounted /\ table[arg[t].slot].path = arg[t].path

\* No path is mounted at twice by those who type it as it is: since the table
\* is searched for what was typed, "/a/" is mounted at over "/a".
OncePerPath ==
  [][\A t \in Mounter, s \in FsSlot :
       arg[t].slot = none /\ arg'[t].slot # none /\ table[s].path = arg[t].path
         => Text(arg[t].typed) # arg[t].path]_mountVars

\* What a typed path means: the names that no later dot dot takes back.
Names(typed, i, j) == {k \in i..j : typed[k] \notin {<<>>, Dot, DotDot}}
Ups(typed, i, j) == {k \in i..j : typed[k] = DotDot}
Level(typed, i, j) == Cardinality(Names(typed, i, j)) - Cardinality(Ups(typed, i, j))
AboveRoot(typed) == \E j \in DOMAIN typed : Level(typed, 1, j) < 0
KeptIn(typed, n) ==
  {i \in Names(typed, 1, n) : \A j \in i..n : Level(typed, i, j) > 0}
\* The names in S, each behind a slash.
Joins(typed, S) ==
  LET d[i \in 0..Len(typed)] ==
        IF i = 0 THEN <<>>
        ELSE IF i \in S THEN d[i - 1] \o <<"/">> \o typed[i] ELSE d[i - 1]
  IN  d
Meant(typed) ==
  LET all == Joins(typed, KeptIn(typed, Len(typed)))[Len(typed)]
  IN  IF all = <<>> THEN <<"/">> ELSE all

\* What is mounted at is what was typed, unless that climbs above the root.
PathsMeant ==
  \A t \in Mounter :
    mountPc[t] # "out" /\ ~AboveRoot(arg[t].typed) => arg[t].path = Meant(arg[t].typed)

\* What was mounted stays, with its data: no other mount takes or clears it.
MountedStays ==
  [][\A s \in mounted : table'[s] = table[s] /\ table[s].data]_mountVars

\* Mounts that overtake each other keep apart (dfs_mount).
MountsKept == []MountsApart /\ OncePerPath /\ MountedStays

\* Under(m, p): m is the root, p, or a directory that leads to p.
Root == <<"/">>
Under(m, p) ==
  m = Root \/ m = p \/ (Len(m) < Len(p) /\ SubSeq(p, 1, Len(m) + 1) = m \o Root)

\* A path is found to belong to a file system it is under, and to none that
\* is above one it is under - one that is still at its mount included.
FoundNearest ==
  [][\A p \in Path : LookupPath(p) =>
       LET best == found'.slot IN
       /\ best # none => Under(table[best].path, p)
       /\ \A s \in mounted : Under(table[s].path, p) =>
            best # none /\ Under(table[s].path, table[best].path)]_mountVars
=============================================================================
