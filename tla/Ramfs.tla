------------------------------- MODULE Ramfs ---------------------------------
(***************************************************************************)
(* The RAM file system (filesystems/ramfs/dfs_ramfs.c), called one call at *)
(* a time: a list of entries, each a block of its heap with a pointer to a *)
(* second block that holds the bytes.  A descriptor keeps a pointer to the *)
(* entry and a copy of its size.  Nothing here or above refuses to open a  *)
(* file twice or to unlink one that is open (dfs_file.c:32), so the copy   *)
(* and the pointer may be out of date when they are used.                  *)
(***************************************************************************)
EXTENDS Lists, FiniteSets

CONSTANTS
  FileName, FileByte,
  Fd,        (* descriptors                                                *)
  Entry,     (* blocks for entries; the heap may also refuse one           *)
  NULL,
  Run,       (* the byte strings written                                   *)
  Count,     (* the counts read                                            *)
  SizeMax    (* bound on the size of a file                                *)

ASSUME RamfsAssumption ==
  /\ NULL \notin FileName /\ NULL \notin Entry /\ "root" \notin Entry
  /\ Run \subseteq Seq(FileByte) /\ NULL \notin Seq(FileByte)
  /\ Count \subseteq Nat /\ SizeMax \in Nat

VARIABLES
  list,      (* ramfs->root.list                                           *)
  entry,     (* entry -> name, size, data: NULL or its bytes               *)
  fd,        (* descriptor -> path (of a file, or NULL), data (an entry,   *)
             (* "root" or NULL), size, pos                                 *)
  buf,       (* what the last call on a file has read                      *)
  listing,   (* a handle on the root: the names that were there all the    *)
             (* time since it was opened, and those it has listed          *)
  wild       (* a call has used memory that is not the file's: history     *)

ramfsVars == <<list, entry, fd, buf, listing, wild>>

NoEntry == [name |-> NULL, size |-> 0, data |-> NULL]
Closed == [path |-> NULL, data |-> NULL, size |-> 0, pos |-> 0]

NoEntries == [e \in Entry |-> NoEntry]
AllClosed == [f \in Fd |-> Closed]
NoListing == [f \in Fd |-> [stayed |-> {}, listed |-> <<>>]]

\* dfs_ramfs_create and dfs_ramfs_mount.
RamfsInit ==
  /\ list = <<>> /\ entry = NoEntries /\ fd = AllClosed
  /\ buf = <<>> /\ listing = NoListing /\ wild = FALSE

Listed == ToSet(list)
NamesOf(S) == {entry[e].name : e \in S}

\* dfs_ramfs_lookup of a path that is not the root's.
LookupEntry(n) ==
  LET S == {i \in DOMAIN list : entry[list[i]].name = n}
  IN  IF S = {} THEN NULL
      ELSE list[CHOOSE i \in S : \A j \in S : i <= j]

Opened(f, n, e, size, append) ==
  fd' = [fd EXCEPT ![f] = [path |-> n, data |-> e, size |-> size,
                           pos |-> IF append THEN size ELSE 0]]

\* What the block of an entry has.
Kept(e) == IF entry[e].data = NULL THEN <<>> ELSE entry[e].data

-----------------------------------------------------------------------------

\* dfs_ramfs_open of a file that exists; O_DIRECTORY cuts nothing.  append, trunc:
\* O_APPEND, O_TRUNC.
OpenFile(f, n, append, trunc) ==
  LET e == LookupEntry(n) IN
  /\ fd[f] = Closed /\ e # NULL
  /\ entry' = IF trunc THEN [entry EXCEPT ![e] = [@ EXCEPT !.size = 0,
                                                           !.data = NULL]]
              ELSE entry
  /\ Opened(f, n, e, entry'[e].size, append)
  /\ buf' = <<>> /\ UNCHANGED <<list, listing>>

\* O_CREAT, or O_WRONLY, of one that does not, when the heap has a block.
Create(f, n) ==
  /\ fd[f] = Closed /\ LookupEntry(n) = NULL
  /\ \E e \in Entry \ Listed :
       /\ entry' = [entry EXCEPT ![e] = [NoEntry EXCEPT !.name = n]]
       /\ list' = <<e>> \o list
       /\ Opened(f, n, e, 0, FALSE)
  /\ buf' = <<>> /\ UNCHANGED listing

\* O_DIRECTORY of the root.
OpenRoot(f) ==
  /\ fd[f] = Closed
  /\ Opened(f, NULL, "root", 0, FALSE)
  /\ listing' = [listing EXCEPT ![f] = [stayed |-> NamesOf(Listed),
                                        listed |-> <<>>]]
  /\ UNCHANGED <<list, entry, buf>>

\* dfs_ramfs_close.
CloseFd(f) ==
  /\ fd[f].data # NULL
  /\ fd' = [fd EXCEPT ![f] = Closed]
  /\ listing' = [listing EXCEPT ![f] = [stayed |-> {}, listed |-> <<>>]]
  /\ buf' = <<>> /\ UNCHANGED <<list, entry>>

ToRead(f, k) == IF k < fd[f].size - fd[f].pos THEN k ELSE fd[f].size - fd[f].pos

\* The n bytes at pos are in the block of an entry of the list.
InFile(f, n) ==
  n = 0 \/ (fd[f].data \in Listed /\ fd[f].pos + n <= Len(Kept(fd[f].data)))

Read(f, k) ==
  LET e == fd[f].data IN
  /\ e \in Entry /\ InFile(f, ToRead(f, k))
  /\ buf' = [i \in 1..ToRead(f, k) |-> entry[e].data[fd[f].pos + i]]
  /\ fd' = [fd EXCEPT ![f].pos = @ + ToRead(f, k)]
  /\ UNCHANGED <<list, entry, listing>>

\* The bytes at pos replaced by b.
Over(data, pos, b) ==
  SubSeq(data, 1, pos) \o b \o SubSeq(data, pos + Len(b) + 1, Len(data))

Inside(f, b) == Len(b) + fd[f].pos <= fd[f].size

\* A write inside the file, as the descriptor knows it.
WriteInside(f, b) ==
  LET e == fd[f].data IN
  /\ e \in Entry /\ Inside(f, b) /\ InFile(f, Len(b))
  /\ entry' = IF b = <<>> THEN entry
              ELSE [entry EXCEPT ![e].data = Over(@, fd[f].pos, b)]
  /\ fd' = [fd EXCEPT ![f].pos = @ + Len(b)]
  /\ buf' = <<>> /\ UNCHANGED <<list, listing>>

Grown(f, n) == [fd[f] EXCEPT !.size = n, !.pos = n]

\* Wrong on purpose: the new block does not have what the old one had.
MovedNot(e, k) == [1..k -> FileByte]

\* What a block that rt_memheap_realloc gives has in its first k places: what the
\* old one had, and then whatever was in the memory.
Moved(e, k) ==
  {d \in [1..k -> FileByte] : \A i \in 1..k : i <= Len(Kept(e)) => d[i] = Kept(e)[i]}

\* A write that reaches behind the end, as the descriptor knows it, when the heap
\* gives a block of that size, which may be a smaller one than the file has by
\* now; when it does not, the old block stays and nothing is written.
WriteBehind(f, b) ==
  LET e == fd[f].data
      n == fd[f].pos + Len(b)
  IN
  /\ e \in Entry \cap Listed /\ ~Inside(f, b) /\ n <= SizeMax
  /\ \E d \in Moved(e, fd[f].pos) :
       entry' = [entry EXCEPT ![e] = [@ EXCEPT !.size = n, !.data = d \o b]]
  /\ fd' = [fd EXCEPT ![f] = Grown(f, n)]
  /\ buf' = <<>> /\ UNCHANGED <<list, listing>>

\* A read or write that goes by an entry that has left the list, or behind the
\* end of a block.  Nothing can be said of what is there afterwards, and the
\* model says no more of it.
Astray(f) ==
  /\ fd[f].data \in Entry
  /\ \/ \E k \in Count : ~InFile(f, ToRead(f, k))
     \/ \E b \in Run : Inside(f, b) /\ ~InFile(f, Len(b))
     \/ fd[f].data \notin Listed /\ \E b \in Run : ~Inside(f, b)
  /\ list' = <<>> /\ entry' = NoEntries /\ fd' = AllClosed
  /\ buf' = <<>> /\ listing' = NoListing /\ wild' = TRUE

\* dfs_ramfs_lseek.
Seek(f, i) ==
  /\ fd[f].data \in Entry /\ i <= fd[f].size
  /\ fd' = [fd EXCEPT ![f].pos = i]
  /\ buf' = <<>> /\ UNCHANGED <<list, entry, listing>>

\* dfs_ramfs_getdents with room for k entries: pos counts entries.
From(f) == fd[f].pos

GetDents(f, k) ==
  LET end == IF From(f) + k < Len(list) THEN From(f) + k ELSE Len(list)
      give == SubSeq(list, From(f) + 1, end)
  IN
  /\ fd[f].data = "root" /\ k > 0
  /\ fd' = [fd EXCEPT ![f].pos = @ + Len(give)]
  /\ listing' = [listing EXCEPT ![f].listed =
                   @ \o [i \in 1..Len(give) |-> entry[give[i]].name]]
  /\ UNCHANGED <<list, entry, buf>>

\* Who has listed the entry e, and others behind it not yet, finds the next one
\* moved to a place that he has passed.
Skipped(f, e) ==
  IF From(f) < Len(list) /\ \E i \in 1..From(f) : list[i] = e
  THEN {entry[list[From(f) + 1]].name} ELSE {}

\* dfs_ramfs_unlink.
Unlink(n) ==
  LET e == LookupEntry(n) IN
  /\ e # NULL
  /\ list' = Without(list, e)
  /\ entry' = [entry EXCEPT ![e] = NoEntry]
  /\ listing' = [f \in Fd |-> [listing[f] EXCEPT !.stayed = (@ \ {n}) \ Skipped(f, e)]]
  /\ buf' = <<>> /\ UNCHANGED fd

RamfsCall ==
  \/ \E f \in Fd, n \in FileName :
       Create(f, n) \/ \E a, t \in BOOLEAN : OpenFile(f, n, a, t)
  \/ \E f \in Fd : OpenRoot(f) \/ CloseFd(f)
  \/ \E f \in Fd, k \in Count : Read(f, k) \/ GetDents(f, k)
  \/ \E f \in Fd, b \in Run : WriteInside(f, b) \/ WriteBehind(f, b)
  \/ \E f \in Fd, i \in 0..SizeMax : Seek(f, i)
  \/ \E n \in FileName : Unlink(n)

RamfsNext ==
  /\ ~wild
  /\ \/ RamfsCall /\ UNCHANGED wild
     \/ \E f \in Fd : Astray(f)

RamfsSpec == RamfsInit /\ [][RamfsNext]_ramfsVars

-----------------------------------------------------------------------------
(* Properties. *)

RamfsTypes ==
  /\ Listed \subseteq Entry /\ Len(list) <= Cardinality(Entry)
  /\ \A e \in Entry : /\ entry[e].name \in FileName \cup {NULL}
                      /\ entry[e].size \in 0..SizeMax
  /\ \A f \in Fd : /\ fd[f].data \in Entry \cup {NULL, "root"}
                   /\ fd[f].path \in FileName \cup {NULL}
                   /\ fd[f].size \in 0..SizeMax /\ fd[f].pos \in Nat
  /\ buf \in Seq(FileByte)

\* A name stands in the list once, each entry has the bytes its size says,
\* and a descriptor stands inside the file as it knows it.
EntriesOK ==
  /\ \A e, d \in Listed : entry[e].name = entry[d].name => e = d
  /\ \A e \in Listed : entry[e].data # NULL => Len(entry[e].data) = entry[e].size
  /\ \A e \in Listed : entry[e].data = NULL => entry[e].size = 0
  /\ \A f \in Fd : fd[f].data \in Entry => fd[f].pos <= fd[f].size

\* Who lists the root until nothing more comes has been given every name
\* that was there all the time: files made meanwhile come in front, so names
\* may come twice, but none is missed, unless one that was listed is unlinked:
\* then the next one is.
NoneMissed ==
  \A f \in Fd : fd[f].data = "root" /\ From(f) >= Len(list) =>
    listing[f].stayed \subseteq ToSet(listing[f].listed)

\* Files are what the names, sizes and blocks say they are.
FileContent(n) == LET e == LookupEntry(n) IN IF e = NULL THEN NULL ELSE Kept(e)
OpenName(f) == fd[f].path
OpenAt(f) == IF fd[f].data \in Entry THEN fd[f].pos ELSE 0

\* The entry a descriptor points at is the file it has opened, of the size it knows.
KnowsFile(f) ==
  LET e == fd[f].data IN
  e \in Listed /\ entry[e].name = fd[f].path /\ entry[e].size = fd[f].size

Lost == {f \in Fd : fd[f].data \in Entry /\ ~KnowsFile(f)}

Store == INSTANCE FileStore WITH
  Name <- FileName,
  Handle <- Fd, Absent <- NULL,
  content <- [n \in FileName |-> FileContent(n)],
  open <- [f \in Fd |-> OpenName(f)],
  at <- [f \in Fd |-> OpenAt(f)],
  got <- buf,
  lost <- Lost,
  broken <- wild

\* Whatever is open, how often, cut, moved, removed or refused by the heap: what is
\* read from a file is what was written there last, through whichever descriptor,
\* as long as no call is made through one whose file another has made longer or
\* shorter or removed; one that is spoils one file at most, or memory that is not
\* the file's.  Entries stay sound, and a listing misses no file (dfs_ramfs.c).
IsFileStore == Store!Spec /\ [](EntriesOK /\ NoneMissed)
=============================================================================
