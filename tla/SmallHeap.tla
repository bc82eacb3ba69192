----------------------------- MODULE SmallHeap -------------------------------
(***************************************************************************)
(* rt_malloc and rt_free of src/mem.c.  The heap is a chain of blocks,     *)
(* each with a header of Hdr bytes in front; an address is an offset from  *)
(* heap_ptr.  heap_sem is used as SemPromise says.  The loops of rt_malloc *)
(* are steps of their own: the thread that holds heap_sem may lose the CPU *)
(* between two rounds.                                                     *)
(***************************************************************************)
EXTENDS Integers, Sequences, TLC

CONSTANTS
  Thread,    (* the threads that use the heap                              *)
  heap_sem,  (* its semaphore                                              *)
  Unit,      (* RT_ALIGN_SIZE                                              *)
  Hdr,       (* SIZEOF_STRUCT_MEM                                          *)
  MinSize,   (* MIN_SIZE_ALIGNED                                           *)
  MemSize,   (* mem_size_aligned                                           *)
  Sizes      (* sizes passed to rt_malloc                                  *)

ASSUME HeapAssumption ==
  /\ Unit \in Nat \ {0}
  /\ Hdr \in Nat \ {0} /\ MinSize \in Nat \ {0} /\ MemSize \in Nat \ {0}
  /\ Hdr % Unit = 0 /\ MinSize % Unit = 0 /\ MemSize % Unit = 0
  /\ Sizes \subseteq Nat

VARIABLES
  hdr,      (* offset of a block -> its header; the header of a block that *)
            (* was merged into another one is gone: nothing reads it       *)
  lfree,    (* lfree, as an offset                                         *)
  pc, job,  (* thread -> where it is in rt_malloc or rt_free, and its call *)
  live,     (* the regions callers have                                    *)
  free, queue, given, expired    (* heap_sem                               *)

semVars == <<free, queue, given, expired>>
vars == <<hdr, lfree, pc, job, live, semVars>>

HeapSem == INSTANCE SemPromise WITH
  Sem <- {heap_sem}, Initial <- [s \in {heap_sem} |-> 1]

End == MemSize + Hdr       \* heap_end

Blocks == DOMAIN hdr

Aligned(n) == ((n + Unit - 1) \div Unit) * Unit

NoJob == [fn |-> "none", size |-> 0, at |-> 0]

Init ==
  /\ hdr = [p \in {0, End} |->
              [used |-> p = End, next |-> End, prev |-> p]]
  /\ lfree = 0
  /\ pc = [t \in Thread |-> "out"] /\ job = [t \in Thread |-> NoJob]
  /\ live = {}
  /\ HeapSem!Init

-----------------------------------------------------------------------------
(* Blocks. *)

Room(p) == hdr[p].next - (p + Hdr)

\* Wrong on purpose: any free block will do.
FitsAny(p, n) == ~hdr[p].used

Fits(p, n) == ~hdr[p].used /\ Room(p) >= n

\* The rest of block p is worth a block of its own.
Splits(p, n) == Room(p) >= n + Hdr + MinSize

\* Block p is used for n bytes, the rest of it becomes a free block.
Split(p, n) ==
  LET q == p + Hdr + n
  IN  [x \in Blocks \cup {q} |->
         CASE x = p -> [hdr[p] EXCEPT !.next = q, !.used = TRUE]
           [] x = q -> [used |-> FALSE, next |-> hdr[p].next, prev |-> p]
           [] x = hdr[p].next /\ x # End -> [hdr[x] EXCEPT !.prev = q]
           [] OTHER -> hdr[x]]

\* Block q, next to p, becomes a part of p.
Swallow(h, p, q) ==
  [x \in DOMAIN h \ {q} |->
     CASE x = p         -> [h[p] EXCEPT !.next = h[q].next]
       [] x = h[q].next -> [h[x] EXCEPT !.prev = p]
       [] OTHER         -> h[x]]

\* Wrong on purpose: the neighbour may be in use.
HoleAfterAny(h, p) == h[p].next # p /\ h[p].next # End

\* The conditions of plug_holes.
HoleAfter(h, p) ==
  /\ h[p].next # p /\ h[p].next # End
  /\ ~h[h[p].next].used

HoleBefore(h, p) == h[p].prev # p /\ ~h[h[p].prev].used

\* plug_holes: the headers after it.
Plugged(h, p) ==
  LET g == IF HoleAfter(h, p) THEN Swallow(h, p, h[p].next) ELSE h
  IN  IF HoleBefore(g, p) THEN Swallow(g, g[p].prev, p) ELSE g

\* lfree after block p was freed and plug_holes ran.
Lowest(h, p) ==
  LET l == IF p < lfree THEN p ELSE lfree
      m == IF HoleAfter(h, p) /\ l = h[p].next THEN p ELSE l
  IN  IF HoleBefore(h, p) /\ m = p THEN h[p].prev ELSE m

-----------------------------------------------------------------------------
(* Calls. *)

\* rt_sem_take(&heap_sem, RT_WAITING_FOREVER): gets it, or waits.
Enter(t, j) ==
  /\ pc[t] = "out"
  /\ job' = [job EXCEPT ![t] = j]
  /\ \/ HeapSem!Take(heap_sem) /\ pc' = [pc EXCEPT ![t] = "in"]
     \/ HeapSem!Wait(t, heap_sem) /\ pc' = [pc EXCEPT ![t] = "wait"]

\* rt_sem_release(&heap_sem), and the call is over.
Leave(t) ==
  /\ pc' = [pc EXCEPT ![t] = "out"]
  /\ job' = [job EXCEPT ![t] = NoJob]
  /\ HeapSem!Release(heap_sem) \/ HeapSem!Grant(heap_sem)

\* rt_malloc(n).  For 0 and for more than the heap has it returns RT_NULL
\* before anything has changed.
Malloc(t, n) ==
  /\ n # 0 /\ Aligned(n) <= MemSize
  /\ Enter(t, [fn |-> "malloc", size |-> Aligned(n), at |-> 0])
  /\ UNCHANGED <<hdr, lfree, live>>

\* rt_free of a region some caller has and gives up.  RT_NULL and addresses
\* outside the heap are ignored.
Free(t, r) ==
  /\ r \in live /\ live' = live \ {r}
  /\ Enter(t, [fn |-> "free", size |-> r.size, at |-> r.at - Hdr])
  /\ UNCHANGED <<hdr, lfree>>

\* rt_sem_take comes back in a thread that had to wait.
Resume(t) ==
  /\ pc[t] = "wait" /\ HeapSem!Succeed(t, heap_sem)
  /\ pc' = [pc EXCEPT ![t] = "in"]
  /\ UNCHANGED <<hdr, lfree, job, live>>

StartSearch(t) ==
  /\ pc[t] = "in" /\ job[t].fn = "malloc"
  /\ pc' = [pc EXCEPT ![t] = "search"]
  /\ job' = [job EXCEPT ![t].at = lfree]
  /\ UNCHANGED <<hdr, lfree, live, semVars>>

\* The condition of the loop over the blocks.
Searching(t) == pc[t] = "search" /\ job[t].at < MemSize - job[t].size

\* Wrong on purpose: the search goes back and forth.
WalkBack(t) ==
  /\ Searching(t) /\ ~Fits(job[t].at, job[t].size)
  /\ job' = [job EXCEPT ![t].at = hdr[hdr[job[t].at].next].prev]
  /\ UNCHANGED <<hdr, lfree, pc, live, semVars>>

Walk(t) ==
  /\ Searching(t) /\ ~Fits(job[t].at, job[t].size)
  /\ job' = [job EXCEPT ![t].at = hdr[job[t].at].next]
  /\ UNCHANGED <<hdr, lfree, pc, live, semVars>>

\* The block is taken; its rest, if worth it, becomes a block.
Carve(t) ==
  LET p == job[t].at
      n == job[t].size
  IN  /\ Searching(t) /\ Fits(p, n)
      /\ hdr' = IF Splits(p, n) THEN Split(p, n)
                ELSE [hdr EXCEPT ![p].used = TRUE]
      /\ pc' = [pc EXCEPT ![t] = IF p = lfree THEN "advance" ELSE "carved"]
      /\ UNCHANGED <<lfree, job, live, semVars>>

NoRoom(t) ==
  /\ pc[t] = "search" /\ ~Searching(t)
  /\ Leave(t)
  /\ UNCHANGED <<hdr, lfree, live>>

\* Wrong on purpose: blocks that are free are passed over.
StaleAlways == lfree # End

\* The condition of the loop that moves lfree.
Stale == hdr[lfree].used /\ lfree # End

AdvanceFree(t) ==
  /\ pc[t] = "advance" /\ Stale
  /\ lfree' = hdr[lfree].next
  /\ UNCHANGED <<hdr, pc, job, live, semVars>>

Deliver(t) ==
  /\ pc[t] = "carved" \/ (pc[t] = "advance" /\ ~Stale)
  /\ live' = live \cup {[at |-> job[t].at + Hdr, size |-> job[t].size]}
  /\ Leave(t)
  /\ UNCHANGED <<hdr, lfree>>

\* The rest of rt_free.
TakeBack(t) ==
  LET p == job[t].at
      h == [hdr EXCEPT ![p].used = FALSE]
  IN  /\ pc[t] = "in" /\ job[t].fn = "free"
      /\ hdr' = Plugged(h, p)
      /\ lfree' = Lowest(h, p)
      /\ Leave(t)
      /\ UNCHANGED live

Step(t) ==
  \/ Resume(t) \/ StartSearch(t) \/ Walk(t) \/ Carve(t) \/ NoRoom(t)
  \/ AdvanceFree(t) \/ Deliver(t) \/ TakeBack(t)

Next ==
  \E t \in Thread :
    \/ \E n \in Sizes : Malloc(t, n)
    \/ \E r \in live : Free(t, r)
    \/ Step(t)

Spec == Init /\ [][Next]_vars

\* A thread inside a call gets the CPU again.
FairSpec == Spec /\ \A t \in Thread : WF_vars(Step(t))

\* The code makes no difference between the threads.
Symmetry == Permutations(Thread)

-----------------------------------------------------------------------------
(* Properties. *)

Holding == {"in", "search", "advance", "carved"}
Place == {"out", "wait"} \cup Holding
Granted == {Aligned(n) : n \in Sizes}

Header == [used : BOOLEAN, next : 0..End, prev : 0..End]

TypeOK ==
  /\ hdr \in [Blocks -> Header] /\ Blocks \subseteq 0..End
  /\ lfree \in 0..End
  /\ pc \in [Thread -> Place]
  /\ job \in [Thread -> [fn : {"none", "malloc", "free"},
                         size : Granted \cup {0}, at : 0..End]]
  /\ live \subseteq [at : Hdr..End, size : Granted]
  /\ free \in [{heap_sem} -> {0, 1}]

\* A chain of headers is whole: it leads from one block to the one behind it
\* without a gap or an overlap, and back; every block has room for its header.
\* (rt_malloc does not keep the prev of heap_end, and nothing reads it.)
Whole(h) ==
  /\ {0, End} \subseteq DOMAIN h /\ h[End].used /\ h[0].prev = 0
  /\ \A p \in DOMAIN h \ {End} :
       /\ h[p].next \in DOMAIN h /\ p + Hdr <= h[p].next
       /\ h[p].next # End => h[h[p].next].prev = p
       /\ p # 0 => h[p].prev \in DOMAIN h \ {End} /\ h[h[p].prev].next = p
       /\ \A q \in DOMAIN h : p < q => h[p].next <= q

\* Splitting and merging, in any order of calls, keep the chain whole.
ChainOK == Whole(hdr)

\* Block p is in use, has room for n bytes, and no more than a rest too small
\* to be split off.
Serves(p, n) ==
  /\ p \in Blocks \ {End} /\ hdr[p].used
  /\ n <= Room(p) /\ Room(p) < n + Hdr + MinSize

\* A thread that has a block and is not done with its call: rt_malloc about
\* to return it, rt_free about to put it back.
Has(t) == pc[t] \in {"advance", "carved"} \/ job[t].fn = "free"

LiveServed ==
  \A r \in live : /\ Serves(r.at - Hdr, r.size)
                  /\ \A s \in live : s.at = r.at => s = r

HasServed ==
  \A t \in Thread : Has(t) =>
    /\ Serves(job[t].at, job[t].size)
    /\ \A r \in live : r.at # job[t].at + Hdr
    /\ \A u \in Thread : Has(u) /\ job[u].at = job[t].at => u = t

NoneLost ==
  \A p \in Blocks \ {End} : hdr[p].used =>
    \/ \E r \in live : r.at = p + Hdr
    \/ \E t \in Thread : Has(t) /\ job[t].at = p

\* Every block in use is some caller's, and only one's, and is as large as
\* the caller believes: no block is lost and none is given out twice.
BlocksOwned == LiveServed /\ HasServed /\ NoneLost

\* No two free blocks are neighbours: plug_holes leaves no hole in pieces.
Coalesced ==
  \A p \in Blocks \ {End} : ~hdr[p].used => hdr[hdr[p].next].used

\* lfree is the lowest free block, or heap_end when there is none; only while
\* rt_malloc moves it, it may be below.
LowestFree ==
  /\ lfree \in Blocks
  /\ \A p \in Blocks : ~hdr[p].used => lfree <= p
  /\ Stale => \E t \in Thread : pc[t] = "advance"

\* rt_malloc returns RT_NULL only if no free block before the last n bytes of
\* the heap is large enough.  (The loop ends there: a free block that is just
\* n bytes at the end of the heap is not found.)
FailsOnlyWhenFull ==
  [][\A t \in Thread :
       pc[t] = "search" /\ pc'[t] = "out" =>
         \A p \in Blocks : p < MemSize - job[t].size
                             => ~Fits(p, job[t].size)]_vars

\* Two threads are never between rt_sem_take and rt_sem_release together,
\* and heap_sem is not lost on any way out.
OneInside ==
  /\ \A t, u \in Thread : pc[t] \in Holding /\ pc[u] \in Holding => t = u
  /\ \A t \in Thread : pc[t] \in Holding
                         => free[heap_sem] = 0 /\ given[heap_sem] = {}
  /\ (\A t \in Thread : pc[t] = "out") => free[heap_sem] = 1

\* The heap is whole at every step: its chain, the merging of free blocks, the
\* owner of each block in use, the place where the next search begins, and the
\* lock that keeps the others out.
HeapOK ==
  TypeOK /\ ChainOK /\ Coalesced /\ BlocksOwned /\ LowestFree /\ OneInside

\* Callers see what HeapPromise promises.
Promise == INSTANCE HeapPromise WITH
  Bottom <- Hdr, Limit <- End, Grants <- Granted

KeepsPromise == Promise!Spec

\* Every call of rt_malloc and rt_free comes back.
CallsReturn == \A t \in Thread : pc[t] # "out" ~> pc[t] = "out"
=============================================================================
