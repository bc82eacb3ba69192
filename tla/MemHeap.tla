------------------------------ MODULE MemHeap --------------------------------
(***************************************************************************)
(* A memory heap object of src/memheap.c: a ring of blocks, closed by a    *)
(* used tailer, and a list of the free ones.  An address is an offset from *)
(* start_addr.  The lock is a semaphore, used as SemPromise says.  What a  *)
(* call does with the lock is a step; available_size, which rt_memheap_    *)
(* alloc reads without it, is not changed twice in one step.               *)
(***************************************************************************)
EXTENDS Lists, FiniteSets

CONSTANTS
  Thread,   (* the threads that use the heap                               *)
  lock,     (* memheap->lock                                               *)
  Unit,     (* RT_ALIGN_SIZE                                               *)
  Hdr,      (* RT_MEMHEAP_SIZE                                             *)
  MinAlloc, (* RT_MEMHEAP_MINIALLOC                                        *)
  PoolSize, (* memheap->pool_size                                          *)
  Sizes     (* sizes passed to alloc and realloc                           *)

ASSUME MemHeapAssumption ==
  /\ Unit \in Nat \ {0} /\ Hdr \in Nat \ {0} /\ MinAlloc \in Nat \ {0}
  /\ Hdr % Unit = 0 /\ MinAlloc % Unit = 0 /\ PoolSize % Unit = 0
  /\ PoolSize \in Nat /\ PoolSize > 2 * Hdr
  /\ Sizes \subseteq Nat \ {0}

VARIABLES
  hdr,       (* offset of a block -> its header                            *)
  freeList,  (* the blocks linked behind free_header, first to last        *)
  available, (* available_size                                             *)
  owed,      (* what rt_memheap_free has still to add to it                *)
  maxUsed,   (* max_used_size                                              *)
  stage, job, (* thread -> where it is in a call, and what the call is for *)
  live,      (* the regions callers have                                   *)
  free, queue, given, expired  (* the lock                                 *)

semVars == <<free, queue, given, expired>>
heapVars == <<hdr, freeList, available, owed, maxUsed>>
poolVars == <<heapVars, stage, job, live, semVars>>

Lock == INSTANCE SemPromise WITH
  Sem <- {lock}, Initial <- [s \in {lock} |-> 1]

End == PoolSize - Hdr      \* the tailer

Blocks == DOMAIN hdr

\* A size as rt_memheap_alloc and rt_memheap_realloc use it.
Norm(n) ==
  LET m == ((n + Unit - 1) \div Unit) * Unit
  IN  IF m < MinAlloc THEN MinAlloc ELSE m

\* at: the caller's block, new: the block found for it; End: none.
NoJob == [fn |-> "none", size |-> 0, at |-> End, new |-> End]

\* rt_memheap_init.
PoolInit ==
  /\ hdr = [p \in {0, End} |-> [used |-> p = End, next |-> End - p,
                                prev |-> End - p]]
  /\ freeList = <<0>>
  /\ available = PoolSize - 2 * Hdr /\ owed = 0 /\ maxUsed = 2 * Hdr
  /\ stage = [t \in Thread |-> "out"] /\ job = [t \in Thread |-> NoJob]
  /\ live = {}
  /\ Lock!Init

-----------------------------------------------------------------------------
(* Blocks. *)

\* MEMITEM_SIZE.
Room(p) == hdr[p].next - (p + Hdr)

Splits(p, n) == Room(p) >= n + Hdr + MinAlloc

\* A free block starts at q, inside p.
Cut(h, p, q) ==
  [x \in DOMAIN h \cup {q} |->
     CASE x = p         -> [h[p] EXCEPT !.next = q]
       [] x = q         -> [used |-> FALSE, next |-> h[p].next, prev |-> p]
       [] x = h[p].next -> [h[x] EXCEPT !.prev = q]
       [] OTHER         -> h[x]]

\* The block behind p becomes a part of p.
Merge(h, p) ==
  LET q == h[p].next
  IN  [x \in DOMAIN h \ {q} |->
         CASE x = p         -> [h[p] EXCEPT !.next = h[q].next]
           [] x = h[q].next -> [h[x] EXCEPT !.prev = p]
           [] OTHER         -> h[x]]

NextFree(h, p) == ~h[h[p].next].used

\* Wrong on purpose: a block is linked in without leaving the list first.
LinkFirstKeep(s, old, p) == <<p>> \o s

\* Block old leaves the free list, p goes in front.
LinkFirst(s, old, p) == <<p>> \o Without(s, old)

\* max_used_size after available_size has become a.
Used(a) == IF PoolSize - a > maxUsed THEN PoolSize - a ELSE maxUsed

-----------------------------------------------------------------------------
(* Calls. *)

\* rt_sem_take(&heap->lock, RT_WAITING_FOREVER): gets it, or waits.
TakeLock(t, j) ==
  /\ job' = [job EXCEPT ![t] = j]
  /\ \/ Lock!Take(lock) /\ stage' = [stage EXCEPT ![t] = "in"]
     \/ Lock!Wait(t, lock) /\ stage' = [stage EXCEPT ![t] = "wait"]

\* rt_sem_take comes back in a thread that had to wait.
Resume(t) ==
  /\ stage[t] = "wait" /\ Lock!Succeed(t, lock)
  /\ stage' = [stage EXCEPT ![t] = "in"]
  /\ UNCHANGED <<heapVars, job, live>>

Unlock == Lock!Release(lock) \/ Lock!Grant(lock)

Done(t) ==
  /\ stage' = [stage EXCEPT ![t] = "out"] /\ job' = [job EXCEPT ![t] = NoJob]

At(t, fn) == stage[t] = "in" /\ job[t].fn = fn

\* Some call is working on the block of region r.
Busy(r) == \E t \in Thread : r.at - Hdr \in {job[t].at, job[t].new}

\* The caller of job t has its block with n bytes.
Resized(t, n) ==
  {IF r.at = job[t].at + Hdr THEN [r EXCEPT !.size = n] ELSE r : r \in live}

\* rt_memheap_alloc(n), also as rt_memheap_realloc of a null pointer.  When
\* available_size is not larger it returns RT_NULL at once.
Alloc(t, n) ==
  /\ stage[t] = "out" /\ Norm(n) < available
  /\ TakeLock(t, [NoJob EXCEPT !.fn = "alloc", !.size = Norm(n)])
  /\ UNCHANGED <<heapVars, live>>

\* rt_memheap_free, also as rt_memheap_realloc to 0 bytes.
Free(t, r) ==
  /\ stage[t] = "out" /\ ~Busy(r)
  /\ live' = live \ {r}
  /\ TakeLock(t, [NoJob EXCEPT !.fn = "free", !.at = r.at - Hdr])
  /\ UNCHANGED heapVars

\* rt_memheap_realloc, up to the lock; it reads the block size without it.
Realloc(t, r, n) ==
  LET p == r.at - Hdr
      j(fn) == [NoJob EXCEPT !.fn = fn, !.at = p, !.size = Norm(n)]
  IN  /\ stage[t] = "out" /\ ~Busy(r)
      /\ \/ Norm(n) > Room(p) /\ TakeLock(t, j("grow")) /\ UNCHANGED live
         \/ /\ Norm(n) + Hdr + MinAlloc < Room(p)
            /\ TakeLock(t, j("shrink")) /\ UNCHANGED live
         \/ /\ Norm(n) <= Room(p) /\ Norm(n) + Hdr + MinAlloc >= Room(p)
            /\ live' = (live \ {r}) \cup {[r EXCEPT !.size = Norm(n)]}
            /\ UNCHANGED <<stage, job, semVars>>
      /\ UNCHANGED heapVars

\* The position of the first block of the free list with room for n bytes;
\* 0 when there is none.
FirstFit(n) == SelectInSeq(freeList, LAMBDA p : Room(p) >= n)

Searches(t) == At(t, "alloc") \/ At(t, "move")

\* rt_memheap_alloc with the lock: a block is found and taken.  In a moving
\* realloc the caller goes on to copy.
Carve(t) ==
  LET n == job[t].size
      p == freeList[FirstFit(n)]
      q == p + Hdr + n
      a == IF Splits(p, n) THEN available - n - Hdr ELSE available - Room(p)
      h == IF Splits(p, n) THEN Cut(hdr, p, q) ELSE hdr
  IN  /\ Searches(t) /\ FirstFit(n) # 0
      /\ hdr' = [h EXCEPT ![p].used = TRUE]
      /\ freeList' = IF Splits(p, n) THEN LinkFirst(freeList, p, q)
                     ELSE Without(freeList, p)
      /\ available' = a /\ maxUsed' = Used(a) /\ UNCHANGED owed
      /\ live' = live \cup {[at |-> p + Hdr, size |-> n]}
      /\ IF job[t].fn = "alloc" THEN Done(t)
         ELSE /\ stage' = [stage EXCEPT ![t] = "copy"]
              /\ job' = [job EXCEPT ![t].new = p]
      /\ Unlock

NoRoom(t) ==
  /\ Searches(t) /\ FirstFit(job[t].size) = 0
  /\ Done(t) /\ Unlock
  /\ UNCHANGED <<heapVars, live>>

\* Wrong on purpose: the sizes are not looked at.
ExpandsAny(p, n) == NextFree(hdr, p)

\* The free block behind p has what p lacks and some bytes more.
Expands(p, n) ==
  /\ NextFree(hdr, p)
  /\ Room(hdr[p].next) + Room(p) > n + MinAlloc

\* rt_memheap_realloc grows the block into the free one behind it.
Expand(t) ==
  LET p == job[t].at
      n == job[t].size
      a == available - (n - Room(p))
      q == p + Hdr + n
  IN  /\ At(t, "grow") /\ Expands(p, n)
      /\ hdr' = Cut(Merge(hdr, p), p, q)
      /\ freeList' = LinkFirst(freeList, hdr[p].next, q)
      /\ available' = a /\ maxUsed' = Used(a) /\ UNCHANGED owed
      /\ live' = Resized(t, n)
      /\ Done(t) /\ Unlock

\* It cannot: the lock is given back, and rt_memheap_alloc called.
Leave(t) ==
  /\ At(t, "grow") /\ ~Expands(job[t].at, job[t].size)
  /\ stage' = [stage EXCEPT ![t] = "move"]
  /\ Unlock
  /\ UNCHANGED <<heapVars, job, live>>

Move(t) ==
  /\ stage[t] = "move"
  /\ IF job[t].size < available
     THEN TakeLock(t, [job[t] EXCEPT !.fn = "move"])
     ELSE Done(t) /\ UNCHANGED semVars
  /\ UNCHANGED <<heapVars, live>>

\* rt_memcpy to the new region, then rt_memheap_free of the old one.
Copy(t) ==
  /\ stage[t] = "copy"
  /\ live' = {r \in live : r.at # job[t].at + Hdr}
  /\ TakeLock(t, [NoJob EXCEPT !.fn = "free", !.at = job[t].at])
  /\ UNCHANGED heapVars

\* rt_memheap_realloc cuts the end off a block.  A free block behind it is
\* merged, and available_size is without both for a moment.
Shrink(t) ==
  LET p == job[t].at
      q == p + Hdr + job[t].size
      h == Cut(hdr, p, q)
      behind == hdr[p].next
  IN  /\ At(t, "shrink")
      /\ IF hdr[behind].used
         THEN hdr' = h /\ UNCHANGED <<freeList, available>>
         ELSE /\ hdr' = Merge(h, q)
              /\ freeList' = Without(freeList, behind)
              /\ available' = available - Room(behind)
      /\ job' = [job EXCEPT ![t].new = q]
      /\ stage' = [stage EXCEPT ![t] = "shrunk"]
      /\ live' = Resized(t, job[t].size)
      /\ UNCHANGED <<owed, maxUsed, semVars>>

Shrunk(t) ==
  /\ stage[t] = "shrunk"
  /\ freeList' = <<job[t].new>> \o freeList
  /\ available' = available + Room(job[t].new)
  /\ Done(t) /\ Unlock
  /\ UNCHANGED <<hdr, owed, maxUsed, live>>

\* The headers that become free bytes when block p is merged.
Headers(p) ==
  (IF hdr[hdr[p].prev].used THEN 0 ELSE Hdr)
    + (IF hdr[hdr[p].next].used THEN 0 ELSE Hdr)

\* rt_memheap_free with the lock adds the block to available_size, then the
\* header of each neighbour it merges, one after the other.  Who has no lock
\* sees available_size and its own blocks, so the ring and the list may change
\* in the first of these steps.
TakeBack(t) ==
  LET p    == job[t].at
      left == ~hdr[hdr[p].prev].used
      keep == IF left THEN hdr[p].prev ELSE p
      h    == [hdr EXCEPT ![p].used = FALSE]
      g    == IF left THEN Merge(h, keep) ELSE h
      rest == IF NextFree(g, keep) THEN Without(freeList, g[keep].next)
              ELSE freeList
  IN  /\ At(t, "free")
      /\ hdr' = IF NextFree(g, keep) THEN Merge(g, keep) ELSE g
      /\ freeList' = IF left THEN rest ELSE <<p>> \o rest
      /\ available' = available + Room(p) /\ owed' = Headers(p)
      /\ IF Headers(p) = 0 THEN Done(t) /\ Unlock
         ELSE /\ stage' = [stage EXCEPT ![t] = "adds"]
              /\ job' = [job EXCEPT ![t] = NoJob]
              /\ UNCHANGED semVars
      /\ UNCHANGED <<maxUsed, live>>

AddHeader(t) ==
  /\ stage[t] = "adds"
  /\ available' = available + Hdr /\ owed' = owed - Hdr
  /\ IF owed = Hdr THEN Done(t) /\ Unlock ELSE UNCHANGED <<stage, job, semVars>>
  /\ UNCHANGED <<hdr, freeList, maxUsed, live>>

Step(t) ==
  \/ Resume(t) \/ Carve(t) \/ NoRoom(t) \/ Expand(t) \/ Leave(t) \/ Move(t)
  \/ Copy(t) \/ Shrink(t) \/ Shrunk(t) \/ TakeBack(t)
  \/ AddHeader(t)

PoolNext ==
  \E t \in Thread :
    \/ \E n \in Sizes : Alloc(t, n)
    \/ \E r \in live : Free(t, r) \/ \E n \in Sizes : Realloc(t, r, n)
    \/ Step(t)

PoolSpec == PoolInit /\ [][PoolNext]_poolVars

-----------------------------------------------------------------------------
(* Properties. *)

Granted == {Norm(n) : n \in Sizes}

PoolTypes ==
  /\ hdr \in [Blocks -> [used : BOOLEAN, next : 0..End, prev : 0..End]]
  /\ Blocks \subseteq 0..End
  /\ freeList \in Seq(0..End)
  /\ available \in 0..PoolSize /\ maxUsed \in 0..PoolSize
  /\ owed \in {0, Hdr, 2 * Hdr}
  /\ stage \in [Thread -> {"out", "wait", "in", "move", "copy", "shrunk",
                         "adds"}]
  /\ job \in [Thread -> [fn : {"none", "alloc", "move", "grow", "shrink",
                               "free"},
                         size : Granted \cup {0}, at : 0..End, new : 0..End]]
  /\ live \subseteq [at : Hdr..End, size : Granted]
  /\ free \in [{lock} -> {0, 1}]

\* Splitting, merging, growing and shrinking in any order of calls keep the
\* ring whole: next and prev agree, and blocks follow one another without gap
\* or overlap from start_addr to the tailer.
Ring(h) ==
  /\ {0, End} \subseteq DOMAIN h /\ h[End].used /\ h[End].next = 0
  /\ \A p \in DOMAIN h :
       /\ h[p].next \in DOMAIN h /\ h[h[p].next].prev = p
       /\ h[p].prev \in DOMAIN h /\ h[h[p].prev].next = p
  /\ \A p \in DOMAIN h \ {End} :
       /\ p + Hdr <= h[p].next
       /\ \A q \in DOMAIN h : p < q => h[p].next <= q

RingOK == Ring(hdr)

\* The block a shrinking realloc has cut off and not linked yet.
Unlinked == {job[t].new : t \in {u \in Thread : stage[u] = "shrunk"}}

\* The free list has every free block once and no other, so the search finds
\* whatever there is, whichever list surgery came before.
FreeListExact ==
  /\ ToSet(freeList) = {p \in Blocks : ~hdr[p].used} \ Unlinked
  /\ Once(freeList)

\* No two free blocks are neighbours.
Coalesced ==
  \A p \in Blocks \ {End} : ~hdr[p].used => hdr[hdr[p].next].used

\* available_size, which rt_memheap_alloc trusts without the lock, is the sum
\* of the blocks in the free list after every step of every thread, but for
\* headers rt_memheap_free is about to add: a request may be refused that the
\* list has room for, and no bytes are counted that are not free.
AvailableExact ==
  available + owed = Total([p \in Blocks |-> Room(p)], freeList)

\* max_used_size is a high-water mark, but for the moment in which a
\* shrinking realloc has taken a block out.
HighWater == Unlinked = {} => maxUsed >= PoolSize - available

Serves(p, n) ==
  p \in Blocks \ {End} /\ hdr[p].used /\ n <= Room(p)

\* The region of a block some call was given to work on.
Owner(p, t) == stage[t] # "out" /\ job[t].fn = "free" /\ job[t].at = p

\* Every block in use is one caller's region, large enough for it, or is
\* being freed by one thread: none is lost, none is given out twice, also
\* while a realloc moves a region.
BlocksOwned ==
  /\ \A r \in live : /\ Serves(r.at - Hdr, r.size)
                     /\ \A s \in live : s.at = r.at => s = r
                     /\ ~\E t \in Thread : Owner(r.at - Hdr, t)
  /\ \A p \in Blocks \ {End} : hdr[p].used =>
       \/ \E r \in live : r.at = p + Hdr
       \/ \E t \in Thread : Owner(p, t)
  /\ \A t, u \in Thread :
       job[t].fn = "free" /\ job[u].fn = "free" /\ job[t].at = job[u].at
         => t = u

\* One thread at a time is between rt_sem_take and rt_sem_release, and the
\* lock is free again on every way out.
OneInside ==
  LET in == {t \in Thread : stage[t] \in {"in", "shrunk", "adds"}}
  IN  /\ Cardinality(in) + Cardinality(given[lock]) + free[lock] = 1
      /\ given[lock] \cup ToSet(queue[lock]) = {t \in Thread : stage[t] = "wait"}

HeapSound ==
  /\ PoolTypes /\ RingOK /\ FreeListExact /\ Coalesced /\ AvailableExact
  /\ HighWater /\ BlocksOwned /\ OneInside

\* A search that found nothing: there was no block large enough.
FailsOnlyWhenFull ==
  [][\A t \in Thread :
       stage[t] = "in" /\ job[t].fn \in {"alloc", "move"} /\ stage'[t] = "out"
       /\ live' = live
         => \A p \in Blocks : ~hdr[p].used => Room(p) < job[t].size]_poolVars

\* Callers see what ResizePromise promises.
Promise == INSTANCE ResizePromise WITH
  Bottom <- Hdr, Limit <- End, Grants <- Granted

KeepsPromise == Promise!ResizeSpec
=============================================================================
