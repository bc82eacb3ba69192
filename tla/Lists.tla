-------------------------------- MODULE Lists --------------------------------
(***************************************************************************)
(* The kernel's intrusive lists (rt_list_t, rtservice.h) as sequences.     *)
(* A node is the object it is embedded in, so an object stands at most     *)
(* once in the list its node is linked into.                               *)
(***************************************************************************)
EXTENDS Integers, Sequences, SequencesExt

Once(s) == \A i, j \in DOMAIN s : s[i] = s[j] => i = j

\* The least element of a set of numbers: __rt_ffs on a priority bitmap.
Least(S) == CHOOSE p \in S : \A q \in S : p <= q

\* rt_list_remove: unlink x, a no-op when x is not linked into s.
Without(s, x) ==
  IF \E i \in DOMAIN s : s[i] = x
  THEN RemoveAt(s, CHOOSE i \in DOMAIN s : s[i] = x)
  ELSE s

\* The sum of the numbers w[x] of the members x of s.
Total(w, s) ==
  LET sum[i \in 0..Len(s)] == IF i = 0 THEN 0 ELSE sum[i - 1] + w[s[i]]
  IN  sum[Len(s)]

-----------------------------------------------------------------------------
(***************************************************************************)
(* The timer list.  rt_timer_start walks over the longest prefix of timers *)
(* that expire at the same tick as the new one, and links it there: the    *)
(* list is not sorted.                                                     *)
(***************************************************************************)
Differing(s, at, x) == {i \in DOMAIN s : at[s[i]] # x}

InsertPos(s, at, x) ==
  IF Differing(s, at, x) = {} THEN Len(s) + 1 ELSE Least(Differing(s, at, x))

InsertTimer(s, at, t, x) == InsertAt(s, InsertPos(s, at, x), t)

\* Wrong on purpose: plain comparison, which a wrapped deadline breaks.
DuePlain(now, at, mod) == now > at

\* (now - at) < RT_TICK_MAX / 2 in tick arithmetic of mod values.
Due(now, at, mod) == (now - at) % mod < (mod - 1) \div 2

-----------------------------------------------------------------------------
(***************************************************************************)
(* The ready queue: one list per priority and the bitmap of the priorities *)
(* whose list is not empty.                                                *)
(***************************************************************************)

\* Wrong on purpose: the bit of an emptied list stays.
RemovedKeepsBit(q, t, p) == [q EXCEPT !.list[p] = Without(@, t)]

\* rt_schedule_remove_thread of t, whose current_priority is p.
Removed(q, t, p) ==
  LET l == Without(q.list[p], t)
  IN  [list  |-> [q.list EXCEPT ![p] = l],
       group |-> IF l = <<>> THEN q.group \ {p} ELSE q.group]

\* rt_schedule_insert_thread of t, whose current_priority is p.
Inserted(q, t, p) ==
  [list  |-> [q.list EXCEPT ![p] = Append(@, t)],
   group |-> q.group \cup {p}]

\* Wrong on purpose: the thread stays where it is.
RotatedNot(q, t, p) == q

\* rt_thread_yield: the node moves to the tail and the bitmap is not touched.
Rotated(q, t, p) ==
  [list  |-> [q.list EXCEPT ![p] = Append(Without(@, t), t)],
   group |-> q.group]

\* The thread rt_schedule picks.
Top(q) == Head(q.list[Least(q.group)])

\* The queue holds exactly the threads of R, each once and in the list of its
\* priority pr[t], and the bitmap names exactly the lists in use.
QueueOK(q, R, pr) ==
  /\ \A p \in DOMAIN q.list :
       /\ Once(q.list[p])
       /\ ToSet(q.list[p]) = {t \in R : pr[t] = p}
  /\ q.group = {p \in DOMAIN q.list : q.list[p] # <<>>}
=============================================================================
