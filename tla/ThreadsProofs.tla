---------------------------- MODULE ThreadsProofs ----------------------------
(***************************************************************************)
(* The properties of Threads for any number of threads and priorities and  *)
(* any programs, by one inductive invariant.                               *)
(***************************************************************************)
EXTENDS Threads, ListTheorems

Prios == 0..MaxPrio
RQ == Queues(Prios, Thread)

\* q links exactly the threads of R, and the bitmap misses no list in use.
Covers(q, R) ==
  /\ q \in RQ
  /\ \A p \in Prios :
       /\ Once(q.list[p])
       /\ ToSet(q.list[p]) = {u \in R : Prio[u] = p}
       /\ q.list[p] # <<>> => p \in q.group

\* The priorities whose bit stands for no thread.
Stale(q) == {p \in q.group : q.list[p] = <<>>}

\* q with a bitmap that is exact: what the lemmas about QueueOK speak of.
Clean(q) == [list |-> q.list, group |-> {p \in Prios : q.list[p] # <<>>}]

-----------------------------------------------------------------------------
(***************************************************************************)
(* The queue operations on a queue with stale bits.                        *)
(***************************************************************************)
LEMMA PrioType == Prio \in [Thread -> Prios] /\ Prios \in SUBSET Nat
BY ThreadsAssumption DEF Prios

LEMMA ConstantsOK == Idle \in Thread /\ MaxNest \in Nat /\ Calls[Idle] = {}
BY ThreadsAssumption

LEMMA CleanOK ==
  ASSUME NEW q, NEW R \in SUBSET Thread, Covers(q, R)
  PROVE  Clean(q) \in RQ /\ QueueOK(Clean(q), R, Prio)
<1>1. q.list \in [Prios -> Seq(Thread)]
  BY DEF Covers, RQ, Queues
<1>2. Clean(q) \in RQ
  BY <1>1 DEF Clean, RQ, Queues
<1>3. QED
  BY <1>1, <1>2 DEF QueueOK, Clean, Covers

\* A queue with the lists of an exact one and no bit too few.
LEMMA CoversOf ==
  ASSUME NEW z \in RQ, NEW R \in SUBSET Thread, QueueOK(z, R, Prio),
         NEW q \in RQ, q.list = z.list, z.group \subseteq q.group
  PROVE  Covers(q, R)
<1>1. DOMAIN z.list = Prios
  BY DEF RQ, Queues
<1>2. QED
  BY <1>1 DEF QueueOK, Covers

LEMMA Removes ==
  ASSUME NEW q, NEW R \in SUBSET Thread, Covers(q, R), NEW t \in Thread
  PROVE  /\ Covers(Removed(q, t, Prio[t]), R \ {t})
         /\ Stale(Removed(q, t, Prio[t])) \subseteq Stale(q)
<1> DEFINE p == Prio[t]
           l == Without(q.list[p], t)
           c == Clean(q)
           z == Removed(c, t, p)
           r == Removed(q, t, p)
<1>1. c \in RQ /\ QueueOK(c, R, Prio)
  BY CleanOK
<1>2. z \in RQ /\ QueueOK(z, R \ {t}, Prio)
  BY <1>1, RemovedOK, PrioType DEF RQ
<1>3. q.list \in [Prios -> Seq(Thread)] /\ q.group \in SUBSET Prios /\ p \in Prios
  BY PrioType DEF Covers, RQ, Queues
<1>4. /\ r = [list |-> [q.list EXCEPT ![p] = l],
              group |-> IF l = <<>> THEN q.group \ {p} ELSE q.group]
      /\ z = [list |-> [q.list EXCEPT ![p] = l],
              group |-> IF l = <<>> THEN c.group \ {p} ELSE c.group]
  BY DEF Removed, Clean
<1>5. c.group = {o \in Prios : q.list[o] # <<>>} /\ c.group \subseteq q.group
  BY DEF Clean, Covers
<1>6. r.list = z.list /\ z.group \subseteq r.group /\ r.group \subseteq Prios
  BY <1>3, <1>4, <1>5
<1>7. r \in RQ
  <2>1. z.list \in [Prios -> Seq(Thread)]
    BY <1>2 DEF RQ, Queues
  <2>2. r = [list |-> r.list, group |-> r.group]
    BY <1>4
  <2>3. QED
    BY <1>6, <2>1, <2>2 DEF RQ, Queues
<1>8. Covers(r, R \ {t})
  BY <1>2, <1>6, <1>7, CoversOf
<1>9. Stale(r) \subseteq Stale(q)
  <2>1. ASSUME NEW o \in r.group, r.list[o] = <<>>
        PROVE  o \in q.group /\ q.list[o] = <<>>
    <3>1. o # p
      BY <1>3, <1>4, <2>1
    <3>2. QED
      BY <1>3, <1>4, <2>1, <3>1
  <2>2. QED
    BY <2>1 DEF Stale
<1>10. QED
  BY <1>8, <1>9

LEMMA Inserts ==
  ASSUME NEW q, NEW R \in SUBSET Thread, Covers(q, R), NEW t \in Thread \ R
  PROVE  /\ Covers(Inserted(q, t, Prio[t]), R \cup {t})
         /\ Stale(Inserted(q, t, Prio[t])) \subseteq Stale(q) \ {Prio[t]}
<1> DEFINE p == Prio[t]
           c == Clean(q)
           z == Inserted(c, t, p)
           r == Inserted(q, t, p)
<1>1. c \in RQ /\ QueueOK(c, R, Prio)
  BY CleanOK
<1>2. z \in RQ /\ QueueOK(z, R \cup {t}, Prio)
  BY <1>1, InsertedOK, PrioType DEF RQ
<1>3. q.list \in [Prios -> Seq(Thread)] /\ q.group \in SUBSET Prios /\ p \in Prios
  BY PrioType DEF Covers, RQ, Queues
<1>4. /\ r = [list |-> [q.list EXCEPT ![p] = Append(@, t)],
              group |-> q.group \cup {p}]
      /\ z = [list |-> [q.list EXCEPT ![p] = Append(@, t)],
              group |-> c.group \cup {p}]
  BY DEF Inserted, Clean
<1>5. c.group \subseteq q.group
  BY DEF Clean, Covers
<1>6. r.list = z.list /\ z.group \subseteq r.group /\ r.group \subseteq Prios
  BY <1>3, <1>4, <1>5
<1>7. r \in RQ
  <2>1. z.list \in [Prios -> Seq(Thread)]
    BY <1>2 DEF RQ, Queues
  <2>2. r = [list |-> r.list, group |-> r.group]
    BY <1>4
  <2>3. QED
    BY <1>6, <2>1, <2>2 DEF RQ, Queues
<1>8. Covers(r, R \cup {t})
  BY <1>2, <1>6, <1>7, CoversOf
<1>9. Stale(r) \subseteq Stale(q) \ {p}
  <2>1. ASSUME NEW o \in r.group, r.list[o] = <<>>
        PROVE  o \in q.group /\ q.list[o] = <<>> /\ o # p
    <3>1. r.list[p] # <<>>
      <4>1. t \in ToSet(r.list[p])
        BY <1>3, <1>8 DEF Covers
      <4>2. QED
        BY <4>1 DEF ToSet
    <3>2. QED
      BY <1>3, <1>4, <2>1, <3>1
  <2>2. QED
    BY <2>1 DEF Stale
<1>10. QED
  BY <1>8, <1>9

LEMMA Rotates ==
  ASSUME NEW q, NEW R \in SUBSET Thread, Covers(q, R), NEW t \in R
  PROVE  /\ Covers(Rotated(q, t, Prio[t]), R)
         /\ Stale(Rotated(q, t, Prio[t])) \subseteq Stale(q)
<1> DEFINE p == Prio[t]
           l == Append(Without(q.list[p], t), t)
           c == Clean(q)
           z == Rotated(c, t, p)
           r == Rotated(q, t, p)
<1>1. c \in RQ /\ QueueOK(c, R, Prio)
  BY CleanOK
<1>2. z \in RQ /\ QueueOK(z, R, Prio)
  BY <1>1, RotatedOK, PrioType DEF RQ
<1>3. q.list \in [Prios -> Seq(Thread)] /\ q.group \in SUBSET Prios /\ p \in Prios
  BY PrioType DEF Covers, RQ, Queues
<1>4. /\ r = [list |-> [q.list EXCEPT ![p] = l], group |-> q.group]
      /\ z = [list |-> [q.list EXCEPT ![p] = l], group |-> c.group]
  BY DEF Rotated, Clean
<1>5. c.group \subseteq q.group
  BY DEF Clean, Covers
<1>6. r.list = z.list /\ z.group \subseteq r.group /\ r.group \subseteq Prios
  BY <1>3, <1>4, <1>5
<1>7. r \in RQ
  <2>1. z.list \in [Prios -> Seq(Thread)]
    BY <1>2 DEF RQ, Queues
  <2>2. r = [list |-> r.list, group |-> r.group]
    BY <1>4
  <2>3. QED
    BY <1>6, <2>1, <2>2 DEF RQ, Queues
<1>8. Covers(r, R)
  BY <1>2, <1>6, <1>7, CoversOf
<1>9. Stale(r) \subseteq Stale(q)
  <2>1. ASSUME NEW o \in r.group, r.list[o] = <<>>
        PROVE  o \in q.group /\ q.list[o] = <<>>
    <3>1. r.list[p] # <<>>
      <4>1. t \in ToSet(r.list[p])
        BY <1>3, <1>8 DEF Covers
      <4>2. QED
        BY <4>1 DEF ToSet
    <3>2. QED
      BY <1>3, <1>4, <2>1, <3>1
  <2>2. QED
    BY <2>1 DEF Stale
<1>10. QED
  BY <1>8, <1>9

\* rt_list_remove alone: the bit of the thread's priority stays, and is stale
\* when the thread was the last of its list.
LEMMA Unlinks ==
  ASSUME NEW q, NEW R \in SUBSET Thread, Covers(q, R), NEW t \in Thread
  PROVE  /\ Covers(Unlinked(q, t), R \ {t})
         /\ Stale(Unlinked(q, t)) \subseteq Stale(q) \cup {Prio[t]}
         /\ t \notin R => Stale(Unlinked(q, t)) = Stale(q)
         /\ Unlinked(q, t).group = q.group
<1> DEFINE p == Prio[t]
           l == Without(q.list[p], t)
           z == Removed(q, t, p)
           r == Unlinked(q, t)
<1>1. Covers(z, R \ {t})
  BY Removes
<1>3. q.list \in [Prios -> Seq(Thread)] /\ q.group \in SUBSET Prios /\ p \in Prios
  BY PrioType DEF Covers, RQ, Queues
<1>4. r.list = [q.list EXCEPT ![p] = l] /\ r.group = q.group
  <2>1. q = [list |-> q.list, group |-> q.group]
    BY DEF Covers, RQ, Queues
  <2>2. QED
    BY <2>1 DEF Unlinked
<1>5. z.list = r.list /\ z.group \subseteq r.group
  BY <1>4 DEF Removed
<1>6. r \in RQ
  <2>1. z.list \in [Prios -> Seq(Thread)]
    BY <1>1 DEF Covers, RQ, Queues
  <2>2. r = [list |-> r.list, group |-> r.group]
    BY <1>4 DEF Unlinked, Covers, RQ, Queues
  <2>3. QED
    BY <1>3, <1>4, <1>5, <2>1, <2>2 DEF RQ, Queues
<1>7. Covers(r, R \ {t})
  BY <1>1, <1>5, <1>6 DEF Covers
<1>8. ASSUME NEW o \in r.group, o # p
      PROVE  r.list[o] = q.list[o] /\ o \in q.group
  BY <1>3, <1>4, <1>8
<1>9. t \notin R => r.list = q.list
  <2>1. SUFFICES ASSUME t \notin R PROVE l = q.list[p]
    BY <1>3, <1>4
  <2>2. t \notin ToSet(q.list[p])
    BY <1>3, <2>1 DEF Covers
  <2>3. QED
    BY <2>2, WithoutAbsent
<1>10. QED
  BY <1>4, <1>7, <1>8, <1>9 DEF Stale

\* The pick is a thread, and as urgent as any, if below a stale bit there is
\* always a thread.
LEMMA Picks ==
  ASSUME NEW q, NEW R \in SUBSET Thread, Covers(q, R), R # {},
         \A p \in Stale(q) : \E u \in R : Prio[u] < p
  PROVE  /\ q.group # {} /\ q.list[Least(q.group)] # <<>>
         /\ Top(q) \in R
         /\ \A u \in R : Prio[Top(q)] <= Prio[u]
<1> DEFINE c == Clean(q)
           g == Least(q.group)
<1>1. c \in RQ /\ QueueOK(c, R, Prio)
  BY CleanOK
<1>2. Top(c) \in R /\ \A u \in R : Prio[Top(c)] <= Prio[u]
  BY <1>1, TopOK, PrioType DEF RQ
<1>3. ASSUME NEW u \in R PROVE Prio[u] \in c.group /\ Prio[u] \in q.group
  <2>1. Prio[u] \in Prios /\ u \in ToSet(q.list[Prio[u]])
    BY PrioType DEF Covers
  <2>2. q.list[Prio[u]] # <<>>
    BY <2>1 DEF ToSet
  <2>3. QED
    BY <2>1, <2>2 DEF Clean, Covers
<1>4. q.group \in SUBSET Nat /\ q.group # {} /\ c.group \in SUBSET Nat /\ c.group # {}
  BY <1>3, PrioType DEF Covers, RQ, Queues, Clean
<1>5. g \in q.group /\ \A o \in q.group : g <= o
  BY <1>4, LeastOK
<1> HIDE DEF g
<1>6. q.list[g] # <<>>
  <2>1. SUFFICES ASSUME g \in Stale(q) PROVE FALSE
    BY <1>5 DEF Stale
  <2>2. PICK u \in R : Prio[u] < g
    BY <2>1
  <2>3. g <= Prio[u]
    BY <1>3, <1>5
  <2>4. g \in Nat /\ Prio[u] \in Nat
    BY <1>3, <1>4, <1>5
  <2>5. QED
    BY <2>2, <2>3, <2>4
<1>7. Least(c.group) = g
  <2> DEFINE h == Least(c.group)
  <2>1. h \in c.group /\ \A o \in c.group : h <= o
    BY <1>4, LeastOK
  <2>2. g \in c.group
    BY <1>5, <1>6 DEF Clean, Covers, RQ, Queues
  <2>3. c.group \subseteq q.group
    BY DEF Clean, Covers
  <2>4. h <= g /\ g <= h
    BY <1>5, <2>1, <2>2, <2>3
  <2> HIDE DEF h
  <2>5. g \in Nat /\ h \in Nat
    BY <1>4, <1>5, <2>1
  <2>6. QED
    BY <2>4, <2>5 DEF h
<1>8. Top(c) = Top(q)
  BY <1>7 DEF Top, Clean, g
<1>9. QED
  BY <1>2, <1>4, <1>6, <1>8 DEF g

-----------------------------------------------------------------------------
(***************************************************************************)
(* The inductive invariant.                                                *)
(***************************************************************************)
Linked == {u \in Thread \ Held : stat[u] = "ready"}

\* ListsExact without what it says of stale bits.
QueueInv == Covers(rq, Linked)

\* Whom a call under way is about, and who has ended.
KeepOK ==
  /\ stat[Idle] = "ready" /\ pc[Idle] = "run"
  /\ \A t \in Thread :
       /\ pc[t] = "suspend" => who[t] \in Targets[t] \cup {t}
       /\ pc[t] \in {"resume", "insert"} => who[t] \in Targets[t]
       /\ stat[t] = "close" => pc[t] \in {"sched", "ended"}

\* A thread in no list does not run, and nothing is about to wake it.
HeldOK == \A u \in Held : u # cur /\ ~armed[u] /\ u \notin ToSet(waitq)

\* Below a stale bit there is the READY thread that left it, unless that one
\* is in a critical section.
StaleOK ==
  \A p \in Stale(rq) : \E t \in Thread :
    /\ pc[t] = "insert" /\ Prio[who[t]] = p
    /\ \/ stat[t] = "ready" /\ Prio[t] < p
       \/ lockNest > 0 /\ cur = t

\* A thread that runs before the unlinking is as urgent as the one it resumes,
\* should that have become READY since.
ResumeOK ==
  lockNest = 0 /\ pc[cur] = "resume" /\ stat[who[cur]] = "ready"
    => stat[cur] = "ready" /\ Prio[cur] <= Prio[who[cur]]

IInv ==
  /\ TypeOK /\ QueueInv /\ WaitersOK /\ TimersOK
  /\ KeepOK /\ HeldOK /\ StaleOK /\ ResumeOK

-----------------------------------------------------------------------------
(***************************************************************************)
(* What the invariant says of keepers and of the pick.                     *)
(***************************************************************************)

\* A thread that resumes another is in the lists itself if it is READY, and it
\* alone resumes that other.
LEMMA KeepersFree ==
  ASSUME TypeOK, KeepOK, NEW t \in Thread, pc[t] \in {"resume", "insert"}
  PROVE  /\ t \notin Held /\ who[t] # t /\ who[t] \in Thread \ {Idle}
         /\ \A v \in Thread : pc[v] \in {"resume", "insert"} /\ v # t
              => who[v] # who[t]
         /\ \A v \in Thread : pc[v] = "suspend" => who[v] # t
<1>1. who[t] \in Targets[t] /\ Targets[t] \in SUBSET (Thread \ {Idle})
  BY ThreadsAssumption DEF KeepOK
<1>2. Targets[t] # {}
  BY <1>1
<1>3. \A v \in Thread : t \notin Targets[v]
  BY <1>2, ThreadsAssumption
<1>4. t \notin Held
  BY <1>3 DEF Held, KeepOK
<1>5. \A v \in Thread : v # t => who[t] \notin Targets[v]
  BY <1>1, ThreadsAssumption
<1>6. who[t] # t
  BY <1>1, <1>3
<1>7. \A v \in Thread : pc[v] = "suspend" => who[v] # t
  BY <1>3 DEF KeepOK
<1>8. QED
  BY <1>1, <1>4, <1>5, <1>6, <1>7 DEF KeepOK

LEMMA IdleLinked ==
  ASSUME TypeOK, KeepOK
  PROVE  Idle \in Linked /\ Idle \notin Held
<1>1. \A v \in Thread : pc[v] = "insert" => who[v] # Idle
  BY KeepersFree
<1>2. Idle \in Thread
  BY ThreadsAssumption
<1>3. QED
  BY <1>1, <1>2 DEF Linked, Held, KeepOK

\* Outside critical sections the pick is a READY thread as urgent as any.
LEMMA PickOK ==
  ASSUME TypeOK, QueueInv, KeepOK, StaleOK, lockNest = 0
  PROVE  /\ rq.group # {} /\ rq.list[Least(rq.group)] # <<>>
         /\ Top(rq) \in Linked
         /\ \A u \in Linked : Prio[Top(rq)] <= Prio[u]
<1>1. Linked \in SUBSET Thread /\ Linked # {}
  BY IdleLinked DEF Linked
<1>2. ASSUME NEW p \in Stale(rq) PROVE \E u \in Linked : Prio[u] < p
  <2>1. PICK t \in Thread : pc[t] = "insert" /\ stat[t] = "ready" /\ Prio[t] < p
    BY DEF StaleOK
  <2>2. t \in Linked
    BY <2>1, KeepersFree DEF Linked
  <2>3. QED
    BY <2>1, <2>2
<1>3. QED
  BY <1>1, <1>2, Picks DEF QueueInv

\* The pick runs, outside critical sections.
AtPick == lockNest = 0 /\ cur = Top(rq)

InList == cur \notin Held /\ stat[cur] = "ready"

AsUrgent == \A u \in Linked : Prio[cur] <= Prio[u]

\* The pick is as urgent as whatever is linked, before and after a step.
LEMMA PickUrgent == TypeOK /\ QueueInv /\ KeepOK /\ StaleOK /\ AtPick => AsUrgent
BY PickOK DEF AtPick, AsUrgent

LEMMA PickedUrgent ==
  ASSUME TypeOK', QueueInv', KeepOK', StaleOK', AtPick'
  PROVE  AsUrgent'
BY PickUrgent, PTL

\* A switch to the pick keeps ResumeOK: the pick is READY and as urgent as any.
LEMMA AtPickOK ==
  TypeOK /\ QueueInv /\ KeepOK /\ StaleOK /\ AtPick => ResumeOK /\ InList
<1> SUFFICES ASSUME TypeOK, QueueInv, KeepOK, StaleOK, AtPick
             PROVE  ResumeOK /\ InList
  OBVIOUS
<1>1. Top(rq) \in Linked /\ \A u \in Linked : Prio[Top(rq)] <= Prio[u]
  BY PickOK DEF AtPick
<1>2. cur \in Thread /\ stat[cur] = "ready" /\ cur \notin Held
  BY <1>1 DEF Linked, AtPick
<1>3. ASSUME pc[cur] = "resume", stat[who[cur]] = "ready"
      PROVE  who[cur] \in Linked
  <2>1. who[cur] \in Thread /\ \A v \in Thread : pc[v] = "insert" => who[v] # who[cur]
    BY <1>2, <1>3, KeepersFree
  <2>2. QED
    BY <1>3, <2>1 DEF Linked, Held
<1>4. QED
  BY <1>1, <1>2, <1>3 DEF ResumeOK, AtPick, InList

LEMMA PickResumes ==
  ASSUME TypeOK', QueueInv', KeepOK', StaleOK', AtPick'
  PROVE  ResumeOK' /\ InList'
BY AtPickOK, PTL

-----------------------------------------------------------------------------
(***************************************************************************)
(* The steps, sorted by what they do to the lists.                         *)
(***************************************************************************)

\* A step of the program that touches no list.
LEMMA Quiet ==
  ASSUME IInv, TypeOK', KeepOK', ResumeOK', NEW t \in Thread, cur = t,
         UNCHANGED <<rq, cur, stat, armed, waitq>>,
         pc[t] # "insert", pc'[t] # "insert",
         \A v \in Thread \ {t} : pc'[v] = pc[v] /\ who'[v] = who[v]
  PROVE  IInv'
<1>1. Held' = Held
  BY DEF Held
<1>2. QueueInv'
  BY <1>1 DEF IInv, QueueInv, Linked
<1>3. WaitersOK' /\ TimersOK' /\ HeldOK'
  BY <1>1 DEF IInv, WaitersOK, TimersOK, HeldOK
<1>4. StaleOK'
  <2>1. SUFFICES ASSUME NEW p \in Stale(rq)
                 PROVE  \E v \in Thread :
                          /\ pc'[v] = "insert" /\ Prio[who'[v]] = p
                          /\ stat'[v] = "ready" /\ Prio[v] < p
    BY DEF StaleOK, Stale
  <2>2. PICK v \in Thread : /\ pc[v] = "insert" /\ Prio[who[v]] = p
                            /\ \/ stat[v] = "ready" /\ Prio[v] < p
                               \/ lockNest > 0 /\ cur = v
    BY DEF IInv, StaleOK
  <2>3. v # t
    BY <2>2
  <2>4. QED
    BY <2>2, <2>3
<1>5. QED
  BY <1>2, <1>3, <1>4 DEF IInv

\* The running thread takes u, itself or one it looks after, out of the queue.
LEMMA Leaves ==
  ASSUME IInv, NEW t \in Thread, cur = t, NEW u \in Thread, NEW x,
         pc[t] \notin {"resume", "insert"}, pc'[t] \notin {"resume", "insert"},
         \A v \in Thread \ {t} : pc'[v] = pc[v],
         u # t => pc[t] = "suspend" /\ u = who[t],
         rq' = Removed(rq, u, Prio[u]), stat' = [stat EXCEPT ![u] = x],
         x # "ready", UNCHANGED <<cur, lockNest, who>>
  PROVE  Held' = Held /\ QueueInv' /\ StaleOK' /\ ResumeOK'
<1>1. Held' = Held
  BY DEF Held
<1>2. QueueInv' /\ Stale(rq') \subseteq Stale(rq)
  <2>1. Linked' = Linked \ {u}
    BY <1>1 DEF Linked, IInv, TypeOK
  <2>2. Linked \in SUBSET Thread /\ Covers(rq, Linked)
    BY DEF Linked, IInv, QueueInv
  <2>3. QED
    BY <2>1, <2>2, Removes DEF QueueInv
<1>3. StaleOK'
  <2>1. SUFFICES ASSUME NEW p \in Stale(rq)
                 PROVE  \E v \in Thread :
                          /\ pc'[v] = "insert" /\ Prio[who'[v]] = p
                          /\ stat'[v] = "ready" /\ Prio[v] < p
    BY <1>2 DEF StaleOK
  <2>2. PICK v \in Thread : /\ pc[v] = "insert" /\ Prio[who[v]] = p
                            /\ \/ stat[v] = "ready" /\ Prio[v] < p
                               \/ lockNest > 0 /\ cur = v
    BY DEF IInv, StaleOK
  <2>3. v # t
    BY <2>2
  <2>4. v # u
    BY <2>2, <2>3, KeepersFree DEF IInv
  <2>5. stat'[v] = stat[v]
    BY <2>4 DEF IInv, TypeOK
  <2>6. QED
    BY <2>2, <2>3, <2>5
<1>4. ResumeOK'
  BY DEF ResumeOK
<1>5. QED
  BY <1>1, <1>2, <1>3, <1>4

LEMMA CheckKeeps ==
  ASSUME IInv, NEW t \in Thread, NEW u \in Thread, Suspend(t, u) \/ Resume(t, u)
  PROVE  IInv'
<1>1. /\ cur = t /\ pc[t] = "run" /\ t # Idle
      /\ UNCHANGED <<rq, cur, lockNest, stat, armed, waitq, masked, isr>>
      /\ who' = [who EXCEPT ![t] = u]
  BY ConstantsOK DEF Suspend, Resume, Makes, At
<1>2. \/ /\ pc' = [pc EXCEPT ![t] = "suspend"]
         /\ u \in Targets[t] \cup {t}
      \/ /\ pc' = [pc EXCEPT ![t] = "resume"]
         /\ u \in Targets[t] /\ stat[u] = "suspend"
  BY DEF Suspend, Resume, Goes
<1>3. TypeOK'
  BY <1>1, <1>2 DEF IInv, TypeOK
<1>4. KeepOK'
  <2>1. ASSUME NEW v \in Thread
        PROVE  /\ pc'[v] = "suspend" => who'[v] \in Targets[v] \cup {v}
               /\ pc'[v] \in {"resume", "insert"} => who'[v] \in Targets[v]
               /\ stat'[v] = "close" => pc'[v] \in {"sched", "ended"}
    <3>1. CASE v = t
      BY <1>1, <1>2, <3>1 DEF IInv, TypeOK, KeepOK
    <3>2. CASE v # t
      BY <1>1, <1>2, <3>2 DEF IInv, TypeOK, KeepOK
    <3>3. QED
      BY <3>1, <3>2
  <2>2. stat'[Idle] = "ready" /\ pc'[Idle] = "run"
    BY <1>1, <1>2, ConstantsOK DEF IInv, TypeOK, KeepOK
  <2>3. QED
    BY <2>1, <2>2 DEF KeepOK
<1>5. ResumeOK'
  BY <1>1, <1>2 DEF IInv, TypeOK, ResumeOK
<1>6. \A v \in Thread \ {t} : pc'[v] = pc[v] /\ who'[v] = who[v]
  BY <1>1, <1>2 DEF IInv, TypeOK
<1>7. pc[t] # "insert" /\ pc'[t] # "insert"
  BY <1>1, <1>2 DEF IInv, TypeOK
<1>8. QED
  BY <1>1, <1>3, <1>4, <1>5, <1>6, <1>7, Quiet

LEMMA FlowKeeps ==
  ASSUME IInv, NEW t \in Thread,
         EnterCritical(t) \/ ExitCritical(t) \/ CallSchedule(t)
  PROVE  IInv'
<1>1. /\ cur = t /\ pc[t] = "run" /\ t # Idle
      /\ UNCHANGED <<rq, cur, stat, armed, waitq, who, masked, isr>>
  BY ConstantsOK DEF EnterCritical, ExitCritical, CallSchedule, Makes, At
<1>2. pc' = pc \/ pc' = [pc EXCEPT ![t] = "sched"]
  BY DEF EnterCritical, ExitCritical, CallSchedule, Goes
<1>3. lockNest' \in 0..MaxNest
  <2>1. lockNest \in 0..MaxNest /\ MaxNest \in Nat
    BY ThreadsAssumption DEF IInv, TypeOK
  <2>2. CASE EnterCritical(t)
    BY <2>1, <2>2 DEF EnterCritical
  <2>3. CASE ExitCritical(t)
    BY <2>1, <2>3 DEF ExitCritical
  <2>4. CASE CallSchedule(t)
    BY <2>1, <2>4 DEF CallSchedule
  <2>5. QED
    BY <2>2, <2>3, <2>4
<1>4. TypeOK'
  BY <1>1, <1>2, <1>3 DEF IInv, TypeOK
<1>5. KeepOK'
  <2>1. CASE pc' = pc
    BY <1>1, <2>1 DEF IInv, KeepOK
  <2>2. CASE pc' = [pc EXCEPT ![t] = "sched"]
    BY <1>1, <2>2 DEF IInv, TypeOK, KeepOK
  <2>3. QED
    BY <1>2, <2>1, <2>2
<1>6. pc'[t] \in {"run", "sched"} /\ \A v \in Thread \ {t} : pc'[v] = pc[v]
  BY <1>1, <1>2 DEF IInv, TypeOK
<1>7. ResumeOK'
  BY <1>1, <1>6 DEF ResumeOK
<1>8. pc[t] # "insert" /\ pc'[t] # "insert" /\ \A v \in Thread \ {t} : who'[v] = who[v]
  BY <1>1, <1>6
<1>9. QED
  BY <1>1, <1>4, <1>5, <1>6, <1>7, <1>8, Quiet

\* The wait list of a completion when u leaves it.
LEMMA WaitqLeft ==
  ASSUME TypeOK, WaitersOK, NEW u
  PROVE  /\ Without(waitq, u) \in Seq(Thread) /\ Once(Without(waitq, u))
         /\ ToSet(Without(waitq, u)) = ToSet(waitq) \ {u}
BY WithoutOK DEF TypeOK, WaitersOK

LEMMA SuspendKeeps ==
  ASSUME IInv, NEW t \in Thread, SuspendIt(t)
  PROVE  IInv'
<1> DEFINE u == who[t]
<1>1. /\ cur = t /\ pc[t] = "suspend" /\ pc' = [pc EXCEPT ![t] = "run"]
      /\ stat' = [stat EXCEPT ![u] = "suspend"]
      /\ rq' = Removed(rq, u, Prio[u]) /\ waitq' = Without(waitq, u)
      /\ armed' = [armed EXCEPT ![u] = FALSE]
      /\ UNCHANGED <<cur, lockNest, who, masked, isr>>
  BY DEF SuspendIt, At, Goes, Leave, StopTimer
<1>2. u \in Thread /\ u # Idle
  <2>1. u \in Targets[t] \cup {t} /\ t # Idle
    BY <1>1 DEF IInv, KeepOK
  <2>2. Targets[t] \in SUBSET (Thread \ {Idle})
    BY ThreadsAssumption
  <2>3. QED
    BY <2>1, <2>2
<1>3. pc'[t] = "run" /\ \A v \in Thread \ {t} : pc'[v] = pc[v]
  BY <1>1 DEF IInv, TypeOK
<1>4. Held' = Held /\ QueueInv' /\ StaleOK' /\ ResumeOK'
  BY <1>1, <1>2, <1>3, Leaves
<1>5. waitq' \in Seq(Thread) /\ Once(waitq') /\ ToSet(waitq') = ToSet(waitq) \ {u}
  BY <1>1, WaitqLeft DEF IInv
<1>6. TypeOK'
  <2>1. rq' \in RQ
    BY <1>4 DEF QueueInv, Covers
  <2>2. QED
    BY <1>1, <1>2, <1>5, <2>1 DEF IInv, TypeOK, RQ, Queues, Prios
<1>7. WaitersOK' /\ TimersOK'
  BY <1>1, <1>2, <1>5 DEF IInv, TypeOK, WaitersOK, TimersOK
<1>8. KeepOK'
  BY <1>1, <1>2, <1>3 DEF IInv, TypeOK, KeepOK
<1>9. HeldOK'
  BY <1>1, <1>2, <1>4, <1>5 DEF IInv, TypeOK, HeldOK, Held
<1>10. QED
  BY <1>4, <1>6, <1>7, <1>8, <1>9 DEF IInv

LEMMA SleepKeeps ==
  ASSUME IInv, NEW t \in Thread, Sleep(t)
  PROVE  IInv'
<1>1. /\ cur = t /\ pc[t] = "run" /\ pc' = [pc EXCEPT ![t] = "sched"] /\ t # Idle
      /\ armed' = [armed EXCEPT ![t] = TRUE]
      /\ UNCHANGED <<cur, lockNest, who, masked, isr>>
  BY ConstantsOK DEF Sleep, Makes, At, Goes
<1>2. pc'[t] = "sched" /\ \A v \in Thread \ {t} : pc'[v] = pc[v]
  BY <1>1 DEF IInv, TypeOK
<1>3. t \notin Held
  BY <1>1 DEF IInv, HeldOK
<1>4. CASE stat[t] = "ready"
  <2>1. /\ stat' = [stat EXCEPT ![t] = "suspend"]
        /\ rq' = Removed(rq, t, Prio[t]) /\ waitq' = Without(waitq, t)
    BY <1>4 DEF Sleep, Leave
  <2>2. Held' = Held /\ QueueInv' /\ StaleOK' /\ ResumeOK'
    <3>1. pc[t] \notin {"resume", "insert"} /\ pc'[t] \notin {"resume", "insert"}
      BY <1>1, <1>2
    <3>2. UNCHANGED <<cur, lockNest, who>> /\ cur = t /\ "suspend" # "ready"
      BY <1>1
    <3>3. QED
      BY <1>2, <2>1, <3>1, <3>2, Leaves
  <2>3. waitq' \in Seq(Thread) /\ Once(waitq') /\ ToSet(waitq') = ToSet(waitq) \ {t}
    BY <2>1, WaitqLeft DEF IInv
  <2>4. TypeOK'
    <3>1. rq' \in RQ
      BY <2>2 DEF QueueInv, Covers
    <3>2. QED
      BY <1>1, <2>1, <2>3, <3>1 DEF IInv, TypeOK, RQ, Queues, Prios
  <2>5. WaitersOK' /\ TimersOK'
    BY <1>1, <2>1, <2>3 DEF IInv, TypeOK, WaitersOK, TimersOK
  <2>6. KeepOK'
    BY <1>1, <1>2, <2>1 DEF IInv, TypeOK, KeepOK
  <2>7. HeldOK'
    BY <1>1, <1>3, <2>2, <2>3 DEF IInv, TypeOK, HeldOK, Held
  <2>8. QED
    BY <2>2, <2>4, <2>5, <2>6, <2>7 DEF IInv
<1>5. CASE stat[t] # "ready"
  <2>1. UNCHANGED <<stat, rq, waitq>>
    BY <1>5 DEF Sleep
  <2>2. stat[t] = "suspend"
    BY <1>1, <1>5 DEF IInv, TypeOK, KeepOK
  <2>3. TypeOK'
    BY <1>1, <2>1 DEF IInv, TypeOK
  <2>4. Held' = Held
    BY <1>1, <1>2 DEF Held
  <2>5. QueueInv' /\ WaitersOK'
    BY <2>1, <2>4 DEF IInv, QueueInv, Linked, WaitersOK
  <2>6. TimersOK'
    BY <1>1, <2>1, <2>2 DEF IInv, TypeOK, TimersOK
  <2>7. KeepOK'
    BY <1>1, <1>2, <2>1 DEF IInv, TypeOK, KeepOK
  <2>8. HeldOK'
    BY <1>1, <1>3, <2>1, <2>4 DEF IInv, TypeOK, HeldOK, Held
  <2>9. StaleOK'
    BY <1>1, <1>2, <2>1 DEF IInv, StaleOK, Stale
  <2>10. ResumeOK'
    BY <1>1, <1>2 DEF ResumeOK
  <2>11. QED
    BY <2>3, <2>5, <2>6, <2>7, <2>8, <2>9, <2>10 DEF IInv
<1>6. QED
  BY <1>4, <1>5

LEMMA WaitKeeps ==
  ASSUME IInv, NEW t \in Thread, NEW timed \in BOOLEAN, Wait(t, timed)
  PROVE  IInv'
<1>1. /\ cur = t /\ pc[t] = "run" /\ t # Idle /\ stat[t] = "ready"
      /\ stat' = [stat EXCEPT ![t] = "suspend"]
      /\ rq' = Removed(rq, t, Prio[t]) /\ waitq' = Append(waitq, t)
      /\ armed' = [armed EXCEPT ![t] = timed]
      /\ masked' = [masked EXCEPT ![t] = TRUE]
      /\ UNCHANGED <<cur, lockNest, pc, who, isr>>
  BY ConstantsOK DEF Wait, Makes, At
<1>2. t \notin Held
  BY <1>1 DEF IInv, HeldOK
<1>3. Held' = Held /\ QueueInv' /\ StaleOK' /\ ResumeOK'
  <2>1. /\ pc[t] \notin {"resume", "insert"} /\ pc'[t] \notin {"resume", "insert"}
        /\ \A v \in Thread \ {t} : pc'[v] = pc[v]
    BY <1>1
  <2>2. QED
    BY <1>1, <2>1, Leaves
<1>4. waitq' \in Seq(Thread) /\ Once(waitq') /\ ToSet(waitq') = ToSet(waitq) \cup {t}
  <2>1. t \notin ToSet(waitq) /\ waitq \in Seq(Thread) /\ Once(waitq)
    BY <1>1 DEF IInv, TypeOK, WaitersOK
  <2>2. QED
    BY <1>1, <2>1, AppendOK
<1>5. TypeOK'
  <2>1. rq' \in RQ
    BY <1>3 DEF QueueInv, Covers
  <2>2. QED
    BY <1>1, <1>4, <2>1 DEF IInv, TypeOK, RQ, Queues, Prios
<1>6. WaitersOK' /\ TimersOK'
  BY <1>1, <1>4 DEF IInv, TypeOK, WaitersOK, TimersOK
<1>7. KeepOK'
  BY <1>1 DEF IInv, TypeOK, KeepOK
<1>8. HeldOK'
  BY <1>1, <1>2, <1>3, <1>4 DEF IInv, TypeOK, HeldOK, Held
<1>9. QED
  BY <1>3, <1>5, <1>6, <1>7, <1>8 DEF IInv

LEMMA ExitKeeps ==
  ASSUME IInv, NEW t \in Thread, Exit(t)
  PROVE  IInv'
<1>1. /\ cur = t /\ pc[t] = "run" /\ t # Idle
      /\ stat' = [stat EXCEPT ![t] = "close"]
      /\ rq' = Removed(rq, t, Prio[t]) /\ waitq' = Without(waitq, t)
      /\ armed' = [armed EXCEPT ![t] = FALSE]
      /\ pc' = [pc EXCEPT ![t] = "sched"]
      /\ UNCHANGED <<cur, lockNest, who, masked, isr>>
  BY ConstantsOK DEF Exit, Makes, At, Leave, StopTimer, Goes
<1>2. pc'[t] = "sched" /\ \A v \in Thread \ {t} : pc'[v] = pc[v]
  BY <1>1 DEF IInv, TypeOK
<1>3. Held' = Held /\ QueueInv' /\ StaleOK' /\ ResumeOK'
  <2>1. pc[t] \notin {"resume", "insert"} /\ pc'[t] \notin {"resume", "insert"}
    BY <1>1, <1>2
  <2>2. QED
    BY <1>1, <1>2, <2>1, Leaves
<1>4. waitq' \in Seq(Thread) /\ Once(waitq') /\ ToSet(waitq') = ToSet(waitq) \ {t}
  BY <1>1, WaitqLeft DEF IInv
<1>5. TypeOK'
  <2>1. rq' \in RQ
    BY <1>3 DEF QueueInv, Covers
  <2>2. QED
    BY <1>1, <1>4, <2>1 DEF IInv, TypeOK, RQ, Queues, Prios
<1>6. WaitersOK' /\ TimersOK'
  BY <1>1, <1>4 DEF IInv, TypeOK, WaitersOK, TimersOK
<1>7. KeepOK'
  BY <1>1, <1>2 DEF IInv, TypeOK, KeepOK
<1>8. HeldOK'
  BY <1>1, <1>3, <1>4 DEF IInv, TypeOK, HeldOK, Held
<1>9. QED
  BY <1>3, <1>5, <1>6, <1>7, <1>8 DEF IInv

LEMMA ScheduleKeeps ==
  ASSUME IInv, NEW t \in Thread, Schedule(t)
  PROVE  IInv'
<1>1. /\ cur = t /\ pc[t] = "sched"
      /\ pc' = [pc EXCEPT ![t] = IF stat[t] = "close" THEN "ended" ELSE "run"]
      /\ cur' = IF lockNest = 0 THEN Top(rq) ELSE cur
      /\ masked' = [masked EXCEPT ![t] = @ \/ (lockNest = 0 /\ Top(rq) = t)]
      /\ UNCHANGED <<rq, lockNest, stat, armed, waitq, who, isr>>
  BY DEF Schedule, At, Goes
<1>2. pc'[t] \in {"run", "ended"} /\ \A v \in Thread \ {t} : pc'[v] = pc[v]
  BY <1>1 DEF IInv, TypeOK
<1>3. Held' = Held
  BY <1>1, <1>2 DEF Held
<1>4. QueueInv' /\ WaitersOK' /\ TimersOK'
  BY <1>1, <1>3 DEF IInv, QueueInv, Linked, WaitersOK, TimersOK
<1>5. lockNest = 0 => Top(rq) \in Linked
  BY PickOK DEF IInv
<1>6. TypeOK'
  <2>1. cur' \in Thread
    BY <1>1, <1>5 DEF IInv, TypeOK, Linked
  <2>2. QED
    BY <1>1, <2>1 DEF IInv, TypeOK
<1>7. KeepOK'
  <2>1. t # Idle
    BY <1>1 DEF IInv, KeepOK
  <2>2. QED
    BY <1>1, <1>2, <2>1, ConstantsOK DEF IInv, TypeOK, KeepOK
<1>8. StaleOK'
  <2>1. SUFFICES ASSUME NEW p \in Stale(rq)
                 PROVE  \E v \in Thread :
                          /\ pc'[v] = "insert" /\ Prio[who'[v]] = p
                          /\ stat'[v] = "ready" /\ Prio[v] < p
    BY <1>1 DEF StaleOK
  <2>2. PICK v \in Thread : /\ pc[v] = "insert" /\ Prio[who[v]] = p
                            /\ \/ stat[v] = "ready" /\ Prio[v] < p
                               \/ lockNest > 0 /\ cur = v
    BY DEF IInv, StaleOK
  <2>3. v # t
    BY <1>1, <2>2
  <2>4. QED
    BY <1>1, <1>2, <2>2, <2>3
<1>9. CASE lockNest = 0
  <2>1. AtPick'
    BY <1>1, <1>9 DEF AtPick
  <2>2. ResumeOK' /\ InList'
    BY <1>4, <1>6, <1>7, <1>8, <2>1, PickResumes
  <2>3. HeldOK'
    BY <1>1, <1>3, <2>2 DEF IInv, HeldOK, InList
  <2>4. QED
    BY <1>4, <1>6, <1>7, <1>8, <2>2, <2>3 DEF IInv
<1>10. CASE lockNest # 0
  <2>1. ResumeOK'
    BY <1>1, <1>10 DEF ResumeOK
  <2>2. HeldOK'
    BY <1>1, <1>3, <1>10 DEF IInv, HeldOK
  <2>3. QED
    BY <1>4, <1>6, <1>7, <1>8, <2>1, <2>2 DEF IInv
<1>11. QED
  BY <1>9, <1>10

LEMMA LeaveIsrKeeps ==
  ASSUME IInv, LeaveIsr
  PROVE  IInv'
<1>1. /\ isr' = FALSE
      /\ UNCHANGED <<rq, cur, lockNest, stat, armed, waitq, pc, who, masked>>
  BY DEF LeaveIsr
<1>2. Held' = Held
  BY <1>1 DEF Held
<1>3. TypeOK' /\ QueueInv' /\ WaitersOK' /\ TimersOK'
  BY <1>1, <1>2 DEF IInv, TypeOK, QueueInv, Linked, WaitersOK, TimersOK
<1>4. KeepOK' /\ HeldOK' /\ StaleOK' /\ ResumeOK'
  BY <1>1, <1>2 DEF IInv, KeepOK, HeldOK, StaleOK, Stale, ResumeOK
<1>5. QED
  BY <1>3, <1>4 DEF IInv

\* The handler changes the queue and lets rt_schedule pick; cur is not in the
\* middle of rt_thread_resume, or the pick is as good.
LEMMA HandlerPicks ==
  ASSUME IInv, TypeOK', QueueInv', KeepOK', StaleOK', IsrSchedule(rq'),
         Held' = Held,
         UNCHANGED <<lockNest, pc, who>>
  PROVE  ResumeOK' /\ cur' \notin Held /\ (cur' # cur => InList' /\ lockNest = 0)
<1>1. CASE lockNest = 0
  <2>1. AtPick'
    BY <1>1 DEF AtPick, IsrSchedule
  <2>2. QED
    BY <1>1, <2>1, PickResumes DEF InList
<1>2. CASE lockNest # 0
  <2>1. cur' = cur
    BY <1>2 DEF IsrSchedule
  <2>2. cur \notin Held
    BY DEF IInv, HeldOK
  <2>3. QED
    BY <1>2, <2>1, <2>2 DEF ResumeOK
<1>3. QED
  BY <1>1, <1>2

LEMMA TickKeeps ==
  ASSUME IInv, Tick
  PROVE  IInv'
<1>1. /\ isr' = TRUE
      /\ UNCHANGED <<lockNest, stat, armed, waitq, pc, who, masked>>
  BY DEF Tick
<1>2. Held' = Held /\ Linked' = Linked
  BY <1>1 DEF Held, Linked
<1>3. WaitersOK' /\ TimersOK' /\ KeepOK'
  BY <1>1 DEF IInv, WaitersOK, TimersOK, KeepOK
<1>4. CASE UNCHANGED <<rq, cur>>
  <2>1. TypeOK' /\ QueueInv' /\ HeldOK'
    BY <1>1, <1>2, <1>4 DEF IInv, TypeOK, QueueInv, HeldOK
  <2>2. StaleOK' /\ ResumeOK'
    BY <1>1, <1>4 DEF IInv, StaleOK, Stale, ResumeOK
  <2>3. QED
    BY <1>3, <2>1, <2>2 DEF IInv
<1>5. CASE CanYield(cur) /\ rq' = Rotated(rq, cur, Prio[cur]) /\ IsrSchedule(rq')
  <2>1. cur \in Linked /\ Linked \in SUBSET Thread /\ Covers(rq, Linked)
    BY <1>5 DEF CanYield, IInv, TypeOK, HeldOK, Linked, QueueInv
  <2>2. Covers(rq', Linked) /\ Stale(rq') \subseteq Stale(rq)
    BY <1>5, <2>1, Rotates
  <2>3. QueueInv'
    BY <1>2, <2>2 DEF QueueInv
  <2>4. ASSUME NEW p \in Stale(rq)
        PROVE  \E t \in Thread :
                 /\ pc[t] = "insert" /\ Prio[who[t]] = p
                 /\ \/ stat[t] = "ready" /\ Prio[t] < p
                    \/ lockNest > 0 /\ cur' = t
    <3>1. lockNest > 0 => cur' = cur
      BY <1>5 DEF IsrSchedule
    <3>2. QED
      BY <3>1 DEF IInv, StaleOK
  <2>5. StaleOK'
    BY <1>1, <2>2, <2>4 DEF StaleOK
  <2>6. cur' \in Thread /\ rq' \in RQ
    <3>1. rq' \in RQ
      BY <2>2 DEF Covers
    <3>2. CASE lockNest # 0
      <4>1. cur' = cur
        BY <1>5, <3>2 DEF IsrSchedule
      <4>2. QED
        BY <3>1, <4>1 DEF IInv, TypeOK
    <3>3. CASE lockNest = 0
      <4>1. ASSUME NEW p \in Stale(rq') PROVE \E u \in Linked : Prio[u] < p
        <5>1. PICK t \in Thread : pc[t] = "insert" /\ stat[t] = "ready" /\ Prio[t] < p
          BY <2>2, <2>4, <3>3
        <5>2. t \in Linked
          BY <5>1, KeepersFree DEF Linked, IInv
        <5>3. QED
          BY <5>1, <5>2
      <4>2. Top(rq') \in Linked
        BY <2>1, <2>2, <4>1, Picks
      <4>3. QED
        BY <1>5, <2>1, <3>1, <3>3, <4>2 DEF IsrSchedule
    <3>4. QED
      BY <3>1, <3>2, <3>3
  <2>7. TypeOK'
    BY <1>1, <2>6 DEF IInv, TypeOK, RQ, Queues, Prios
  <2>8. ResumeOK' /\ cur' \notin Held
    BY <1>1, <1>2, <1>3, <1>5, <2>3, <2>5, <2>7, HandlerPicks
  <2>9. HeldOK'
    BY <1>1, <1>2, <2>8 DEF IInv, HeldOK
  <2>10. QED
    BY <1>3, <2>3, <2>5, <2>7, <2>8, <2>9 DEF IInv
<1>6. QED
  BY <1>4, <1>5 DEF Tick

LEMMA FireKeeps ==
  ASSUME IInv, NEW u \in Thread, Fire(u)
  PROVE  IInv'
<1> DEFINE q0 == Unlinked(rq, u)
<1>1. /\ armed[u] /\ armed' = [armed EXCEPT ![u] = FALSE]
      /\ waitq' = Without(waitq, u)
      /\ stat' = [stat EXCEPT ![u] = "ready"]
      /\ rq' = Inserted(q0, u, Prio[u]) /\ IsrSchedule(rq')
      /\ UNCHANGED <<lockNest, pc, who, masked, isr>>
  BY DEF Fire, StopTimer
<1>2. stat[u] = "suspend" /\ u \notin Held /\ u \notin Linked
  BY <1>1 DEF IInv, TimersOK, HeldOK, Linked
<1>3. Held' = Held /\ Linked' = Linked \cup {u} /\ Linked \in SUBSET Thread
  BY <1>1, <1>2 DEF Held, Linked, IInv, TypeOK
<1>4. Covers(rq', Linked') /\ Stale(rq') \subseteq Stale(rq)
  <2>1. Covers(q0, Linked \ {u}) /\ Stale(q0) = Stale(rq)
    BY <1>2, <1>3, Unlinks DEF IInv, QueueInv
  <2>2. Linked \ {u} = Linked
    BY <1>2
  <2>3. QED
    BY <1>1, <1>2, <1>3, <2>1, <2>2, Inserts
<1>5. QueueInv'
  BY <1>4 DEF QueueInv
<1>6. waitq' \in Seq(Thread) /\ Once(waitq') /\ ToSet(waitq') = ToSet(waitq) \ {u}
  BY <1>1, WaitqLeft DEF IInv
<1>7. WaitersOK' /\ TimersOK'
  BY <1>1, <1>6 DEF IInv, TypeOK, WaitersOK, TimersOK
<1>8. KeepOK'
  BY <1>1 DEF IInv, TypeOK, KeepOK
<1>9. ASSUME NEW p \in Stale(rq)
      PROVE  \E t \in Thread :
               /\ pc[t] = "insert" /\ Prio[who[t]] = p
               /\ \/ stat'[t] = "ready" /\ Prio[t] < p
                  \/ lockNest > 0 /\ cur' = t
  <2>1. PICK t \in Thread : /\ pc[t] = "insert" /\ Prio[who[t]] = p
                            /\ \/ stat[t] = "ready" /\ Prio[t] < p
                               \/ lockNest > 0 /\ cur = t
    BY DEF IInv, StaleOK
  <2>2. stat[t] = "ready" => stat'[t] = "ready"
    BY <1>1 DEF IInv, TypeOK
  <2>3. lockNest > 0 => cur' = cur
    BY <1>1 DEF IsrSchedule
  <2>4. QED
    BY <2>1, <2>2, <2>3
<1>10. StaleOK'
  BY <1>1, <1>4, <1>9 DEF StaleOK
<1>11. rq' \in RQ /\ Linked' \in SUBSET Thread
  BY <1>3, <1>4 DEF Covers
<1>12. cur' \in Thread
  <2>1. CASE lockNest # 0
    <3>1. cur' = cur
      BY <1>1, <2>1 DEF IsrSchedule
    <3>2. QED
      BY <3>1 DEF IInv, TypeOK
  <2>2. CASE lockNest = 0
    <3>1. ASSUME NEW p \in Stale(rq') PROVE \E t \in Linked' : Prio[t] < p
      <4>1. PICK t \in Thread : pc[t] = "insert" /\ stat'[t] = "ready" /\ Prio[t] < p
        BY <1>4, <1>9, <2>2
      <4>2. t \in Linked'
        <5>1. t \notin Held
          BY <4>1, KeepersFree DEF IInv
        <5>2. QED
          BY <1>3, <4>1, <5>1 DEF Linked
      <4>3. QED
        BY <4>1, <4>2
    <3>2. Top(rq') \in Linked'
      <4>1. Linked' # {}
        BY <1>3
      <4>2. QED
        BY <1>4, <1>11, <3>1, <4>1, Picks
    <3>3. QED
      BY <1>1, <1>11, <2>2, <3>2 DEF IsrSchedule
  <2>3. QED
    BY <2>1, <2>2
<1>13. TypeOK'
  BY <1>1, <1>6, <1>11, <1>12 DEF IInv, TypeOK, RQ, Queues, Prios
<1>14. ResumeOK' /\ cur' \notin Held
  BY <1>1, <1>3, <1>5, <1>8, <1>10, <1>13, HandlerPicks
<1>15. HeldOK'
  BY <1>1, <1>3, <1>6, <1>14 DEF IInv, TypeOK, HeldOK, Held
<1>16. QED
  BY <1>5, <1>7, <1>8, <1>10, <1>13, <1>14, <1>15 DEF IInv

-----------------------------------------------------------------------------
(***************************************************************************)
(* The two halves of rt_thread_resume.                                     *)
(***************************************************************************)
LEMMA UnlinkKeeps ==
  ASSUME IInv, NEW t \in Thread, ResumeUnlink(t)
  PROVE  IInv'
<1> DEFINE u == who[t]
<1>1. /\ cur = t /\ pc[t] = "resume" /\ pc' = [pc EXCEPT ![t] = "insert"]
      /\ rq' = Unlinked(rq, u) /\ waitq' = Without(waitq, u)
      /\ armed' = [armed EXCEPT ![u] = FALSE]
      /\ UNCHANGED <<cur, lockNest, stat, who, masked, isr>>
  BY DEF ResumeUnlink, At, Goes, StopTimer
<1>2. u \in Thread /\ u # t /\ u # Idle /\ t \notin Held
  BY <1>1, KeepersFree DEF IInv
<1>3. pc'[t] = "insert" /\ \A v \in Thread \ {t} : pc'[v] = pc[v]
  BY <1>1 DEF IInv, TypeOK
<1>4. Held' = Held \cup {u}
  BY <1>1, <1>3 DEF Held
<1>5. Linked' = Linked \ {u} /\ Linked \in SUBSET Thread
  BY <1>1, <1>4 DEF Linked
<1>6. /\ Covers(rq', Linked') /\ Stale(rq') \subseteq Stale(rq) \cup {Prio[u]}
      /\ u \notin Linked => Stale(rq') = Stale(rq)
      /\ rq'.group = rq.group
  BY <1>1, <1>2, <1>5, Unlinks DEF IInv, QueueInv
<1>7. QueueInv'
  BY <1>6 DEF QueueInv
<1>8. waitq' \in Seq(Thread) /\ Once(waitq') /\ ToSet(waitq') = ToSet(waitq) \ {u}
  BY <1>1, WaitqLeft DEF IInv
<1>9. TypeOK'
  <2>1. rq' \in RQ
    BY <1>6 DEF Covers
  <2>2. QED
    BY <1>1, <1>2, <1>8, <2>1 DEF IInv, TypeOK, RQ, Queues, Prios
<1>10. WaitersOK' /\ TimersOK'
  BY <1>1, <1>2, <1>8 DEF IInv, TypeOK, WaitersOK, TimersOK
<1>11. KeepOK'
  BY <1>1, <1>2, <1>3, ConstantsOK DEF IInv, TypeOK, KeepOK
<1>12. HeldOK'
  BY <1>1, <1>2, <1>4, <1>8 DEF IInv, TypeOK, HeldOK
<1>13. ResumeOK'
  BY <1>1, <1>3 DEF ResumeOK
<1>14. StaleOK'
  <2>1. SUFFICES ASSUME NEW p \in Stale(rq')
                 PROVE  \E v \in Thread :
                          /\ pc'[v] = "insert" /\ Prio[who[v]] = p
                          /\ \/ stat[v] = "ready" /\ Prio[v] < p
                             \/ lockNest > 0 /\ cur = v
    BY <1>1 DEF StaleOK
  <2>2. CASE p \in Stale(rq)
    <3>1. PICK v \in Thread : /\ pc[v] = "insert" /\ Prio[who[v]] = p
                              /\ \/ stat[v] = "ready" /\ Prio[v] < p
                                 \/ lockNest > 0 /\ cur = v
      BY <2>2 DEF IInv, StaleOK
    <3>2. v # t
      BY <1>1, <3>1
    <3>3. QED
      BY <1>3, <3>1, <3>2
  <2>3. CASE p \notin Stale(rq)
    <3>1. p = Prio[u] /\ u \in Linked
      BY <1>6, <2>1, <2>3
    <3>2. CASE lockNest > 0
      BY <1>1, <1>3, <3>1, <3>2
    <3>3. CASE ~(lockNest > 0)
      <4>1. lockNest = 0
        BY <3>3, ThreadsAssumption DEF IInv, TypeOK
      <4>2. stat[t] = "ready" /\ Prio[t] <= Prio[u]
        BY <1>1, <3>1, <4>1 DEF IInv, ResumeOK, Linked
      <4>3. t \in Linked'
        BY <1>1, <1>2, <4>2, <1>5 DEF Linked
      <4>4. rq'.list[p] = <<>>
        BY DEF Stale
      <4>5. Prio[t] # p
        <5>1. SUFFICES ASSUME Prio[t] = p PROVE FALSE
          OBVIOUS
        <5>2. p \in Prios
          BY <3>1, <1>2, PrioType
        <5>3. t \in ToSet(rq'.list[p])
          BY <1>6, <4>3, <5>1, <5>2 DEF Covers
        <5>4. QED
          BY <4>4, <5>3 DEF ToSet
      <4>6. Prio[t] \in Nat /\ Prio[u] \in Nat
        BY <1>2, PrioType
      <4>7. Prio[t] < p
        BY <3>1, <4>2, <4>5, <4>6
      <4>8. QED
        BY <1>3, <3>1, <4>2, <4>7
    <3>4. QED
      BY <3>2, <3>3
  <2>4. QED
    BY <2>2, <2>3
<1>15. QED
  BY <1>7, <1>9, <1>10, <1>11, <1>12, <1>13, <1>14 DEF IInv

LEMMA InsertKeeps ==
  ASSUME IInv, NEW t \in Thread, ResumeInsert(t)
  PROVE  IInv'
<1> DEFINE u == who[t]
<1>1. /\ cur = t /\ pc[t] = "insert" /\ pc' = [pc EXCEPT ![t] = "run"]
      /\ stat' = [stat EXCEPT ![u] = "ready"]
      /\ rq' = Inserted(rq, u, Prio[u])
      /\ UNCHANGED <<cur, lockNest, armed, waitq, who, masked, isr>>
  BY DEF ResumeInsert, At, Goes
<1>2. u \in Thread /\ u # t /\ u # Idle
  BY <1>1, KeepersFree DEF IInv
<1>3. pc'[t] = "run" /\ \A v \in Thread \ {t} : pc'[v] = pc[v]
  BY <1>1 DEF IInv, TypeOK
<1>4. u \in Held /\ ~armed[u] /\ u \notin ToSet(waitq) /\ u \notin Linked
  BY <1>1 DEF Held, IInv, HeldOK, Linked
<1>5. Held' = Held \ {u}
  <2>1. \A v \in Thread \ {t} : pc[v] = "insert" => who[v] # u
    BY <1>1, KeepersFree DEF IInv
  <2>2. QED
    BY <1>1, <1>3, <2>1 DEF Held
<1>6. Linked' = Linked \cup {u} /\ Linked \in SUBSET Thread
  BY <1>1, <1>2, <1>5 DEF Linked, IInv, TypeOK
<1>7. Covers(rq', Linked') /\ Stale(rq') \subseteq Stale(rq) \ {Prio[u]}
  BY <1>1, <1>2, <1>4, <1>6, Inserts DEF IInv, QueueInv
<1>8. QueueInv'
  BY <1>7 DEF QueueInv
<1>9. TypeOK'
  <2>1. rq' \in RQ
    BY <1>7 DEF Covers
  <2>2. QED
    BY <1>1, <1>2, <2>1 DEF IInv, TypeOK, RQ, Queues, Prios
<1>10. WaitersOK' /\ TimersOK'
  BY <1>1, <1>2, <1>4 DEF IInv, TypeOK, WaitersOK, TimersOK
<1>11. KeepOK'
  BY <1>1, <1>2, <1>3, ConstantsOK DEF IInv, TypeOK, KeepOK
<1>12. HeldOK'
  BY <1>1, <1>5 DEF IInv, HeldOK
<1>13. ResumeOK'
  BY <1>1, <1>3 DEF ResumeOK
<1>14. StaleOK'
  <2>1. SUFFICES ASSUME NEW p \in Stale(rq')
                 PROVE  \E v \in Thread :
                          /\ pc'[v] = "insert" /\ Prio[who[v]] = p
                          /\ \/ stat'[v] = "ready" /\ Prio[v] < p
                             \/ lockNest > 0 /\ cur = v
    BY <1>1 DEF StaleOK
  <2>2. PICK v \in Thread : /\ pc[v] = "insert" /\ Prio[who[v]] = p
                            /\ \/ stat[v] = "ready" /\ Prio[v] < p
                               \/ lockNest > 0 /\ cur = v
    BY <1>7, <2>1 DEF IInv, StaleOK
  <2>3. v # t
    BY <1>7, <2>1, <2>2
  <2>4. stat[v] = "ready" => stat'[v] = "ready"
    BY <1>1 DEF IInv, TypeOK
  <2>5. QED
    BY <1>3, <2>2, <2>3, <2>4
<1>15. QED
  BY <1>8, <1>9, <1>10, <1>11, <1>12, <1>13, <1>14 DEF IInv

-----------------------------------------------------------------------------
(***************************************************************************)
(* The invariant holds in every reachable state.                           *)
(***************************************************************************)
LEMMA InitOK == Init => IInv
<1> SUFFICES ASSUME Init PROVE IInv
  OBVIOUS
<1>1. /\ rq = [list |-> Started, group |-> {Prio[t] : t \in Thread}]
      /\ cur = Top(rq) /\ lockNest = 0 /\ isr = FALSE
      /\ stat = [t \in Thread |-> "ready"] /\ armed = [t \in Thread |-> FALSE]
      /\ waitq = <<>> /\ pc = [t \in Thread |-> "run"]
      /\ who = [t \in Thread |-> Idle] /\ masked = [t \in Thread |-> FALSE]
  BY DEF Init
<1>2. Held = {} /\ Linked = Thread
  BY <1>1 DEF Held, Linked
<1>3. Idle \in Thread /\ MaxNest \in Nat
  BY ThreadsAssumption
<1>4. rq \in RQ
  <2>1. Started \in [Prios -> Seq(Thread)]
    BY ThreadsAssumption DEF Prios
  <2>2. {Prio[t] : t \in Thread} \in SUBSET Prios
    BY PrioType
  <2>3. QED
    BY <1>1, <2>1, <2>2 DEF RQ, Queues
<1>5. ASSUME NEW p \in Prios
      PROVE  /\ Once(rq.list[p])
             /\ ToSet(rq.list[p]) = {u \in Thread : Prio[u] = p}
             /\ rq.list[p] # <<>> <=> p \in rq.group
  <2>1. /\ Once(Started[p]) /\ ToSet(Started[p]) = {t \in Thread : Prio[t] = p}
        /\ Started[p] \in Seq(Thread)
    BY ThreadsAssumption DEF Prios
  <2>2. Started[p] # <<>> => \E t \in Thread : t \in ToSet(Started[p])
    <3>1. SUFFICES ASSUME Started[p] # <<>>
                   PROVE  Head(Started[p]) \in ToSet(Started[p])
      BY <2>1
    <3>2. QED
      BY <2>1, <3>1, TailOK
  <2>3. (\E t \in Thread : t \in ToSet(Started[p])) => Started[p] # <<>>
    BY DEF ToSet
  <2>4. QED
    BY <1>1, <2>1, <2>2, <2>3
<1>6. QueueInv
  BY <1>2, <1>4, <1>5 DEF QueueInv, Covers
<1>7. Stale(rq) = {}
  BY <1>4, <1>5 DEF Stale, RQ, Queues
<1>8. StaleOK
  BY <1>7 DEF StaleOK
<1>9. Top(rq) \in Thread
  <2>1. Covers(rq, Thread) /\ Thread # {}
    BY <1>2, <1>3, <1>6 DEF QueueInv
  <2>2. QED
    BY <1>7, <2>1, Picks
<1>10. TypeOK
  <2>1. rq \in [list : [0..MaxPrio -> Seq(Thread)], group : SUBSET (0..MaxPrio)]
    BY <1>4 DEF RQ, Queues, Prios
  <2>2. cur \in Thread /\ lockNest \in 0..MaxNest /\ waitq \in Seq(Thread)
    BY <1>1, <1>3, <1>9
  <2>3. /\ stat \in [Thread -> {"ready", "suspend", "close"}]
        /\ armed \in [Thread -> BOOLEAN] /\ masked \in [Thread -> BOOLEAN]
        /\ pc \in [Thread -> {"run", "suspend", "resume", "insert", "sched", "ended"}]
        /\ who \in [Thread -> Thread] /\ isr \in BOOLEAN
    BY <1>1, <1>3
  <2>4. QED
    BY <2>1, <2>2, <2>3 DEF TypeOK
<1>11. WaitersOK /\ TimersOK
  BY <1>1 DEF WaitersOK, TimersOK, Once, ToSet
<1>12. KeepOK
  BY <1>1, <1>3 DEF KeepOK
<1>13. HeldOK
  BY <1>2 DEF HeldOK
<1>14. ResumeOK
  BY <1>1, <1>9 DEF ResumeOK
<1>15. QED
  BY <1>6, <1>8, <1>10, <1>11, <1>12, <1>13, <1>14 DEF IInv

LEMMA NextOK == IInv /\ [Next]_vars => IInv'
<1> SUFFICES ASSUME IInv, [Next]_vars PROVE IInv'
  OBVIOUS
<1>1. CASE UNCHANGED vars
  BY <1>1 DEF vars, IInv, TypeOK, QueueInv, Linked, Held, WaitersOK, TimersOK,
     KeepOK, HeldOK, StaleOK, Stale, ResumeOK
<1>2. ASSUME NEW t \in Thread, NEW u \in Thread, Suspend(t, u) \/ Resume(t, u)
      PROVE  IInv'
  BY <1>2, CheckKeeps
<1>3. ASSUME NEW t \in Thread, SuspendIt(t) PROVE IInv'
  BY <1>3, SuspendKeeps
<1>4. ASSUME NEW t \in Thread, ResumeUnlink(t) PROVE IInv'
  BY <1>4, UnlinkKeeps
<1>5. ASSUME NEW t \in Thread, ResumeInsert(t) PROVE IInv'
  BY <1>5, InsertKeeps
<1>6. ASSUME NEW t \in Thread, Sleep(t) PROVE IInv'
  BY <1>6, SleepKeeps
<1>7. ASSUME NEW t \in Thread, Exit(t) PROVE IInv'
  BY <1>7, ExitKeeps
<1>8. ASSUME NEW t \in Thread,
             EnterCritical(t) \/ ExitCritical(t) \/ CallSchedule(t)
      PROVE  IInv'
  BY <1>8, FlowKeeps
<1>9. ASSUME NEW t \in Thread, Schedule(t) PROVE IInv'
  BY <1>9, ScheduleKeeps
<1>10. ASSUME NEW t \in Thread, NEW timed \in BOOLEAN, Wait(t, timed) PROVE IInv'
  BY <1>10, WaitKeeps
<1>11. CASE Tick
  BY <1>11, TickKeeps
<1>12. CASE LeaveIsr
  BY <1>12, LeaveIsrKeeps
<1>13. ASSUME NEW u \in Thread, Fire(u) PROVE IInv'
  BY <1>13, FireKeeps
<1>14. QED
  BY <1>1, <1>2, <1>3, <1>4, <1>5, <1>6, <1>7, <1>8, <1>9, <1>10, <1>11, <1>12,
     <1>13 DEF Next

\* The invariant holds whatever the programs call and however interrupts fall.
THEOREM ThreadsInvariance == Spec => []IInv
BY InitOK, NextOK, PTL DEF Spec

\* Every variable keeps its type.
THEOREM ThreadsTypes == Spec => []TypeOK
<1>1. IInv => TypeOK
  BY DEF IInv
<1>2. QED
  BY <1>1, ThreadsInvariance, PTL

\* The ready lists and the bitmap stay exact, but for a thread being resumed.
THEOREM ReadyListsExact == Spec => []ListsExact
<1>1. IInv => ListsExact
  <2> SUFFICES ASSUME IInv, NEW p \in Prios
               PROVE  /\ Once(rq.list[p])
                      /\ ToSet(rq.list[p]) =
                           {u \in Thread \ Held : stat[u] = "ready" /\ Prio[u] = p}
                      /\ rq.list[p] # <<>> => p \in rq.group
                      /\ p \in rq.group /\ rq.list[p] = <<>>
                           => \E u \in Held : Prio[u] = p
    BY DEF ListsExact, Prios
  <2>1. /\ Once(rq.list[p]) /\ ToSet(rq.list[p]) = {u \in Linked : Prio[u] = p}
        /\ rq.list[p] # <<>> => p \in rq.group
    BY DEF IInv, QueueInv, Covers
  <2>2. p \in rq.group /\ rq.list[p] = <<>> => \E u \in Held : Prio[u] = p
    BY DEF IInv, StaleOK, Stale, Held
  <2>3. QED
    BY <2>1, <2>2 DEF Linked
<1>2. QED
  BY <1>1, ThreadsInvariance, PTL

\* rt_schedule finds a thread whenever it picks.
THEOREM PickAlwaysThread == Spec => []PickIsThread
<1>1. IInv => PickIsThread
  BY PickOK DEF IInv, PickIsThread
<1>2. QED
  BY <1>1, ThreadsInvariance, PTL

\* Whoever waits is suspended, and no READY thread has a running timer.
THEOREM WaitersAndTimers == Spec => [](WaitersOK /\ TimersOK)
<1>1. IInv => WaitersOK /\ TimersOK
  BY DEF IInv
<1>2. QED
  BY <1>1, ThreadsInvariance, PTL

\* A switch leads to a READY thread that is as urgent as every READY thread not
\* under resumption, and never out of a critical section.
THEOREM SwitchesReady == Spec => SwitchesToReady
<1>1. IInv /\ IInv' /\ [Next]_vars =>
        [cur' # cur =>
           /\ lockNest = 0 /\ stat'[cur'] = "ready"
           /\ \A u \in Thread \ Held' : stat'[u] = "ready" => Prio[cur'] <= Prio[u]]_vars
  <2> SUFFICES ASSUME IInv, IInv', Next, cur' # cur
               PROVE  /\ lockNest = 0 /\ stat'[cur'] = "ready"
                      /\ \A u \in Thread \ Held' : stat'[u] = "ready" => Prio[cur'] <= Prio[u]
    BY DEF vars
  <2>1. PICK q : /\ IsrSchedule(q) \/ \E t \in Thread : Schedule(t)
                 /\ lockNest' = lockNest
                 /\ q = rq'
    BY DEF Next, Suspend, Resume, SuspendIt, ResumeUnlink, ResumeInsert, Sleep,
       Exit, CallSchedule, Wait, EnterCritical, ExitCritical, Tick, LeaveIsr, Fire,
       Schedule
  <2>2. lockNest = 0 /\ cur' = Top(rq')
    BY <2>1 DEF IsrSchedule, Schedule
  <2>3. AtPick'
    BY <2>1, <2>2 DEF AtPick
  <2>4. InList'
    BY <2>3, PickResumes DEF IInv
  <2>5. AsUrgent'
    BY <2>3, PickedUrgent DEF IInv
  <2>6. QED
    BY <2>2, <2>4, <2>5 DEF InList, AsUrgent, Linked
<1>2. QED
  BY <1>1, ThreadsInvariance, PTL DEF Spec, SwitchesToReady
=============================================================================
