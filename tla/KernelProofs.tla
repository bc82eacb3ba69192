---------------------------- MODULE KernelProofs -----------------------------
(***************************************************************************)
(* The safety properties of Kernel that hold for any number of threads,    *)
(* priorities, semaphores and mutexes, by one inductive invariant.         *)
(***************************************************************************)
EXTENDS Kernel, ListTheorems

Ready == {t \in Thread : stat[t] = "ready"}

\* What IInv needs beyond the properties: rt_schedule always finds a thread.
IdleReady == stat[Idle] = "ready"

IInv ==
  /\ TypeOK /\ ReadyQueueOK /\ TimersOK /\ WaitersOK
  /\ NoLostWakeup /\ MutexOK /\ RunningIsReady /\ IdleReady

\* The lists and what they say about the threads.
ListsOK == ReadyQueueOK /\ TimersOK /\ WaitersOK

-----------------------------------------------------------------------------
(***************************************************************************)
(* The pieces of kernel calls.                                             *)
(***************************************************************************)

\* rt_timer_start of a thread's timer.
LEMMA StartTimerOK ==
  ASSUME TypeOK, TimersOK, NEW t \in Thread, NEW n \in Nat, StartTimer(t, n)
  PROVE  /\ timers' \in Seq(Thread) /\ Once(timers')
         /\ ToSet(timers') = ToSet(timers) \cup {t}
         /\ timeout' \in [Thread -> 0..(TickMod - 1) \cup {NoTick}] /\ left' \in [Thread -> Nat]
         /\ armed' = [armed EXCEPT ![t] = TRUE]
<1> DEFINE at == Deadline(n)
           w == Without(timers, t)
<1>1. timers \in Seq(Thread) /\ Once(timers)
  BY DEF TypeOK, TimersOK
<1>2. w \in Seq(Thread) /\ Once(w) /\ ToSet(w) = ToSet(timers) \ {t}
  BY <1>1, WithoutOK
<1>3. at \in 0..(TickMod - 1)
  BY TickAssumption DEF TypeOK, Deadline
<1>4. /\ timers' = InsertTimer(w, timeout, t, at)
      /\ timeout' = [timeout EXCEPT ![t] = at]
      /\ armed' = [armed EXCEPT ![t] = TRUE] /\ left' = [left EXCEPT ![t] = n]
  BY DEF StartTimer
<1> HIDE DEF w, at
<1>5. /\ timers' \in Seq(Thread) /\ Once(timers')
      /\ ToSet(timers') = ToSet(w) \cup {t}
  BY <1>2, <1>4, InsertTimerOK
<1>6. QED
  BY <1>2, <1>3, <1>4, <1>5 DEF TypeOK

\* rt_timer_stop of a thread's timer.
LEMMA StopTimerOK ==
  ASSUME TypeOK, TimersOK, NEW t \in Thread, StopTimer(t)
  PROVE  /\ timers' \in Seq(Thread) /\ Once(timers')
         /\ ToSet(timers') = ToSet(timers) \ {t}
         /\ timeout' \in [Thread -> 0..(TickMod - 1) \cup {NoTick}] /\ left' \in [Thread -> Nat]
         /\ armed' = [armed EXCEPT ![t] = FALSE]
<1>1. timers \in Seq(Thread) /\ Once(timers)
  BY DEF TypeOK, TimersOK
<1>2. CASE armed[t]
  <2>1. timers' = Without(timers, t)
    BY <1>2 DEF StopTimer
  <2>2. QED
    BY <1>1, <2>1, WithoutOK DEF StopTimer, TypeOK
<1>3. CASE ~armed[t]
  <2>1. t \notin ToSet(timers)
    BY <1>3 DEF TimersOK
  <2>2. QED
    BY <1>1, <1>3, <2>1 DEF StopTimer, TypeOK
<1>4. QED
  BY <1>2, <1>3

\* The running thread leaves the ready queue q, with or without a timer.
LEMMA SuspendOK ==
  ASSUME TypeOK, TimersOK, NEW t \in Thread, stat[t] = "ready",
         NEW n \in Int, NEW q \in Queues(Prio, Thread),
         prio' \in [Thread -> Prio], prio'[t] = prio[t],
         QueueOK(q, Ready, prio'), Suspend(t, q, n)
  PROVE  /\ rq' \in Queues(Prio, Thread) /\ ReadyQueueOK'
         /\ timers' \in Seq(Thread) /\ TimersOK'
         /\ timeout' \in [Thread -> 0..(TickMod - 1) \cup {NoTick}] /\ left' \in [Thread -> Nat]
         /\ armed' \in [Thread -> BOOLEAN] /\ (n >= 0 => armed'[t])
         /\ stat' = [stat EXCEPT ![t] = "suspend"]
<1>1. stat' = [stat EXCEPT ![t] = "suspend"] /\ rq' = Removed(q, t, prio'[t])
  BY DEF Suspend
<1>2. Ready' = Ready \ {t}
  BY <1>1 DEF Ready, TypeOK
<1>3. rq' \in Queues(Prio, Thread) /\ ReadyQueueOK'
  <2> DEFINE pr == prio'
             RR == Ready
  <2>1. RR \in SUBSET Thread
    BY DEF Ready
  <2> HIDE DEF pr, RR
  <2>2. /\ Removed(q, t, pr[t]) \in Queues(Prio, Thread)
        /\ QueueOK(Removed(q, t, pr[t]), RR \ {t}, pr)
    BY <2>1, RemovedOK DEF pr, RR
  <2>3. QED
    BY <1>1, <1>2, <2>2 DEF ReadyQueueOK, Ready, pr, RR
<1>4. /\ timers' \in Seq(Thread) /\ Once(timers')
      /\ timeout' \in [Thread -> 0..(TickMod - 1) \cup {NoTick}] /\ left' \in [Thread -> Nat]
      /\ armed' = IF n >= 0 THEN [armed EXCEPT ![t] = TRUE]
                  ELSE [armed EXCEPT ![t] = FALSE]
      /\ ToSet(timers') = IF n >= 0 THEN ToSet(timers) \cup {t}
                          ELSE ToSet(timers) \ {t}
  <2>1. CASE n >= 0
    <3>1. StartTimer(t, n) /\ n \in Nat
      BY <2>1 DEF Suspend
    <3>2. QED
      BY <2>1, <3>1, StartTimerOK
  <2>2. CASE ~ (n >= 0)
    <3>1. StopTimer(t)
      BY <2>2 DEF Suspend
    <3>2. QED
      BY <2>2, <3>1, StopTimerOK
  <2>3. QED
    BY <2>1, <2>2
<1>5. /\ armed' \in [Thread -> BOOLEAN] /\ (n >= 0 => armed'[t])
      /\ \A u \in Thread : armed'[u] <=> IF u = t THEN n >= 0 ELSE armed[u]
  BY <1>4 DEF TypeOK
<1>6. TimersOK'
  <2>1. ToSet(timers') = {u \in Thread : armed'[u]}
    BY <1>4, <1>5 DEF TimersOK
  <2>2. ASSUME NEW u \in Thread, armed'[u] PROVE stat'[u] = "suspend"
    BY <1>1, <1>5, <2>2 DEF TimersOK, TypeOK
  <2>3. QED
    BY <1>4, <2>1, <2>2 DEF TimersOK
<1>7. QED
  BY <1>1, <1>3, <1>4, <1>5, <1>6

\* rt_ipc_list_resume of the first waiter of o.
LEMMA WakeOK ==
  ASSUME TypeOK, TimersOK, WaitersOK, NEW o \in Obj, waitq[o] # <<>>,
         NEW q \in Queues(Prio, Thread),
         prio' \in [Thread -> Prio],
         prio'[Head(waitq[o])] = prio[Head(waitq[o])],
         QueueOK(q, Ready, prio'), WakeFirst(o, q),
         \A u \in Thread : stat[u] = "suspend" => call'[u] = call[u]
  PROVE  /\ rq' \in Queues(Prio, Thread) /\ ReadyQueueOK'
         /\ timers' \in Seq(Thread) /\ TimersOK'
         /\ timeout' \in [Thread -> 0..(TickMod - 1) \cup {NoTick}] /\ left' \in [Thread -> Nat]
         /\ armed' \in [Thread -> BOOLEAN]
         /\ waitq' \in [Obj -> Seq(Thread)] /\ WaitersOK'
         /\ waitq' = [waitq EXCEPT ![o] = Tail(@)]
         /\ Head(waitq[o]) \in Thread
         /\ stat[Head(waitq[o])] = "suspend"
         /\ stat' = [stat EXCEPT ![Head(waitq[o])] = "ready"]
         /\ Head(waitq[o]) \notin ToSet(waitq'[o])
         /\ ToSet(waitq'[o]) \subseteq ToSet(waitq[o])
<1> DEFINE w == Head(waitq[o])
<1>1. waitq[o] \in Seq(Thread) /\ Once(waitq[o])
  BY DEF TypeOK, WaitersOK
<1>2. /\ w \in Thread /\ w \in ToSet(waitq[o])
      /\ Tail(waitq[o]) \in Seq(Thread) /\ Once(Tail(waitq[o]))
      /\ ToSet(Tail(waitq[o])) = ToSet(waitq[o]) \ {w}
  BY <1>1, TailOK
<1>3. stat[w] = "suspend" /\ call[w].obj = o
  BY <1>2 DEF WaitersOK
<1>4. /\ waitq' = [waitq EXCEPT ![o] = Tail(@)]
      /\ stat' = [stat EXCEPT ![w] = "ready"]
      /\ rq' = Inserted(q, w, prio'[w])
      /\ StopTimer(w)
  BY DEF WakeFirst
<1> HIDE DEF w
<1>5. w \notin Ready /\ Ready' = Ready \cup {w}
  <2>1. /\ w \in Thread /\ stat[w] # "ready" /\ stat'[w] = "ready"
        /\ \A u \in Thread \ {w} : stat'[u] = stat[u]
    BY <1>2, <1>3, <1>4 DEF TypeOK
  <2> QED BY <2>1 DEF Ready
<1>6. rq' \in Queues(Prio, Thread) /\ ReadyQueueOK'
  <2> DEFINE pr == prio'
             RR == Ready
  <2>1. RR \in SUBSET Thread /\ w \in Thread \ RR
    BY <1>2, <1>5 DEF Ready
  <2> HIDE DEF pr, RR
  <2>2. /\ Inserted(q, w, pr[w]) \in Queues(Prio, Thread)
        /\ QueueOK(Inserted(q, w, pr[w]), RR \cup {w}, pr)
    BY <2>1, InsertedOK DEF pr, RR
  <2>3. QED
    BY <1>4, <1>5, <2>2 DEF ReadyQueueOK, Ready, pr, RR
<1>7. /\ timers' \in Seq(Thread) /\ Once(timers')
      /\ ToSet(timers') = ToSet(timers) \ {w}
      /\ timeout' \in [Thread -> 0..(TickMod - 1) \cup {NoTick}] /\ left' \in [Thread -> Nat]
      /\ armed' = [armed EXCEPT ![w] = FALSE]
  BY <1>2, <1>4, StopTimerOK
<1>8. /\ armed' \in [Thread -> BOOLEAN]
      /\ \A u \in Thread : armed'[u] <=> u # w /\ armed[u]
  BY <1>7 DEF TypeOK
<1>9. TimersOK'
  <2>1. ToSet(timers') = {u \in Thread : armed'[u]}
    BY <1>7, <1>8 DEF TimersOK
  <2>2. ASSUME NEW u \in Thread, armed'[u] PROVE stat'[u] = "suspend"
    BY <1>4, <1>8, <2>2 DEF TimersOK, TypeOK
  <2>3. QED
    BY <1>7, <2>1, <2>2 DEF TimersOK
<1>10. WaitersOK'
  <2>1. ASSUME NEW p \in Obj
        PROVE  /\ Once(waitq'[p])
               /\ ToSet(waitq'[p]) =
                    {u \in Thread : stat'[u] = "suspend" /\ call'[u].obj = p}
    <3>1. /\ Once(waitq[p])
          /\ ToSet(waitq[p]) =
               {u \in Thread : stat[u] = "suspend" /\ call[u].obj = p}
      BY DEF WaitersOK
    <3>2. \A u \in Thread : stat'[u] = IF u = w THEN "ready" ELSE stat[u]
      BY <1>4 DEF TypeOK
    <3>3. {u \in Thread : stat'[u] = "suspend" /\ call'[u].obj = p}
            = {u \in Thread : stat[u] = "suspend" /\ call[u].obj = p} \ {w}
      BY <3>2
    <3>4. CASE p = o
      BY <1>2, <1>4, <3>1, <3>3, <3>4 DEF TypeOK, w
    <3>5. CASE p # o
      <4>1. waitq'[p] = waitq[p]
        BY <1>4, <3>5 DEF TypeOK
      <4>2. {u \in Thread : stat[u] = "suspend" /\ call[u].obj = p} \ {w}
              = {u \in Thread : stat[u] = "suspend" /\ call[u].obj = p}
        BY <1>3, <3>5
      <4>3. QED
        BY <3>1, <3>3, <4>1, <4>2
    <3>6. QED
      BY <3>4, <3>5
  <2>2. ASSUME NEW u \in Thread, stat'[u] = "suspend", call'[u].obj = None
        PROVE  armed'[u]
    <3>1. u # w /\ stat[u] = "suspend" /\ call[u].obj = None
      BY <1>4, <2>2 DEF TypeOK
    <3>2. QED
      BY <1>8, <3>1 DEF WaitersOK
  <2>3. QED
    BY <2>1, <2>2 DEF WaitersOK
<1>11. waitq' \in [Obj -> Seq(Thread)]
  BY <1>2, <1>4 DEF TypeOK
<1>12. waitq'[o] = Tail(waitq[o])
  BY <1>4 DEF TypeOK
<1>13. QED
  BY <1>2, <1>3, <1>4, <1>6, <1>7, <1>8, <1>9, <1>10, <1>11, <1>12 DEF w

\* A step that moves no thread and changes only calls of READY threads.
LEMMA FrameOK ==
  ASSUME ListsOK, UNCHANGED <<rq, stat, prio, timers, armed, waitq>>,
         \A u \in Thread : stat[u] = "suspend" => call'[u] = call[u]
  PROVE  ListsOK'
<1>1. ReadyQueueOK'
  BY DEF ListsOK, ReadyQueueOK
<1>2. TimersOK'
  BY DEF ListsOK, TimersOK
<1>3. WaitersOK'
  <2>1. \A p \in Obj :
          {u \in Thread : stat'[u] = "suspend" /\ call'[u].obj = p}
            = {u \in Thread : stat[u] = "suspend" /\ call[u].obj = p}
    OBVIOUS
  <2>2. \A p \in Obj :
          /\ Once(waitq'[p])
          /\ ToSet(waitq'[p]) =
               {u \in Thread : stat'[u] = "suspend" /\ call'[u].obj = p}
    BY <2>1 DEF ListsOK, WaitersOK
  <2>3. \A u \in Thread :
          stat'[u] = "suspend" /\ call'[u].obj = None => armed'[u]
    BY DEF ListsOK, WaitersOK
  <2>4. QED
    BY <2>2, <2>3 DEF WaitersOK
<1>4. QED
  BY <1>1, <1>2, <1>3 DEF ListsOK

\* A change of one thread's priority keeps the ready queue exact, whether or
\* not the thread is in it.
LEMMA RepositionedOK ==
  ASSUME TypeOK, ReadyQueueOK, NEW u \in Thread, NEW p \in Prio
  PROVE  /\ Repositioned(u, p) \in Queues(Prio, Thread)
         /\ QueueOK(Repositioned(u, p), Ready, [prio EXCEPT ![u] = p])
<1> DEFINE pr2 == [prio EXCEPT ![u] = p]
           q == Removed(rq, u, prio[u])
<1>1. /\ rq \in Queues(Prio, Thread) /\ QueueOK(rq, Ready, prio)
      /\ Ready \in SUBSET Thread /\ prio \in [Thread -> Prio]
  BY DEF TypeOK, ReadyQueueOK, Ready, Queues
<1>2. pr2 \in [Thread -> Prio] /\ pr2[u] = p
      /\ \A v \in Thread : v # u => pr2[v] = prio[v]
  BY <1>1
<1> HIDE DEF pr2
<1>3. CASE u \in Ready
  <2>1. q \in Queues(Prio, Thread) /\ QueueOK(q, Ready \ {u}, prio)
    BY <1>1, RemovedOK
  <2> HIDE DEF q
  <2>2. QueueOK(q, Ready \ {u}, pr2)
    <3>1. Ready \ {u} \in SUBSET Thread /\ \A v \in Ready \ {u} : pr2[v] = prio[v]
      BY <1>1, <1>2
    <3>2. QED
      BY <2>1, <3>1, OutsideQueueOK
  <2>3. /\ Inserted(q, u, pr2[u]) \in Queues(Prio, Thread)
        /\ QueueOK(Inserted(q, u, pr2[u]), (Ready \ {u}) \cup {u}, pr2)
    <3>1. Ready \ {u} \in SUBSET Thread /\ u \in Thread \ (Ready \ {u})
      BY <1>1
    <3>2. QED
      BY <1>2, <2>1, <2>2, <3>1, InsertedOK
  <2>4. (Ready \ {u}) \cup {u} = Ready
    BY <1>3
  <2>5. Repositioned(u, p) = Inserted(q, u, p)
    BY <1>3 DEF Repositioned, Ready, q
  <2>6. QED
    BY <1>2, <2>3, <2>4, <2>5 DEF pr2
<1>4. CASE u \notin Ready
  <2>1. Repositioned(u, p) = rq
    BY <1>4 DEF Repositioned, Ready
  <2>2. \A v \in Ready : pr2[v] = prio[v]
    BY <1>1, <1>2, <1>4
  <2>3. QED
    BY <1>1, <2>1, <2>2, OutsideQueueOK DEF pr2
<1>5. QED
  BY <1>3, <1>4

\* A thread that makes a call is the READY current thread, and not Idle.
LEMMA CallerOK ==
  ASSUME IInv, NEW t \in Thread, NEW fn, Makes(t, fn)
  PROVE  t = cur /\ stat[t] = "ready" /\ t # Idle /\ pc[t] = "run"
BY ThreadAssumption DEF IInv, RunningIsReady, Makes

\* As long as Idle is in the queue, rt_schedule picks a thread of the queue.
LEMMA PickOK ==
  ASSUME NEW q \in Queues(Prio, Thread), NEW R \in SUBSET Thread,
         NEW pr \in [Thread -> Prio], QueueOK(q, R, pr), Idle \in R
  PROVE  Top(q) \in R
<1>1. Prio \in SUBSET Nat /\ R # {}
  BY ThreadAssumption DEF Prio
<1>2. QED
  BY <1>1, TopOK

\* rt_schedule finds a READY thread.
LEMMA TopReady ==
  ASSUME TypeOK, ReadyQueueOK, IdleReady
  PROVE  Top(rq) \in Thread /\ stat[Top(rq)] = "ready"
<1>1. /\ rq \in Queues(Prio, Thread) /\ QueueOK(rq, Ready, prio)
      /\ Ready \in SUBSET Thread /\ prio \in [Thread -> Prio]
  BY DEF TypeOK, ReadyQueueOK, Ready, Queues
<1>2. Idle \in Ready
  BY ThreadAssumption DEF IdleReady, Ready
<1>3. Top(rq) \in Ready
  BY <1>1, <1>2, PickOK
<1>4. QED
  BY <1>3 DEF Ready

\* The same of the queue a step leaves.
LEMMA TopReadyNext ==
  ASSUME rq' \in Queues(Prio, Thread), prio' \in [Thread -> Prio],
         ReadyQueueOK', IdleReady'
  PROVE  Top(rq') \in Thread /\ stat'[Top(rq')] = "ready"
<1> DEFINE q == rq'
           R == {u \in Thread : stat'[u] = "ready"}
           pr == prio'
<1>1. /\ q \in Queues(Prio, Thread) /\ R \in SUBSET Thread
      /\ pr \in [Thread -> Prio] /\ QueueOK(q, R, pr) /\ Idle \in R
  BY ThreadAssumption DEF ReadyQueueOK, IdleReady
<1> HIDE DEF q, R, pr
<1>2. Top(q) \in R
  BY <1>1, PickOK
<1>3. QED
  BY <1>2 DEF q, R

\* rt_thread_yield of a READY thread.
LEMMA RotatedReady ==
  ASSUME TypeOK, ReadyQueueOK, NEW t \in Thread, stat[t] = "ready",
         rq' = Rotated(rq, t, prio[t]), UNCHANGED <<stat, prio>>
  PROVE  rq' \in Queues(Prio, Thread) /\ ReadyQueueOK'
<1>1. /\ Ready \in SUBSET Thread /\ t \in Ready /\ prio \in [Thread -> Prio]
      /\ rq \in Queues(Prio, Thread) /\ QueueOK(rq, Ready, prio)
  BY DEF Ready, TypeOK, ReadyQueueOK, Queues
<1>2. /\ Rotated(rq, t, prio[t]) \in Queues(Prio, Thread)
      /\ QueueOK(Rotated(rq, t, prio[t]), Ready, prio)
  BY <1>1, RotatedOK
<1>3. QED
  BY <1>2 DEF ReadyQueueOK, Ready

\* The wait lists when no thread starts or stops waiting.
LEMMA WaitersFrame ==
  ASSUME WaitersOK, UNCHANGED waitq,
         \A u \in Thread :
           /\ stat'[u] = "suspend" <=> stat[u] = "suspend"
           /\ stat[u] = "suspend" => call'[u] = call[u]
           /\ stat[u] = "suspend" /\ armed[u] => armed'[u]
  PROVE  WaitersOK'
<1>1. ASSUME NEW p \in Obj
      PROVE  /\ Once(waitq'[p])
             /\ ToSet(waitq'[p]) =
                  {u \in Thread : stat'[u] = "suspend" /\ call'[u].obj = p}
  <2>1. {u \in Thread : stat'[u] = "suspend" /\ call'[u].obj = p}
          = {u \in Thread : stat[u] = "suspend" /\ call[u].obj = p}
    OBVIOUS
  <2>2. QED
    BY <2>1 DEF WaitersOK
<1>2. \A u \in Thread :
        stat'[u] = "suspend" /\ call'[u].obj = None => armed'[u]
  BY DEF WaitersOK
<1>3. QED
  BY <1>1, <1>2 DEF WaitersOK

\* The READY thread t starts to wait for o, or for its timer alone.
LEMMA WaitersBlock ==
  ASSUME TypeOK, WaitersOK, NEW t \in Thread, stat[t] = "ready",
         NEW o \in Obj \cup {None},
         stat' = [stat EXCEPT ![t] = "suspend"],
         call'[t].obj = o, o = None => armed'[t],
         \A u \in Thread : u # t => /\ call'[u] = call[u]
                                    /\ armed'[u] = armed[u],
         \A p \in Obj : waitq'[p] = IF p = o THEN Append(waitq[p], t)
                                    ELSE waitq[p]
  PROVE  WaitersOK' /\ \A p \in Obj : waitq'[p] \in Seq(Thread)
<1>1. ASSUME NEW p \in Obj
      PROVE  /\ waitq'[p] \in Seq(Thread) /\ Once(waitq'[p])
             /\ ToSet(waitq'[p]) =
                  {u \in Thread : stat'[u] = "suspend" /\ call'[u].obj = p}
  <2> DEFINE W == {u \in Thread : stat[u] = "suspend" /\ call[u].obj = p}
             Z == {u \in Thread : stat'[u] = "suspend" /\ call'[u].obj = p}
  <2>1. waitq[p] \in Seq(Thread) /\ Once(waitq[p]) /\ ToSet(waitq[p]) = W
    BY DEF WaitersOK, TypeOK
  <2>2. Z = IF p = o THEN W \cup {t} ELSE W
    BY DEF TypeOK
  <2>3. t \notin W
    OBVIOUS
  <2> HIDE DEF W, Z
  <2>4. CASE p = o
    <3>1. t \notin ToSet(waitq[p]) /\ waitq'[p] = Append(waitq[p], t)
      BY <2>1, <2>3, <2>4
    <3>2. /\ Append(waitq[p], t) \in Seq(Thread) /\ Once(Append(waitq[p], t))
          /\ ToSet(Append(waitq[p], t)) = ToSet(waitq[p]) \cup {t}
      BY <2>1, <3>1, AppendOK
    <3>3. QED
      BY <2>1, <2>2, <2>4, <3>1, <3>2 DEF Z
  <2>5. CASE p # o
    BY <2>1, <2>2, <2>5 DEF Z
  <2>6. QED
    BY <2>4, <2>5
<1>2. ASSUME NEW u \in Thread, stat'[u] = "suspend", call'[u].obj = None
      PROVE  armed'[u]
  <2>1. CASE u = t
    BY <1>2, <2>1
  <2>2. CASE u # t
    BY <1>2, <2>2 DEF WaitersOK, TypeOK
  <2>3. QED
    BY <2>1, <2>2
<1>3. QED
  BY <1>1, <1>2 DEF WaitersOK

-----------------------------------------------------------------------------
(***************************************************************************)
(* One lemma per action: it preserves IInv.                                *)
(***************************************************************************)

LEMMA EnterCriticalOK ==
  ASSUME IInv, NEW t \in Thread, EnterCritical(t)
  PROVE  IInv'
<1> USE DEF EnterCritical, Returns, threadVars, timerVars, ipcVars, flowVars
<1>1. t = cur /\ stat[t] = "ready"
  BY CallerOK
<1>2. TypeOK'
  BY DEF IInv, TypeOK
<1>3. ListsOK'
  BY FrameOK DEF IInv, ListsOK
<1>4. NoLostWakeup' /\ MutexOK'
  BY DEF IInv, NoLostWakeup, MutexOK
<1>5. RunningIsReady' /\ IdleReady'
  BY <1>1 DEF IInv, RunningIsReady, IdleReady
<1>6. QED
  BY <1>2, <1>3, <1>4, <1>5 DEF IInv, ListsOK

LEMMA ExitCriticalOK ==
  ASSUME IInv, NEW t \in Thread, ExitCritical(t)
  PROVE  IInv'
<1> USE DEF ExitCritical, ToSchedule, threadVars, timerVars, ipcVars
<1>1. t = cur /\ stat[t] = "ready"
  BY CallerOK
<1>2. TypeOK'
  BY DEF IInv, TypeOK, Calling, CallName
<1>3. ListsOK'
  <2>1. \A u \in Thread : stat[u] = "suspend" => call'[u] = call[u]
    BY <1>1 DEF IInv, TypeOK
  <2>2. QED
    BY <2>1, FrameOK DEF IInv, ListsOK
<1>4. NoLostWakeup' /\ MutexOK'
  BY DEF IInv, NoLostWakeup, MutexOK
<1>5. RunningIsReady' /\ IdleReady'
  BY <1>1 DEF IInv, RunningIsReady, IdleReady
<1>6. QED
  BY <1>2, <1>3, <1>4, <1>5 DEF IInv, ListsOK

LEMMA ScheduleOK ==
  ASSUME IInv, NEW t \in Thread, Schedule(t)
  PROVE  IInv'
<1> USE DEF Schedule, threadVars, timerVars, ipcVars
<1>1. Top(rq) \in Thread /\ stat[Top(rq)] = "ready"
  BY TopReady DEF IInv
<1>2. TypeOK'
  BY <1>1 DEF IInv, TypeOK
<1>3. ListsOK'
  BY FrameOK DEF IInv, ListsOK
<1>4. NoLostWakeup' /\ MutexOK'
  BY DEF IInv, NoLostWakeup, MutexOK
<1>5. RunningIsReady' /\ IdleReady'
  BY <1>1 DEF IInv, RunningIsReady, IdleReady, TypeOK
<1>6. QED
  BY <1>2, <1>3, <1>4, <1>5 DEF IInv, ListsOK

LEMMA ReturnOK ==
  ASSUME IInv, NEW t \in Thread, Return(t)
  PROVE  IInv'
<1> USE DEF Return, threadVars, timerVars, ipcVars
<1>1. t = cur /\ stat[t] = "ready"
  BY DEF IInv, RunningIsReady
<1>2. TypeOK'
  BY DEF IInv, TypeOK, NoCall, Calling
<1>3. ListsOK'
  <2>1. \A u \in Thread : stat[u] = "suspend" => call'[u] = call[u]
    BY <1>1 DEF IInv, TypeOK
  <2>2. QED
    BY <2>1, FrameOK DEF IInv, ListsOK
<1>4. NoLostWakeup' /\ MutexOK'
  BY DEF IInv, NoLostWakeup, MutexOK
<1>5. RunningIsReady' /\ IdleReady'
  BY <1>1 DEF IInv, RunningIsReady, IdleReady
<1>6. QED
  BY <1>2, <1>3, <1>4, <1>5 DEF IInv, ListsOK

LEMMA LeaveIsrOK ==
  ASSUME IInv, LeaveIsr
  PROVE  IInv'
<1> USE DEF LeaveIsr, threadVars, timerVars, ipcVars, flowVars
<1>1. TypeOK'
  BY DEF IInv, TypeOK
<1>2. ListsOK'
  BY FrameOK DEF IInv, ListsOK
<1>3. NoLostWakeup' /\ MutexOK' /\ RunningIsReady' /\ IdleReady'
  BY DEF IInv, NoLostWakeup, MutexOK, RunningIsReady, IdleReady
<1>4. QED
  BY <1>1, <1>2, <1>3 DEF IInv, ListsOK

LEMMA SemTakeNowOK ==
  ASSUME IInv, NEW t \in Thread, NEW s \in Sem, SemTakeNow(t, s)
  PROVE  IInv'
<1> USE DEF SemTakeNow, Returns, threadVars, timerVars, flowVars
<1>1. TypeOK'
  <2>1. /\ UNCHANGED <<tick, rq, cur, lockNest, stat, prio, error, remain, timers, timeout, armed,
                       left, waitq, mtx, pc, call, masked, isr>>
        /\ value' = [value EXCEPT ![s] = @ - 1] /\ value[s] > 0
    OBVIOUS
  <2>2. value' \in [Sem -> Nat]
    BY <2>1 DEF IInv, TypeOK
  <2>3. QED
    BY ONLY <2>1, <2>2, IInv DEF IInv, TypeOK
<1>2. ListsOK'
  BY FrameOK DEF IInv, ListsOK
<1>3. NoLostWakeup'
  BY DEF IInv, NoLostWakeup, TypeOK
<1>4. MutexOK' /\ RunningIsReady' /\ IdleReady'
  BY DEF IInv, MutexOK, RunningIsReady, IdleReady
<1>5. QED
  BY <1>1, <1>2, <1>3, <1>4 DEF IInv, ListsOK

\* Mutex calls that move no thread.
LEMMA MutexQuickOK ==
  ASSUME IInv, NEW t \in Thread, NEW m \in Mutex,
         \/ MutexTakeAgain(t, m) \/ MutexTakeFree(t, m)
         \/ MutexTry(t, m)
         \/ MutexReleaseOther(t, m) \/ MutexReleaseInner(t, m)
  PROVE  IInv'
<1> USE DEF Returns, threadVars, timerVars, ipcVars, flowVars
<1> DEFINE x == mtx[m]
<1>1. /\ UNCHANGED <<tick, rq, cur, lockNest, stat, prio, remain, timers,
                     timeout, armed, left, waitq, value, pc, call, masked, isr>>
      /\ error' \in [Thread -> {"ok", "timeout", "error"}]
  BY DEF MutexTakeAgain, MutexTakeFree, MutexTry, MutexReleaseOther,
         MutexReleaseInner, IInv, TypeOK
<1>2. x \in MutexState
  BY DEF IInv, TypeOK
<1>3. \/ mtx' = mtx
      \/ /\ x.owner = t /\ mtx' = [mtx EXCEPT ![m].hold = @ + 1]
      \/ /\ x.owner = t /\ x.hold > 1
         /\ mtx' = [mtx EXCEPT ![m].hold = @ - 1]
      \/ /\ x.value > 0
         /\ mtx' = [mtx EXCEPT ![m] = [value |-> @.value - 1, owner |-> t,
                                       orig |-> prio[t], hold |-> @.hold + 1]]
  BY DEF MutexTakeAgain, MutexTakeFree, MutexTry, MutexReleaseOther,
         MutexReleaseInner, Taken
<1>4. /\ x.value = 1 <=> x.owner = None
      /\ x.value = 1 <=> x.hold = 0
      /\ x.orig = NoPrio <=> x.owner = None
      /\ waitq[m] # <<>> => x.owner # None
      /\ x.owner \notin ToSet(waitq[m])
  BY DEF IInv, MutexOK
<1>5. /\ t # None /\ prio[t] \in Prio /\ prio[t] # NoPrio
      /\ stat[t] = "ready"
  <2>1. stat[t] = "ready"
    BY CallerOK DEF MutexTakeAgain, MutexTakeFree, MutexTry,
       MutexReleaseOther, MutexReleaseInner
  <2>2. t # None
    BY ObjectAssumption
  <2>3. prio[t] \in Prio
    BY DEF IInv, TypeOK
  <2>4. QED
    BY <2>1, <2>2, <2>3, ThreadAssumption DEF Prio, NoPrio
<1>6. /\ mtx'[m] \in MutexState
      /\ mtx'[m].value = 1 <=> mtx'[m].owner = None
      /\ mtx'[m].value = 1 <=> mtx'[m].hold = 0
      /\ mtx'[m].orig = NoPrio <=> mtx'[m].owner = None
      /\ waitq[m] # <<>> => mtx'[m].owner # None
      /\ mtx'[m].owner \notin ToSet(waitq[m])
  <2>0. mtx \in [Mutex -> MutexState] /\ m \in Mutex
    BY DEF IInv, TypeOK
  <2>1. CASE mtx' = mtx
    BY <1>2, <1>4, <2>1
  <2>2. CASE x.owner = t /\ mtx' = [mtx EXCEPT ![m].hold = @ + 1]
    <3>1. mtx'[m] = [x EXCEPT !.hold = @ + 1]
      BY <2>0, <2>2
    <3>2. QED
      BY <1>2, <1>4, <1>5, <2>2, <3>1 DEF MutexState
  <2>3. CASE x.owner = t /\ x.hold > 1 /\ mtx' = [mtx EXCEPT ![m].hold = @ - 1]
    <3>1. mtx'[m] = [x EXCEPT !.hold = @ - 1]
      BY <2>0, <2>3
    <3>2. QED
      BY <1>2, <1>4, <1>5, <2>3, <3>1 DEF MutexState
  <2>4. CASE /\ x.value > 0
             /\ mtx' = [mtx EXCEPT ![m] =
                          [value |-> @.value - 1, owner |-> t,
                           orig |-> prio[t], hold |-> @.hold + 1]]
    <3>1. mtx'[m] = [value |-> x.value - 1, owner |-> t,
                     orig |-> prio[t], hold |-> x.hold + 1]
      BY <2>0, <2>4
    <3>2. x.value = 1 /\ x.hold = 0 /\ waitq[m] = <<>>
      BY <1>2, <1>4, <2>4 DEF MutexState
    <3>3. ToSet(waitq[m]) = {}
      BY <3>2 DEF ToSet
    <3>4. QED
      BY <1>2, <1>5, <3>1, <3>2, <3>3 DEF MutexState
  <2>5. QED
    BY <1>3, <2>1, <2>2, <2>3, <2>4
<1>7. mtx' \in [Mutex -> MutexState] /\ \A k \in Mutex : k # m => mtx'[k] = mtx[k]
  <2>1. mtx \in [Mutex -> MutexState] /\ DOMAIN mtx' = Mutex
    BY <1>3 DEF IInv, TypeOK
  <2>2. /\ mtx' = [k \in Mutex |-> mtx'[k]]
        /\ \A k \in Mutex : k # m => mtx'[k] = mtx[k]
    BY <1>3, <2>1
  <2>3. QED
    BY <1>6, <2>1, <2>2
<1>8. TypeOK'
  BY <1>1, <1>7 DEF IInv, TypeOK
<1>9. ListsOK'
  BY <1>1, FrameOK DEF IInv, ListsOK
<1>10. MutexOK'
  BY <1>1, <1>6, <1>7 DEF IInv, MutexOK
<1>11. NoLostWakeup' /\ RunningIsReady' /\ IdleReady'
  BY <1>1 DEF IInv, NoLostWakeup, RunningIsReady, IdleReady
<1>12. QED
  BY <1>8, <1>9, <1>10, <1>11 DEF IInv, ListsOK

LEMMA StartupOK ==
  ASSUME IInv, NEW t \in Thread, NEW u \in Thread, Startup(t, u)
  PROVE  IInv'
<1> USE DEF threadVars, timerVars, ipcVars
<1>1. t = cur /\ stat[t] = "ready" /\ stat[u] = "init" /\ u # t
  BY CallerOK DEF Startup
<1>2. /\ prio' = [prio EXCEPT ![u] = InitPrio[u]]
      /\ stat' = [stat EXCEPT ![u] = "ready"]
      /\ rq' = Inserted(rq, u, prio'[u])
      /\ pc' = [pc EXCEPT ![t] = "sched"]
      /\ call' = [call EXCEPT ![t] = [fn |-> "startup", obj |-> None,
                                      level |-> masked[t]]]
      /\ UNCHANGED <<tick, cur, lockNest, error, remain, timers, timeout,
                     armed, left, waitq, value, mtx, masked, isr>>
  BY DEF Startup, ToSchedule, IInv, TypeOK
<1>3. prio' \in [Thread -> Prio]
  BY <1>2, ThreadAssumption DEF IInv, TypeOK
<1>4. rq' \in Queues(Prio, Thread) /\ ReadyQueueOK'
  <2> DEFINE pr == prio'
             RR == Ready
  <2>1. /\ RR \in SUBSET Thread /\ u \in Thread \ RR
        /\ Ready' = RR \cup {u}
        /\ rq \in Queues(Prio, Thread) /\ QueueOK(rq, RR, prio)
        /\ \A v \in RR : pr[v] = prio[v]
    BY <1>1, <1>2 DEF Ready, IInv, TypeOK, ReadyQueueOK, Queues
  <2> HIDE DEF pr, RR
  <2>2. QueueOK(rq, RR, pr)
    BY <2>1, OutsideQueueOK
  <2>3. /\ Inserted(rq, u, pr[u]) \in Queues(Prio, Thread)
        /\ QueueOK(Inserted(rq, u, pr[u]), RR \cup {u}, pr)
    BY <1>3, <2>1, <2>2, InsertedOK DEF pr
  <2>4. QED
    BY <1>2, <2>1, <2>3 DEF ReadyQueueOK, Ready, pr
<1>5. TypeOK'
  BY <1>2, <1>3, <1>4 DEF IInv, TypeOK, Queues, Calling, CallName, Status
<1>6. TimersOK'
  BY <1>1, <1>2 DEF IInv, TimersOK, TypeOK
<1>7. WaitersOK'
  BY <1>1, <1>2, WaitersFrame DEF IInv, TypeOK
<1>8. NoLostWakeup' /\ MutexOK'
  BY <1>2 DEF IInv, NoLostWakeup, MutexOK
<1>9. RunningIsReady' /\ IdleReady'
  BY <1>1, <1>2 DEF IInv, RunningIsReady, IdleReady, TypeOK
<1>10. QED
  BY <1>4, <1>5, <1>6, <1>7, <1>8, <1>9 DEF IInv

LEMMA ExitOK ==
  ASSUME IInv, NEW t \in Thread, Exit(t)
  PROVE  IInv'
<1> USE DEF threadVars, timerVars, ipcVars
<1>1. /\ t = cur /\ stat[t] = "ready" /\ t # Idle /\ lockNest = 0
      /\ ~armed[t]
  BY CallerOK DEF Exit, IInv, TimersOK
<1>2. /\ rq' = Removed(rq, t, prio[t])
      /\ stat' = [stat EXCEPT ![t] = "close"]
      /\ timers' = Without(timers, t)
      /\ timeout' = [timeout EXCEPT ![t] = NoTick] /\ left' = [left EXCEPT ![t] = 0]
      /\ pc' = [pc EXCEPT ![t] = "sched"]
      /\ call' = [call EXCEPT ![t] = [fn |-> "exit", obj |-> None,
                                      level |-> masked[t]]]
      /\ UNCHANGED <<tick, cur, lockNest, prio, error, remain, armed, waitq,
                     value, mtx, masked, isr>>
  BY DEF Exit, ToSchedule
<1>3. timers' = timers
  BY <1>1, <1>2, WithoutAbsent DEF IInv, TimersOK
<1>4. rq' \in Queues(Prio, Thread) /\ ReadyQueueOK'
  <2>1. /\ Ready \in SUBSET Thread /\ Ready' = Ready \ {t}
        /\ rq \in Queues(Prio, Thread) /\ QueueOK(rq, Ready, prio)
        /\ prio \in [Thread -> Prio]
    BY <1>1, <1>2 DEF Ready, IInv, TypeOK, ReadyQueueOK, Queues
  <2>2. /\ Removed(rq, t, prio[t]) \in Queues(Prio, Thread)
        /\ QueueOK(Removed(rq, t, prio[t]), Ready \ {t}, prio)
    BY <2>1, RemovedOK
  <2>3. QED
    BY <1>2, <2>1, <2>2 DEF ReadyQueueOK, Ready
<1>5. TypeOK'
  BY <1>2, <1>3, <1>4 DEF IInv, TypeOK, Queues, Calling, CallName, Status
<1>6. TimersOK'
  BY <1>1, <1>2, <1>3 DEF IInv, TimersOK, TypeOK
<1>7. WaitersOK'
  BY <1>1, <1>2, WaitersFrame DEF IInv, TypeOK
<1>8. NoLostWakeup' /\ MutexOK'
  BY <1>2 DEF IInv, NoLostWakeup, MutexOK
<1>9. RunningIsReady' /\ IdleReady'
  BY <1>1, <1>2, ThreadAssumption DEF IInv, RunningIsReady, IdleReady, TypeOK
<1>10. QED
  BY <1>4, <1>5, <1>6, <1>7, <1>8, <1>9 DEF IInv

LEMMA DelayOK ==
  ASSUME IInv, NEW t \in Thread, NEW n \in Delays, Delay(t, n)
  PROVE  IInv'
<1> USE DEF threadVars, timerVars, ipcVars
<1>1. t = cur /\ stat[t] = "ready" /\ t # Idle /\ lockNest = 0 /\ n \in Nat
  BY CallerOK, TickAssumption DEF Delay
<1>2. /\ Suspend(t, rq, n)
      /\ pc' = [pc EXCEPT ![t] = "sched"]
      /\ call' = [call EXCEPT ![t] = [fn |-> "delay", obj |-> None,
                                      level |-> masked[t]]]
      /\ UNCHANGED <<tick, cur, lockNest, prio, error, remain, waitq, value,
                     mtx, masked, isr>>
  BY DEF Delay, ToSchedule
<1>3. /\ rq \in Queues(Prio, Thread) /\ QueueOK(rq, Ready, prio')
      /\ prio' \in [Thread -> Prio] /\ prio'[t] = prio[t]
  BY <1>2 DEF IInv, TypeOK, ReadyQueueOK, Ready, Queues
<1>4. /\ rq' \in Queues(Prio, Thread) /\ ReadyQueueOK'
      /\ timers' \in Seq(Thread) /\ TimersOK'
      /\ timeout' \in [Thread -> 0..(TickMod - 1) \cup {NoTick}] /\ left' \in [Thread -> Nat]
      /\ armed' \in [Thread -> BOOLEAN] /\ armed'[t]
      /\ stat' = [stat EXCEPT ![t] = "suspend"]
  BY <1>1, <1>2, <1>3, SuspendOK DEF IInv
<1>5. \A u \in Thread : u # t => call'[u] = call[u] /\ armed'[u] = armed[u]
  BY <1>1, <1>2 DEF IInv, TypeOK, Suspend, StartTimer
<1>6. WaitersOK'
  <2>1. None \notin Obj /\ call'[t].obj = None
    BY <1>2, ObjectAssumption DEF IInv, TypeOK
  <2>2. \A p \in Obj : waitq'[p] = IF p = None THEN Append(waitq[p], t)
                                   ELSE waitq[p]
    BY <1>2, <2>1
  <2>3. TypeOK /\ WaitersOK /\ None \in Obj \cup {None}
    BY DEF IInv
  <2>4. QED
    BY <1>1, <1>4, <1>5, <2>1, <2>2, <2>3, WaitersBlock
<1>7. TypeOK'
  BY <1>2, <1>4 DEF IInv, TypeOK, Queues, Calling, CallName, Status
<1>8. NoLostWakeup' /\ MutexOK'
  BY <1>2 DEF IInv, NoLostWakeup, MutexOK
<1>9. RunningIsReady' /\ IdleReady'
  BY <1>1, <1>2, <1>4 DEF IInv, RunningIsReady, IdleReady, TypeOK
<1>10. QED
  BY <1>4, <1>6, <1>7, <1>8, <1>9 DEF IInv

LEMMA YieldOK ==
  ASSUME IInv, NEW t \in Thread, Yield(t)
  PROVE  IInv'
<1> USE DEF threadVars, timerVars, ipcVars
<1>1. t = cur /\ stat[t] = "ready"
  BY CallerOK DEF Yield
<1>2. /\ rq' = Rotated(rq, t, prio[t])
      /\ pc' = [pc EXCEPT ![t] = "sched"]
      /\ call' = [call EXCEPT ![t] = [fn |-> "yield", obj |-> None,
                                      level |-> masked[t]]]
      /\ UNCHANGED <<tick, cur, lockNest, stat, prio, error, remain, timers,
                     timeout, armed, left, waitq, value, mtx, masked, isr>>
  BY DEF Yield, ToSchedule
<1>3. rq' \in Queues(Prio, Thread) /\ ReadyQueueOK'
  BY <1>1, <1>2, RotatedReady DEF IInv
<1>4. TypeOK'
  BY <1>2, <1>3 DEF IInv, TypeOK, Queues, Calling, CallName
<1>5. TimersOK'
  BY <1>2 DEF IInv, TimersOK
<1>6. WaitersOK'
  BY <1>1, <1>2, WaitersFrame DEF IInv, TypeOK
<1>7. NoLostWakeup' /\ MutexOK'
  BY <1>2 DEF IInv, NoLostWakeup, MutexOK
<1>8. RunningIsReady' /\ IdleReady'
  BY <1>1, <1>2 DEF IInv, RunningIsReady, IdleReady
<1>9. QED
  BY <1>3, <1>4, <1>5, <1>6, <1>7, <1>8 DEF IInv

LEMMA ControlOK ==
  ASSUME IInv, NEW t \in Thread, NEW u \in Thread, NEW p \in CtlPrios,
         Control(t, u, p)
  PROVE  IInv'
<1> USE DEF threadVars, timerVars, ipcVars, flowVars
<1>1. /\ rq' = Repositioned(u, p)
      /\ prio' = [prio EXCEPT ![u] = p]
      /\ UNCHANGED <<tick, cur, lockNest, stat, error, remain, timers, timeout,
                     armed, left, waitq, value, mtx, pc, call, masked, isr>>
  BY DEF Control, Returns
<1>2. p \in Prio
  BY ThreadAssumption
<1>3. rq' \in Queues(Prio, Thread) /\ ReadyQueueOK'
  BY <1>1, <1>2, RepositionedOK DEF IInv, ReadyQueueOK, Ready
<1>4. TypeOK'
  BY <1>1, <1>2, <1>3 DEF IInv, TypeOK, Queues
<1>5. TimersOK' /\ WaitersOK'
  BY <1>1, WaitersFrame DEF IInv, TimersOK
<1>6. NoLostWakeup' /\ MutexOK' /\ RunningIsReady' /\ IdleReady'
  BY <1>1 DEF IInv, NoLostWakeup, MutexOK, RunningIsReady, IdleReady
<1>7. QED
  BY <1>3, <1>4, <1>5, <1>6 DEF IInv

LEMMA SemTakeBlockOK ==
  ASSUME IInv, NEW t \in Thread, NEW s \in Sem, NEW n \in Timeouts,
         SemTakeBlock(t, s, n)
  PROVE  IInv'
<1> USE DEF threadVars, timerVars, ipcVars
<1>1. /\ t = cur /\ stat[t] = "ready" /\ t # Idle /\ lockNest = 0 /\ n \in Int
      /\ s \in Obj
  BY CallerOK, TickAssumption DEF SemTakeBlock, Obj
<1>2. /\ Suspend(t, rq, n)
      /\ pc' = [pc EXCEPT ![t] = "sched"]
      /\ call' = [call EXCEPT ![t] = [fn |-> "sem_take", obj |-> s,
                                      level |-> masked[t]]]
      /\ error' = [error EXCEPT ![t] = "ok"]
      /\ waitq' = [waitq EXCEPT ![s] = Append(@, t)]
      /\ value[s] = 0
      /\ UNCHANGED <<tick, cur, lockNest, prio, remain, value, mtx, masked,
                     isr>>
  BY DEF SemTakeBlock, ToSchedule
<1>3. /\ rq \in Queues(Prio, Thread) /\ QueueOK(rq, Ready, prio')
      /\ prio' \in [Thread -> Prio] /\ prio'[t] = prio[t]
  BY <1>2 DEF IInv, TypeOK, ReadyQueueOK, Ready, Queues
<1>4. /\ rq' \in Queues(Prio, Thread) /\ ReadyQueueOK'
      /\ timers' \in Seq(Thread) /\ TimersOK'
      /\ timeout' \in [Thread -> 0..(TickMod - 1) \cup {NoTick}] /\ left' \in [Thread -> Nat]
      /\ armed' \in [Thread -> BOOLEAN]
      /\ stat' = [stat EXCEPT ![t] = "suspend"]
  BY <1>1, <1>2, <1>3, SuspendOK DEF IInv
<1>5. \A u \in Thread : u # t => call'[u] = call[u] /\ armed'[u] = armed[u]
  BY <1>1, <1>2 DEF IInv, TypeOK, Suspend, StartTimer, StopTimer
<1>6. WaitersOK' /\ \A p \in Obj : waitq'[p] \in Seq(Thread)
  <2>1. s # None /\ call'[t].obj = s
    BY <1>1, <1>2, ObjectAssumption DEF IInv, TypeOK
  <2>2. \A p \in Obj : waitq'[p] = IF p = s THEN Append(waitq[p], t)
                                   ELSE waitq[p]
    BY <1>1, <1>2 DEF IInv, TypeOK
  <2>3. TypeOK /\ WaitersOK /\ s \in Obj \cup {None}
    BY <1>1 DEF IInv
  <2>4. QED
    BY <1>1, <1>4, <1>5, <2>1, <2>2, <2>3, WaitersBlock
<1>7. TypeOK'
  <2>1. waitq' \in [Obj -> Seq(Thread)]
    BY <1>1, <1>2, <1>6 DEF IInv, TypeOK
  <2>2. call' \in [Thread -> Calling]
    BY <1>1, <1>2 DEF IInv, TypeOK, Calling, CallName
  <2>3. QED
    BY <1>2, <1>4, <2>1, <2>2 DEF IInv, TypeOK, Queues, Status
<1>8. NoLostWakeup'
  BY <1>1, <1>2 DEF IInv, NoLostWakeup, TypeOK, Obj
<1>9. MutexOK'
  <2>1. \A m \in Mutex : waitq'[m] = waitq[m]
    BY <1>2, ObjectAssumption DEF IInv, TypeOK, Obj
  <2>2. QED
    BY <1>2, <2>1 DEF IInv, MutexOK
<1>10. RunningIsReady' /\ IdleReady'
  BY <1>1, <1>2, <1>4 DEF IInv, RunningIsReady, IdleReady, TypeOK
<1>11. QED
  BY <1>4, <1>6, <1>7, <1>8, <1>9, <1>10 DEF IInv

\* What a release does to the semaphore and its waiters, whoever makes it.
LEMMA SemHandOffOK ==
  ASSUME IInv, NEW s \in Sem, SemHandOff(s),
         UNCHANGED <<tick, lockNest, prio, error, remain, mtx, masked, isr>>,
         pc' \in [Thread -> {"run", "sched", "back"}],
         call' \in [Thread -> Calling],
         \A u \in Thread : stat[u] = "suspend" => call'[u] = call[u]
  PROVE  /\ cur' \in Thread => TypeOK'
         /\ rq' \in Queues(Prio, Thread) /\ stat' \in [Thread -> Status]
         /\ ReadyQueueOK' /\ TimersOK' /\ WaitersOK'
         /\ NoLostWakeup' /\ MutexOK' /\ IdleReady'
         /\ \A u \in Thread : stat[u] = "ready" => stat'[u] = "ready"
<1> DEFINE w == Head(waitq[s])
<1>1. s \in Obj /\ waitq[s] # <<>> /\ WakeFirst(s, rq) /\ value' = value
  BY DEF SemHandOff, Obj
<1>2. /\ rq \in Queues(Prio, Thread) /\ QueueOK(rq, Ready, prio')
      /\ prio' \in [Thread -> Prio] /\ prio'[w] = prio[w]
  BY DEF IInv, TypeOK, ReadyQueueOK, Ready, Queues
<1>3. TypeOK /\ TimersOK /\ WaitersOK
  BY DEF IInv
<1>4. /\ rq' \in Queues(Prio, Thread) /\ ReadyQueueOK'
      /\ timers' \in Seq(Thread) /\ TimersOK'
      /\ timeout' \in [Thread -> 0..(TickMod - 1) \cup {NoTick}] /\ left' \in [Thread -> Nat]
      /\ armed' \in [Thread -> BOOLEAN]
      /\ waitq' \in [Obj -> Seq(Thread)] /\ WaitersOK'
      /\ waitq' = [waitq EXCEPT ![s] = Tail(@)]
      /\ w \in Thread
      /\ stat' = [stat EXCEPT ![w] = "ready"]
  BY <1>1, <1>2, <1>3, WakeOK
<1> HIDE DEF w
<1>5. stat' \in [Thread -> Status] /\ (cur' \in Thread => TypeOK')
  BY <1>1, <1>4 DEF IInv, TypeOK, Queues, Status
<1>6. NoLostWakeup'
  <2>1. ASSUME NEW r \in Sem, waitq'[r] # <<>>
        PROVE  waitq[r] # <<>>
    BY <1>1, <1>4, <2>1 DEF IInv, TypeOK, Obj
  <2>2. QED
    BY <1>1, <2>1 DEF IInv, NoLostWakeup
<1>7. MutexOK'
  <2>1. \A m \in Mutex : waitq'[m] = waitq[m]
    BY <1>4, ObjectAssumption DEF IInv, TypeOK, Obj
  <2>2. QED
    BY <2>1 DEF IInv, MutexOK
<1>8. \A u \in Thread : stat[u] = "ready" => stat'[u] = "ready"
  BY <1>4 DEF IInv, TypeOK
<1>9. IdleReady'
  BY <1>8, ThreadAssumption DEF IInv, IdleReady
<1>10. QED
  BY <1>4, <1>5, <1>6, <1>7, <1>8, <1>9

LEMMA SemPostOK ==
  ASSUME IInv, NEW s \in Sem, SemPost(s),
         UNCHANGED <<tick, lockNest, prio, error, remain, mtx, flowVars, cur,
                     isr>>
  PROVE  IInv'
<1> USE DEF SemPost, timerVars, flowVars
<1>1. TypeOK'
  BY DEF IInv, TypeOK
<1>2. ListsOK'
  BY FrameOK DEF IInv, ListsOK
<1>3. NoLostWakeup'
  BY DEF IInv, NoLostWakeup, TypeOK
<1>4. MutexOK' /\ RunningIsReady' /\ IdleReady'
  BY DEF IInv, MutexOK, RunningIsReady, IdleReady
<1>5. QED
  BY <1>1, <1>2, <1>3, <1>4 DEF IInv, ListsOK

LEMMA SemReleaseOK ==
  ASSUME IInv, NEW t \in Thread, NEW s \in Sem, SemRelease(t, s)
  PROVE  IInv'
<1>1. t = cur /\ stat[t] = "ready"
  BY CallerOK DEF SemRelease
<1>2. CASE SemPost(s) /\ Returns
  BY <1>2, SemPostOK DEF SemRelease, Returns
<1>3. CASE SemHandOff(s) /\ ToSchedule(t, "sem_release", s)
  <2>1. /\ pc' = [pc EXCEPT ![t] = "sched"]
        /\ call' = [call EXCEPT ![t] = [fn |-> "sem_release", obj |-> s,
                                        level |-> masked[t]]]
        /\ UNCHANGED <<masked, cur, tick, lockNest, prio, error, remain, mtx,
                       isr>>
    BY <1>3 DEF ToSchedule, SemRelease
  <2>2. /\ pc' \in [Thread -> {"run", "sched", "back"}]
        /\ call' \in [Thread -> Calling] /\ cur' \in Thread
        /\ \A u \in Thread : stat[u] = "suspend" => call'[u] = call[u]
    BY <1>1, <2>1 DEF IInv, TypeOK, Calling, CallName, Obj
  <2>3. /\ TypeOK' /\ ReadyQueueOK' /\ TimersOK' /\ WaitersOK'
        /\ NoLostWakeup' /\ MutexOK' /\ IdleReady'
        /\ stat'[t] = "ready"
    BY <1>1, <1>3, <2>1, <2>2, SemHandOffOK
  <2>4. RunningIsReady'
    BY <1>1, <2>1, <2>3 DEF RunningIsReady
  <2>5. QED
    BY <2>3, <2>4 DEF IInv
<1>4. QED
  BY <1>2, <1>3 DEF SemRelease

LEMMA SemIsrOK ==
  ASSUME IInv, NEW s \in Sem, SemIsr(s)
  PROVE  IInv'
<1>1. CASE SemPost(s) /\ UNCHANGED cur
  BY <1>1, SemPostOK DEF SemIsr
<1>2. CASE SemHandOff(s) /\ IsrSchedule(rq')
  <2>1. UNCHANGED <<tick, lockNest, prio, error, remain, mtx, pc, call, masked,
                    isr>>
    BY DEF SemIsr, flowVars
  <2>2. /\ cur' \in Thread => TypeOK'
        /\ rq' \in Queues(Prio, Thread) /\ stat' \in [Thread -> Status]
        /\ ReadyQueueOK' /\ TimersOK' /\ WaitersOK'
        /\ NoLostWakeup' /\ MutexOK' /\ IdleReady'
        /\ \A u \in Thread : stat[u] = "ready" => stat'[u] = "ready"
    BY <1>2, <2>1, SemHandOffOK DEF IInv, TypeOK
  <2>3. Top(rq') \in Thread /\ stat'[Top(rq')] = "ready"
    BY <2>1, <2>2, TopReadyNext DEF IInv, TypeOK
  <2>4. cur' \in Thread /\ (cur' = cur \/ (lockNest = 0 /\ cur' = Top(rq')))
    BY <1>2, <2>3 DEF IsrSchedule, IInv, TypeOK
  <2>5. RunningIsReady'
    BY <2>1, <2>2, <2>3, <2>4 DEF IInv, RunningIsReady, TypeOK
  <2>6. QED
    BY <2>2, <2>4, <2>5 DEF IInv
<1>3. QED
  BY <1>1, <1>2 DEF SemIsr

LEMMA MutexTakeBlockOK ==
  ASSUME IInv, NEW t \in Thread, NEW m \in Mutex, NEW n \in Timeouts,
         MutexTakeBlock(t, m, n)
  PROVE  IInv'
<1> USE DEF threadVars, timerVars, ipcVars
<1> DEFINE o == mtx[m].owner
           q == IF prio[t] < prio[o] THEN Repositioned(o, prio[t]) ELSE rq
<1>1. /\ t = cur /\ stat[t] = "ready" /\ t # Idle /\ lockNest = 0 /\ n \in Int
      /\ m \in Obj
  BY CallerOK, TickAssumption DEF MutexTakeBlock, Obj
<1>2. /\ Suspend(t, q, n)
      /\ prio' = IF prio[t] < prio[o] THEN [prio EXCEPT ![o] = prio[t]]
                 ELSE prio
      /\ pc' = [pc EXCEPT ![t] = "sched"]
      /\ call' = [call EXCEPT ![t] = [fn |-> "mutex_take", obj |-> m,
                                      level |-> masked[t]]]
      /\ error' = [error EXCEPT ![t] = "ok"]
      /\ waitq' = [waitq EXCEPT ![m] = Append(@, t)]
      /\ o # t /\ mtx[m].value = 0
      /\ UNCHANGED <<tick, cur, lockNest, remain, value, mtx, masked, isr>>
  BY DEF MutexTakeBlock, Promotes, ToSchedule
<1>3. o \in Thread /\ prio[t] \in Prio /\ o \notin ToSet(waitq[m])
  BY <1>2 DEF IInv, TypeOK, MutexOK, MutexState
<1>4. /\ q \in Queues(Prio, Thread) /\ QueueOK(q, Ready, prio')
      /\ prio' \in [Thread -> Prio] /\ prio'[t] = prio[t]
  <2>1. CASE prio[t] < prio[o]
    <3>1. q = Repositioned(o, prio[t]) /\ prio' = [prio EXCEPT ![o] = prio[t]]
      BY <1>2, <2>1
    <3>2. /\ Repositioned(o, prio[t]) \in Queues(Prio, Thread)
          /\ QueueOK(Repositioned(o, prio[t]), Ready,
                     [prio EXCEPT ![o] = prio[t]])
      BY <1>3, RepositionedOK DEF IInv
    <3>3. prio' \in [Thread -> Prio] /\ prio'[t] = prio[t]
      BY <1>2, <1>3, <3>1 DEF IInv, TypeOK
    <3>4. QED
      BY <3>1, <3>2, <3>3
  <2>2. CASE ~(prio[t] < prio[o])
    BY <1>2, <2>2 DEF IInv, TypeOK, ReadyQueueOK, Ready, Queues
  <2>3. QED
    BY <2>1, <2>2
<1>5. /\ rq' \in Queues(Prio, Thread) /\ ReadyQueueOK'
      /\ timers' \in Seq(Thread) /\ TimersOK'
      /\ timeout' \in [Thread -> 0..(TickMod - 1) \cup {NoTick}] /\ left' \in [Thread -> Nat]
      /\ armed' \in [Thread -> BOOLEAN]
      /\ stat' = [stat EXCEPT ![t] = "suspend"]
  <2> HIDE DEF q
  <2>1. QED
    BY <1>1, <1>2, <1>4, SuspendOK DEF IInv
<1> HIDE DEF q
<1>6. \A u \in Thread : u # t => call'[u] = call[u] /\ armed'[u] = armed[u]
  BY <1>1, <1>2 DEF IInv, TypeOK, Suspend, StartTimer, StopTimer
<1>7. /\ WaitersOK' /\ \A p \in Obj : waitq'[p] \in Seq(Thread)
      /\ waitq'[m] = Append(waitq[m], t)
      /\ \A p \in Obj : p # m => waitq'[p] = waitq[p]
  <2>1. m # None /\ call'[t].obj = m
    BY <1>1, <1>2, ObjectAssumption DEF IInv, TypeOK
  <2>2. \A p \in Obj : waitq'[p] = IF p = m THEN Append(waitq[p], t)
                                   ELSE waitq[p]
    BY <1>1, <1>2 DEF IInv, TypeOK
  <2>3. TypeOK /\ WaitersOK /\ m \in Obj \cup {None}
    BY <1>1 DEF IInv
  <2>4. QED
    BY <1>1, <1>5, <1>6, <2>1, <2>2, <2>3, WaitersBlock
<1>8. TypeOK'
  <2>1. waitq' \in [Obj -> Seq(Thread)]
    BY <1>1, <1>2, <1>7 DEF IInv, TypeOK
  <2>2. call' \in [Thread -> Calling]
    BY <1>1, <1>2 DEF IInv, TypeOK, Calling, CallName
  <2>3. QED
    BY <1>2, <1>4, <1>5, <2>1, <2>2 DEF IInv, TypeOK, Queues, Status
<1>9. NoLostWakeup'
  <2>1. \A s \in Sem : waitq'[s] = waitq[s]
    BY <1>7, ObjectAssumption DEF Obj
  <2>2. QED
    BY <1>2, <2>1 DEF IInv, NoLostWakeup
<1>10. MutexOK'
  <2>1. o \notin ToSet(waitq'[m])
    <3>1. waitq[m] \in Seq(Thread) /\ Once(waitq[m]) /\ t \notin ToSet(waitq[m])
      BY <1>1 DEF IInv, TypeOK, WaitersOK
    <3>2. ToSet(Append(waitq[m], t)) = ToSet(waitq[m]) \cup {t}
      BY <3>1, AppendOK
    <3>3. QED
      BY <1>2, <1>3, <1>7, <3>2
  <2>2. o # None
    BY <1>3, ObjectAssumption
  <2>3. \A k \in Mutex : k # m => waitq'[k] = waitq[k]
    BY <1>7 DEF Obj
  <2>4. QED
    BY <1>2, <2>1, <2>2, <2>3 DEF IInv, MutexOK
<1>11. RunningIsReady' /\ IdleReady'
  <2>1. RunningIsReady'
    BY <1>1, <1>2, <1>5 DEF IInv, RunningIsReady, TypeOK
  <2>2. IdleReady'
    BY ONLY IInv, <1>1, <1>5, ThreadAssumption DEF IInv, IdleReady, TypeOK
  <2>3. QED
    BY <2>1, <2>2
<1>12. QED
  BY <1>5, <1>7, <1>8, <1>9, <1>10, <1>11 DEF IInv

LEMMA MutexReleaseLastOK ==
  ASSUME IInv, NEW t \in Thread, NEW m \in Mutex, MutexReleaseLast(t, m)
  PROVE  IInv'
<1> USE DEF threadVars, timerVars, ipcVars
<1> DEFINE x == mtx[m]
           p == x.orig
           w == Head(waitq[m])
           q == IF p # prio[t] THEN Repositioned(t, p) ELSE rq
<1>1. /\ t = cur /\ stat[t] = "ready" /\ m \in Obj
      /\ x.owner = t /\ x.hold = 1
      /\ prio' = [prio EXCEPT ![t] = p]
      /\ UNCHANGED <<tick, lockNest, error, remain, value, isr>>
  BY CallerOK DEF MutexReleaseLast, Obj
<1>2. /\ x \in MutexState /\ mtx \in [Mutex -> MutexState]
      /\ x.value = 0 /\ p \in Prio /\ t # None
      /\ MaxPrio < NoPrio /\ MaxPrio \in Nat
  <2>1. x \in MutexState /\ mtx \in [Mutex -> MutexState]
    BY DEF IInv, TypeOK
  <2>2. t # None /\ MaxPrio < NoPrio /\ MaxPrio \in Nat
    BY ThreadAssumption, ObjectAssumption
  <2>3. (x.value = 1 <=> x.owner = None) /\ (x.orig = NoPrio <=> x.owner = None)
    BY DEF IInv, MutexOK
  <2>4. x.value = 0 /\ x.orig # NoPrio
    BY <1>1, <2>1, <2>2, <2>3 DEF MutexState
  <2> QED BY <2>1, <2>2, <2>4 DEF MutexState
<1>3. /\ q \in Queues(Prio, Thread) /\ QueueOK(q, Ready, prio')
      /\ prio' \in [Thread -> Prio]
  <2>1. CASE p # prio[t]
    <3>1. q = Repositioned(t, p)
      BY <2>1
    <3>2. /\ Repositioned(t, p) \in Queues(Prio, Thread)
          /\ QueueOK(Repositioned(t, p), Ready, [prio EXCEPT ![t] = p])
      BY <1>2, RepositionedOK DEF IInv
    <3>3. prio' \in [Thread -> Prio]
      BY <1>1, <1>2 DEF IInv, TypeOK
    <3>4. QED
      BY <1>1, <3>1, <3>2, <3>3
  <2>2. CASE p = prio[t]
    <3>1. prio' = prio
      BY <1>1, <2>2 DEF IInv, TypeOK
    <3>2. QED
      BY <2>2, <3>1 DEF IInv, TypeOK, ReadyQueueOK, Ready, Queues
  <2>3. QED
    BY <2>1, <2>2
<1>4. CASE /\ waitq[m] # <<>>
           /\ mtx' = [mtx EXCEPT ![m] = [value |-> @.value, owner |-> w,
                                         orig |-> prio[w], hold |-> @.hold]]
           /\ WakeFirst(m, q)
           /\ ToSchedule(t, "mutex_release", m)
  <2>1. /\ pc' = [pc EXCEPT ![t] = "sched"]
        /\ call' = [call EXCEPT ![t] = [fn |-> "mutex_release", obj |-> m,
                                        level |-> masked[t]]]
        /\ UNCHANGED <<masked, cur>>
    BY <1>4 DEF ToSchedule
  <2>2. w \in Thread /\ w # t /\ prio'[w] = prio[w]
    <3>1. waitq[m] \in Seq(Thread) /\ Once(waitq[m])
      BY <1>1 DEF IInv, TypeOK, WaitersOK
    <3>2. w \in Thread /\ w \in ToSet(waitq[m])
      BY <1>4, <3>1, TailOK
    <3>3. stat[w] = "suspend"
      BY <1>1, <3>2 DEF IInv, WaitersOK
    <3>4. QED
      BY <1>1, <3>2, <3>3 DEF IInv, TypeOK
  <2>3. /\ call' \in [Thread -> Calling]
        /\ \A u \in Thread : stat[u] = "suspend" => call'[u] = call[u]
    BY <1>1, <2>1 DEF IInv, TypeOK, Calling, CallName, Obj
  <2>4. TypeOK /\ TimersOK /\ WaitersOK
    BY DEF IInv
  <2> HIDE DEF q
  <2>5. /\ rq' \in Queues(Prio, Thread) /\ ReadyQueueOK'
        /\ timers' \in Seq(Thread) /\ TimersOK'
        /\ timeout' \in [Thread -> 0..(TickMod - 1) \cup {NoTick}] /\ left' \in [Thread -> Nat]
        /\ armed' \in [Thread -> BOOLEAN]
        /\ waitq' \in [Obj -> Seq(Thread)] /\ WaitersOK'
        /\ waitq' = [waitq EXCEPT ![m] = Tail(@)]
        /\ stat' = [stat EXCEPT ![w] = "ready"]
        /\ w \notin ToSet(waitq'[m])
    BY <1>1, <1>3, <1>4, <2>2, <2>3, <2>4, WakeOK
  <2> HIDE DEF w
  <2>6. /\ mtx'[m] = [value |-> 0, owner |-> w, orig |-> prio[w], hold |-> 1]
        /\ \A k \in Mutex : k # m => mtx'[k] = mtx[k]
        /\ w # None /\ prio[w] \in Prio /\ prio[w] # NoPrio
    <3>1. prio[w] \in 0..MaxPrio
      BY <2>2 DEF IInv, TypeOK, Prio
    <3>2. prio[w] # NoPrio
      BY <1>2, <3>1 DEF NoPrio
    <3>3. QED
      BY <1>1, <1>2, <1>4, <2>2, <3>1, <3>2, ObjectAssumption DEF Prio
  <2>7. TypeOK'
    <3>1. mtx' \in [Mutex -> MutexState]
      BY <1>2, <1>4, <2>2, <2>6 DEF MutexState
    <3>2. pc' \in [Thread -> {"run", "sched", "back"}]
      BY <2>1 DEF IInv, TypeOK
    <3>3. QED
      BY <1>1, <1>3, <2>1, <2>2, <2>3, <2>5, <3>1, <3>2
      DEF IInv, TypeOK, Queues, Status
  <2>8. MutexOK'
    <3>1. \A k \in Mutex : k # m => waitq'[k] = waitq[k]
      BY <2>5 DEF IInv, TypeOK, Obj
    <3>2. ASSUME NEW k \in Mutex, k # m
          PROVE  mtx'[k] = mtx[k] /\ waitq'[k] = waitq[k]
      BY <2>6, <3>1, <3>2
    <3>3. w \notin ToSet(waitq'[m])
      BY <2>5
    <3>4. MutexOK
      BY DEF IInv
    <3>5. QED
      BY ONLY <2>6, <3>2, <3>3, <3>4, ObjectAssumption DEF MutexOK, NoPrio
  <2>9. NoLostWakeup'
    <3>1. \A s \in Sem : waitq'[s] = waitq[s]
      BY <2>5, ObjectAssumption DEF IInv, TypeOK, Obj
    <3>2. QED
      BY <1>1, <3>1 DEF IInv, NoLostWakeup
  <2>10. RunningIsReady' /\ IdleReady'
    BY <1>1, <2>1, <2>5, ThreadAssumption
    DEF IInv, RunningIsReady, IdleReady, TypeOK
  <2>11. QED
    BY <2>5, <2>7, <2>8, <2>9, <2>10 DEF IInv
<1>5. CASE /\ waitq[m] = <<>>
           /\ mtx' = [mtx EXCEPT ![m] = [value |-> @.value + 1, owner |-> None,
                                         orig |-> NoPrio, hold |-> @.hold - 1]]
           /\ rq' = q
           /\ Returns
           /\ UNCHANGED <<stat, timerVars, waitq>>
  <2>1. UNCHANGED <<pc, call, masked, cur, stat, timers, timeout, armed, left, waitq>>
    BY <1>5 DEF Returns, flowVars
  <2>2. rq' \in Queues(Prio, Thread) /\ ReadyQueueOK'
    BY <1>3, <1>5, <2>1 DEF ReadyQueueOK, Ready
  <2> HIDE DEF q
  <2>3. /\ mtx'[m] = [value |-> 1, owner |-> None, orig |-> NoPrio, hold |-> 0]
        /\ \A k \in Mutex : k # m => mtx'[k] = mtx[k]
    BY <1>1, <1>2, <1>5
  <2>4. TypeOK'
    <3>1. mtx' \in [Mutex -> MutexState]
      BY <1>2, <1>5, <2>3 DEF MutexState
    <3>2. QED
      BY <1>1, <1>3, <2>1, <2>2, <3>1 DEF IInv, TypeOK, Queues
  <2>5. MutexOK'
    <3>1. waitq'[m] = <<>> /\ None \notin ToSet(waitq'[m])
      BY <1>5, <2>1 DEF ToSet
    <3>2. QED
      BY <2>1, <2>3, <3>1 DEF IInv, MutexOK
  <2>6. TimersOK' /\ WaitersOK'
    BY <2>1, WaitersFrame DEF IInv, TimersOK
  <2>7. NoLostWakeup' /\ RunningIsReady' /\ IdleReady'
    BY <1>1, <2>1 DEF IInv, NoLostWakeup, RunningIsReady, IdleReady
  <2>8. QED
    BY <2>2, <2>4, <2>5, <2>6, <2>7 DEF IInv
<1>6. QED
  BY <1>4, <1>5 DEF MutexReleaseLast, Handed, Freed

LEMMA TickIsrOK ==
  ASSUME IInv, TickIsr
  PROVE  IInv'
<1> USE DEF threadVars, timerVars, ipcVars, flowVars
<1>1. /\ UNCHANGED <<lockNest, stat, prio, error, timers, timeout, armed,
                     waitq, value, mtx, pc, call, masked>>
      /\ isr' = "timers" /\ tick' \in 0..(TickMod - 1)
      /\ remain' \in [Thread -> Nat \ {0}] /\ left' \in [Thread -> Nat]
  <2>0. left' \in [Thread -> Nat]
    BY DEF TickIsr, IInv, TypeOK
  <2>1. tick' \in 0..(TickMod - 1)
    BY TickAssumption DEF TickIsr, IInv, TypeOK
  <2>2. remain' \in [Thread -> Nat \ {0}]
    <3>1. /\ remain \in [Thread -> Nat \ {0}] /\ cur \in Thread
          /\ Slice[cur] \in Nat \ {0}
      BY ThreadAssumption DEF IInv, TypeOK
    <3>2. CASE remain[cur] > 1 /\ remain' = [remain EXCEPT ![cur] = @ - 1]
      <4>1. remain[cur] - 1 \in Nat \ {0}
        BY <3>1, <3>2
      <4>2. QED
        BY <3>1, <3>2, <4>1
    <3>3. CASE remain' = [remain EXCEPT ![cur] = Slice[cur]]
      BY <3>1, <3>3
    <3>4. QED
      BY <3>2, <3>3 DEF TickIsr
  <2>3. QED
    BY <2>0, <2>1, <2>2 DEF TickIsr
<1>2. \/ UNCHANGED <<rq, cur>>
      \/ /\ CanYield(cur)
         /\ rq' = Rotated(rq, cur, prio[cur])
         /\ IsrSchedule(rq')
  BY DEF TickIsr
<1>3. rq' \in Queues(Prio, Thread) /\ ReadyQueueOK'
  <2>1. CASE UNCHANGED <<rq, cur>>
    BY <1>1, <2>1 DEF IInv, TypeOK, ReadyQueueOK, Queues
  <2>2. CASE /\ CanYield(cur)
             /\ rq' = Rotated(rq, cur, prio[cur])
    BY <1>1, <2>2, RotatedReady DEF CanYield, IInv, TypeOK
  <2>3. QED
    BY <1>2, <2>1, <2>2
<1>4. IdleReady' /\ prio' \in [Thread -> Prio]
  BY <1>1 DEF IInv, IdleReady, TypeOK
<1>5. Top(rq') \in Thread /\ stat'[Top(rq')] = "ready"
  BY <1>3, <1>4, TopReadyNext
<1>6. cur' \in Thread /\ (cur' = cur \/ stat'[cur'] = "ready")
  BY <1>2, <1>5 DEF IsrSchedule, IInv, TypeOK
<1>7. TypeOK'
  BY <1>1, <1>3, <1>6 DEF IInv, TypeOK, Queues
<1>8. TimersOK' /\ WaitersOK'
  BY <1>1, WaitersFrame DEF IInv, TimersOK
<1>9. NoLostWakeup' /\ MutexOK' /\ RunningIsReady'
  BY <1>1, <1>6 DEF IInv, NoLostWakeup, MutexOK, RunningIsReady
<1>10. QED
  BY <1>3, <1>4, <1>7, <1>8, <1>9 DEF IInv

LEMMA FireTimerOK ==
  ASSUME IInv, FireTimer
  PROVE  IInv'
<1> USE DEF threadVars, timerVars, ipcVars, flowVars
<1> DEFINE t == Head(timers)
           q == Inserted([rq EXCEPT !.list[prio[t]] = Without(@, t)],
                         t, prio[t])
<1>1. /\ t \in Thread /\ t \in ToSet(timers)
      /\ Tail(timers) \in Seq(Thread) /\ Once(Tail(timers))
      /\ ToSet(Tail(timers)) = ToSet(timers) \ {t}
  <2>1. timers \in Seq(Thread) /\ Once(timers) /\ timers # <<>>
    BY DEF IInv, TypeOK, TimersOK, FireTimer, HeadDue
  <2>2. QED
    BY <2>1, TailOK
<1>2. armed[t] /\ stat[t] = "suspend"
  BY <1>1 DEF IInv, TimersOK
<1>3. /\ timers' = Tail(timers)
      /\ timeout' = [timeout EXCEPT ![t] = NoTick]
      /\ armed' = [armed EXCEPT ![t] = FALSE] /\ left' = [left EXCEPT ![t] = 0]
      /\ error' = [error EXCEPT ![t] = "timeout"]
      /\ waitq' = [o \in Obj |-> Without(waitq[o], t)]
      /\ stat' = [stat EXCEPT ![t] = "ready"]
      /\ rq' = q
      /\ IsrSchedule(rq')
      /\ UNCHANGED <<tick, lockNest, prio, remain, value, mtx, pc, call,
                     masked, isr>>
  BY DEF FireTimer, Unlinked
<1>4. rq' \in Queues(Prio, Thread) /\ ReadyQueueOK'
  <2>1. /\ Ready \in SUBSET Thread /\ t \in Thread \ Ready
        /\ Ready' = Ready \cup {t}
        /\ rq \in Queues(Prio, Thread) /\ QueueOK(rq, Ready, prio)
        /\ prio \in [Thread -> Prio]
    BY <1>1, <1>2, <1>3 DEF Ready, IInv, TypeOK, ReadyQueueOK, Queues
  <2>2. [rq EXCEPT !.list[prio[t]] = Without(@, t)] = rq
    <3>1. ToSet(rq.list[prio[t]]) \subseteq Ready
      BY <2>1 DEF QueueOK, Queues
    <3>2. Without(rq.list[prio[t]], t) = rq.list[prio[t]]
      BY <2>1, <3>1, WithoutAbsent
    <3>3. QED
      BY <2>1, <3>2 DEF Queues
  <2>3. rq' = Inserted(rq, t, prio[t])
    BY <1>3, <2>2
  <2> HIDE DEF t, q
  <2>4. /\ Inserted(rq, t, prio[t]) \in Queues(Prio, Thread)
        /\ QueueOK(Inserted(rq, t, prio[t]), Ready \cup {t}, prio)
    BY <2>1, InsertedOK
  <2>5. QED
    BY <1>3, <2>1, <2>3, <2>4 DEF ReadyQueueOK, Ready
<1> HIDE DEF t, q
<1>5. IdleReady' /\ prio' \in [Thread -> Prio]
  BY <1>1, <1>3, ThreadAssumption DEF IInv, IdleReady, TypeOK
<1>6. Top(rq') \in Thread /\ stat'[Top(rq')] = "ready"
  BY <1>4, <1>5, TopReadyNext
<1>7. cur' \in Thread /\ (cur' = cur \/ stat'[cur'] = "ready")
  BY <1>3, <1>6 DEF IsrSchedule, IInv, TypeOK
<1>8. \A o \in Obj : /\ waitq'[o] \in Seq(Thread) /\ Once(waitq'[o])
                     /\ ToSet(waitq'[o]) = ToSet(waitq[o]) \ {t}
  <2>1. ASSUME NEW o \in Obj
        PROVE  /\ waitq'[o] \in Seq(Thread) /\ Once(waitq'[o])
               /\ ToSet(waitq'[o]) = ToSet(waitq[o]) \ {t}
    <3>1. waitq[o] \in Seq(Thread) /\ Once(waitq[o])
      BY DEF IInv, TypeOK, WaitersOK
    <3>2. waitq'[o] = Without(waitq[o], t)
      BY <1>3
    <3>3. QED
      BY <3>1, <3>2, WithoutOK
  <2>2. QED
    BY <2>1
<1>9. TypeOK'
  BY <1>1, <1>3, <1>4, <1>7, <1>8 DEF IInv, TypeOK, Queues, Status
<1>10. TimersOK'
  <2>1. \A u \in Thread : armed'[u] <=> u # t /\ armed[u]
    BY <1>1, <1>3 DEF IInv, TypeOK
  <2>2. ToSet(timers') = {u \in Thread : armed'[u]}
    BY <1>1, <1>3, <2>1 DEF IInv, TimersOK
  <2>3. \A u \in Thread : armed'[u] => stat'[u] = "suspend"
    BY <1>3, <2>1 DEF IInv, TimersOK, TypeOK
  <2>4. QED
    BY <1>1, <1>3, <2>2, <2>3 DEF TimersOK
<1>11. WaitersOK'
  <2>1. ASSUME NEW o \in Obj
        PROVE  ToSet(waitq'[o]) =
                 {u \in Thread : stat'[u] = "suspend" /\ call'[u].obj = o}
    <3>1. ToSet(waitq[o]) =
            {u \in Thread : stat[u] = "suspend" /\ call[u].obj = o}
      BY DEF IInv, WaitersOK
    <3>2. \A u \in Thread : stat'[u] = IF u = t THEN "ready" ELSE stat[u]
      BY <1>3 DEF IInv, TypeOK
    <3>3. {u \in Thread : stat'[u] = "suspend" /\ call'[u].obj = o}
            = {u \in Thread : stat[u] = "suspend" /\ call[u].obj = o} \ {t}
      BY <1>3, <3>2
    <3>4. QED
      BY <1>8, <3>1, <3>3
  <2>2. \A u \in Thread :
          stat'[u] = "suspend" /\ call'[u].obj = None => armed'[u]
    BY <1>3 DEF IInv, TypeOK, WaitersOK
  <2>3. QED
    BY <1>8, <2>1, <2>2 DEF WaitersOK
<1>12. NoLostWakeup'
  <2>1. ASSUME NEW s \in Sem, waitq'[s] # <<>> PROVE value'[s] = 0
    <3>1. s \in Obj /\ waitq[s] \in Seq(Thread) /\ waitq'[s] \in Seq(Thread)
      BY <1>8 DEF Obj, IInv, TypeOK
    <3>2. CASE waitq[s] = <<>>
      <4>1. t \notin ToSet(waitq[s])
        BY <3>2 DEF ToSet
      <4>2. waitq'[s] = waitq[s]
        BY <1>3, <3>1, <4>1, WithoutAbsent
      <4>3. QED
        BY <2>1, <3>2, <4>2
    <3>3. CASE waitq[s] # <<>>
      BY <1>3, <3>3 DEF IInv, NoLostWakeup
    <3>4. QED
      BY <3>2, <3>3
  <2>2. QED
    BY <2>1 DEF NoLostWakeup
<1>13. MutexOK'
  <2>1. ASSUME NEW m \in Mutex
        PROVE  /\ waitq'[m] # <<>> => mtx[m].owner # None
               /\ mtx[m].owner \notin ToSet(waitq'[m])
    <3>1. m \in Obj
      BY DEF Obj
    <3>2. CASE waitq[m] = <<>>
      <4>1. t \notin ToSet(waitq[m])
        BY <3>2 DEF ToSet
      <4>2. waitq'[m] = waitq[m]
        BY <1>3, <3>1, <4>1, WithoutAbsent
      <4>3. QED
        BY <4>2 DEF IInv, MutexOK
    <3>3. CASE waitq[m] # <<>>
      BY <1>8, <3>1, <3>3 DEF IInv, MutexOK
    <3>4. QED
      BY <3>2, <3>3
  <2>2. QED
    BY <1>3, <2>1 DEF IInv, MutexOK
<1>14. RunningIsReady'
  BY <1>3, <1>7 DEF IInv, RunningIsReady, TypeOK
<1>15. QED
  BY <1>4, <1>5, <1>9, <1>10, <1>11, <1>12, <1>13, <1>14 DEF IInv

-----------------------------------------------------------------------------
(***************************************************************************)
(* The theorems.                                                           *)
(***************************************************************************)

\* The state rt_system_scheduler_start leaves satisfies the invariant.
LEMMA InitOK == Init => IInv
<1> SUFFICES ASSUME Init PROVE IInv
  OBVIOUS
<1>1. TypeOK
  BY ThreadAssumption, ObjectAssumption, TickAssumption
  DEF Init, InitThreads, TypeOK, Status, Calling, MutexState, FreeMutex, NoCall, Started,
      NoTick, Prio
<1>2. ReadyQueueOK
  <2>1. ASSUME NEW p \in Prio
        PROVE  /\ Once(rq.list[p])
               /\ ToSet(rq.list[p]) =
                    {t \in Thread : stat[t] = "ready" /\ prio[t] = p}
               /\ p \in rq.group <=> rq.list[p] # <<>>
    <3>1. /\ rq.list[p] = IF p = InitPrio[Main] THEN <<Main>>
                          ELSE IF p = InitPrio[Idle] THEN <<Idle>>
                          ELSE <<>>
          /\ rq.group = {InitPrio[Main], InitPrio[Idle]}
      BY DEF Init
    <3>2. {t \in Thread : stat[t] = "ready" /\ prio[t] = p}
            = IF p = InitPrio[Main] THEN {Main}
              ELSE IF p = InitPrio[Idle] THEN {Idle} ELSE {}
      BY ThreadAssumption DEF Init, InitThreads, Started
    <3>3. QED
      BY <3>1, <3>2 DEF Once, ToSet
  <2>2. DOMAIN rq.list = Prio /\ rq.group \subseteq Prio
    BY ThreadAssumption DEF Init
  <2>3. \A p \in Prio :
          {t \in {u \in Thread : stat[u] = "ready"} : prio[t] = p}
            = {t \in Thread : stat[t] = "ready" /\ prio[t] = p}
    OBVIOUS
  <2>4. QED
    BY <2>1, <2>2, <2>3 DEF ReadyQueueOK, QueueOK
<1>3. TimersOK
  BY DEF Init, InitThreads, TimersOK, Once, ToSet
<1>4. WaitersOK
  BY ObjectAssumption DEF Init, InitThreads, WaitersOK, Once, ToSet, Started
<1>5. NoLostWakeup /\ RunningIsReady /\ IdleReady
  BY ThreadAssumption
  DEF Init, InitThreads, NoLostWakeup, RunningIsReady, IdleReady, Started, Obj
<1>6. MutexOK
  BY DEF Init, InitThreads, MutexOK, FreeMutex, Obj, ToSet
<1>7. QED
  BY <1>1, <1>2, <1>3, <1>4, <1>5, <1>6 DEF IInv

\* Every step keeps the invariant.
LEMMA NextOK == IInv /\ [Next]_vars => IInv'
<1> SUFFICES ASSUME IInv, [Next]_vars PROVE IInv'
  OBVIOUS
<1>1. ASSUME NEW t \in Thread, ThreadStep(t) PROVE IInv'
  BY <1>1, StartupOK, ExitOK, YieldOK, DelayOK, ControlOK, EnterCriticalOK,
     ExitCriticalOK DEF ThreadStep
<1>2. ASSUME NEW t \in Thread, SemStep(t) PROVE IInv'
  BY <1>2, SemTakeNowOK, SemReleaseOK, SemTakeBlockOK DEF SemStep
<1>3. ASSUME NEW t \in Thread, MutexStep(t) PROVE IInv'
  BY <1>3, MutexQuickOK, MutexTakeBlockOK, MutexReleaseLastOK DEF MutexStep
<1>4. ASSUME NEW t \in Thread, Schedule(t) \/ Return(t) PROVE IInv'
  BY <1>4, ScheduleOK, ReturnOK
<1>5. ASSUME IsrStep PROVE IInv'
  BY <1>5, ObjectAssumption, TickIsrOK, FireTimerOK, LeaveIsrOK, SemIsrOK
  DEF IsrStep
<1>6. CASE UNCHANGED vars
  <2>1. TypeOK'
    BY <1>6 DEF vars, threadVars, timerVars, ipcVars, flowVars, IInv, TypeOK
  <2>2. ListsOK'
    BY <1>6, FrameOK
    DEF vars, threadVars, timerVars, ipcVars, flowVars, IInv, ListsOK
  <2>3. NoLostWakeup' /\ MutexOK' /\ RunningIsReady' /\ IdleReady'
    BY <1>6 DEF vars, threadVars, timerVars, ipcVars, flowVars, IInv,
       NoLostWakeup, MutexOK, RunningIsReady, IdleReady
  <2>4. QED
    BY <2>1, <2>2, <2>3 DEF IInv, ListsOK
<1>7. QED
  BY <1>1, <1>2, <1>3, <1>4, <1>5, <1>6 DEF Next

\* The inductive invariant holds in every reachable state.
THEOREM Invariance == Spec => []IInv
  BY InitOK, NextOK, PTL DEF Spec

\* Every variable keeps its type, for any threads, objects and bounds.
THEOREM TypeCorrect == Spec => []TypeOK
<1>1. IInv => TypeOK
  BY DEF IInv
<1>2. QED
  BY <1>1, Invariance, PTL

\* The ready lists hold exactly the READY threads, each once and at its current
\* priority, and the bitmap names exactly the lists in use, whatever the order
\* of suspends, wakeups, timeouts and priority changes.
THEOREM ReadyQueueExact == Spec => []ReadyQueueOK
<1>1. IInv => ReadyQueueOK
  BY DEF IInv
<1>2. QED
  BY <1>1, Invariance, PTL

\* Only suspended threads have a running timer, and rt_timer_list links each of
\* them once: rt_timer_start, rt_timer_stop and rt_timer_check leave none behind.
THEOREM TimersExact == Spec => []TimersOK
<1>1. IInv => TimersOK
  BY DEF IInv
<1>2. QED
  BY <1>1, Invariance, PTL

\* A suspended thread stands once in the wait list of the object it waits for
\* and in no other, or it is in rt_thread_delay with its timer running.
THEOREM WaitersCanBeWoken == Spec => []WaitersOK
<1>1. IInv => WaitersOK
  BY DEF IInv
<1>2. QED
  BY <1>1, Invariance, PTL

\* rt_sem_release never leaves a thread waiting beside a positive value.
THEOREM WakeupNotLost == Spec => []NoLostWakeup
<1>1. IInv => NoLostWakeup
  BY DEF IInv
<1>2. QED
  BY <1>1, Invariance, PTL

\* rt_mutex_take and rt_mutex_release keep value, owner, hold and
\* original_priority of a mutex in agreement, with or without waiters.
THEOREM MutexWhole == Spec => []MutexOK
<1>1. IInv => MutexOK
  BY DEF IInv
<1>2. QED
  BY <1>1, Invariance, PTL

\* rt_current_thread is READY unless it is on its way into rt_schedule: rt_schedule
\* and the interrupt handlers give the CPU to READY threads only.
THEOREM RunnerReady == Spec => []RunningIsReady
<1>1. IInv => RunningIsReady
  BY DEF IInv
<1>2. QED
  BY <1>1, Invariance, PTL

\* While the scheduler is locked no call and no interrupt handler gives the
\* CPU to another thread.
THEOREM LockedKeepsCpu == Spec => LockHolds
<1>1. ASSUME [Next]_vars, lockNest > 0
      PROVE  cur' = cur
  <2>1. ASSUME NEW t \in Thread, ThreadStep(t) PROVE cur' = cur
    BY <2>1 DEF ThreadStep, Startup, Exit, Yield, Delay, Control,
       EnterCritical, ExitCritical, ToSchedule, Returns
  <2>2. ASSUME NEW t \in Thread, SemStep(t) PROVE cur' = cur
    BY <2>2 DEF SemStep, SemTakeNow, SemRelease, SemTakeBlock, ToSchedule,
       Returns
  <2>3. ASSUME NEW t \in Thread, MutexStep(t) PROVE cur' = cur
    BY <2>3 DEF MutexStep, MutexTakeAgain, MutexTakeFree, MutexTry,
       MutexTakeBlock, MutexReleaseOther, MutexReleaseInner, MutexReleaseLast,
       ToSchedule, Returns
  <2>4. ASSUME NEW t \in Thread, Schedule(t) \/ Return(t) PROVE cur' = cur
    BY <1>1, <2>4 DEF Schedule, Return
  <2>5. ASSUME IsrStep PROVE cur' = cur
    BY <1>1, <2>5 DEF IsrStep, TickIsr, FireTimer, LeaveIsr, SemIsr,
       IsrSchedule
  <2>6. CASE UNCHANGED vars
    BY <2>6 DEF vars
  <2>7. QED
    BY <1>1, <2>1, <2>2, <2>3, <2>4, <2>5, <2>6 DEF Next
<1>2. QED
  BY <1>1, PTL DEF Spec, LockHolds

-----------------------------------------------------------------------------
(***************************************************************************)
(* Properties of programs that keep away from some of the calls.           *)
(***************************************************************************)

\* Nobody changes a priority, or gives a mutex and with it a priority back:
\* the calls that change the ready queue and do not reach rt_schedule.
PrioritiesStay ==
  \A t \in Thread : "control" \notin Calls[t] /\ "mutex_release" \notin Calls[t]

\* What HighestRuns needs: the pick also holds on the way out of a call.
TopRuns == lockNest = 0 /\ pc[cur] \in {"run", "back"} => cur = Top(rq)

LEMMA TopRunsInit == Init => TopRuns
<1> SUFFICES ASSUME Init PROVE Top(rq) = Main
  BY DEF Init, TopRuns
<1> DEFINE g == {InitPrio[Main], InitPrio[Idle]}
<1>1. /\ rq.group = g /\ InitPrio[Main] \in Prio
      /\ rq.list[InitPrio[Main]] = <<Main>>
  BY ThreadAssumption DEF Init
<1>2. InitPrio[Main] \in Nat /\ InitPrio[Idle] \in Nat /\ InitPrio[Main] < InitPrio[Idle]
  BY ThreadAssumption DEF Prio
<1>3. g \in SUBSET Nat /\ g # {}
  BY <1>2
<1> HIDE DEF g
<1>4. Least(g) \in g /\ \A x \in g : Least(g) <= x
  BY <1>3, LeastOK
<1>5. Least(g) = InitPrio[Main]
  BY <1>2, <1>4 DEF g
<1>6. QED
  BY <1>1, <1>5 DEF Top

LEMMA TopRunsNext ==
  ASSUME PrioritiesStay, IInv, TopRuns, [Next]_vars
  PROVE  TopRuns'
<1> USE DEF TopRuns
<1>0. pc \in [Thread -> {"run", "sched", "back"}] /\ lockNest \in {0, 1}
  BY DEF IInv, TypeOK
<1>1. ASSUME NEW t \in Thread, NEW fn, NEW o, Makes(t, fn), ToSchedule(t, fn, o)
      PROVE  TopRuns'
  BY <1>0, <1>1 DEF Makes, ToSchedule
<1>2. ASSUME NEW t \in Thread, ThreadStep(t) PROVE TopRuns'
  <2>1. ASSUME NEW u \in Thread, NEW p \in CtlPrios PROVE ~Control(t, u, p)
    BY DEF Control, Makes, PrioritiesStay
  <2>2. CASE EnterCritical(t)
    BY <1>0, <2>2 DEF EnterCritical
  <2>3. CASE ~EnterCritical(t)
    BY <1>1, <1>2, <2>1, <2>3 DEF ThreadStep, Startup, Exit, Yield, Delay, ExitCritical
  <2>4. QED
    BY <2>2, <2>3
<1>3. ASSUME NEW t \in Thread, SemStep(t) PROVE TopRuns'
  <2>1. PICK s \in Sem : \/ SemTakeNow(t, s) \/ SemRelease(t, s)
                         \/ \E n \in Timeouts : SemTakeBlock(t, s, n)
    BY <1>3 DEF SemStep
  <2>2. CASE SemTakeNow(t, s) \/ (SemPost(s) /\ Returns /\ SemRelease(t, s))
    BY <2>2 DEF SemTakeNow, SemPost, SemRelease, Returns, flowVars
  <2>3. CASE SemHandOff(s) /\ ToSchedule(t, "sem_release", s) /\ SemRelease(t, s)
    BY <1>1, <2>3 DEF SemRelease
  <2>4. CASE \E n \in Timeouts : SemTakeBlock(t, s, n)
    BY <1>1, <2>4 DEF SemTakeBlock
  <2>5. QED
    BY <2>1, <2>2, <2>3, <2>4 DEF SemRelease
<1>4. ASSUME NEW t \in Thread, MutexStep(t) PROVE TopRuns'
  <2>1. PICK m \in Mutex :
          \/ MutexTakeAgain(t, m) \/ MutexTakeFree(t, m) \/ MutexTry(t, m)
          \/ \E n \in Timeouts : MutexTakeBlock(t, m, n)
          \/ MutexReleaseOther(t, m) \/ MutexReleaseInner(t, m)
          \/ MutexReleaseLast(t, m)
    BY <1>4 DEF MutexStep
  <2>2. ~(MutexReleaseOther(t, m) \/ MutexReleaseInner(t, m) \/ MutexReleaseLast(t, m))
    BY DEF MutexReleaseOther, MutexReleaseInner, MutexReleaseLast, Makes, PrioritiesStay
  <2>3. CASE MutexTakeAgain(t, m) \/ MutexTakeFree(t, m) \/ MutexTry(t, m)
    BY <2>3 DEF MutexTakeAgain, MutexTakeFree, MutexTry, Returns, flowVars
  <2>4. CASE \E n \in Timeouts : MutexTakeBlock(t, m, n)
    BY <1>1, <2>4 DEF MutexTakeBlock
  <2>5. QED
    BY <2>1, <2>2, <2>3, <2>4
<1>5. ASSUME NEW t \in Thread, Schedule(t) \/ Return(t) PROVE TopRuns'
  <2>1. CASE Schedule(t)
    BY <1>0, <2>1 DEF Schedule
  <2>2. CASE Return(t)
    BY <1>0, <2>2 DEF Return
  <2>3. QED
    BY <1>5, <2>1, <2>2
<1>6. ASSUME IsrStep PROVE TopRuns'
  <2>1. CASE TickIsr
    BY <2>1 DEF TickIsr, IsrSchedule, flowVars
  <2>2. CASE FireTimer
    BY <2>2 DEF FireTimer, IsrSchedule, flowVars
  <2>3. CASE LeaveIsr
    BY <2>3 DEF LeaveIsr, flowVars
  <2>4. ASSUME NEW s \in IsrSems, SemIsr(s) PROVE TopRuns'
    BY <2>4 DEF SemIsr, SemPost, IsrSchedule, flowVars
  <2>5. QED
    BY <1>6, <2>1, <2>2, <2>3, <2>4 DEF IsrStep
<1>7. CASE UNCHANGED vars
  BY <1>7 DEF vars, flowVars
<1>8. QED
  BY <1>2, <1>3, <1>4, <1>5, <1>6, <1>7 DEF Next

\* A thread runs its program only while it is the pick of rt_schedule, whatever
\* semaphores, delays and interrupts do, in programs that leave priorities as
\* they are.
THEOREM MostUrgentRuns == PrioritiesStay => (Spec => []HighestRuns)
<1> SUFFICES ASSUME PrioritiesStay PROVE Spec => []HighestRuns
  OBVIOUS
<1>1. IInv /\ TopRuns /\ [Next]_vars => TopRuns'
  BY TopRunsNext
<1>2. TopRuns => HighestRuns
  BY DEF TopRuns, HighestRuns
<1>3. QED
  BY <1>1, <1>2, TopRunsInit, Invariance, PTL DEF Spec

\* Takes wait for ever, or not at all.
NoTimedTakes == \A n \in Timeouts : n <= 0

\* What TakeOwns needs: a thread in rt_mutex_take is suspended without a timer,
\* or owns the mutex; and one that runs its program is in no call.
TakersOwn ==
  /\ \A t \in Thread : pc[t] = "run" => call[t] = NoCall
  /\ \A t \in Thread : call[t].fn = "mutex_take" =>
       /\ call[t].obj \in Mutex
       /\ IF stat[t] = "suspend" THEN ~armed[t] ELSE mtx[call[t].obj].owner = t

\* A step of t on its way into rt_schedule, from any call but rt_mutex_take.
LEMMA TakersFrame ==
  ASSUME IInv, TakersOwn, NEW t \in Thread, NEW fn, NEW o, fn # "mutex_take",
         Makes(t, fn), ToSchedule(t, fn, o), UNCHANGED mtx,
         \A u \in Thread \ {t} : (stat'[u] = "suspend") = (stat[u] = "suspend") /\ (armed'[u] => armed[u])
  PROVE  TakersOwn'
<1>1. /\ pc' = [pc EXCEPT ![t] = "sched"]
      /\ call' = [call EXCEPT ![t] = [fn |-> fn, obj |-> o, level |-> masked[t]]]
  BY DEF ToSchedule
<1>2. pc \in [Thread -> {"run", "sched", "back"}] /\ call \in [Thread -> Calling]
  BY DEF IInv, TypeOK
<1>3. pc'[t] # "run" /\ call'[t].fn # "mutex_take"
  BY <1>1, <1>2
<1>4. \A u \in Thread \ {t} : pc'[u] = pc[u] /\ call'[u] = call[u]
  BY <1>1, <1>2
<1>5. QED
  BY <1>3, <1>4 DEF TakersOwn

\* The thread that is woken of a wait list: it is suspended in a call on o.
LEMMA WokenOK ==
  ASSUME IInv, NEW o \in Obj, waitq[o] # <<>>, NEW q, WakeFirst(o, q)
  PROVE  LET w == Head(waitq[o])
         IN  /\ w \in Thread /\ stat[w] = "suspend" /\ call[w].obj = o
             /\ stat' = [stat EXCEPT ![w] = "ready"]
             /\ armed' = [armed EXCEPT ![w] = FALSE]
<1> DEFINE w == Head(waitq[o])
<1>1. waitq[o] \in Seq(Thread) /\ Once(waitq[o])
  BY DEF IInv, TypeOK, WaitersOK
<1>2. w \in ToSet(waitq[o])
  BY <1>1, TailOK
<1>3. w \in Thread /\ stat[w] = "suspend" /\ call[w].obj = o
  BY <1>2 DEF IInv, WaitersOK
<1>4. QED
  BY <1>3 DEF WakeFirst, StopTimer

\* A semaphore is handed to a waiter: nobody in rt_mutex_take is woken.
LEMMA TakersHandOff ==
  ASSUME IInv, TakersOwn, NEW s \in Sem, SemHandOff(s), UNCHANGED mtx,
         NEW t \in Thread, stat[t] = "ready",
         \/ UNCHANGED <<pc, call>>
         \/ Makes(t, "sem_release") /\ ToSchedule(t, "sem_release", s)
  PROVE  TakersOwn'
<1> DEFINE w == Head(waitq[s])
<1>1. s \in Obj /\ waitq[s] # <<>> /\ WakeFirst(s, rq)
  BY DEF SemHandOff, Obj
<1>2. /\ w \in Thread /\ stat[w] = "suspend" /\ call[w].obj = s
      /\ stat' = [stat EXCEPT ![w] = "ready"]
      /\ armed' = [armed EXCEPT ![w] = FALSE]
  BY <1>1, WokenOK
<1> HIDE DEF w
<1>3. w # t /\ call[w].fn # "mutex_take"
  BY <1>2, ObjectAssumption DEF TakersOwn
<1>4. /\ stat \in [Thread -> Status] /\ armed \in [Thread -> BOOLEAN]
      /\ pc \in [Thread -> {"run", "sched", "back"}] /\ call \in [Thread -> Calling]
  BY DEF IInv, TypeOK
<1>5. \A u \in Thread \ {w} : stat'[u] = stat[u] /\ armed'[u] = armed[u]
  BY <1>2, <1>4
<1>6. CASE UNCHANGED <<pc, call>>
  BY <1>3, <1>5, <1>6 DEF TakersOwn
<1>7. CASE Makes(t, "sem_release") /\ ToSchedule(t, "sem_release", s)
  <2>1. /\ pc' = [pc EXCEPT ![t] = "sched"]
        /\ call' = [call EXCEPT ![t] = [fn |-> "sem_release", obj |-> s, level |-> masked[t]]]
    BY <1>7 DEF ToSchedule
  <2>2. pc'[t] # "run" /\ call'[t].fn # "mutex_take"
    BY <1>4, <2>1
  <2>3. \A u \in Thread \ {t} : pc'[u] = pc[u] /\ call'[u] = call[u]
    BY <1>4, <2>1
  <2>4. QED
    BY <1>3, <1>5, <2>2, <2>3 DEF TakersOwn
<1>8. QED
  BY <1>6, <1>7

\* Its owner takes a mutex again, and a free one is taken.
LEMMA TakersQuick ==
  ASSUME IInv, TakersOwn, NEW t \in Thread, NEW m \in Mutex,
         MutexTakeAgain(t, m) \/ MutexTakeFree(t, m) \/ MutexReleaseInner(t, m)
  PROVE  TakersOwn'
<1>1. UNCHANGED <<pc, call, stat, armed>> /\ mtx \in [Mutex -> MutexState]
  BY DEF MutexTakeAgain, MutexTakeFree, MutexReleaseInner, Returns, flowVars, timerVars, threadVars,
         IInv, TypeOK
<1>2. CASE MutexTakeAgain(t, m) \/ MutexReleaseInner(t, m)
  <2>1. \A x \in Mutex : mtx'[x].owner = mtx[x].owner
    BY <1>1, <1>2 DEF MutexTakeAgain, MutexReleaseInner, MutexState
  <2>2. QED
    BY <1>1, <2>1 DEF TakersOwn
<1>3. CASE MutexTakeFree(t, m)
  <2>1. mtx[m].owner = None
    BY <1>1, <1>3 DEF MutexTakeFree, IInv, MutexOK, MutexState
  <2>2. \A x \in Mutex \ {m} : mtx'[x] = mtx[x]
    BY <1>1, <1>3 DEF MutexTakeFree
  <2>3. ASSUME NEW u \in Thread, call[u].fn = "mutex_take", stat[u] # "suspend"
        PROVE  call[u].obj # m
    BY <2>1, <2>3, ObjectAssumption DEF TakersOwn
  <2>4. QED
    BY <1>1, <2>2, <2>3 DEF TakersOwn
<1>4. QED
  BY <1>2, <1>3

\* t waits for the mutex, without a timer.
LEMMA TakersBlock ==
  ASSUME NoTimedTakes, IInv, TakersOwn, NEW t \in Thread, NEW m \in Mutex, NEW n \in Timeouts,
         MutexTakeBlock(t, m, n)
  PROVE  TakersOwn'
<1>1. n < 0 /\ n \in Int
  BY TickAssumption DEF NoTimedTakes, MutexTakeBlock
<1>2. /\ stat' = [stat EXCEPT ![t] = "suspend"] /\ armed' = [armed EXCEPT ![t] = FALSE]
      /\ mtx' = mtx
      /\ pc' = [pc EXCEPT ![t] = "sched"]
      /\ call' = [call EXCEPT ![t] = [fn |-> "mutex_take", obj |-> m, level |-> masked[t]]]
  BY <1>1 DEF MutexTakeBlock, Suspend, StopTimer, ToSchedule
<1>3. /\ stat \in [Thread -> Status] /\ armed \in [Thread -> BOOLEAN]
      /\ pc \in [Thread -> {"run", "sched", "back"}] /\ call \in [Thread -> Calling]
  BY DEF IInv, TypeOK
<1>4. \A u \in Thread \ {t} : /\ stat'[u] = stat[u] /\ armed'[u] = armed[u]
                              /\ pc'[u] = pc[u] /\ call'[u] = call[u]
  BY <1>2, <1>3
<1>5. stat'[t] = "suspend" /\ ~armed'[t] /\ pc'[t] # "run" /\ call'[t].obj = m
  BY <1>2, <1>3
<1>6. QED
  BY <1>2, <1>4, <1>5 DEF TakersOwn

\* The owner gives the mutex to the first waiter, which then owns it, or back.
LEMMA TakersRelease ==
  ASSUME IInv, TakersOwn, NEW t \in Thread, NEW m \in Mutex, MutexReleaseLast(t, m)
  PROVE  TakersOwn'
<1> DEFINE w == Head(waitq[m])
           q == IF mtx[m].orig # prio[t] THEN Repositioned(t, mtx[m].orig) ELSE rq
<1>1. /\ mtx[m].owner = t /\ pc[t] = "run" /\ stat[t] = "ready" /\ call[t].fn # "mutex_take"
  BY CallerOK DEF MutexReleaseLast, Makes, TakersOwn, NoCall
<1>2. \A u \in Thread : call[u].fn = "mutex_take" /\ stat[u] # "suspend" => call[u].obj # m
  BY <1>1 DEF TakersOwn
<1>3. /\ stat \in [Thread -> Status] /\ armed \in [Thread -> BOOLEAN] /\ mtx \in [Mutex -> MutexState]
      /\ pc \in [Thread -> {"run", "sched", "back"}] /\ call \in [Thread -> Calling]
  BY DEF IInv, TypeOK
<1>4. \A x \in Mutex \ {m} : mtx'[x] = mtx[x]
  BY <1>3 DEF MutexReleaseLast
<1>5. CASE /\ waitq[m] # <<>> /\ mtx' = [mtx EXCEPT ![m] = Handed(@, w)]
           /\ WakeFirst(m, q) /\ ToSchedule(t, "mutex_release", m)
  <2>1. /\ w \in Thread /\ stat[w] = "suspend" /\ call[w].obj = m
        /\ stat' = [stat EXCEPT ![w] = "ready"]
        /\ armed' = [armed EXCEPT ![w] = FALSE]
    BY <1>5, WokenOK DEF Obj
  <2>2. mtx'[m].owner = w
    BY <1>3, <1>5 DEF Handed
  <2>3. /\ pc' = [pc EXCEPT ![t] = "sched"]
        /\ call' = [call EXCEPT ![t] = [fn |-> "mutex_release", obj |-> m, level |-> masked[t]]]
    BY <1>5 DEF ToSchedule
  <2> HIDE DEF w, q
  <2>4. pc'[t] # "run" /\ call'[t].fn # "mutex_take"
    BY <1>3, <2>3
  <2>5. \A u \in Thread \ {t} : pc'[u] = pc[u] /\ call'[u] = call[u]
    BY <1>3, <2>3
  <2>6. \A u \in Thread \ {w} : stat'[u] = stat[u] /\ armed'[u] = armed[u]
    BY <1>3, <2>1
  <2>7. w # t
    BY <1>1, <2>1
  <2>8. \A u \in Thread : pc'[u] = "run" => call'[u] = NoCall
    BY <2>4, <2>5 DEF TakersOwn
  <2>9. ASSUME NEW u \in Thread, call'[u].fn = "mutex_take"
        PROVE  /\ call'[u].obj \in Mutex
               /\ IF stat'[u] = "suspend" THEN ~armed'[u] ELSE mtx'[call'[u].obj].owner = u
    <3>1. u # t /\ call'[u] = call[u]
      BY <2>4, <2>5, <2>9
    <3>2. CASE u = w
      <4>1. call'[u].obj = m /\ stat'[u] = "ready"
        BY <1>3, <2>1, <3>1, <3>2
      <4>2. QED
        BY <2>2, <3>2, <4>1
    <3>3. CASE u # w
      BY <1>2, <1>4, <2>6, <2>9, <3>1, <3>3 DEF TakersOwn
    <3>4. QED
      BY <3>2, <3>3
  <2>10. QED
    BY <2>8, <2>9 DEF TakersOwn
<1>6. CASE Returns /\ UNCHANGED <<stat, timerVars, waitq>>
  <2>1. UNCHANGED <<pc, call, stat, armed>>
    BY <1>6 DEF Returns, flowVars, timerVars
  <2>2. QED
    BY <1>2, <1>4, <2>1 DEF TakersOwn
<1>7. QED
  BY <1>5, <1>6 DEF MutexReleaseLast

LEMMA TakersNext ==
  ASSUME NoTimedTakes, IInv, TakersOwn, [Next]_vars
  PROVE  TakersOwn'
<1>0. /\ stat \in [Thread -> Status] /\ armed \in [Thread -> BOOLEAN]
      /\ pc \in [Thread -> {"run", "sched", "back"}] /\ call \in [Thread -> Calling]
  BY DEF IInv, TypeOK
<1>1. ASSUME NEW t \in Thread, ThreadStep(t) PROVE TakersOwn'
  <2>1. ASSUME NEW u \in Thread, Startup(t, u) PROVE TakersOwn'
    BY <1>0, <2>1, TakersFrame DEF Startup, timerVars, ipcVars
  <2>2. CASE Exit(t)
    BY <1>0, <2>2, TakersFrame DEF Exit, ipcVars
  <2>3. CASE Yield(t)
    BY <2>3, TakersFrame DEF Yield, threadVars, timerVars, ipcVars
  <2>4. ASSUME NEW n \in Delays, Delay(t, n) PROVE TakersOwn'
    BY <1>0, <2>4, TakersFrame, TickAssumption DEF Delay, Suspend, StartTimer, ipcVars
  <2>5. ASSUME NEW u \in Thread, NEW p \in CtlPrios, Control(t, u, p) PROVE TakersOwn'
    BY <2>5 DEF Control, Returns, TakersOwn, timerVars, ipcVars, flowVars
  <2>6. CASE EnterCritical(t)
    BY <2>6 DEF EnterCritical, Returns, TakersOwn, threadVars, timerVars, ipcVars, flowVars
  <2>7. CASE ExitCritical(t)
    BY <2>7, TakersFrame DEF ExitCritical, threadVars, timerVars, ipcVars
  <2>8. QED
    BY <1>1, <2>1, <2>2, <2>3, <2>4, <2>5, <2>6, <2>7 DEF ThreadStep
<1>2. ASSUME NEW t \in Thread, SemStep(t) PROVE TakersOwn'
  <2>1. PICK s \in Sem : \/ SemTakeNow(t, s) \/ SemRelease(t, s)
                         \/ \E n \in Timeouts : SemTakeBlock(t, s, n)
    BY <1>2 DEF SemStep
  <2>2. CASE SemTakeNow(t, s) \/ (SemPost(s) /\ Returns /\ SemRelease(t, s))
    BY <2>2 DEF SemTakeNow, SemPost, SemRelease, Returns, TakersOwn, threadVars, timerVars, flowVars
  <2>3. CASE SemHandOff(s) /\ ToSchedule(t, "sem_release", s) /\ SemRelease(t, s)
    BY <2>3, TakersHandOff, CallerOK DEF SemRelease
  <2>4. ASSUME NEW n \in Timeouts, SemTakeBlock(t, s, n) PROVE TakersOwn'
    <3>1. n < 0 /\ n \in Int
      BY <2>4, TickAssumption DEF NoTimedTakes, SemTakeBlock
    <3>2. QED
      BY <1>0, <2>4, <3>1, TakersFrame DEF SemTakeBlock, Suspend, StopTimer
  <2>5. QED
    BY <2>1, <2>2, <2>3, <2>4 DEF SemRelease
<1>3. ASSUME NEW t \in Thread, MutexStep(t) PROVE TakersOwn'
  <2>1. PICK m \in Mutex :
          \/ MutexTakeAgain(t, m) \/ MutexTakeFree(t, m) \/ MutexTry(t, m)
          \/ \E n \in Timeouts : MutexTakeBlock(t, m, n)
          \/ MutexReleaseOther(t, m) \/ MutexReleaseInner(t, m)
          \/ MutexReleaseLast(t, m)
    BY <1>3 DEF MutexStep
  <2>2. CASE MutexTry(t, m) \/ MutexReleaseOther(t, m)
    BY <2>2 DEF MutexTry, MutexReleaseOther, Returns, TakersOwn, timerVars, ipcVars, flowVars
  <2>3. QED
    BY <2>1, <2>2, TakersQuick, TakersBlock, TakersRelease
<1>4. ASSUME NEW t \in Thread, Schedule(t) \/ Return(t) PROVE TakersOwn'
  <2>1. CASE Schedule(t)
    BY <1>0, <2>1 DEF Schedule, TakersOwn, threadVars, timerVars, ipcVars
  <2>2. CASE Return(t)
    <3>1. call'[t] = NoCall /\ \A u \in Thread \ {t} : call'[u] = call[u] /\ pc'[u] = pc[u]
      BY <1>0, <2>2 DEF Return
    <3>2. call'[t].fn # "mutex_take"
      BY <3>1 DEF NoCall
    <3>3. UNCHANGED <<stat, armed, mtx>>
      BY <2>2 DEF Return, threadVars, timerVars, ipcVars
    <3>4. QED
      BY <3>1, <3>2, <3>3 DEF TakersOwn
  <2>3. QED
    BY <1>4, <2>1, <2>2
<1>5. ASSUME IsrStep PROVE TakersOwn'
  <2>1. CASE TickIsr \/ LeaveIsr
    BY <2>1 DEF TickIsr, LeaveIsr, TakersOwn, threadVars, timerVars, ipcVars, flowVars
  <2>2. CASE FireTimer
    <3> DEFINE t == Head(timers)
    <3>1. timers # <<>> /\ timers \in Seq(Thread) /\ Once(timers)
      BY <2>2 DEF FireTimer, HeadDue, IInv, TypeOK, TimersOK
    <3>2. t \in ToSet(timers)
      BY <3>1, TailOK
    <3>3. t \in Thread /\ armed[t] /\ stat[t] = "suspend"
      BY <3>2 DEF IInv, TimersOK
    <3>4. call[t].fn # "mutex_take"
      BY <3>3 DEF TakersOwn
    <3>5. \A u \in Thread \ {t} : stat'[u] = stat[u] /\ armed'[u] = armed[u]
      BY <1>0, <2>2 DEF FireTimer
    <3> HIDE DEF t
    <3>6. UNCHANGED <<mtx, pc, call>>
      BY <2>2 DEF FireTimer, flowVars
    <3>7. QED
      BY <3>4, <3>5, <3>6 DEF TakersOwn
  <2>3. ASSUME NEW s \in IsrSems, SemIsr(s) PROVE TakersOwn'
    <3>1. s \in Sem
      BY ObjectAssumption
    <3>2. CASE SemPost(s)
      BY <2>3, <3>2 DEF SemIsr, SemPost, TakersOwn, timerVars, flowVars
    <3>3. CASE SemHandOff(s)
      <4>1. UNCHANGED <<mtx, pc, call>> /\ Idle \in Thread /\ stat[Idle] = "ready"
        BY <2>3, ThreadAssumption DEF SemIsr, flowVars, IInv, IdleReady
      <4>2. QED
        BY <3>1, <3>3, <4>1, TakersHandOff
    <3>4. QED
      BY <2>3, <3>2, <3>3 DEF SemIsr
  <2>4. QED
    BY <1>5, <2>1, <2>2, <2>3 DEF IsrStep
<1>6. CASE UNCHANGED vars
  BY <1>6 DEF vars, TakersOwn, threadVars, timerVars, ipcVars, flowVars
<1>7. QED
  BY <1>1, <1>2, <1>3, <1>4, <1>5, <1>6 DEF Next

\* rt_mutex_take that waits for ever comes back as the owner, whoever releases
\* the mutex and whatever runs in between, in programs without timed takes.
THEOREM TakeComesBackOwner == NoTimedTakes => (Spec => []TakeOwns)
<1> SUFFICES ASSUME NoTimedTakes PROVE Spec => []TakeOwns
  OBVIOUS
<1>1. Init => TakersOwn
  BY DEF Init, TakersOwn, NoCall
<1>2. IInv /\ TakersOwn /\ [Next]_vars => TakersOwn'
  BY TakersNext
<1>3. IInv /\ TakersOwn => TakeOwns
  <2> SUFFICES ASSUME IInv, TakersOwn, NEW t \in Thread, cur = t, pc[t] = "back", call[t].fn = "mutex_take"
               PROVE  mtx[call[t].obj].owner = t
    BY DEF TakeOwns
  <2>1. stat[t] = "ready"
    BY DEF IInv, RunningIsReady
  <2>2. QED
    BY <2>1 DEF TakersOwn
<1>4. QED
  BY <1>1, <1>2, <1>3, Invariance, PTL DEF Spec

-----------------------------------------------------------------------------
(***************************************************************************)
(* Priority inheritance.                                                   *)
(***************************************************************************)

NoControl == \A t \in Thread : "control" \notin Calls[t]

\* A thread that owns a mutex neither owns nor waits for another one.
OneEach ==
  \A t \in Thread : \A m, n \in Mutex :
    mtx[m].owner = t /\ m # n => mtx[n].owner # t /\ t \notin ToSet(waitq[n])

\* The waiter that gets the mutex next is the most urgent one.
FirstIsMostUrgent ==
  \A m \in Mutex : \A w \in ToSet(waitq[m]) : prio[Head(waitq[m])] <= prio[w]

\* What PrioRestored needs: the priority saved in a mutex is its owner's own.
OrigIsOwn ==
  \A m \in Mutex : mtx[m].owner # None => mtx[m].orig = InitPrio[mtx[m].owner]

\* What OwnerPromoted needs: rt_thread_startup does not meet an owner.
OwnersStarted ==
  \A m \in Mutex : mtx[m].owner # None => stat[mtx[m].owner] # "init"

LEMMA OwnTypes ==
  ASSUME IInv
  PROVE  /\ prio \in [Thread -> Prio] /\ stat \in [Thread -> Status]
         /\ mtx \in [Mutex -> MutexState] /\ waitq \in [Obj -> Seq(Thread)]
         /\ Mutex \subseteq Obj /\ Sem \subseteq Obj
         /\ \A m \in Mutex : /\ mtx[m].owner \in Thread \cup {None}
                             /\ mtx[m].owner \notin ToSet(waitq[m])
                             /\ mtx[m].owner = None => waitq[m] = <<>>
                             /\ mtx[m].value = 0 => mtx[m].owner # None
                             /\ mtx[m].value > 0 => mtx[m].owner = None
         /\ \A o \in Obj : Once(waitq[o]) /\ \A w \in ToSet(waitq[o]) : w \in Thread /\ stat[w] = "suspend"
<1>1. /\ prio \in [Thread -> Prio] /\ stat \in [Thread -> Status]
      /\ mtx \in [Mutex -> MutexState] /\ waitq \in [Obj -> Seq(Thread)]
      /\ Mutex \subseteq Obj /\ Sem \subseteq Obj
  BY DEF IInv, TypeOK, Obj
<1>2. ASSUME NEW m \in Mutex
      PROVE  /\ mtx[m].owner \in Thread \cup {None} /\ mtx[m].value \in {0, 1}
             /\ mtx[m].owner \notin ToSet(waitq[m])
             /\ mtx[m].owner = None => waitq[m] = <<>>
             /\ mtx[m].value = 1 <=> mtx[m].owner = None
  BY <1>1, <1>2 DEF IInv, MutexOK, MutexState
<1>3. ASSUME NEW o \in Obj
      PROVE  Once(waitq[o]) /\ \A w \in ToSet(waitq[o]) : w \in Thread /\ stat[w] = "suspend"
  BY DEF IInv, WaitersOK
<1>4. QED
  BY <1>1, <1>2, <1>3

\* The steps that leave priorities, owners and saved priorities as they are;
\* wait lists of mutexes only lose members, and no thread is made anew.
Unowned ==
  /\ prio' = prio
  /\ \A m \in Mutex : /\ mtx'[m].owner = mtx[m].owner /\ mtx'[m].orig = mtx[m].orig
                      /\ ToSet(waitq'[m]) \subseteq ToSet(waitq[m])
  /\ \A u \in Thread : stat'[u] = "init" => stat[u] = "init"

\* The first waiter of o is woken.
LEMMA WakeShrinks ==
  ASSUME IInv, NEW o \in Obj, NEW q, waitq[o] # <<>>, WakeFirst(o, q)
  PROVE  /\ \A p \in Obj : ToSet(waitq'[p]) \subseteq ToSet(waitq[p])
         /\ ToSet(waitq'[o]) = ToSet(waitq[o]) \ {Head(waitq[o])}
         /\ \A p \in Obj \ {o} : waitq'[p] = waitq[p]
         /\ \A u \in Thread : stat'[u] = "init" => stat[u] = "init"
         /\ Head(waitq[o]) \in ToSet(waitq[o])
<1>1. waitq[o] \in Seq(Thread) /\ Once(waitq[o])
  BY OwnTypes
<1>2. ToSet(Tail(waitq[o])) = ToSet(waitq[o]) \ {Head(waitq[o])} /\ Head(waitq[o]) \in ToSet(waitq[o])
  BY <1>1, TailOK
<1>3. waitq' = [waitq EXCEPT ![o] = Tail(@)] /\ stat' = [stat EXCEPT ![Head(waitq[o])] = "ready"]
  BY DEF WakeFirst
<1>4. QED
  BY <1>2, <1>3, OwnTypes

\* The running thread t waits for the object o, or for its timer alone.
LEMMA SuspendKeeps ==
  ASSUME IInv, NEW t \in Thread, NEW q, NEW n, Suspend(t, q, n)
  PROVE  \A u \in Thread : stat'[u] = "init" => stat[u] = "init"
BY OwnTypes DEF Suspend

\* Every step but the start of a thread, taking and releasing a mutex.
LEMMA OthersUnowned ==
  ASSUME NoControl, IInv, [Next]_vars,
         \A t, u \in Thread : ~Startup(t, u),
         \A t \in Thread, m \in Mutex :
           ~MutexTakeFree(t, m) /\ ~MutexReleaseLast(t, m) /\ \A n \in Timeouts : ~MutexTakeBlock(t, m, n)
  PROVE  Unowned
<1> USE DEF Unowned, threadVars, ipcVars
<1>1. ASSUME NEW t \in Thread, ThreadStep(t) PROVE Unowned
  <2>1. ASSUME NEW u \in Thread, NEW p \in CtlPrios PROVE ~Control(t, u, p)
    BY DEF Control, Makes, NoControl
  <2>2. CASE Exit(t)
    BY <2>2, OwnTypes DEF Exit
  <2>3. CASE Yield(t) \/ EnterCritical(t) \/ ExitCritical(t)
    BY <2>3 DEF Yield, EnterCritical, ExitCritical
  <2>4. ASSUME NEW n \in Delays, Delay(t, n) PROVE Unowned
    BY <2>4, SuspendKeeps DEF Delay
  <2>5. QED
    BY <1>1, <2>1, <2>2, <2>3, <2>4 DEF ThreadStep
<1>2. ASSUME NEW t \in Thread, SemStep(t) PROVE Unowned
  <2>1. PICK s \in Sem : \/ SemTakeNow(t, s) \/ SemRelease(t, s)
                         \/ \E n \in Timeouts : SemTakeBlock(t, s, n)
    BY <1>2 DEF SemStep
  <2>2. CASE SemTakeNow(t, s)
    BY <2>2 DEF SemTakeNow
  <2>3. CASE SemRelease(t, s)
    <3>1. CASE SemPost(s)
      BY <2>3, <3>1 DEF SemRelease, SemPost
    <3>2. CASE SemHandOff(s)
      BY <2>3, <3>2, WakeShrinks, OwnTypes DEF SemRelease, SemHandOff
    <3>3. QED
      BY <2>3, <3>1, <3>2 DEF SemRelease
  <2>4. ASSUME NEW n \in Timeouts, SemTakeBlock(t, s, n) PROVE Unowned
    <3>1. \A m \in Mutex : waitq'[m] = waitq[m]
      BY <2>4, OwnTypes, ObjectAssumption DEF SemTakeBlock
    <3>2. QED
      BY <2>4, <3>1, SuspendKeeps DEF SemTakeBlock
  <2>5. QED
    BY <2>1, <2>2, <2>3, <2>4
<1>3. ASSUME NEW t \in Thread, MutexStep(t) PROVE Unowned
  <2>1. PICK m \in Mutex : \/ MutexTakeAgain(t, m) \/ MutexTry(t, m)
                           \/ MutexReleaseOther(t, m) \/ MutexReleaseInner(t, m)
    BY <1>3 DEF MutexStep
  <2>2. CASE MutexTry(t, m) \/ MutexReleaseOther(t, m)
    BY <2>2 DEF MutexTry, MutexReleaseOther
  <2>3. CASE MutexTakeAgain(t, m) \/ MutexReleaseInner(t, m)
    <3>1. \A n \in Mutex : mtx'[n].owner = mtx[n].owner /\ mtx'[n].orig = mtx[n].orig
      <4>1. PICK h : mtx' = [mtx EXCEPT ![m].hold = h]
        BY <2>3 DEF MutexTakeAgain, MutexReleaseInner
      <4>2. mtx[m] \in MutexState /\ mtx \in [Mutex -> MutexState]
        BY OwnTypes
      <4>3. mtx'[m].owner = mtx[m].owner /\ mtx'[m].orig = mtx[m].orig
        BY <4>1, <4>2 DEF MutexState
      <4>4. \A n \in Mutex \ {m} : mtx'[n] = mtx[n]
        BY <4>1, <4>2
      <4>5. QED
        BY <4>3, <4>4
    <3>2. QED
      BY <2>3, <3>1 DEF MutexTakeAgain, MutexReleaseInner
  <2>4. QED
    BY <2>1, <2>2, <2>3
<1>4. ASSUME NEW t \in Thread, Schedule(t) \/ Return(t) PROVE Unowned
  BY <1>4 DEF Schedule, Return
<1>5. ASSUME IsrStep PROVE Unowned
  <2>1. CASE TickIsr \/ LeaveIsr
    BY <2>1 DEF TickIsr, LeaveIsr
  <2>2. CASE FireTimer
    <3>1. \A m \in Mutex : ToSet(waitq'[m]) \subseteq ToSet(waitq[m])
      <4>1. ASSUME NEW m \in Mutex PROVE ToSet(Without(waitq[m], Head(timers))) \subseteq ToSet(waitq[m])
        BY WithoutOK, OwnTypes
      <4>2. QED
        BY <2>2, <4>1, OwnTypes DEF FireTimer, Unlinked
    <3>2. QED
      BY <2>2, <3>1, OwnTypes DEF FireTimer
  <2>3. ASSUME NEW s \in IsrSems, SemIsr(s) PROVE Unowned
    <3>1. s \in Obj
      BY ObjectAssumption DEF Obj
    <3>2. CASE SemPost(s)
      BY <2>3, <3>2 DEF SemIsr, SemPost
    <3>3. CASE SemHandOff(s)
      BY <2>3, <3>1, <3>3, WakeShrinks, OwnTypes DEF SemIsr, SemHandOff
    <3>4. QED
      BY <2>3, <3>2, <3>3 DEF SemIsr
  <2>4. QED
    BY <1>5, <2>1, <2>2, <2>3 DEF IsrStep
<1>6. CASE UNCHANGED vars
  BY <1>6 DEF vars
<1>7. QED
  BY <1>1, <1>2, <1>3, <1>4, <1>5, <1>6 DEF Next, ThreadStep, MutexStep

\* What rt_mutex_release does when the owner gives the mutex back.
LEMMA ReleaseLast ==
  ASSUME IInv, NEW t \in Thread, NEW m \in Mutex, MutexReleaseLast(t, m)
  PROVE  /\ mtx[m].owner = t /\ t \notin ToSet(waitq[m]) /\ t # None
         /\ prio' = [prio EXCEPT ![t] = mtx[m].orig]
         /\ \A n \in Mutex \ {m} : mtx'[n] = mtx[n] /\ waitq'[n] = waitq[n]
         /\ \A u \in Thread : stat'[u] = "init" => stat[u] = "init"
         /\ \/ /\ Head(waitq[m]) \in ToSet(waitq[m])
               /\ mtx'[m].owner = Head(waitq[m]) /\ mtx'[m].orig = prio[Head(waitq[m])]
               /\ ToSet(waitq'[m]) \subseteq ToSet(waitq[m])
            \/ /\ mtx'[m].owner = None /\ waitq'[m] = <<>>
<1> DEFINE w == Head(waitq[m])
           q == IF mtx[m].orig # prio[t] THEN Repositioned(t, mtx[m].orig) ELSE rq
<1>1. mtx[m].owner = t /\ prio' = [prio EXCEPT ![t] = mtx[m].orig] /\ t # None
  BY ObjectAssumption DEF MutexReleaseLast
<1>2. CASE waitq[m] # <<>> /\ mtx' = [mtx EXCEPT ![m] = Handed(@, w)] /\ WakeFirst(m, q)
  <2>1. /\ \A p \in Obj : ToSet(waitq'[p]) \subseteq ToSet(waitq[p])
        /\ \A p \in Obj \ {m} : waitq'[p] = waitq[p]
        /\ \A u \in Thread : stat'[u] = "init" => stat[u] = "init"
        /\ w \in ToSet(waitq[m])
    BY <1>2, WakeShrinks, OwnTypes
  <2>2. mtx'[m].owner = w /\ mtx'[m].orig = prio[w] /\ \A n \in Mutex \ {m} : mtx'[n] = mtx[n]
    BY <1>2, OwnTypes DEF Handed
  <2>3. QED
    BY <1>1, <2>1, <2>2, OwnTypes
<1>3. CASE waitq[m] = <<>> /\ mtx' = [mtx EXCEPT ![m] = Freed(@)] /\ UNCHANGED <<stat, waitq>>
  <2>1. mtx'[m].owner = None /\ \A n \in Mutex \ {m} : mtx'[n] = mtx[n]
    BY <1>3, OwnTypes DEF Freed
  <2>2. QED
    BY <1>1, <1>3, <2>1, OwnTypes
<1>4. QED
  BY <1>2, <1>3 DEF MutexReleaseLast

LEMMA TakeFree ==
  ASSUME IInv, NEW t \in Thread, NEW m \in Mutex, MutexTakeFree(t, m)
  PROVE  /\ mtx[m].owner = None /\ waitq[m] = <<>> /\ UNCHANGED <<prio, stat, waitq>>
         /\ mtx'[m].owner = t /\ mtx'[m].orig = prio[t] /\ stat[t] = "ready"
         /\ \A n \in Mutex \ {m} : mtx'[n] = mtx[n]
<1>1. mtx[m].owner = None /\ waitq[m] = <<>>
  BY OwnTypes DEF MutexTakeFree
<1>2. mtx'[m].owner = t /\ mtx'[m].orig = prio[t] /\ \A n \in Mutex \ {m} : mtx'[n] = mtx[n]
  BY OwnTypes DEF MutexTakeFree, Taken
<1>3. QED
  BY <1>1, <1>2, CallerOK DEF MutexTakeFree

LEMMA TakeBlock ==
  ASSUME IInv, NEW t \in Thread, NEW m \in Mutex, NEW n \in Timeouts, MutexTakeBlock(t, m, n)
  PROVE  /\ mtx[m].owner \in Thread /\ mtx[m].owner # t /\ mtx' = mtx
         /\ prio' = IF Promotes(t, mtx[m].owner) THEN [prio EXCEPT ![mtx[m].owner] = prio[t]] ELSE prio
         /\ ToSet(waitq'[m]) = ToSet(waitq[m]) \cup {t}
         /\ \A k \in Mutex \ {m} : waitq'[k] = waitq[k]
         /\ \A u \in Thread : stat'[u] = "init" => stat[u] = "init"
<1>1. /\ mtx[m].owner \in Thread /\ mtx[m].owner # t /\ mtx' = mtx
      /\ prio' = IF Promotes(t, mtx[m].owner) THEN [prio EXCEPT ![mtx[m].owner] = prio[t]] ELSE prio
      /\ waitq' = [waitq EXCEPT ![m] = Append(@, t)]
      /\ Makes(t, "mutex_take")
  BY OwnTypes DEF MutexTakeBlock
<1>2. t \notin ToSet(waitq[m])
  BY <1>1, OwnTypes, CallerOK
<1>3. ToSet(Append(waitq[m], t)) = ToSet(waitq[m]) \cup {t}
  BY <1>2, OwnTypes, AppendOK
<1>4. \A u \in Thread : stat'[u] = "init" => stat[u] = "init"
  BY SuspendKeeps DEF MutexTakeBlock
<1>5. QED
  BY <1>1, <1>3, <1>4, OwnTypes

LEMMA PrioNext ==
  ASSUME NoControl, IInv, OneEach, OneEach', PrioRestored, OrigIsOwn, [Next]_vars
  PROVE  PrioRestored' /\ OrigIsOwn'
<1>0. prio \in [Thread -> Prio] /\ \A m \in Mutex : mtx[m].owner \in Thread \cup {None}
  BY OwnTypes
<1>1. CASE Unowned
  <2>1. prio' = prio /\ \A m \in Mutex : mtx'[m].owner = mtx[m].owner /\ mtx'[m].orig = mtx[m].orig
    BY <1>1 DEF Unowned
  <2>2. QED
    BY <2>1 DEF PrioRestored, OrigIsOwn
<1>2. ASSUME NEW t \in Thread, NEW u \in Thread, Startup(t, u) PROVE PrioRestored' /\ OrigIsOwn'
  BY <1>0, <1>2 DEF Startup, ipcVars, PrioRestored, OrigIsOwn
<1>3. ASSUME NEW t \in Thread, NEW m \in Mutex, MutexTakeFree(t, m) PROVE PrioRestored' /\ OrigIsOwn'
  <2>1. /\ mtx[m].owner = None /\ prio' = prio /\ mtx'[m].owner = t /\ mtx'[m].orig = prio[t]
        /\ \A n \in Mutex \ {m} : mtx'[n] = mtx[n]
    BY <1>3, TakeFree
  <2>2. \A n \in Mutex : mtx[n].owner # t
    BY <2>1, ObjectAssumption DEF OneEach
  <2>3. prio[t] = InitPrio[t]
    BY <2>2 DEF PrioRestored
  <2>4. OrigIsOwn'
    BY <2>1, <2>3 DEF OrigIsOwn
  <2>5. ASSUME NEW u \in Thread, \A n \in Mutex : mtx'[n].owner # u PROVE prio'[u] = InitPrio[u]
    <3>1. \A n \in Mutex : mtx[n].owner # u
      BY <2>1, <2>5, ObjectAssumption
    <3>2. QED
      BY <2>1, <3>1 DEF PrioRestored
  <2>6. QED
    BY <2>4, <2>5 DEF PrioRestored
<1>4. ASSUME NEW t \in Thread, NEW m \in Mutex, NEW n \in Timeouts, MutexTakeBlock(t, m, n)
      PROVE  PrioRestored' /\ OrigIsOwn'
  <2>1. mtx' = mtx /\ \A u \in Thread \ {mtx[m].owner} : prio'[u] = prio[u]
    BY <1>0, <1>4, TakeBlock
  <2>2. QED
    BY <2>1 DEF PrioRestored, OrigIsOwn
<1>5. ASSUME NEW t \in Thread, NEW m \in Mutex, MutexReleaseLast(t, m)
      PROVE  PrioRestored' /\ OrigIsOwn'
  <2> DEFINE w == Head(waitq[m])
  <2>1. /\ mtx[m].owner = t /\ t # None /\ prio' = [prio EXCEPT ![t] = mtx[m].orig]
        /\ \A n \in Mutex \ {m} : mtx'[n] = mtx[n]
        /\ \/ w \in ToSet(waitq[m]) /\ mtx'[m].owner = w /\ mtx'[m].orig = prio[w]
           \/ mtx'[m].owner = None
    BY <1>5, ReleaseLast
  <2>2. prio'[t] = InitPrio[t] /\ \A u \in Thread \ {t} : prio'[u] = prio[u]
    BY <1>0, <2>1 DEF OrigIsOwn
  <2>3. w \in ToSet(waitq[m]) => w \in Thread /\ prio[w] = InitPrio[w]
    <3>1. ASSUME w \in ToSet(waitq[m]) PROVE w \in Thread /\ w # t
      BY <2>1, <3>1, OwnTypes
    <3>2. ASSUME w \in ToSet(waitq[m]), NEW n \in Mutex PROVE mtx[n].owner # w
      BY <2>1, <3>1, <3>2 DEF OneEach
    <3>3. QED
      BY <3>1, <3>2 DEF PrioRestored
  <2> HIDE DEF w
  <2>4. OrigIsOwn'
    BY <2>1, <2>3 DEF OrigIsOwn
  <2>5. ASSUME NEW u \in Thread, \A n \in Mutex : mtx'[n].owner # u PROVE prio'[u] = InitPrio[u]
    <3>1. CASE u = t
      BY <2>2, <3>1
    <3>2. CASE u # t
      <4>1. \A n \in Mutex : mtx[n].owner # u
        BY <2>1, <2>5, <3>2
      <4>2. QED
        BY <2>2, <3>2, <4>1 DEF PrioRestored
    <3>3. QED
      BY <3>1, <3>2
  <2>6. QED
    BY <2>4, <2>5 DEF PrioRestored
<1>6. QED
  BY <1>1, <1>2, <1>3, <1>4, <1>5, OthersUnowned

\* A thread gets its own priority back with the mutex it was promoted for, for
\* any waiters, time-outs and hand-offs, in programs that own or wait for one
\* mutex at a time and do not set priorities (the run nested shows that two
\* are too many).
THEOREM PriorityComesBack == NoControl => (Spec /\ []OneEach => []PrioRestored)
<1> SUFFICES ASSUME NoControl PROVE Spec /\ []OneEach => []PrioRestored
  OBVIOUS
<1>1. Init => PrioRestored /\ OrigIsOwn
  BY DEF Init, InitThreads, PrioRestored, OrigIsOwn, FreeMutex
<1>2. IInv /\ OneEach /\ OneEach' /\ PrioRestored /\ OrigIsOwn /\ [Next]_vars => PrioRestored' /\ OrigIsOwn'
  BY PrioNext
<1>3. QED
  BY <1>1, <1>2, Invariance, PTL DEF Spec

\* With one mutex alone nothing more is needed.
THEOREM OneMutexRestores ==
  NoControl /\ (\A m, n \in Mutex : m = n) => (Spec => []PrioRestored)
<1> SUFFICES ASSUME NoControl, \A m, n \in Mutex : m = n PROVE Spec => []PrioRestored
  OBVIOUS
<1>1. OneEach
  BY DEF OneEach
<1>2. QED
  BY <1>1, PriorityComesBack, PTL

LEMMA PromotedNext ==
  ASSUME NoControl, IInv, OneEach, FirstIsMostUrgent, OwnerPromoted, OwnersStarted, [Next]_vars
  PROVE  OwnerPromoted' /\ OwnersStarted'
<1>0. \A u \in Thread : prio[u] \in Nat
  BY OwnTypes, ThreadAssumption DEF Prio
<1>00. ASSUME NEW n \in Mutex, NEW w \in ToSet(waitq[n])
       PROVE  w \in Thread /\ mtx[n].owner \in Thread /\ stat[w] = "suspend" /\ mtx[n].owner # None
  <2>1. waitq[n] # <<>>
    BY DEF ToSet
  <2>2. QED
    BY <2>1, OwnTypes
<1>1. CASE Unowned
  <2>1. \A n \in Mutex : mtx[n].owner \in Thread \cup {None}
    BY OwnTypes
  <2>2. ASSUME NEW n \in Mutex
        PROVE  /\ \A w \in ToSet(waitq'[n]) : prio'[mtx'[n].owner] <= prio'[w]
               /\ mtx'[n].owner # None => stat'[mtx'[n].owner] # "init"
    <3>1. prio' = prio /\ mtx'[n].owner = mtx[n].owner /\ ToSet(waitq'[n]) \subseteq ToSet(waitq[n])
      BY <1>1 DEF Unowned
    <3>2. \A w \in ToSet(waitq'[n]) : prio'[mtx'[n].owner] <= prio'[w]
      BY <3>1 DEF OwnerPromoted
    <3>3. mtx[n].owner # None => stat[mtx[n].owner] # "init" /\ mtx[n].owner \in Thread
      BY <2>1 DEF OwnersStarted
    <3>4. QED
      BY <1>1, <3>1, <3>2, <3>3 DEF Unowned
  <2>3. QED
    BY <2>2 DEF OwnerPromoted, OwnersStarted
<1>2. ASSUME NEW t \in Thread, NEW u \in Thread, Startup(t, u) PROVE OwnerPromoted' /\ OwnersStarted'
  <2>1. /\ stat[u] = "init" /\ prio' = [prio EXCEPT ![u] = InitPrio[u]]
        /\ stat' = [stat EXCEPT ![u] = "ready"] /\ UNCHANGED <<waitq, mtx>>
    BY <1>2 DEF Startup, ipcVars
  <2>2. ASSUME NEW n \in Mutex, mtx[n].owner # None PROVE mtx[n].owner # u /\ stat'[mtx[n].owner] # "init"
    BY <2>1, <2>2, OwnTypes DEF OwnersStarted
  <2>3. ASSUME NEW n \in Mutex, NEW w \in ToSet(waitq[n]) PROVE prio'[mtx[n].owner] <= prio'[w]
    <3>1. w # u /\ mtx[n].owner # u /\ w \in Thread /\ mtx[n].owner \in Thread
      BY <1>00, <2>1, <2>2
    <3>2. prio'[w] = prio[w] /\ prio'[mtx[n].owner] = prio[mtx[n].owner]
      BY <2>1, <3>1, OwnTypes
    <3>3. QED
      BY <3>2 DEF OwnerPromoted
  <2>4. QED
    BY <2>1, <2>2, <2>3 DEF OwnerPromoted, OwnersStarted
<1>3. ASSUME NEW t \in Thread, NEW m \in Mutex, MutexTakeFree(t, m) PROVE OwnerPromoted' /\ OwnersStarted'
  <2>1. /\ waitq[m] = <<>> /\ UNCHANGED <<prio, stat, waitq>> /\ mtx'[m].owner = t /\ stat[t] = "ready"
        /\ \A n \in Mutex \ {m} : mtx'[n] = mtx[n]
    BY <1>3, TakeFree
  <2>2. ToSet(waitq'[m]) = {}
    BY <2>1 DEF ToSet
  <2>3. OwnerPromoted'
    BY <2>1, <2>2 DEF OwnerPromoted
  <2>4. QED
    BY <2>1, <2>3 DEF OwnersStarted
<1>4. ASSUME NEW t \in Thread, NEW m \in Mutex, NEW k \in Timeouts, MutexTakeBlock(t, m, k)
      PROVE  OwnerPromoted' /\ OwnersStarted'
  <2> DEFINE o == mtx[m].owner
  <2>1. o \in Thread /\ o # t /\ mtx' = mtx
    BY <1>4, TakeBlock
  <2>2. prio' = IF Promotes(t, o) THEN [prio EXCEPT ![o] = prio[t]] ELSE prio
    BY <1>4, TakeBlock
  <2> HIDE DEF o
  <2>3. /\ prio'[o] <= prio[o] /\ prio'[o] <= prio[t] /\ prio'[o] \in Nat
        /\ \A u \in Thread \ {o} : prio'[u] = prio[u]
    <3>1. prio \in [Thread -> Prio]
      BY OwnTypes
    <3>2. CASE Promotes(t, o)
      BY <1>0, <2>1, <2>2, <3>1, <3>2 DEF Promotes
    <3>3. CASE ~Promotes(t, o)
      BY <1>0, <2>1, <2>2, <3>3 DEF Promotes
    <3>4. QED
      BY <3>2, <3>3
  <2> USE DEF o
  <2>4. OwnersStarted'
    <3>1. \A u \in Thread : stat'[u] = "init" => stat[u] = "init"
      BY <1>4, TakeBlock
    <3>2. QED
      BY <2>1, <3>1, OwnTypes DEF OwnersStarted
  <2>5. ASSUME NEW n \in Mutex, NEW w \in ToSet(waitq'[n]) PROVE prio'[mtx[n].owner] <= prio'[w]
    <3>1. CASE n = m /\ w = t
      BY <2>1, <2>3, <3>1
    <3>2. CASE n = m /\ w # t
      <4>1. w \in ToSet(waitq[m]) /\ w # o /\ w \in Thread
        <5>1. w \in ToSet(waitq[m])
          BY <1>4, <2>5, <3>2, TakeBlock
        <5>2. QED
          BY <1>00, <5>1, OwnTypes
      <4>2. prio[o] <= prio[w] /\ prio'[w] = prio[w]
        BY <2>3, <4>1 DEF OwnerPromoted
      <4>3. QED
        BY <1>0, <2>1, <2>3, <3>2, <4>1, <4>2
    <3>3. CASE n # m
      <4>1. w \in ToSet(waitq[n]) /\ w \in Thread /\ mtx[n].owner \in Thread
        BY <1>00, <1>4, <2>5, <3>3, TakeBlock
      <4>2. w # o /\ mtx[n].owner # o
        BY <2>1, <3>3, <4>1 DEF OneEach
      <4>3. QED
        BY <2>3, <4>1, <4>2 DEF OwnerPromoted
    <3>4. QED
      BY <3>1, <3>2, <3>3
  <2>6. QED
    BY <2>1, <2>4, <2>5 DEF OwnerPromoted
<1>5. ASSUME NEW t \in Thread, NEW m \in Mutex, MutexReleaseLast(t, m)
      PROVE  OwnerPromoted' /\ OwnersStarted'
  <2> DEFINE h == Head(waitq[m])
  <2>1. mtx[m].owner = t /\ t \notin ToSet(waitq[m]) /\ \A u \in Thread \ {t} : prio'[u] = prio[u]
    BY <1>5, ReleaseLast, OwnTypes
  <2>2. ASSUME NEW n \in Mutex, n # m, NEW w \in ToSet(waitq'[n]) PROVE prio'[mtx'[n].owner] <= prio'[w]
    <3>1. mtx'[n] = mtx[n] /\ w \in ToSet(waitq[n]) /\ w \in Thread /\ mtx[n].owner \in Thread
      BY <1>00, <1>5, <2>2, ReleaseLast
    <3>2. w # t /\ mtx[n].owner # t
      BY <2>1, <2>2, <3>1 DEF OneEach
    <3>3. prio'[w] = prio[w] /\ prio'[mtx[n].owner] = prio[mtx[n].owner]
      BY <2>1, <3>1, <3>2
    <3>4. QED
      BY <3>1, <3>3 DEF OwnerPromoted
  <2>3. ASSUME NEW n \in Mutex, n # m, mtx'[n].owner # None PROVE stat'[mtx'[n].owner] # "init"
    <3>1. mtx'[n] = mtx[n] /\ \A u \in Thread : stat'[u] = "init" => stat[u] = "init"
      BY <1>5, <2>3, ReleaseLast
    <3>2. QED
      BY <2>3, <3>1, OwnTypes DEF OwnersStarted
  <2>4. CASE h \in ToSet(waitq[m]) /\ mtx'[m].owner = h /\ ToSet(waitq'[m]) \subseteq ToSet(waitq[m])
    <3>1. h \in Thread /\ h # t /\ stat'[h] # "init"
      <4>1. h \in Thread /\ stat[h] = "suspend"
        BY <2>4, <1>00
      <4>2. QED
        BY <1>5, <2>1, <2>4, <4>1, ReleaseLast
    <3>2. ASSUME NEW w \in ToSet(waitq'[m]) PROVE prio'[h] <= prio'[w]
      <4>1. w \in ToSet(waitq[m]) /\ w \in Thread /\ w # t
        BY <1>00, <2>1, <2>4
      <4>2. QED
        BY <2>1, <3>1, <4>1 DEF FirstIsMostUrgent
    <3> HIDE DEF h
    <3>3. QED
      BY <2>2, <2>3, <2>4, <3>1, <3>2 DEF OwnerPromoted, OwnersStarted
  <2>5. CASE mtx'[m].owner = None /\ waitq'[m] = <<>>
    <3>1. ToSet(waitq'[m]) = {}
      BY <2>5 DEF ToSet
    <3>2. QED
      BY <2>2, <2>3, <2>5, <3>1 DEF OwnerPromoted, OwnersStarted
  <2>6. \/ h \in ToSet(waitq[m]) /\ mtx'[m].owner = h /\ ToSet(waitq'[m]) \subseteq ToSet(waitq[m])
        \/ mtx'[m].owner = None /\ waitq'[m] = <<>>
    BY <1>5, ReleaseLast
  <2>7. QED
    BY <2>4, <2>5, <2>6
<1>6. QED
  BY <1>1, <1>2, <1>3, <1>4, <1>5, OthersUnowned

\* No thread waits for an owner less urgent than itself, for any threads and
\* mutexes, as long as a thread owns or waits for one mutex at a time and the
\* waiters of a mutex come in order of their urgency (the run promote shows
\* that the second is needed: rt_mutex_release does not promote the next owner).
THEOREM OwnerStaysPromoted ==
  NoControl => (Spec /\ []OneEach /\ []FirstIsMostUrgent => []OwnerPromoted)
<1> SUFFICES ASSUME NoControl PROVE Spec /\ []OneEach /\ []FirstIsMostUrgent => []OwnerPromoted
  OBVIOUS
<1>1. Init => OwnerPromoted /\ OwnersStarted
  BY ObjectAssumption DEF Init, OwnerPromoted, OwnersStarted, FreeMutex, ToSet, Obj
<1>2. IInv /\ OneEach /\ FirstIsMostUrgent /\ OwnerPromoted /\ OwnersStarted /\ [Next]_vars
        => OwnerPromoted' /\ OwnersStarted'
  BY PromotedNext
<1>3. QED
  BY <1>1, <1>2, Invariance, PTL DEF Spec

-----------------------------------------------------------------------------
\* What NeverEarly needs: while a thread waits for an object, it has no error.
WaitsWithoutError ==
  \A t \in Thread : stat[t] = "suspend" /\ call[t].obj # None => error[t] = "ok"

\* While ticks are to come, the deadline is that many ticks ahead.
Counted ==
  \A t \in Thread : armed[t] /\ left[t] > 0 =>
    timeout[t] = (tick + left[t]) % TickMod /\ left[t] <= TickMod \div 2

\* A running timer is new, or is the one that ran before.
LEMMA CountedStep ==
  ASSUME IInv, Counted, tick' = tick, NEW t,
         \A u \in Thread \ {t} : armed'[u] => armed[u] /\ timeout'[u] = timeout[u] /\ left'[u] = left[u],
         t \in Thread /\ armed'[t] /\ left'[t] > 0
           => timeout'[t] = (tick + left'[t]) % TickMod /\ left'[t] <= TickMod \div 2
  PROVE  Counted'
BY DEF Counted

LEMMA CountedStart ==
  ASSUME IInv, Counted, tick' = tick, NEW t \in Thread, NEW n \in Nat, n <= TickMod \div 2,
         StartTimer(t, n)
  PROVE  Counted'
<1>1. /\ timeout' = [timeout EXCEPT ![t] = (tick + n) % TickMod]
      /\ armed' = [armed EXCEPT ![t] = TRUE] /\ left' = [left EXCEPT ![t] = n]
  BY DEF StartTimer, Deadline
<1>2. timeout \in [Thread -> 0..(TickMod - 1) \cup {NoTick}] /\ armed \in [Thread -> BOOLEAN] /\ left \in [Thread -> Nat]
  BY DEF IInv, TypeOK
<1>3. \A u \in Thread \ {t} : armed'[u] = armed[u] /\ timeout'[u] = timeout[u] /\ left'[u] = left[u]
  BY <1>1, <1>2
<1>4. timeout'[t] = (tick + n) % TickMod /\ left'[t] = n
  BY <1>1, <1>2
<1>5. QED
  BY <1>3, <1>4, CountedStep

LEMMA CountedStop ==
  ASSUME IInv, Counted, tick' = tick, NEW t,
         timeout' = [timeout EXCEPT ![t] = NoTick], left' = [left EXCEPT ![t] = 0],
         armed' = [armed EXCEPT ![t] = FALSE] \/ armed' = armed
  PROVE  Counted'
<1>1. timeout \in [Thread -> 0..(TickMod - 1) \cup {NoTick}] /\ armed \in [Thread -> BOOLEAN] /\ left \in [Thread -> Nat]
  BY DEF IInv, TypeOK
<1>2. \A u \in Thread \ {t} : armed'[u] = armed[u] /\ timeout'[u] = timeout[u] /\ left'[u] = left[u]
  BY <1>1
<1>3. t \in Thread => left'[t] = 0
  BY <1>1
<1>4. QED
  BY <1>2, <1>3, CountedStep

LEMMA CountedWake ==
  ASSUME IInv, Counted, tick' = tick, NEW o, NEW q, WakeFirst(o, q)
  PROVE  Counted'
BY CountedStop DEF WakeFirst, StopTimer

LEMMA CountedSuspend ==
  ASSUME IInv, Counted, tick' = tick, NEW t \in Thread, NEW q,
         NEW n \in Delays \cup Timeouts, Suspend(t, q, n)
  PROVE  Counted'
<1>1. n \in Int /\ n <= TickMod \div 2
  BY TickAssumption
<1>2. CASE n >= 0
  BY <1>1, <1>2, CountedStart DEF Suspend
<1>3. CASE ~ (n >= 0)
  BY <1>3, CountedStop DEF Suspend, StopTimer
<1>4. QED
  BY <1>2, <1>3

LEMMA CountedSame ==
  ASSUME Counted, UNCHANGED <<tick, timeout, armed, left>>
  PROVE  Counted'
BY DEF Counted

LEMMA CountedTick ==
  ASSUME IInv, Counted, TickIsr
  PROVE  Counted'
<1>1. /\ tick \in 0..TickMod - 1 /\ TickMod \in Nat \ {0} /\ left \in [Thread -> Nat]
      /\ tick' = (tick + 1) % TickMod /\ timeout' = timeout /\ armed' = armed
      /\ left' = [t \in Thread |-> IF left[t] > 0 THEN left[t] - 1 ELSE 0]
  BY TickAssumption DEF TickIsr, IInv, TypeOK
<1>2. SUFFICES ASSUME NEW t \in Thread, armed[t], left'[t] > 0
               PROVE  timeout[t] = (tick' + left'[t]) % TickMod /\ left'[t] <= TickMod \div 2
  BY <1>1 DEF Counted
<1> DEFINE k == left[t]
           h == TickMod \div 2
<1>3. k \in Nat /\ k > 0 /\ left'[t] = k - 1
  BY <1>1, <1>2
<1>4. timeout[t] = (tick + k) % TickMod /\ k <= h /\ h \in Int
  BY <1>1, <1>2, <1>3 DEF Counted
<1>5. k \in 1..h
  BY <1>3, <1>4
<1>6. (tick + k) % TickMod = (tick' + (k - 1)) % TickMod
  BY <1>1, <1>5, TickGoesOn
<1> HIDE DEF h
<1>7. k - 1 <= h
  BY <1>3, <1>4
<1>8. QED
  BY <1>3, <1>4, <1>6, <1>7 DEF h

LEMMA CountedNext == IInv /\ Counted /\ [Next]_vars => Counted'
<1> SUFFICES ASSUME IInv, Counted, [Next]_vars PROVE Counted'
  OBVIOUS
<1> USE DEF timerVars
<1>1. ASSUME NEW t \in Thread, ThreadStep(t) PROVE Counted'
  <2>1. ASSUME NEW n \in Delays, Delay(t, n) PROVE Counted'
    BY <2>1, CountedSuspend DEF Delay
  <2>2. CASE Exit(t)
    BY <2>2, CountedStop DEF Exit
  <2>3. CASE \/ \E u \in Thread : Startup(t, u)
             \/ Yield(t) \/ \E u \in Thread, p \in CtlPrios : Control(t, u, p)
             \/ EnterCritical(t) \/ ExitCritical(t)
    BY <2>3, CountedSame DEF Startup, Yield, Control, EnterCritical, ExitCritical
  <2>4. QED
    BY <1>1, <2>1, <2>2, <2>3 DEF ThreadStep
<1>2. ASSUME NEW t \in Thread, NEW s \in Sem, NEW n \in Timeouts, SemTakeBlock(t, s, n) PROVE Counted'
  BY <1>2, CountedSuspend DEF SemTakeBlock
<1>3. ASSUME NEW t \in Thread, NEW s \in Sem,
             SemTakeNow(t, s) \/ SemRelease(t, s) \/ SemIsr(s)
      PROVE  Counted'
  BY <1>3, CountedSame, CountedWake DEF SemTakeNow, SemRelease, SemIsr, SemPost, SemHandOff
<1>4. ASSUME NEW t \in Thread, NEW m \in Mutex, NEW n \in Timeouts, MutexTakeBlock(t, m, n) PROVE Counted'
  BY <1>4, CountedSuspend DEF MutexTakeBlock
<1>5. ASSUME NEW t \in Thread, NEW m \in Mutex,
             \/ MutexTakeAgain(t, m) \/ MutexTakeFree(t, m) \/ MutexTry(t, m)
             \/ MutexReleaseOther(t, m) \/ MutexReleaseInner(t, m)
      PROVE  Counted'
  BY <1>5, CountedSame DEF MutexTakeAgain, MutexTakeFree, MutexTry, MutexReleaseOther, MutexReleaseInner
<1>6. ASSUME NEW t \in Thread, NEW m \in Mutex, MutexReleaseLast(t, m) PROVE Counted'
  BY <1>6, CountedSame, CountedWake DEF MutexReleaseLast
<1>7. ASSUME NEW t \in Thread, Schedule(t) \/ Return(t) PROVE Counted'
  BY <1>7, CountedSame DEF Schedule, Return
<1>8. CASE TickIsr
  BY <1>8, CountedTick
<1>9. CASE FireTimer
  BY <1>9, CountedStop DEF FireTimer
<1>10. CASE LeaveIsr \/ UNCHANGED vars
  BY <1>10, CountedSame DEF LeaveIsr, vars
<1>11. ASSUME NEW s \in IsrSems, SemIsr(s) PROVE Counted'
  BY <1>3, <1>11, ThreadAssumption, ObjectAssumption
<1>12. QED
  BY <1>1, <1>2, <1>3, <1>4, <1>5, <1>6, <1>7, <1>8, <1>9, <1>10, <1>11 DEF Next, SemStep, MutexStep, IsrStep

\* What a step does to the timers: one that ends in a time-out has no ticks left.
Due1 == \A t \in Thread : error'[t] = "timeout" /\ armed[t] /\ ~armed'[t] => left[t] = 0

LEMMA NeverEarlyCall ==
  ASSUME IInv, WaitsWithoutError, NEW t \in Thread, NEW fn, NEW o, Makes(t, fn),
         ToSchedule(t, fn, o),
         \A u \in Thread \ {t} : /\ stat'[u] = "suspend" => stat[u] = "suspend"
                                 /\ error'[u] = error[u] /\ armed'[u] = armed[u],
         stat'[t] # "suspend" \/ o = None \/ error'[t] = "ok"
  PROVE  WaitsWithoutError' /\ Due1
<1>1. t = cur /\ stat[t] = "ready" /\ ~armed[t]
  BY CallerOK DEF IInv, TimersOK
<1>2. \A u \in Thread \ {t} : call'[u] = call[u]
  BY DEF ToSchedule, IInv, TypeOK
<1>3. call'[t].obj = o
  BY DEF ToSchedule, IInv, TypeOK
<1>4. WaitsWithoutError'
  BY <1>2, <1>3 DEF WaitsWithoutError
<1>5. Due1
  BY <1>1 DEF Due1
<1>6. QED
  BY <1>4, <1>5

\* A waiter is woken: its timer stops, and it has no error.
LEMMA NeverEarlyWake ==
  ASSUME IInv, WaitsWithoutError, NEW o \in Obj, waitq[o] # <<>>, NEW q, WakeFirst(o, q),
         error' = error, \A u \in Thread : stat[u] = "suspend" => call'[u] = call[u]
  PROVE  WaitsWithoutError' /\ Due1
<1> DEFINE w == Head(waitq[o])
<1>1. /\ w \in Thread /\ stat[w] = "suspend" /\ call[w].obj = o
      /\ stat' = [stat EXCEPT ![w] = "ready"]
      /\ armed' = [armed EXCEPT ![w] = FALSE]
  BY WokenOK
<1> HIDE DEF w
<1>2. error[w] = "ok"
  BY <1>1, ObjectAssumption DEF WaitsWithoutError
<1>3. stat \in [Thread -> Status] /\ armed \in [Thread -> BOOLEAN]
  BY DEF IInv, TypeOK
<1>4. WaitsWithoutError'
  BY <1>1, <1>3 DEF WaitsWithoutError
<1>5. Due1
  BY <1>1, <1>2, <1>3 DEF Due1
<1>6. QED
  BY <1>4, <1>5

LEMMA NeverEarlyNext ==
  ASSUME IInv, WaitsWithoutError, Counted, [Next]_vars
  PROVE  WaitsWithoutError' /\ Due1
<1>0. /\ stat \in [Thread -> Status] /\ armed \in [Thread -> BOOLEAN]
      /\ error \in [Thread -> {"ok", "timeout", "error"}] /\ call \in [Thread -> Calling]
  BY DEF IInv, TypeOK
<1> USE DEF threadVars, timerVars
<1>1. ASSUME NEW t \in Thread, ThreadStep(t) PROVE WaitsWithoutError' /\ Due1
  <2>1. ASSUME NEW u \in Thread, Startup(t, u) PROVE WaitsWithoutError' /\ Due1
    BY <1>0, <2>1, NeverEarlyCall DEF Startup
  <2>2. CASE Exit(t)
    BY <1>0, <2>2, NeverEarlyCall DEF Exit
  <2>3. CASE Yield(t)
    BY <2>3, NeverEarlyCall DEF Yield
  <2>4. ASSUME NEW n \in Delays, Delay(t, n) PROVE WaitsWithoutError' /\ Due1
    BY <1>0, <2>4, NeverEarlyCall, TickAssumption DEF Delay, Suspend, StartTimer
  <2>5. ASSUME NEW u \in Thread, NEW p \in CtlPrios, Control(t, u, p) PROVE WaitsWithoutError' /\ Due1
    BY <2>5 DEF Control, Returns, WaitsWithoutError, Due1, flowVars
  <2>6. CASE EnterCritical(t)
    BY <2>6 DEF EnterCritical, Returns, WaitsWithoutError, Due1, flowVars
  <2>7. CASE ExitCritical(t)
    BY <2>7, NeverEarlyCall DEF ExitCritical
  <2>8. QED
    BY <1>1, <2>1, <2>2, <2>3, <2>4, <2>5, <2>6, <2>7 DEF ThreadStep
<1>2. ASSUME NEW t \in Thread, SemStep(t) PROVE WaitsWithoutError' /\ Due1
  <2>1. PICK s \in Sem : \/ SemTakeNow(t, s) \/ SemRelease(t, s)
                         \/ \E n \in Timeouts : SemTakeBlock(t, s, n)
    BY <1>2 DEF SemStep
  <2>2. CASE SemTakeNow(t, s) \/ (SemPost(s) /\ Returns /\ SemRelease(t, s))
    BY <2>2 DEF SemTakeNow, SemPost, SemRelease, Returns, WaitsWithoutError, Due1, flowVars
  <2>3. CASE SemHandOff(s) /\ ToSchedule(t, "sem_release", s) /\ SemRelease(t, s)
    <3>1. stat[t] = "ready"
      BY <2>3, CallerOK DEF SemRelease
    <3>2. \A u \in Thread : stat[u] = "suspend" => call'[u] = call[u]
      BY <1>0, <2>3, <3>1 DEF ToSchedule
    <3>3. QED
      BY <2>3, <3>2, NeverEarlyWake DEF SemHandOff, SemRelease, Obj
  <2>4. ASSUME NEW n \in Timeouts, SemTakeBlock(t, s, n) PROVE WaitsWithoutError' /\ Due1
    BY <1>0, <2>4, NeverEarlyCall, TickAssumption DEF SemTakeBlock, Suspend, StartTimer, StopTimer
  <2>5. QED
    BY <2>1, <2>2, <2>3, <2>4 DEF SemRelease
<1>3. ASSUME NEW t \in Thread, MutexStep(t) PROVE WaitsWithoutError' /\ Due1
  <2>1. PICK m \in Mutex :
          \/ MutexTakeAgain(t, m) \/ MutexTakeFree(t, m) \/ MutexTry(t, m)
          \/ \E n \in Timeouts : MutexTakeBlock(t, m, n)
          \/ MutexReleaseOther(t, m) \/ MutexReleaseInner(t, m)
          \/ MutexReleaseLast(t, m)
    BY <1>3 DEF MutexStep
  <2>2. CASE \/ MutexTakeAgain(t, m) \/ MutexTakeFree(t, m) \/ MutexTry(t, m)
             \/ MutexReleaseOther(t, m) \/ MutexReleaseInner(t, m)
    <3>1. stat[t] = "ready" /\ ~armed[t]
      BY <2>2, CallerOK DEF MutexTakeAgain, MutexTakeFree, MutexTry, MutexReleaseOther, MutexReleaseInner,
                            IInv, TimersOK
    <3>2. UNCHANGED <<stat, armed, call>> /\ \A u \in Thread \ {t} : error'[u] = error[u]
      BY <1>0, <2>2 DEF MutexTakeAgain, MutexTakeFree, MutexTry, MutexReleaseOther, MutexReleaseInner,
                        Returns, flowVars
    <3>3. QED
      BY <3>1, <3>2 DEF WaitsWithoutError, Due1
  <2>3. ASSUME NEW n \in Timeouts, MutexTakeBlock(t, m, n) PROVE WaitsWithoutError' /\ Due1
    BY <1>0, <2>3, NeverEarlyCall, TickAssumption DEF MutexTakeBlock, Suspend, StartTimer, StopTimer
  <2>4. CASE MutexReleaseLast(t, m)
    <3> DEFINE q == IF mtx[m].orig # prio[t] THEN Repositioned(t, mtx[m].orig) ELSE rq
    <3>1. stat[t] = "ready" /\ error' = error
      BY <2>4, CallerOK DEF MutexReleaseLast
    <3>2. CASE waitq[m] # <<>> /\ WakeFirst(m, q) /\ ToSchedule(t, "mutex_release", m)
      <4> HIDE DEF q
      <4>1. \A u \in Thread : stat[u] = "suspend" => call'[u] = call[u]
        BY <1>0, <3>1, <3>2 DEF ToSchedule
      <4>2. QED
        BY <3>1, <3>2, <4>1, NeverEarlyWake DEF Obj
    <3>3. CASE Returns /\ UNCHANGED <<stat, timerVars, waitq>>
      BY <3>1, <3>3 DEF Returns, WaitsWithoutError, Due1, flowVars
    <3>4. QED
      BY <2>4, <3>2, <3>3 DEF MutexReleaseLast
  <2>5. QED
    BY <2>1, <2>2, <2>3, <2>4
<1>4. ASSUME NEW t \in Thread, Schedule(t) \/ Return(t) PROVE WaitsWithoutError' /\ Due1
  BY <1>0, <1>4 DEF Schedule, Return, NoCall, WaitsWithoutError, Due1
<1>5. ASSUME IsrStep PROVE WaitsWithoutError' /\ Due1
  <2>1. CASE TickIsr \/ LeaveIsr
    BY <2>1 DEF TickIsr, LeaveIsr, WaitsWithoutError, Due1, flowVars
  <2>2. CASE FireTimer
    <3> DEFINE t == Head(timers)
    <3>1. \A u \in Thread \ {t} : stat'[u] = stat[u] /\ armed'[u] = armed[u] /\ error'[u] = error[u]
      BY <1>0, <2>2 DEF FireTimer
    <3>2. t \in Thread => stat'[t] = "ready"
      BY <1>0, <2>2 DEF FireTimer
    <3>3. t \in Thread => left[t] = 0
      <4>1. Due(tick, timeout[t], TickMod) /\ timers # <<>>
        BY <2>2 DEF FireTimer, HeadDue
      <4>2. timers \in Seq(Thread)
        BY DEF IInv, TypeOK
      <4>3. t \in Thread /\ t \in ToSet(timers)
        BY <4>1, <4>2, TailOK DEF IInv, TimersOK
      <4>4. armed[t] /\ left[t] \in Nat /\ tick \in 0..TickMod - 1 /\ TickMod \in Nat \ {0}
        BY <4>3, TickAssumption DEF IInv, TimersOK, TypeOK
      <4> HIDE DEF t
      <4>5. ASSUME left[t] > 0 PROVE FALSE
        <5> DEFINE k == left[t]
                   h == TickMod \div 2
        <5>1. timeout[t] = (tick + k) % TickMod /\ k <= h /\ h \in Int
          BY <4>3, <4>4, <4>5 DEF Counted
        <5>2. k \in 1..h
          BY <4>4, <4>5, <5>1
        <5>3. QED
          BY <4>1, <4>4, <5>1, <5>2, DueIsOver
      <4>6. QED
        BY <4>4, <4>5
    <3>4. call' = call
      BY <2>2 DEF FireTimer, flowVars
    <3> HIDE DEF t
    <3>5. QED
      BY <3>1, <3>2, <3>3, <3>4 DEF WaitsWithoutError, Due1
  <2>3. ASSUME NEW s \in IsrSems, SemIsr(s) PROVE WaitsWithoutError' /\ Due1
    <3>1. s \in Obj /\ error' = error /\ call' = call
      BY <2>3, ObjectAssumption DEF SemIsr, Obj, flowVars
    <3>2. CASE SemPost(s)
      BY <3>1, <3>2 DEF SemPost, WaitsWithoutError, Due1
    <3>3. CASE SemHandOff(s)
      BY <3>1, <3>3, NeverEarlyWake DEF SemHandOff
    <3>4. QED
      BY <2>3, <3>2, <3>3 DEF SemIsr
  <2>4. QED
    BY <1>5, <2>1, <2>2, <2>3 DEF IsrStep
<1>6. CASE UNCHANGED vars
  BY <1>6 DEF vars, WaitsWithoutError, Due1, flowVars
<1>7. QED
  BY <1>1, <1>2, <1>3, <1>4, <1>5, <1>6 DEF Next

\* rt_timer_check ends no delay and no wait before every tick of it has been
\* counted, for every range of rt_tick_t and wherever it wraps around: the
\* deadline computed at the call and the comparison in tick arithmetic agree with
\* the count for times of up to half the range.
THEOREM TimeoutsNeverEarly == Spec => NeverEarly
<1>1. Init => WaitsWithoutError /\ Counted
  BY DEF Init, InitThreads, WaitsWithoutError, Counted, NoCall
<1>2. IInv /\ WaitsWithoutError /\ Counted /\ [Next]_vars => WaitsWithoutError' /\ Counted'
  BY NeverEarlyNext, CountedNext
<1>3. IInv /\ WaitsWithoutError /\ Counted /\ [Next]_vars
        => [\A t \in Thread : error'[t] = "timeout" /\ armed[t] /\ ~armed'[t] => left[t] = 0]_vars
  BY NeverEarlyNext DEF Due1
<1>4. QED
  BY <1>1, <1>2, <1>3, Invariance, PTL DEF Spec, NeverEarly
-----------------------------------------------------------------------------
(***************************************************************************)
(* The semaphores keep the promise of SemPromise.                          *)
(***************************************************************************)

\* A thread in rt_sem_take is told of success or of a timeout, and only such a
\* thread is suspended on a semaphore; one that runs its program is in no call.
SemTakers ==
  /\ \A t \in Thread : pc[t] = "run" => call[t] = NoCall
  /\ \A t \in Thread : call[t].fn = "sem_take" =>
       /\ call[t].obj \in Sem
       /\ stat[t] \in {"ready", "suspend"} /\ error[t] \in {"ok", "timeout"}
  /\ \A t \in Thread : stat[t] = "suspend" /\ call[t].obj \in Sem => call[t].fn = "sem_take"

\* What a caller sees of the semaphores does not change, and SemTakers holds on.
SemStutters == SemTakers' /\ UNCHANGED Promise!semVars

LEMMA NoCallNames == NoCall.fn = "none" /\ NoCall.obj = None /\ "none" # "sem_take"
BY DEF NoCall

\* A step of t that neither comes from rt_sem_take nor goes into it, and does
\* not touch the threads that are inside it.
LEMMA SemFrame ==
  ASSUME IInv, SemTakers, NEW t \in Thread,
         \A u \in Thread \ {t} :
           /\ call'[u] = call[u] /\ pc'[u] = pc[u]
           /\ stat'[u] = "suspend" => stat[u] = "suspend"
           /\ call[u].fn = "sem_take" => stat'[u] = stat[u] /\ error'[u] = error[u],
         call[t].fn # "sem_take", call'[t].fn # "sem_take",
         pc'[t] = "run" => call'[t] = NoCall,
         stat'[t] = "suspend" => call'[t].obj \notin Sem,
         \A s \in Sem : waitq'[s] = waitq[s], value' = value
  PROVE  SemStutters
<1>1. SemTakers'
  BY DEF SemTakers
<1>2. \A s \in Sem, e \in {"ok", "timeout"}, u \in Thread : Inside(u, s, e)' = Inside(u, s, e)
  BY Zenon DEF Inside
<1>3. QED
  BY <1>1, <1>2 DEF SemStutters, Promise!semVars

\* The same for a call that goes on to rt_schedule.
LEMMA SemFrameCall ==
  ASSUME IInv, SemTakers, NEW t \in Thread, NEW fn, NEW o, fn # "sem_take",
         Makes(t, fn), ToSchedule(t, fn, o),
         \A u \in Thread \ {t} :
           /\ stat'[u] = "suspend" => stat[u] = "suspend"
           /\ call[u].fn = "sem_take" => stat'[u] = stat[u] /\ error'[u] = error[u],
         stat'[t] = "suspend" => o \notin Sem,
         \A s \in Sem : waitq'[s] = waitq[s], value' = value
  PROVE  SemStutters
<1>1. /\ pc' = [pc EXCEPT ![t] = "sched"]
      /\ call' = [call EXCEPT ![t] = [fn |-> fn, obj |-> o, level |-> masked[t]]]
  BY DEF ToSchedule
<1>2. pc \in [Thread -> {"run", "sched", "back"}] /\ call \in [Thread -> Calling]
  BY DEF IInv, TypeOK
<1>3. pc'[t] = "sched" /\ call'[t].fn = fn /\ call'[t].obj = o
  BY <1>1, <1>2
<1>4. \A u \in Thread \ {t} : pc'[u] = pc[u] /\ call'[u] = call[u]
  BY <1>1, <1>2
<1>5. call[t].fn # "sem_take"
  BY DEF Makes, SemTakers, NoCall
<1>6. QED
  BY <1>3, <1>4, <1>5, SemFrame

\* The same for a call that returns at once.
LEMMA SemFrameReturns ==
  ASSUME IInv, SemTakers, NEW t \in Thread, NEW fn, Makes(t, fn), Returns, stat' = stat,
         \A u \in Thread \ {t} : error'[u] = error[u],
         waitq' = waitq, value' = value
  PROVE  SemStutters
<1>1. pc' = pc /\ call' = call
  BY DEF Returns, flowVars
<1>2. call[t] = NoCall /\ pc[t] = "run"
  BY DEF Makes, SemTakers
<1>3. stat[t] = "ready"
  BY CallerOK
<1>4. call[t].fn # "sem_take" /\ call'[t].fn # "sem_take" /\ stat'[t] # "suspend"
  BY <1>1, <1>2, <1>3, NoCallNames
<1>5. \A u \in Thread \ {t} :
        /\ call'[u] = call[u] /\ pc'[u] = pc[u]
        /\ stat'[u] = "suspend" => stat[u] = "suspend"
        /\ call[u].fn = "sem_take" => stat'[u] = stat[u] /\ error'[u] = error[u]
  BY <1>1
<1>6. \A s \in Sem : waitq'[s] = waitq[s]
  OBVIOUS
<1>7. call'[t] = NoCall
  BY <1>1, <1>2
<1>8. QED
  BY <1>4, <1>5, <1>6, <1>7, SemFrame

LEMMA SemThreadStep ==
  ASSUME IInv, SemTakers, NEW t \in Thread, ThreadStep(t)
  PROVE  SemStutters
<1>0. /\ stat \in [Thread -> Status] /\ error \in [Thread -> {"ok", "timeout", "error"}]
  BY DEF IInv, TypeOK
<1>n. None \notin Sem
  BY ObjectAssumption DEF Obj
<1> USE DEF threadVars, ipcVars
<1>1. ASSUME NEW u \in Thread, Startup(t, u) PROVE SemStutters
  <2>1. call[u].fn # "sem_take"
    BY <1>1 DEF Startup, SemTakers
  <2>2. \A x \in Thread \ {u} : stat'[x] = stat[x]
    BY <1>0, <1>1 DEF Startup
  <2>3. stat'[u] = "ready"
    BY <1>0, <1>1 DEF Startup
  <2>4. Makes(t, "startup") /\ ToSchedule(t, "startup", None) /\ error' = error /\ waitq' = waitq /\ value' = value
    BY <1>1 DEF Startup
  <2>5. QED
    BY <1>n, <2>1, <2>2, <2>3, <2>4, SemFrameCall
<1>2. CASE Exit(t)
  BY <1>0, <1>n, <1>2, SemFrameCall DEF Exit
<1>3. CASE Yield(t)
  BY <1>n, <1>3, SemFrameCall DEF Yield
<1>4. ASSUME NEW n \in Delays, Delay(t, n) PROVE SemStutters
  BY <1>0, <1>n, <1>4, SemFrameCall DEF Delay, Suspend
<1>5. ASSUME NEW u \in Thread, NEW p \in CtlPrios, Control(t, u, p) PROVE SemStutters
  BY <1>5, SemFrameReturns DEF Control
<1>6. CASE EnterCritical(t)
  BY <1>6, SemFrameReturns DEF EnterCritical
<1>7. CASE ExitCritical(t)
  BY <1>n, <1>7, SemFrameCall DEF ExitCritical
<1>8. QED
  BY <1>1, <1>2, <1>3, <1>4, <1>5, <1>6, <1>7 DEF ThreadStep

LEMMA SemMutexStep ==
  ASSUME IInv, SemTakers, NEW t \in Thread, MutexStep(t)
  PROVE  SemStutters
<1>0. /\ stat \in [Thread -> Status] /\ error \in [Thread -> {"ok", "timeout", "error"}]
      /\ waitq \in [Obj -> Seq(Thread)]
  BY DEF IInv, TypeOK
<1> USE DEF threadVars, ipcVars
<1>1. PICK m \in Mutex :
        \/ MutexTakeAgain(t, m) \/ MutexTakeFree(t, m) \/ MutexTry(t, m)
        \/ \E n \in Timeouts : MutexTakeBlock(t, m, n)
        \/ MutexReleaseOther(t, m) \/ MutexReleaseInner(t, m)
        \/ MutexReleaseLast(t, m)
  BY DEF MutexStep
<1>2. m \in Obj /\ m \notin Sem /\ Sem \subseteq Obj
  BY ObjectAssumption DEF Obj
<1>3. CASE \/ MutexTakeAgain(t, m) \/ MutexTakeFree(t, m) \/ MutexTry(t, m)
           \/ MutexReleaseOther(t, m) \/ MutexReleaseInner(t, m)
  <2>1. PICK fn \in CallName : Makes(t, fn)
    BY <1>3 DEF MutexTakeAgain, MutexTakeFree, MutexTry, MutexReleaseOther, MutexReleaseInner, CallName
  <2>2. Returns /\ UNCHANGED <<stat, waitq, value>> /\ \A u \in Thread \ {t} : error'[u] = error[u]
    BY <1>0, <1>3 DEF MutexTakeAgain, MutexTakeFree, MutexTry, MutexReleaseOther, MutexReleaseInner
  <2>3. QED
    BY <2>1, <2>2, SemFrameReturns
<1>4. ASSUME NEW n \in Timeouts, MutexTakeBlock(t, m, n) PROVE SemStutters
  <2>1. /\ Makes(t, "mutex_take") /\ ToSchedule(t, "mutex_take", m) /\ value' = value
        /\ stat' = [stat EXCEPT ![t] = "suspend"] /\ error' = [error EXCEPT ![t] = "ok"]
        /\ waitq' = [waitq EXCEPT ![m] = Append(@, t)]
    BY <1>4 DEF MutexTakeBlock, Suspend
  <2>2. \A u \in Thread \ {t} : stat'[u] = stat[u] /\ error'[u] = error[u]
    BY <1>0, <2>1
  <2>3. \A s \in Sem : waitq'[s] = waitq[s]
    BY <1>0, <1>2, <2>1
  <2>4. QED
    BY <1>2, <2>1, <2>2, <2>3, SemFrameCall
<1>5. CASE MutexReleaseLast(t, m)
  <2> DEFINE q == IF mtx[m].orig # prio[t] THEN Repositioned(t, mtx[m].orig) ELSE rq
             w == Head(waitq[m])
  <2>1. Makes(t, "mutex_release") /\ error' = error /\ value' = value
    BY <1>5 DEF MutexReleaseLast
  <2>2. CASE waitq[m] # <<>> /\ WakeFirst(m, q) /\ ToSchedule(t, "mutex_release", m)
    <3>1. /\ w \in Thread /\ call[w].obj = m
          /\ stat' = [stat EXCEPT ![w] = "ready"]
      BY <1>2, <2>2, WokenOK
    <3>2. waitq' = [waitq EXCEPT ![m] = Tail(@)]
      BY <2>2 DEF WakeFirst
    <3> HIDE DEF q, w
    <3>3. call[w].fn # "sem_take"
      BY <1>2, <3>1 DEF SemTakers
    <3>4. \A u \in Thread : stat'[u] = "suspend" => stat[u] = "suspend"
      BY <1>0, <3>1
    <3>5. \A u \in Thread : call[u].fn = "sem_take" => stat'[u] = stat[u]
      BY <1>0, <3>1, <3>3
    <3>6. \A s \in Sem : waitq'[s] = waitq[s]
      BY <1>0, <1>2, <3>2
    <3>7. QED
      BY <1>2, <2>1, <2>2, <3>4, <3>5, <3>6, SemFrameCall
  <2>3. CASE Returns /\ UNCHANGED <<stat, timerVars, waitq>>
    BY <2>1, <2>3, SemFrameReturns
  <2>4. QED
    BY <1>5, <2>2, <2>3 DEF MutexReleaseLast
<1>6. QED
  BY <1>1, <1>3, <1>4, <1>5

\* What a semaphore's callers see of a step is one of SemPromise.
SemStepOK == SemTakers' /\ Promise!Next

\* rt_sem_take of a token that is there, and rt_sem_release without a waiter.
LEMMA SemQuickOK ==
  ASSUME IInv, SemTakers, NEW s \in Sem, UNCHANGED <<stat, error, call, pc, waitq>>,
         \/ value[s] > 0 /\ value' = [value EXCEPT ![s] = @ - 1]
         \/ waitq[s] = <<>> /\ value' = [value EXCEPT ![s] = @ + 1]
  PROVE  SemStepOK
<1>1. SemTakers'
  BY DEF SemTakers
<1>2. \A x \in Sem, e \in {"ok", "timeout"}, u \in Thread : Inside(u, x, e)' = Inside(u, x, e)
  BY Zenon DEF Inside
<1>3. Promise!Take(s) \/ Promise!Release(s)
  BY <1>2 DEF Promise!Take, Promise!Release
<1>4. QED
  BY <1>1, <1>3 DEF SemStepOK, Promise!Next

\* The caller waits.
LEMMA SemWaits ==
  ASSUME IInv, SemTakers, NEW t \in Thread, NEW s \in Sem, NEW n \in Timeouts, SemTakeBlock(t, s, n)
  PROVE  SemStepOK
<1>0. /\ stat \in [Thread -> Status] /\ error \in [Thread -> {"ok", "timeout", "error"}]
      /\ waitq \in [Obj -> Seq(Thread)] /\ s \in Obj /\ Sem \subseteq Obj
      /\ pc \in [Thread -> {"run", "sched", "back"}] /\ call \in [Thread -> Calling]
  BY DEF IInv, TypeOK, Obj
<1>1. /\ stat' = [stat EXCEPT ![t] = "suspend"] /\ error' = [error EXCEPT ![t] = "ok"]
      /\ pc' = [pc EXCEPT ![t] = "sched"]
      /\ call' = [call EXCEPT ![t] = [fn |-> "sem_take", obj |-> s, level |-> masked[t]]]
      /\ waitq' = [waitq EXCEPT ![s] = Append(@, t)] /\ value' = value /\ value[s] = 0
  BY DEF SemTakeBlock, Suspend, ToSchedule
<1>2. stat[t] = "ready" /\ call[t].fn = "none"
  BY CallerOK DEF SemTakeBlock, SemTakers, NoCall
<1>3. \A u \in Thread \ {t} : stat'[u] = stat[u] /\ error'[u] = error[u] /\ pc'[u] = pc[u] /\ call'[u] = call[u]
  BY <1>0, <1>1
<1>4. stat'[t] = "suspend" /\ error'[t] = "ok" /\ pc'[t] = "sched" /\ call'[t].fn = "sem_take" /\ call'[t].obj = s
  BY <1>0, <1>1
<1>5. SemTakers'
  BY <1>3, <1>4 DEF SemTakers
<1>6. \A x \in Sem, e \in {"ok", "timeout"}, u \in Thread : Inside(u, x, e)' = Inside(u, x, e)
  BY <1>2, <1>3, <1>4 DEF Inside
<1>7. \A x \in Sem : t \notin ToSet(waitq[x]) /\ ~Inside(t, x, "ok") /\ ~Inside(t, x, "timeout")
  BY <1>0, <1>2 DEF Inside, IInv, WaitersOK
<1>8. Promise!Outside(t)
  <2>1. \A x \in Sem :
          /\ t \notin ToSet([y \in Sem |-> waitq[y]][x])
          /\ t \notin [y \in Sem |-> {u \in Thread : Inside(u, y, "ok")}][x]
          /\ t \notin [y \in Sem |-> {u \in Thread : Inside(u, y, "timeout")}][x]
    BY <1>7
  <2>2. QED
    BY <2>1 DEF Promise!Outside, Promise!ToSet, ToSet
<1>9. Promise!Wait(t, s)
  BY <1>0, <1>1, <1>6, <1>8 DEF Promise!Wait
<1>10. QED
  BY <1>5, <1>9 DEF SemStepOK, Promise!Next

\* A token is handed to the first waiter, by a thread or by a handler.
LEMMA SemGrants ==
  ASSUME IInv, SemTakers, WaitsWithoutError, NEW t \in Thread, NEW s \in Sem, SemHandOff(s), UNCHANGED error,
         stat[t] = "ready",
         \/ UNCHANGED <<pc, call>>
         \/ Makes(t, "sem_release") /\ ToSchedule(t, "sem_release", s)
  PROVE  SemStepOK
<1> DEFINE w == Head(waitq[s])
<1>0. /\ stat \in [Thread -> Status] /\ waitq \in [Obj -> Seq(Thread)] /\ s \in Obj /\ Sem \subseteq Obj
      /\ pc \in [Thread -> {"run", "sched", "back"}] /\ call \in [Thread -> Calling]
  BY DEF IInv, TypeOK, Obj
<1>1. waitq[s] # <<>> /\ WakeFirst(s, rq) /\ value' = value
  BY DEF SemHandOff
<1>2. /\ w \in Thread /\ stat[w] = "suspend" /\ call[w].obj = s
      /\ stat' = [stat EXCEPT ![w] = "ready"]
  BY <1>0, <1>1, WokenOK
<1>3. waitq' = [waitq EXCEPT ![s] = Tail(@)]
  BY <1>1 DEF WakeFirst
<1>4. call[w].fn = "sem_take" /\ error[w] = "ok" /\ w # t
  BY <1>2, ObjectAssumption DEF SemTakers, WaitsWithoutError, Obj
<1> HIDE DEF w
<1>5. /\ \A u \in Thread \ {t} : pc'[u] = pc[u] /\ call'[u] = call[u]
      /\ call[t].fn # "sem_take" => call'[t].fn # "sem_take"
      /\ UNCHANGED <<pc[t], call[t]>> \/ (pc'[t] # "run" /\ call[t].fn # "sem_take" /\ call'[t].fn # "sem_take")
  <2>1. CASE UNCHANGED <<pc, call>>
    BY <2>1
  <2>2. CASE Makes(t, "sem_release") /\ ToSchedule(t, "sem_release", s)
    <3>1. /\ pc' = [pc EXCEPT ![t] = "sched"]
          /\ call' = [call EXCEPT ![t] = [fn |-> "sem_release", obj |-> s, level |-> masked[t]]]
      BY <2>2 DEF ToSchedule
    <3>2. call[t].fn # "sem_take"
      BY <2>2 DEF Makes, SemTakers, NoCall
    <3>3. QED
      BY <1>0, <3>1, <3>2
  <2>3. QED
    BY <2>1, <2>2
<1>6. /\ \A u \in Thread \ {w} : stat'[u] = stat[u]
      /\ stat'[w] = "ready"
  BY <1>0, <1>2
<1>7. SemTakers'
  BY <1>4, <1>5, <1>6 DEF SemTakers
<1>8. \A x \in Sem, e \in {"ok", "timeout"}, u \in Thread :
        Inside(u, x, e)' <=> (Inside(u, x, e) \/ (u = w /\ x = s /\ e = "ok"))
  <2> SUFFICES ASSUME NEW x \in Sem, NEW e \in {"ok", "timeout"}, NEW u \in Thread
      PROVE Inside(u, x, e)' <=> (Inside(u, x, e) \/ (u = w /\ x = s /\ e = "ok"))
    OBVIOUS
  <2>1. CASE u = w
    <3>1. call'[u] = call[u] /\ stat'[u] = "ready" /\ error'[u] = "ok" /\ stat[u] # "ready"
      BY <1>2, <1>4, <1>5, <1>6, <2>1
    <3>2. call[u].fn = "sem_take" /\ call[u].obj = s
      BY <1>2, <1>4, <2>1
    <3>3. ~Inside(u, x, e)
      BY <3>1 DEF Inside
    <3>4. Inside(u, x, e)' <=> (x = s /\ e = "ok")
      BY <3>1, <3>2 DEF Inside
    <3>5. QED
      BY <2>1, <3>3, <3>4
  <2>2. CASE u # w /\ call'[u] = call[u]
    <3>1. stat'[u] = stat[u] /\ error'[u] = error[u]
      BY <1>6, <2>2
    <3>2. Inside(u, x, e)' <=> Inside(u, x, e)
      BY <2>2, <3>1 DEF Inside
    <3>3. QED
      BY <2>2, <3>2
  <2>3. CASE u # w /\ call[u].fn # "sem_take" /\ call'[u].fn # "sem_take"
    BY <2>3 DEF Inside
  <2>4. QED
    BY <1>4, <1>5, <2>1, <2>2, <2>3
<1>9. /\ [x \in Sem |-> {u \in Thread : Inside(u, x, "timeout")}]' = [x \in Sem |-> {u \in Thread : Inside(u, x, "timeout")}]
      /\ [x \in Sem |-> {u \in Thread : Inside(u, x, "ok")}]'
           = [[x \in Sem |-> {u \in Thread : Inside(u, x, "ok")}] EXCEPT ![s] = @ \cup {w}]
  BY <1>2, <1>8
<1>10. [x \in Sem |-> waitq[x]]' = [[x \in Sem |-> waitq[x]] EXCEPT ![s] = Tail(@)]
  BY <1>0, <1>3
<1>11. Promise!Grant(s)
  BY <1>1, <1>9, <1>10 DEF Promise!Grant, w
<1>12. QED
  BY <1>7, <1>11 DEF SemStepOK, Promise!Next

\* A wait times out, on a semaphore or on something else.
LEMMA SemExpires ==
  ASSUME IInv, SemTakers, FireTimer
  PROVE  SemStutters \/ SemStepOK
<1> DEFINE t == Head(timers)
<1>0. /\ stat \in [Thread -> Status] /\ waitq \in [Obj -> Seq(Thread)] /\ Sem \subseteq Obj
      /\ error \in [Thread -> {"ok", "timeout", "error"}]
  BY DEF IInv, TypeOK, Obj
<1>1. timers # <<>> /\ timers \in Seq(Thread) /\ Once(timers)
  BY DEF FireTimer, HeadDue, IInv, TypeOK, TimersOK
<1>2. t \in ToSet(timers)
  BY <1>1, TailOK
<1>3. t \in Thread /\ stat[t] = "suspend"
  BY <1>2 DEF IInv, TimersOK
<1>4. /\ stat' = [stat EXCEPT ![t] = "ready"] /\ error' = [error EXCEPT ![t] = "timeout"]
      /\ waitq' = Unlinked(t) /\ UNCHANGED <<value, pc, call>>
  BY DEF FireTimer, flowVars
<1> HIDE DEF t
<1>5. \A s \in Sem : waitq'[s] = Without(waitq[s], t)
  BY <1>0, <1>4 DEF Unlinked
<1>6. /\ \A u \in Thread \ {t} : stat'[u] = stat[u] /\ error'[u] = error[u]
      /\ stat'[t] = "ready" /\ error'[t] = "timeout"
  BY <1>0, <1>3, <1>4
<1>7. \A s \in Sem : call[t].obj # s => waitq'[s] = waitq[s]
  <2> SUFFICES ASSUME NEW s \in Sem, call[t].obj # s PROVE waitq'[s] = waitq[s]
    OBVIOUS
  <2>1. t \notin ToSet(waitq[s])
    BY <1>0, <1>3 DEF IInv, WaitersOK
  <2>2. QED
    BY <1>5, <2>1, WithoutAbsent
<1>8. CASE call[t].fn # "sem_take"
  <2>1. call[t].obj \notin Sem
    BY <1>3, <1>8 DEF SemTakers
  <2>2. \A s \in Sem : waitq'[s] = waitq[s]
    BY <1>7, <2>1
  <2>3. pc'[t] = "run" => call'[t] = NoCall
    BY <1>3, <1>4 DEF SemTakers
  <2>4. QED
    BY <1>3, <1>4, <1>6, <1>8, <2>2, <2>3, SemFrame
<1>9. CASE call[t].fn = "sem_take"
  <2> DEFINE s == call[t].obj
  <2>1. s \in Sem
    BY <1>3, <1>9 DEF SemTakers
  <2>2. SemTakers'
    BY <1>4, <1>6, <1>9 DEF SemTakers
  <2>3. \A x \in Sem, e \in {"ok", "timeout"}, u \in Thread :
          Inside(u, x, e)' <=> (Inside(u, x, e) \/ (u = t /\ x = s /\ e = "timeout"))
    BY <1>3, <1>4, <1>6, <1>9 DEF Inside
  <2>4. /\ [x \in Sem |-> {u \in Thread : Inside(u, x, "ok")}]' = [x \in Sem |-> {u \in Thread : Inside(u, x, "ok")}]
        /\ [x \in Sem |-> {u \in Thread : Inside(u, x, "timeout")}]'
             = [[x \in Sem |-> {u \in Thread : Inside(u, x, "timeout")}] EXCEPT ![s] = @ \cup {t}]
    BY <1>3, <2>1, <2>3
  <2>5. t \in ToSet(waitq[s])
    BY <1>0, <1>3, <2>1 DEF IInv, WaitersOK
  <2>6. PICK i \in DOMAIN waitq[s] : waitq[s][i] = t /\ Without(waitq[s], t) = RemoveAt(waitq[s], i)
    BY <2>5 DEF ToSet, Without
  <2>7. [x \in Sem |-> waitq[x]]' = [[x \in Sem |-> waitq[x]] EXCEPT ![s] = RemoveAt(@, i)]
    BY <1>0, <1>5, <1>7, <2>1, <2>6
  <2> HIDE DEF s
  <2>8. [x \in Sem |-> waitq[x]][s] = waitq[s]
    BY <2>1
  <2>9. PICK u \in Thread, x \in Sem : u = t /\ x = s
    BY <1>3, <2>1
  <2>10. Promise!Next
    <3>1. Promise!Expire(u, x)
      BY <1>4, <2>1, <2>4, <2>6, <2>7, <2>8, <2>9 DEF Promise!Expire, Promise!RemoveAt, RemoveAt
    <3>2. QED
      BY <3>1 DEF Promise!Next
  <2>11. QED
    BY <2>2, <2>10 DEF SemStepOK
<1>10. QED
  BY <1>8, <1>9

\* A call comes back, rt_sem_take with a token or without.
LEMMA SemReturns ==
  ASSUME IInv, SemTakers, NEW t \in Thread, Return(t)
  PROVE  SemStutters \/ SemStepOK
<1>0. pc \in [Thread -> {"run", "sched", "back"}] /\ call \in [Thread -> Calling]
  BY DEF IInv, TypeOK
<1>1. /\ \A u \in Thread \ {t} : pc'[u] = pc[u] /\ call'[u] = call[u]
      /\ call'[t] = NoCall /\ UNCHANGED <<stat, error, waitq, value>>
  BY <1>0 DEF Return, threadVars, ipcVars
<1>2. stat[t] = "ready"
  BY DEF Return, IInv, RunningIsReady
<1>3. CASE call[t].fn # "sem_take"
  <2>1. call'[t].fn # "sem_take" /\ stat'[t] # "suspend"
    BY <1>1, <1>2, NoCallNames
  <2>2. \A u \in Thread \ {t} :
          /\ call'[u] = call[u] /\ pc'[u] = pc[u]
          /\ stat'[u] = "suspend" => stat[u] = "suspend"
          /\ call[u].fn = "sem_take" => stat'[u] = stat[u] /\ error'[u] = error[u]
    BY <1>1
  <2>3. (\A x \in Sem : waitq'[x] = waitq[x]) /\ value' = value
    BY <1>1
  <2>4. QED
    BY <1>1, <1>3, <2>1, <2>2, <2>3, SemFrame
<1>4. CASE call[t].fn = "sem_take"
  <2> DEFINE s == call[t].obj
             f == error[t]
  <2>1. s \in Sem /\ f \in {"ok", "timeout"}
    BY <1>4 DEF SemTakers
  <2>2. SemTakers'
    <3>1. \A u \in Thread : pc'[u] = "run" => call'[u] = NoCall
      BY <1>1 DEF SemTakers
    <3>2. ASSUME NEW u \in Thread, call'[u].fn = "sem_take"
          PROVE  call'[u].obj \in Sem /\ stat'[u] \in {"ready", "suspend"} /\ error'[u] \in {"ok", "timeout"}
      BY <1>1, <3>2, NoCallNames DEF SemTakers
    <3>3. ASSUME NEW u \in Thread, stat'[u] = "suspend", call'[u].obj \in Sem
          PROVE  call'[u].fn = "sem_take"
      BY <1>1, <1>2, <3>3 DEF SemTakers
    <3>4. QED
      BY <3>1, <3>2, <3>3 DEF SemTakers
  <2>3. Inside(t, s, f)
    BY <1>2, <1>4 DEF Inside
  <2>4. \A x \in Sem, e \in {"ok", "timeout"}, u \in Thread : Inside(u, x, e)' <=> (Inside(u, x, e) /\ u # t)
    <3>1. \A x \in Sem, e \in {"ok", "timeout"} : ~Inside(t, x, e)'
      BY <1>1, NoCallNames DEF Inside
    <3>2. \A x \in Sem, e \in {"ok", "timeout"}, u \in Thread \ {t} : Inside(u, x, e)' <=> Inside(u, x, e)
      BY <1>1 DEF Inside
    <3>3. QED
      BY <3>1, <3>2
  <2>5. \A x \in Sem, e \in {"ok", "timeout"} : Inside(t, x, e) => x = s /\ e = f
    BY DEF Inside
  <2> HIDE DEF s, f
  <2>6. \A x \in Sem, e \in {"ok", "timeout"} :
          {u \in Thread : Inside(u, x, e)'}
            = IF x = s /\ e = f THEN {u \in Thread : Inside(u, x, e)} \ {t} ELSE {u \in Thread : Inside(u, x, e)}
    BY <2>4, <2>5
  <2>7. f = "ok" => Promise!Succeed(t, s)
    BY <1>1, <2>1, <2>3, <2>6 DEF Promise!Succeed
  <2>8. f = "timeout" => Promise!Fail(t, s)
    BY <1>1, <2>1, <2>3, <2>6 DEF Promise!Fail
  <2>9. QED
    BY <2>1, <2>2, <2>7, <2>8 DEF SemStepOK, Promise!Next
<1>5. QED
  BY <1>3, <1>4

LEMMA SemNext ==
  ASSUME IInv, SemTakers, WaitsWithoutError, [Next]_vars
  PROVE  SemTakers' /\ [Promise!Next]_(Promise!semVars)
<1> SUFFICES SemStutters \/ SemStepOK
  BY DEF SemStutters, SemStepOK
<1>s. ASSUME UNCHANGED <<stat, error, call, waitq, value>>,
             \A u \in Thread : pc'[u] = "run" => pc[u] = "run"
      PROVE  SemStutters
  <2>1. SemTakers'
    BY <1>s DEF SemTakers
  <2>2. \A x \in Sem, e \in {"ok", "timeout"}, u \in Thread : Inside(u, x, e)' = Inside(u, x, e)
    BY <1>s, Zenon DEF Inside
  <2>3. QED
    BY <1>s, <2>1, <2>2 DEF SemStutters, Promise!semVars
<1>1. ASSUME NEW t \in Thread, ThreadStep(t) \/ MutexStep(t) PROVE SemStutters
  BY <1>1, SemThreadStep, SemMutexStep
<1>2. ASSUME NEW t \in Thread, SemStep(t) PROVE SemStepOK
  <2>1. PICK s \in Sem : \/ SemTakeNow(t, s) \/ SemRelease(t, s)
                         \/ \E n \in Timeouts : SemTakeBlock(t, s, n)
    BY <1>2 DEF SemStep
  <2>2. CASE SemTakeNow(t, s) \/ (SemPost(s) /\ Returns /\ SemRelease(t, s))
    BY <2>2, SemQuickOK DEF SemTakeNow, SemPost, SemRelease, Returns, threadVars, flowVars
  <2>3. CASE SemHandOff(s) /\ ToSchedule(t, "sem_release", s) /\ SemRelease(t, s)
    BY <2>3, SemGrants, CallerOK DEF SemRelease
  <2>4. QED
    BY <2>1, <2>2, <2>3, SemWaits DEF SemRelease
<1>3. ASSUME NEW t \in Thread, Schedule(t) PROVE SemStutters
  <2>1. \A u \in Thread : pc'[u] = "run" => pc[u] = "run"
    BY <1>3 DEF Schedule, IInv, TypeOK
  <2>2. QED
    BY <1>3, <1>s, <2>1 DEF Schedule, threadVars, ipcVars
<1>4. ASSUME IsrStep PROVE SemStutters \/ SemStepOK
  <2>1. CASE TickIsr \/ LeaveIsr
    BY <1>s, <2>1 DEF TickIsr, LeaveIsr, threadVars, ipcVars, flowVars
  <2>2. CASE FireTimer
    BY <2>2, SemExpires
  <2>3. ASSUME NEW s \in IsrSems, SemIsr(s) PROVE SemStepOK
    <3>1. s \in Sem /\ UNCHANGED <<error, pc, call>>
      BY <2>3, ObjectAssumption DEF SemIsr, flowVars
    <3>2. CASE SemPost(s)
      BY <3>1, <3>2, SemQuickOK DEF SemPost
    <3>3. CASE SemHandOff(s)
      <4>1. Idle \in Thread /\ stat[Idle] = "ready"
        BY ThreadAssumption DEF IInv, IdleReady
      <4>2. QED
        BY <3>1, <3>3, <4>1, SemGrants
    <3>4. QED
      BY <2>3, <3>2, <3>3 DEF SemIsr
  <2>4. QED
    BY <1>4, <2>1, <2>2, <2>3 DEF IsrStep
<1>5. CASE UNCHANGED vars
  BY <1>5, <1>s DEF vars, threadVars, ipcVars, flowVars
<1>6. QED
  BY <1>1, <1>2, <1>3, <1>4, <1>5, SemReturns DEF Next

\* rt_sem_take, rt_sem_release, the time-out and the scheduler implement
\* SemPromise: no token is lost or doubled, waiters are served in order, and what
\* rt_sem_take returns says whether a token was taken.
THEOREM SemaphoresImplement == Spec => SemKeepsPromise
<1>1. Init => WaitsWithoutError /\ Counted /\ SemTakers
  BY DEF Init, InitThreads, WaitsWithoutError, Counted, SemTakers, NoCall
<1>2. Init => Promise!Init
  <2> SUFFICES ASSUME Init PROVE Promise!Init
    OBVIOUS
  <2>1. \A x \in Sem, e \in {"ok", "timeout"}, u \in Thread : ~Inside(u, x, e)
    BY DEF Init, Inside, NoCall
  <2>2. QED
    BY <2>1 DEF Init, Promise!Init, Obj
<1>3. IInv /\ WaitsWithoutError /\ Counted /\ SemTakers /\ [Next]_vars
        => WaitsWithoutError' /\ Counted' /\ SemTakers' /\ [Promise!Next]_(Promise!semVars)
  BY NeverEarlyNext, CountedNext, SemNext
<1>4. QED
  BY <1>1, <1>2, <1>3, Invariance, PTL DEF Spec, SemKeepsPromise, Promise!Spec
=============================================================================
