------------------------------- MODULE Threads -------------------------------
(***************************************************************************)
(* rt_thread_suspend and rt_thread_resume called on other threads, nested  *)
(* critical sections, and rt_completion_wait: the calls whose steps are    *)
(* not one critical section.  Both of the first two test stat before they  *)
(* disable interrupts, and rt_thread_resume enables them once between      *)
(* taking the thread out of a list and linking it into the ready list, so  *)
(* the thread may have moved in between.                                   *)
(*                                                                         *)
(* Priorities do not change here, a timer is only running or not (when it  *)
(* fires is a matter for Kernel), and a slice may end at any tick.         *)
(***************************************************************************)
EXTENDS Lists, FiniteSets

CONSTANTS
  Thread,    (* the threads, all started                                   *)
  Idle,      (* the idle thread, which calls nothing                       *)
  MaxPrio,   (* RT_THREAD_PRIORITY_MAX - 1, the priority of Idle           *)
  Prio,      (* thread -> its priority                                     *)
  Started,   (* priority -> its threads in the order they were started     *)
  Calls,     (* thread -> the calls its program makes                      *)
  Targets,   (* thread -> the threads it suspends and resumes              *)
  MaxNest    (* bound: no critical section deeper than this                *)

CallName == {"suspend", "resume", "sleep", "wait", "exit", "critical",
             "schedule"}

\* One thread at most looks after another, and no thread looks after it: if a
\* thread is suspended while it resumes a third, rt_schedule may take the head
\* of an empty list for a thread.  A thread that is looked after does not end:
\* of one that has ended the code would make a READY one.
ASSUME ThreadsAssumption ==
  /\ Idle \in Thread
  /\ MaxPrio \in Nat \ {0}
  /\ Prio \in [Thread -> 0..MaxPrio]
  /\ \A t \in Thread : Prio[t] = MaxPrio <=> t = Idle
  /\ Started \in [0..MaxPrio -> Seq(Thread)]
  /\ \A p \in 0..MaxPrio :
       Once(Started[p]) /\ ToSet(Started[p]) = {t \in Thread : Prio[t] = p}
  /\ Calls \in [Thread -> SUBSET CallName] /\ Calls[Idle] = {}
  /\ Targets \in [Thread -> SUBSET (Thread \ {Idle})]
  /\ \A t, u \in Thread : t # u => Targets[t] \cap Targets[u] = {}
  /\ \A t \in Thread : \A u \in Targets[t] :
       Targets[u] = {} /\ "exit" \notin Calls[u]
  /\ MaxNest \in Nat

VARIABLES
  rq,        (* rt_thread_priority_table, rt_thread_ready_priority_group   *)
  cur,       (* rt_current_thread                                          *)
  lockNest,  (* rt_scheduler_lock_nest                                     *)
  stat,      (* thread -> stat                                             *)
  armed,     (* thread -> its timer runs                                   *)
  waitq,     (* suspended_list of a completion                             *)
  pc,        (* thread -> where it is in a call                            *)
  who,       (* thread -> the argument of its rt_thread_suspend or _resume *)
  masked,    (* thread -> the I bit of its CPSR                            *)
  isr        (* the tick handler is in rt_timer_check                      *)

vars == <<rq, cur, lockNest, stat, armed, waitq, pc, who, masked, isr>>

-----------------------------------------------------------------------------
Init ==
  /\ rq = [list |-> Started, group |-> {Prio[t] : t \in Thread}]
  /\ cur = Top(rq)
  /\ lockNest = 0 /\ isr = FALSE
  /\ stat = [t \in Thread |-> "ready"]
  /\ armed = [t \in Thread |-> FALSE]
  /\ waitq = <<>>
  /\ pc = [t \in Thread |-> "run"]
  /\ who = [t \in Thread |-> Idle]
  /\ masked = [t \in Thread |-> FALSE]

At(t, place) == ~isr /\ cur = t /\ pc[t] = place
Makes(t, fn) == At(t, "run") /\ fn \in Calls[t]
Goes(t, place) == pc' = [pc EXCEPT ![t] = place]

\* Wrong on purpose: the node is not unlinked first.
UnlinkedNot(q, u) == q

\* rt_list_remove of u's node, which leaves the bitmap alone.
Unlinked(q, u) == [q EXCEPT !.list[Prio[u]] = Without(@, u)]

\* rt_schedule_remove_thread: the bit goes when the list of u's priority is
\* empty, even if u was linked into another list.
Leave(u) == rq' = Removed(rq, u, Prio[u]) /\ waitq' = Without(waitq, u)

\* rt_timer_stop.
StopTimer(u) == armed' = [armed EXCEPT ![u] = FALSE]

-----------------------------------------------------------------------------
(***************************************************************************)
(* rt_thread_suspend and rt_thread_resume.  With the wrong stat they       *)
(* return -RT_ERROR and change nothing.  A thread that suspends itself     *)
(* runs on until rt_schedule is called.                                    *)
(***************************************************************************)
Suspend(t, u) ==
  /\ Makes(t, "suspend") /\ u \in Targets[t] \cup {t} /\ stat[u] = "ready"
  /\ Goes(t, "suspend") /\ who' = [who EXCEPT ![t] = u]
  /\ UNCHANGED <<rq, cur, lockNest, stat, armed, waitq, masked, isr>>

SuspendIt(t) ==
  LET u == who[t]
  IN  /\ At(t, "suspend")
      /\ stat' = [stat EXCEPT ![u] = "suspend"]
      /\ Leave(u)
      /\ StopTimer(u)
      /\ Goes(t, "run")
      /\ UNCHANGED <<cur, lockNest, who, masked, isr>>

Resume(t, u) ==
  /\ Makes(t, "resume") /\ u \in Targets[t] /\ stat[u] = "suspend"
  /\ Goes(t, "resume") /\ who' = [who EXCEPT ![t] = u]
  /\ UNCHANGED <<rq, cur, lockNest, stat, armed, waitq, masked, isr>>

ResumeUnlink(t) ==
  /\ At(t, "resume")
  /\ rq' = Unlinked(rq, who[t])
  /\ waitq' = Without(waitq, who[t])
  /\ StopTimer(who[t])
  /\ Goes(t, "insert")
  /\ UNCHANGED <<cur, lockNest, stat, who, masked, isr>>

\* rt_schedule_insert_thread.
ResumeInsert(t) ==
  /\ At(t, "insert")
  /\ stat' = [stat EXCEPT ![who[t]] = "ready"]
  /\ rq' = Inserted(rq, who[t], Prio[who[t]])
  /\ Goes(t, "run")
  /\ UNCHANGED <<cur, lockNest, armed, waitq, who, masked, isr>>

-----------------------------------------------------------------------------
(***************************************************************************)
(* The other calls.                                                        *)
(***************************************************************************)

\* rt_thread_sleep, with the scheduler not locked.  After rt_completion_wait
\* the caller is not READY: rt_thread_suspend refuses, and the timer starts.
Sleep(t) ==
  /\ Makes(t, "sleep") /\ lockNest = 0
  /\ IF stat[t] = "ready"
     THEN stat' = [stat EXCEPT ![t] = "suspend"] /\ Leave(t)
     ELSE UNCHANGED <<stat, rq, waitq>>
  /\ armed' = [armed EXCEPT ![t] = TRUE]
  /\ Goes(t, "sched")
  /\ UNCHANGED <<cur, lockNest, who, masked, isr>>

\* rt_completion_wait of a completion that is not complete (nothing completes
\* one: rt_completion_done is empty), with a timer or without.  It returns
\* with interrupts disabled and has not called rt_schedule.
Wait(t, timed) ==
  /\ Makes(t, "wait") /\ lockNest = 0 /\ stat[t] = "ready"
  /\ stat' = [stat EXCEPT ![t] = "suspend"]
  /\ rq' = Removed(rq, t, Prio[t])
  /\ waitq' = Append(waitq, t)
  /\ armed' = [armed EXCEPT ![t] = timed]
  /\ masked' = [masked EXCEPT ![t] = TRUE]
  /\ UNCHANGED <<cur, lockNest, pc, who, isr>>

\* rt_thread_exit.
Exit(t) ==
  /\ Makes(t, "exit") /\ lockNest = 0
  /\ stat' = [stat EXCEPT ![t] = "close"]
  /\ Leave(t)
  /\ StopTimer(t)
  /\ Goes(t, "sched")
  /\ UNCHANGED <<cur, lockNest, who, masked, isr>>

EnterCritical(t) ==
  /\ Makes(t, "critical") /\ lockNest < MaxNest
  /\ lockNest' = lockNest + 1
  /\ UNCHANGED <<rq, cur, stat, armed, waitq, pc, who, masked, isr>>

\* Only the end of the outermost section reaches rt_schedule; so does an exit
\* without a section.
ExitCritical(t) ==
  /\ Makes(t, "critical")
  /\ lockNest' = IF lockNest > 0 THEN lockNest - 1 ELSE 0
  /\ IF lockNest <= 1 THEN Goes(t, "sched") ELSE UNCHANGED pc
  /\ UNCHANGED <<rq, cur, stat, armed, waitq, who, masked, isr>>

\* rt_schedule called by the program.
CallSchedule(t) ==
  /\ Makes(t, "schedule")
  /\ Goes(t, "sched")
  /\ UNCHANGED <<rq, cur, lockNest, stat, armed, waitq, who, masked, isr>>

\* rt_schedule: the caller that is itself the pick goes on masked.
Schedule(t) ==
  /\ At(t, "sched")
  /\ Goes(t, IF stat[t] = "close" THEN "ended" ELSE "run")
  /\ cur' = IF lockNest = 0 THEN Top(rq) ELSE cur
  /\ masked' = [masked EXCEPT ![t] = @ \/ (lockNest = 0 /\ Top(rq) = t)]
  /\ UNCHANGED <<rq, lockNest, stat, armed, waitq, who, isr>>

-----------------------------------------------------------------------------
(***************************************************************************)
(* The tick handler.                                                       *)
(***************************************************************************)
CanYield(t) == stat[t] = "ready" /\ Len(rq.list[Prio[t]]) > 1

\* Wrong on purpose: the lock count is not looked at.
IsrScheduleLocked(q) == cur' = Top(q)

IsrSchedule(q) == cur' = IF lockNest = 0 THEN Top(q) ELSE cur

\* rt_tick_increase up to rt_timer_check; the slice of cur may have ended.
Tick ==
  /\ ~isr /\ ~masked[cur]
  /\ isr' = TRUE
  /\ \/ UNCHANGED <<rq, cur>>
     \/ /\ CanYield(cur)
        /\ rq' = Rotated(rq, cur, Prio[cur])
        /\ IsrSchedule(rq')
  /\ UNCHANGED <<lockNest, stat, armed, waitq, pc, who, masked>>

\* A timer is due: rt_thread_timeout.
Fire(u) ==
  LET q == Inserted(Unlinked(rq, u), u, Prio[u])
  IN  /\ isr /\ armed[u]
      /\ StopTimer(u)
      /\ waitq' = Without(waitq, u)
      /\ stat' = [stat EXCEPT ![u] = "ready"]
      /\ rq' = q
      /\ IsrSchedule(q)
      /\ UNCHANGED <<lockNest, pc, who, masked, isr>>

LeaveIsr ==
  /\ isr
  /\ isr' = FALSE
  /\ UNCHANGED <<rq, cur, lockNest, stat, armed, waitq, pc, who, masked>>

-----------------------------------------------------------------------------
Next ==
  \/ \E t \in Thread :
       \/ \E u \in Thread : Suspend(t, u) \/ Resume(t, u)
       \/ SuspendIt(t) \/ ResumeUnlink(t) \/ ResumeInsert(t)
       \/ Sleep(t) \/ Exit(t) \/ CallSchedule(t) \/ Schedule(t)
       \/ \E timed \in BOOLEAN : Wait(t, timed)
       \/ EnterCritical(t) \/ ExitCritical(t)
  \/ Tick \/ LeaveIsr \/ \E u \in Thread : Fire(u)

Spec == Init /\ [][Next]_vars

-----------------------------------------------------------------------------
(***************************************************************************)
(* Properties.                                                             *)
(***************************************************************************)

\* Threads that rt_thread_resume has taken out of their list and not yet
\* linked again.
Held == {who[t] : t \in {v \in Thread : pc[v] = "insert"}}

\* Every variable has its type.
TypeOK ==
  /\ rq \in [list : [0..MaxPrio -> Seq(Thread)], group : SUBSET (0..MaxPrio)]
  /\ cur \in Thread
  /\ lockNest \in 0..MaxNest
  /\ stat \in [Thread -> {"ready", "suspend", "close"}]
  /\ armed \in [Thread -> BOOLEAN]
  /\ waitq \in Seq(Thread)
  /\ pc \in [Thread -> {"run", "suspend", "resume", "insert", "sched", "ended"}]
  /\ who \in [Thread -> Thread]
  /\ masked \in [Thread -> BOOLEAN]
  /\ isr \in BOOLEAN

\* However old the stat is that rt_thread_suspend or rt_thread_resume acts on,
\* the ready lists link exactly the READY threads, each once, but for one that
\* is being resumed; a bit of the bitmap stays without a thread only then.
ListsExact ==
  \A p \in 0..MaxPrio :
    /\ Once(rq.list[p])
    /\ ToSet(rq.list[p]) =
         {u \in Thread \ Held : stat[u] = "ready" /\ Prio[u] = p}
    /\ rq.list[p] # <<>> => p \in rq.group
    /\ p \in rq.group /\ rq.list[p] = <<>> => \E u \in Held : Prio[u] = p

\* rt_schedule never takes the head of an empty list for a thread: also in the
\* window where rt_thread_resume has unlinked a READY thread and left its bit.
\* In a critical section the window is harmless, since nothing is picked there.
PickIsThread ==
  lockNest = 0 => rq.group # {} /\ rq.list[Least(rq.group)] # <<>>

\* A thread waits in the list of a completion once, and only while it is
\* suspended: whoever wakes it takes it out.
WaitersOK ==
  /\ Once(waitq)
  /\ \A u \in ToSet(waitq) : stat[u] = "suspend"

\* No READY thread has a running timer: a thread that was resumed, or that was
\* suspended after it went to sleep, is not woken by its old timer.
TimersOK == \A u \in Thread : armed[u] => stat[u] = "suspend"

\* A switch leads to the most urgent READY thread, a thread under resumption
\* aside, and not out of a critical section, nested ones included: also when a
\* bit of the bitmap has outlived its thread, and when the pick of the handler
\* falls between two steps of a call (rt_schedule, scheduler.c).
SwitchesToReady ==
  [][cur' # cur =>
       /\ lockNest = 0 /\ stat'[cur'] = "ready"
       /\ \A u \in Thread \ Held' : stat'[u] = "ready" => Prio[cur'] <= Prio[u]]_vars
=============================================================================
