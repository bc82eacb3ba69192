------------------------------- MODULE Kernel --------------------------------
(***************************************************************************)
(* The kernel proper: threads, the priority scheduler, the thread timers,  *)
(* the tick interrupt, counting semaphores and mutexes.                    *)
(*                                                                         *)
(* One CPU runs rt_current_thread.  A kernel call runs with interrupts     *)
(* disabled, so its body is one step; interrupts are enabled again before  *)
(* the call reaches rt_schedule and after rt_schedule came back, so those  *)
(* are steps of their own (pc "sched" and "back").  An interrupt handler   *)
(* runs with interrupts masked from entry to exit and is not interrupted.  *)
(***************************************************************************)
EXTENDS Lists, FiniteSets

CONSTANTS
  Thread,      (* the thread control blocks                                *)
  Idle,        (* the idle thread, which calls nothing                     *)
  Main,        (* the thread rt_application_init starts                    *)
  Sem, Mutex,  (* the semaphore and mutex objects                          *)
  None,        (* RT_NULL, for owners and for calls without an object      *)
  MaxPrio,     (* RT_THREAD_PRIORITY_MAX - 1, the priority of Idle         *)
  InitPrio,    (* thread -> init_priority                                  *)
  Slice,       (* thread -> init_tick, its time slice                      *)
  SemInit,     (* semaphore -> value given to rt_sem_init                  *)
  TickMod,     (* number of values of rt_tick_t                            *)
  Calls,       (* thread -> the kernel calls its program makes             *)
  Delays,      (* ticks passed to rt_thread_delay                          *)
  Timeouts,    (* time arguments of take: -1 for ever, 0 try, n > 0 ticks  *)
  CtlPrios,    (* priorities passed to rt_thread_control                   *)
  IsrSems,     (* semaphores an interrupt handler releases                 *)
  SemMax,      (* bound: no release at this value                          *)
  HoldMax      (* bound: no recursive take at this depth                   *)

Prio == 0..MaxPrio
Obj  == Sem \cup Mutex

NoPrio == 255

CallName == {"startup", "exit", "yield", "delay", "control", "sem_take",
             "sem_release", "mutex_take", "mutex_release", "critical"}

ASSUME ThreadAssumption ==
  /\ Idle \in Thread /\ Main \in Thread /\ Main # Idle
  /\ MaxPrio \in Nat /\ MaxPrio < NoPrio
  /\ InitPrio \in [Thread -> Prio]
  /\ InitPrio[Main] < InitPrio[Idle] /\ InitPrio[Idle] = MaxPrio
  /\ Slice \in [Thread -> Nat \ {0}]
  /\ Calls \in [Thread -> SUBSET CallName]
  /\ Calls[Idle] = {}
  /\ CtlPrios \subseteq Prio

ASSUME ObjectAssumption ==
  /\ Sem \cap Mutex = {}
  /\ None \notin Thread /\ None \notin Obj
  /\ SemInit \in [Sem -> Nat]
  /\ IsrSems \subseteq Sem
  /\ SemMax \in Nat /\ HoldMax \in Nat

\* A time of more than half the range of rt_tick_t would be over at once, since
\* rt_timer_check compares in that range (timer.c:137).
ASSUME TickAssumption ==
  /\ TickMod \in Nat \ {0}
  /\ Delays \subseteq Nat
  /\ Timeouts \subseteq Int
  /\ \A n \in Delays \cup Timeouts : n <= TickMod \div 2

VARIABLES
  tick,      (* rt_tick                                                    *)
  rq,        (* rt_thread_priority_table, rt_thread_ready_priority_group   *)
  cur,       (* rt_current_thread                                          *)
  lockNest,  (* rt_scheduler_lock_nest                                     *)
  stat,      (* thread -> stat                                             *)
  prio,      (* thread -> current_priority                                 *)
  error,     (* thread -> error                                            *)
  remain,    (* thread -> remaining_tick                                   *)
  timers,    (* rt_timer_list: the threads whose thread_timer is linked    *)
  timeout,   (* thread -> thread_timer.timeout_tick, while it is linked:   *)
             (* nothing reads the field of a timer that is not             *)
  armed,     (* thread -> thread_timer has RT_TIMER_FLAG_ACTIVED           *)
  left,      (* thread -> the ticks still to come of the time its timer    *)
             (* was started with: counted, not computed, and not in the    *)
             (* code, which has only tick and timeout                      *)
  waitq,     (* object -> suspend_thread                                   *)
  value,     (* semaphore -> value                                         *)
  mtx,       (* mutex -> value, owner, original_priority, hold             *)
  pc,        (* thread -> where it is: in its program or in a kernel call  *)
  call,      (* thread -> the call it is in, with the CPSR it entered with *)
  masked,    (* thread -> the I bit of its CPSR                            *)
  isr        (* the interrupt handler in progress                          *)

threadVars == <<stat, prio, error>>
timerVars  == <<timers, timeout, armed, left>>
ipcVars    == <<waitq, value, mtx>>
flowVars   == <<pc, call, masked>>
vars == <<tick, rq, cur, lockNest, threadVars, remain, timerVars, ipcVars,
          flowVars, isr>>

NoCall == [fn |-> "none", obj |-> None, level |-> FALSE]
NoTick == -1
FreeMutex == [value |-> 1, owner |-> None, orig |-> NoPrio, hold |-> 0]

-----------------------------------------------------------------------------
(***************************************************************************)
(* Pieces of kernel calls.                                                 *)
(***************************************************************************)

\* t runs its own program and makes call fn.  Only calls that cannot block
\* are made while the scheduler is locked.
Makes(t, fn) ==
  /\ isr = "none" /\ cur = t /\ pc[t] = "run" /\ fn \in Calls[t]

\* The call is left at once: interrupts are as they were on entry.
Returns == UNCHANGED <<flowVars, cur>>

\* The call goes on to rt_schedule, with interrupts as they were on entry.
ToSchedule(t, fn, o) ==
  /\ pc'   = [pc EXCEPT ![t] = "sched"]
  /\ call' = [call EXCEPT ![t] = [fn |-> fn, obj |-> o, level |-> masked[t]]]
  /\ UNCHANGED <<masked, cur>>

\* Wrong on purpose: the lock count is not looked at; no switch at all.
IsrScheduleLocked(q) == cur' = Top(q)
IsrScheduleNever(q) == UNCHANGED cur

\* rt_schedule from an interrupt handler, when the ready queue is q.
IsrSchedule(q) == cur' = IF lockNest = 0 THEN Top(q) ELSE cur

\* rt_tick + init_tick in 32 bits.
Deadline(n) == (tick + n) % TickMod

StartTimer(t, n) ==
  LET at == Deadline(n)
  IN  /\ timers'  = InsertTimer(Without(timers, t), timeout, t, at)
      /\ timeout' = [timeout EXCEPT ![t] = at]
      /\ armed'   = [armed EXCEPT ![t] = TRUE]
      /\ left'    = [left EXCEPT ![t] = n]

StopTimer(t) ==
  /\ timers' = IF armed[t] THEN Without(timers, t) ELSE timers
  /\ timeout' = [timeout EXCEPT ![t] = NoTick]
  /\ armed'  = [armed EXCEPT ![t] = FALSE]
  /\ left'   = [left EXCEPT ![t] = 0]

\* The running thread t leaves the ready queue q: rt_thread_suspend, then the
\* timer if there is one.  Its early return needs a caller that is not READY.
Suspend(t, q, n) ==
  /\ stat' = [stat EXCEPT ![t] = "suspend"]
  /\ rq'   = Removed(q, t, prio[t])
  /\ IF n >= 0 THEN StartTimer(t, n) ELSE StopTimer(t)

\* Wrong on purpose: the last waiter is served first.
WakeFirstAtTail(o, q) ==
  LET w == Last(waitq[o])
  IN  /\ waitq' = [waitq EXCEPT ![o] = Front(@)]
      /\ stat'  = [stat EXCEPT ![w] = "ready"]
      /\ rq'    = Inserted(q, w, prio[w])
      /\ StopTimer(w)

\* rt_ipc_list_resume: the first waiter of o joins the ready queue q.
WakeFirst(o, q) ==
  LET w == Head(waitq[o])
  IN  /\ waitq' = [waitq EXCEPT ![o] = Tail(@)]
      /\ stat'  = [stat EXCEPT ![w] = "ready"]
      /\ rq'    = Inserted(q, w, prio[w])
      /\ StopTimer(w)

\* rt_thread_control(RT_THREAD_CTRL_CHANGE_PRIORITY), seen by the ready queue.
Repositioned(u, p) ==
  IF stat[u] = "ready" THEN Inserted(Removed(rq, u, prio[u]), u, p) ELSE rq

-----------------------------------------------------------------------------
(***************************************************************************)
(* The state rt_system_scheduler_start leaves: main and idle are started   *)
(* and the more urgent of them, main, runs.                                *)
(***************************************************************************)
Started == {Main, Idle}

\* rt_thread_init of every thread, and rt_thread_startup of the started ones.
InitThreads ==
  /\ stat = [t \in Thread |-> IF t \in Started THEN "ready" ELSE "init"]
  /\ prio = InitPrio
  /\ error = [t \in Thread |-> "ok"]
  /\ remain = Slice
  /\ timeout = [t \in Thread |-> NoTick]
  /\ armed = [t \in Thread |-> FALSE]
  /\ left = [t \in Thread |-> 0]

Init ==
  /\ tick = 0 /\ cur = Main /\ lockNest = 0 /\ isr = "none"
  /\ InitThreads
  /\ rq = [list  |-> [p \in Prio |-> IF p = InitPrio[Main] THEN <<Main>>
                                     ELSE IF p = InitPrio[Idle] THEN <<Idle>>
                                     ELSE <<>>],
           group |-> {InitPrio[Main], InitPrio[Idle]}]
  /\ timers = <<>>
  /\ waitq = [o \in Obj |-> <<>>]
  /\ value = SemInit
  /\ mtx = [m \in Mutex |-> FreeMutex]
  /\ pc = [t \in Thread |-> "run"]
  /\ call = [t \in Thread |-> NoCall]
  /\ masked = [t \in Thread |-> FALSE]

-----------------------------------------------------------------------------
(***************************************************************************)
(* Thread calls.                                                           *)
(***************************************************************************)

\* rt_thread_startup of u.  What it stores before the critical section of
\* rt_thread_resume, and what rt_schedule_insert_thread does after it, touches
\* u alone, which no list links yet and no handler looks at: one step.
Startup(t, u) ==
  /\ Makes(t, "startup") /\ stat[u] = "init"
  /\ prio' = [prio EXCEPT ![u] = InitPrio[u]]
  /\ stat' = [stat EXCEPT ![u] = "ready"]
  /\ rq' = Inserted(rq, u, InitPrio[u])
  /\ ToSchedule(t, "startup", None)
  /\ UNCHANGED <<tick, lockNest, error, remain, timerVars, ipcVars, isr>>

\* rt_thread_exit, where a thread's entry function returns to.
Exit(t) ==
  /\ Makes(t, "exit") /\ lockNest = 0
  /\ rq' = Removed(rq, t, prio[t])
  /\ stat' = [stat EXCEPT ![t] = "close"]
  /\ timers' = Without(timers, t)
  /\ timeout' = [timeout EXCEPT ![t] = NoTick]
  /\ left' = [left EXCEPT ![t] = 0]
  /\ ToSchedule(t, "exit", None)
  /\ UNCHANGED <<tick, lockNest, prio, error, remain, armed, ipcVars, isr>>

\* rt_thread_yield by a thread; alone at its priority it changes nothing.
CanYield(t) == stat[t] = "ready" /\ Len(rq.list[prio[t]]) > 1

Yield(t) ==
  /\ Makes(t, "yield") /\ CanYield(t)
  /\ rq' = Rotated(rq, t, prio[t])
  /\ ToSchedule(t, "yield", None)
  /\ UNCHANGED <<tick, lockNest, threadVars, remain, timerVars, ipcVars, isr>>

\* rt_thread_delay, rt_thread_sleep.
Delay(t, n) ==
  /\ Makes(t, "delay") /\ lockNest = 0
  /\ Suspend(t, rq, n)
  /\ ToSchedule(t, "delay", None)
  /\ UNCHANGED <<tick, lockNest, prio, error, remain, ipcVars, isr>>

\* rt_thread_control(u, RT_THREAD_CTRL_CHANGE_PRIORITY, p) by the program, of
\* a thread that was started and has not ended; Idle is private to idle.c.
Control(t, u, p) ==
  /\ Makes(t, "control") /\ u # Idle /\ stat[u] \in {"ready", "suspend"}
  /\ rq' = Repositioned(u, p)
  /\ prio' = [prio EXCEPT ![u] = p]
  /\ Returns
  /\ UNCHANGED <<tick, lockNest, stat, error, remain, timerVars, ipcVars, isr>>

EnterCritical(t) ==
  /\ Makes(t, "critical") /\ lockNest = 0
  /\ lockNest' = lockNest + 1
  /\ Returns
  /\ UNCHANGED <<tick, rq, threadVars, remain, timerVars, ipcVars, isr>>

ExitCritical(t) ==
  /\ Makes(t, "critical") /\ lockNest = 1
  /\ lockNest' = 0
  /\ ToSchedule(t, "critical", None)
  /\ UNCHANGED <<tick, rq, threadVars, remain, timerVars, ipcVars, isr>>

-----------------------------------------------------------------------------
(***************************************************************************)
(* Semaphores.                                                             *)
(***************************************************************************)

SemTakeNow(t, s) ==
  /\ Makes(t, "sem_take") /\ lockNest = 0
  /\ value[s] > 0
  /\ value' = [value EXCEPT ![s] = @ - 1]
  /\ Returns
  /\ UNCHANGED <<tick, rq, lockNest, threadVars, remain, timerVars, waitq, mtx,
                 isr>>

\* time 0 (rt_sem_trytake) on an empty semaphore returns -RT_ETIMEOUT and
\* touches nothing, so it has no step.
SemTakeBlock(t, s, n) ==
  /\ Makes(t, "sem_take") /\ lockNest = 0
  /\ value[s] = 0 /\ n # 0
  /\ error' = [error EXCEPT ![t] = "ok"]
  /\ Suspend(t, rq, n)
  /\ waitq' = [waitq EXCEPT ![s] = Append(@, t)]
  /\ ToSchedule(t, "sem_take", s)
  /\ UNCHANGED <<tick, lockNest, prio, remain, value, mtx, isr>>

\* Wrong on purpose: the waiters are not looked at.
SemPostAlways(s) ==
  /\ value[s] < SemMax
  /\ value' = [value EXCEPT ![s] = @ + 1]
  /\ UNCHANGED <<rq, stat, timerVars, waitq>>

SemPost(s) ==
  /\ waitq[s] = <<>> /\ value[s] < SemMax
  /\ value' = [value EXCEPT ![s] = @ + 1]
  /\ UNCHANGED <<rq, stat, timerVars, waitq>>

SemHandOff(s) ==
  /\ waitq[s] # <<>>
  /\ WakeFirst(s, rq)
  /\ UNCHANGED value

SemRelease(t, s) ==
  /\ Makes(t, "sem_release")
  /\ \/ SemPost(s) /\ Returns
     \/ SemHandOff(s) /\ ToSchedule(t, "sem_release", s)
  /\ UNCHANGED <<tick, lockNest, prio, error, remain, mtx, isr>>

-----------------------------------------------------------------------------
(***************************************************************************)
(* Mutexes.                                                                *)
(***************************************************************************)

\* A free mutex x taken by t, and given back.
Taken(x, t) == [value |-> x.value - 1, owner |-> t, orig |-> prio[t],
                hold |-> x.hold + 1]
Freed(x) == [value |-> x.value + 1, owner |-> None, orig |-> NoPrio,
             hold |-> x.hold - 1]

\* Wrong on purpose: the waiter is woken to try again, which it never does;
\* original_priority is left as it was; hold is not counted up.
HandedBack(x, w) == Freed(x)
HandedWithOldPrio(x, w) == [x EXCEPT !.owner = w]
HandedUnheld(x, w) == [value |-> x.value, owner |-> w, orig |-> prio[w],
                       hold |-> x.hold - 1]

\* The mutex x passed on by its owner to the waiter w.
Handed(x, w) == [value |-> x.value, owner |-> w, orig |-> prio[w],
                 hold |-> x.hold]

MutexTakeAgain(t, m) ==
  /\ Makes(t, "mutex_take") /\ lockNest = 0
  /\ mtx[m].owner = t /\ mtx[m].hold < HoldMax
  /\ error' = [error EXCEPT ![t] = "ok"]
  /\ mtx' = [mtx EXCEPT ![m].hold = @ + 1]
  /\ Returns
  /\ UNCHANGED <<tick, rq, lockNest, stat, prio, remain, timerVars, waitq,
                 value, isr>>

MutexTakeFree(t, m) ==
  /\ Makes(t, "mutex_take") /\ lockNest = 0
  /\ mtx[m].owner # t /\ mtx[m].value > 0
  /\ error' = [error EXCEPT ![t] = "ok"]
  /\ mtx' = [mtx EXCEPT ![m] = Taken(@, t)]
  /\ Returns
  /\ UNCHANGED <<tick, rq, lockNest, stat, prio, remain, timerVars, waitq,
                 value, isr>>

MutexTry(t, m) ==
  /\ Makes(t, "mutex_take") /\ lockNest = 0
  /\ mtx[m].owner # t /\ mtx[m].value = 0
  /\ error' = [error EXCEPT ![t] = "timeout"]
  /\ Returns
  /\ UNCHANGED <<tick, rq, lockNest, stat, prio, remain, timerVars, ipcVars,
                 isr>>

\* Wrong on purpose: the larger number taken for the more urgent priority.
PromotesDown(t, o) == prio[t] > prio[o]

\* t is more urgent than the owner o it has to wait for.
Promotes(t, o) == prio[t] < prio[o]

\* The owner is promoted to the caller's priority when that is more urgent.
MutexTakeBlock(t, m, n) ==
  LET o == mtx[m].owner
      promote == Promotes(t, o)
  IN
  /\ Makes(t, "mutex_take") /\ lockNest = 0
  /\ o # t /\ mtx[m].value = 0 /\ n # 0
  /\ error' = [error EXCEPT ![t] = "ok"]
  /\ prio' = IF promote THEN [prio EXCEPT ![o] = prio[t]] ELSE prio
  /\ Suspend(t, IF promote THEN Repositioned(o, prio[t]) ELSE rq, n)
  /\ waitq' = [waitq EXCEPT ![m] = Append(@, t)]
  /\ ToSchedule(t, "mutex_take", m)
  /\ UNCHANGED <<tick, lockNest, remain, value, mtx, isr>>

MutexReleaseOther(t, m) ==
  /\ Makes(t, "mutex_release") /\ mtx[m].owner # t
  /\ error' = [error EXCEPT ![t] = "error"]
  /\ Returns
  /\ UNCHANGED <<tick, rq, lockNest, stat, prio, remain, timerVars, ipcVars,
                 isr>>

MutexReleaseInner(t, m) ==
  /\ Makes(t, "mutex_release") /\ mtx[m].owner = t /\ mtx[m].hold > 1
  /\ mtx' = [mtx EXCEPT ![m].hold = @ - 1]
  /\ Returns
  /\ UNCHANGED <<tick, rq, lockNest, threadVars, remain, timerVars, waitq,
                 value, isr>>

\* The owner goes back to original_priority, then the mutex passes to the
\* first waiter; without a waiter it is free and rt_schedule is not called.
MutexReleaseLast(t, m) ==
  LET p == mtx[m].orig
      w == Head(waitq[m])
      q == IF p # prio[t] THEN Repositioned(t, p) ELSE rq
  IN
  /\ Makes(t, "mutex_release") /\ mtx[m].owner = t /\ mtx[m].hold = 1
  /\ prio' = [prio EXCEPT ![t] = p]
  /\ \/ /\ waitq[m] # <<>>
        /\ mtx' = [mtx EXCEPT ![m] = Handed(@, w)]
        /\ WakeFirst(m, q)
        /\ ToSchedule(t, "mutex_release", m)
     \/ /\ waitq[m] = <<>>
        /\ mtx' = [mtx EXCEPT ![m] = Freed(@)]
        /\ rq' = q
        /\ Returns
        /\ UNCHANGED <<stat, timerVars, waitq>>
  /\ UNCHANGED <<tick, lockNest, error, remain, value, isr>>

-----------------------------------------------------------------------------
(***************************************************************************)
(* rt_schedule called by the running thread, and the end of the call.      *)
(***************************************************************************)

\* With the scheduler locked or after a switch the entry level comes back;
\* when the caller is itself the pick, rt_schedule returns without enabling
\* interrupts, and the caller goes on with the I bit set.
Schedule(t) ==
  /\ isr = "none" /\ cur = t /\ pc[t] = "sched"
  /\ pc' = [pc EXCEPT ![t] = "back"]
  /\ \/ lockNest > 0 /\ UNCHANGED <<cur, masked>>
     \/ /\ lockNest = 0 /\ Top(rq) # t
        /\ cur' = Top(rq)
        /\ UNCHANGED masked
     \/ /\ lockNest = 0 /\ Top(rq) = t
        /\ masked' = [masked EXCEPT ![t] = TRUE]
        /\ UNCHANGED cur
  /\ UNCHANGED <<tick, rq, lockNest, threadVars, remain, timerVars, ipcVars,
                 call, isr>>

\* The call returns to the program.  rt_mutex_take alone ends with an enable
\* of the level it entered with.
Return(t) ==
  /\ isr = "none" /\ cur = t /\ pc[t] = "back"
  /\ pc' = [pc EXCEPT ![t] = "run"]
  /\ call' = [call EXCEPT ![t] = NoCall]
  /\ masked' = [masked EXCEPT ![t] =
                  IF call[t].fn = "mutex_take" THEN call[t].level ELSE @]
  /\ UNCHANGED <<tick, rq, cur, lockNest, threadVars, remain, timerVars,
                 ipcVars, isr>>

-----------------------------------------------------------------------------
(***************************************************************************)
(* Interrupts.  An interrupt is taken while the running thread has them    *)
(* enabled.  What a handler's rt_schedule picks becomes rt_current_thread  *)
(* at once; the registers are switched when the handler ends.              *)
(***************************************************************************)

CanInterrupt == isr = "none" /\ ~masked[cur]

\* rt_tick_increase up to rt_timer_check.
TickIsr ==
  /\ CanInterrupt
  /\ isr' = "timers"
  /\ tick' = (tick + 1) % TickMod
  /\ left' = [t \in Thread |-> IF left[t] > 0 THEN left[t] - 1 ELSE 0]
  /\ \/ /\ remain[cur] > 1
        /\ remain' = [remain EXCEPT ![cur] = @ - 1]
        /\ UNCHANGED <<rq, cur>>
     \/ /\ remain[cur] = 1
        /\ remain' = [remain EXCEPT ![cur] = Slice[cur]]
        /\ IF CanYield(cur)
           THEN /\ rq' = Rotated(rq, cur, prio[cur])
                /\ IsrSchedule(Rotated(rq, cur, prio[cur]))
           ELSE UNCHANGED <<rq, cur>>
  /\ UNCHANGED <<lockNest, threadVars, timers, timeout, armed, ipcVars, flowVars>>

HeadDue == timers # <<>> /\ Due(tick, timeout[Head(timers)], TickMod)

\* Wrong on purpose: the thread stays linked into the wait list.
UnlinkedNot(t) == waitq

\* rt_list_remove of t's tlist, whatever object's list it is in.
Unlinked(t) == [o \in Obj |-> Without(waitq[o], t)]

\* One round of rt_timer_check: the head timer is due and its callback,
\* rt_thread_timeout, puts the thread back into the ready queue.
FireTimer ==
  LET t == Head(timers)
      q == Inserted([rq EXCEPT !.list[prio[t]] = Without(@, t)], t, prio[t])
  IN
  /\ isr = "timers" /\ HeadDue
  /\ timers' = Tail(timers)
  /\ timeout' = [timeout EXCEPT ![t] = NoTick]
  /\ armed' = [armed EXCEPT ![t] = FALSE]
  /\ left' = [left EXCEPT ![t] = 0]
  /\ error' = [error EXCEPT ![t] = "timeout"]
  /\ waitq' = Unlinked(t)
  /\ stat' = [stat EXCEPT ![t] = "ready"]
  /\ rq' = q
  /\ IsrSchedule(q)
  /\ UNCHANGED <<tick, lockNest, prio, remain, value, mtx, flowVars, isr>>

\* rt_timer_check stops at the first timer that is not due.
LeaveIsr ==
  /\ isr = "timers" /\ ~HeadDue
  /\ isr' = "none"
  /\ UNCHANGED <<tick, rq, cur, lockNest, threadVars, remain, timerVars,
                 ipcVars, flowVars>>

\* rt_sem_release from a handler, as the UART's receive interrupt does.
SemIsr(s) ==
  /\ CanInterrupt
  /\ \/ SemPost(s) /\ UNCHANGED cur
     \/ SemHandOff(s) /\ IsrSchedule(rq')
  /\ UNCHANGED <<tick, lockNest, prio, error, remain, mtx, flowVars, isr>>

-----------------------------------------------------------------------------
ThreadStep(t) ==
  \/ \E u \in Thread : Startup(t, u)
  \/ Exit(t) \/ Yield(t)
  \/ \E n \in Delays : Delay(t, n)
  \/ \E u \in Thread, p \in CtlPrios : Control(t, u, p)
  \/ EnterCritical(t) \/ ExitCritical(t)

SemStep(t) ==
  \E s \in Sem :
    \/ SemTakeNow(t, s) \/ SemRelease(t, s)
    \/ \E n \in Timeouts : SemTakeBlock(t, s, n)

MutexStep(t) ==
  \E m \in Mutex :
    \/ MutexTakeAgain(t, m) \/ MutexTakeFree(t, m)
    \/ 0 \in Timeouts /\ MutexTry(t, m)
    \/ \E n \in Timeouts : MutexTakeBlock(t, m, n)
    \/ MutexReleaseOther(t, m) \/ MutexReleaseInner(t, m)
    \/ MutexReleaseLast(t, m)

IsrStep == TickIsr \/ FireTimer \/ LeaveIsr \/ \E s \in IsrSems : SemIsr(s)

Next ==
  \/ \E t \in Thread :
       ThreadStep(t) \/ SemStep(t) \/ MutexStep(t) \/ Schedule(t) \/ Return(t)
  \/ IsrStep

Spec == Init /\ [][Next]_vars

(***************************************************************************)
(* Fairness.  A handler runs to its end.  A handler takes less than a tick *)
(* period, so between two of them the thread that has the CPU executes     *)
(* instructions, and if it is inside a kernel call it gets on with it.     *)
(* The periodic hardware timer keeps its request pending, so a tick is     *)
(* taken once interrupts are enabled again and again.  Programs owe        *)
(* nothing: a thread may compute for ever.                                 *)
(***************************************************************************)
Fairness ==
  /\ SF_vars(TickIsr) /\ WF_vars(FireTimer \/ LeaveIsr)
  /\ SF_vars(\E t \in Thread : Schedule(t) \/ Return(t))

FairSpec == Spec /\ Fairness

-----------------------------------------------------------------------------
(***************************************************************************)
(* Properties.                                                             *)
(***************************************************************************)
Status == {"init", "ready", "suspend", "close"}
Calling == [fn : CallName \cup {"none"}, obj : Obj \cup {None},
            level : BOOLEAN]
MutexState == [value : {0, 1}, owner : Thread \cup {None},
               orig : Prio \cup {NoPrio}, hold : Nat]

\* Every variable has its type.
TypeOK ==
  /\ tick \in 0..(TickMod - 1)
  /\ rq \in [list : [Prio -> Seq(Thread)], group : SUBSET Prio]
  /\ cur \in Thread
  /\ lockNest \in {0, 1}
  /\ stat \in [Thread -> Status]
  /\ prio \in [Thread -> Prio]
  /\ error \in [Thread -> {"ok", "timeout", "error"}]
  /\ remain \in [Thread -> Nat \ {0}]
  /\ timers \in Seq(Thread)
  /\ timeout \in [Thread -> 0..(TickMod - 1) \cup {NoTick}]
  /\ armed \in [Thread -> BOOLEAN]
  /\ left \in [Thread -> Nat]
  /\ waitq \in [Obj -> Seq(Thread)]
  /\ value \in [Sem -> Nat]
  /\ mtx \in [Mutex -> MutexState]
  /\ pc \in [Thread -> {"run", "sched", "back"}]
  /\ call \in [Thread -> Calling]
  /\ masked \in [Thread -> BOOLEAN]
  /\ isr \in {"none", "timers"}

\* The ready lists hold exactly the READY threads, each once and at its
\* current priority, and the bitmap names exactly the lists in use: neither
\* a promotion nor a timeout leaves a thread in an old list or a stale bit
\* for __rt_ffs (rt_schedule, rt_thread_control, rt_thread_timeout).
ReadyQueueOK == QueueOK(rq, {t \in Thread : stat[t] = "ready"}, prio)

\* Only a suspended thread has a running timer, and each such timer is linked
\* once: rt_thread_resume and rt_timer_check never leave a timer behind that
\* would later time out a thread that runs or waits for something else.
TimersOK ==
  /\ Once(timers)
  /\ ToSet(timers) = {t \in Thread : armed[t]}
  /\ \A t \in Thread : armed[t] => stat[t] = "suspend"

\* A suspended thread can always be woken: it stands once in the wait list of
\* the object its call names, and in no other, or it is in rt_thread_delay
\* and its timer runs.
WaitersOK ==
  /\ \A o \in Obj :
       /\ Once(waitq[o])
       /\ ToSet(waitq[o]) =
            {t \in Thread : stat[t] = "suspend" /\ call[t].obj = o}
  /\ \A t \in Thread : stat[t] = "suspend" /\ call[t].obj = None => armed[t]

\* No lost wakeup: threads wait on a semaphore only while its value is 0.
NoLostWakeup == \A s \in Sem : waitq[s] # <<>> => value[s] = 0

\* A mutex is free or owned as a whole, has waiters only while it is owned,
\* and its owner is not one of them (rt_mutex_take, rt_mutex_release).
MutexOK ==
  \A m \in Mutex :
    LET x == mtx[m]
    IN  /\ x.value = 1 <=> x.owner = None
        /\ x.value = 1 <=> x.hold = 0
        /\ x.orig = NoPrio <=> x.owner = None
        /\ waitq[m] # <<>> => x.owner # None
        /\ x.owner \notin ToSet(waitq[m])

\* The thread that executes instructions is READY, unless it has just given
\* up the CPU and is about to call rt_schedule.
RunningIsReady == stat[cur] # "ready" => pc[cur] = "sched" /\ lockNest = 0

\* A thread runs its program only while it is the first of the most urgent
\* non-empty list, unless it has locked the scheduler.
HighestRuns == lockNest = 0 /\ pc[cur] = "run" => cur = Top(rq)

\* rt_mutex_take that waits for ever comes back as the owner.
TakeOwns ==
  \A t \in Thread :
    cur = t /\ pc[t] = "back" /\ call[t].fn = "mutex_take"
      => mtx[call[t].obj].owner = t

\* Priority inheritance: nobody waits for an owner less urgent than itself.
OwnerPromoted ==
  \A m \in Mutex : \A w \in ToSet(waitq[m]) : prio[mtx[m].owner] <= prio[w]

\* A thread that owns no mutex runs at its own priority again.
PrioRestored ==
  \A t \in Thread :
    (\A m \in Mutex : mtx[m].owner # t) => prio[t] = InitPrio[t]

\* While the scheduler is locked the CPU is not given to another thread, not
\* even by an interrupt handler that readies a more urgent one.
LockHolds == [][lockNest > 0 => cur' = cur]_vars

\* No delay and no wait ends early: when rt_timer_check ends one, every tick of
\* the time it was called with has come, wherever rt_tick wrapped around.
NeverEarly ==
  [][\A t \in Thread :
       error'[t] = "timeout" /\ armed[t] /\ ~armed'[t] => left[t] = 0]_vars

\* A delay ends.  Interrupts must be enabled again and again: a thread that
\* computes with the I bit set stops the clock.
DelayEnds ==
  ([]<>(~masked[cur])) =>
     \A t \in Thread : (stat[t] = "suspend") ~> (stat[t] = "ready")

\* Round robin: a READY thread of the most urgent priority gets the CPU.
RoundRobin ==
  ([]<>(~masked[cur])) =>
     \A t \in Thread :
       []<>(cur = t \/ stat[t] # "ready" \/ prio[t] # Least(rq.group))
-----------------------------------------------------------------------------
(* The semaphores keep the promise of SemPromise.  A thread that was given a *)
(* token is READY inside rt_sem_take with error still RT_EOK; one whose wait *)
(* ended is READY there with error -RT_ETIMEOUT.                             *)

Inside(t, s, e) ==
  /\ call[t].fn = "sem_take" /\ call[t].obj = s
  /\ stat[t] = "ready" /\ error[t] = e

Promise == INSTANCE SemPromise WITH
  Initial <- SemInit,
  free    <- value,
  queue   <- [s \in Sem |-> waitq[s]],
  given   <- [s \in Sem |-> {t \in Thread : Inside(t, s, "ok")}],
  expired <- [s \in Sem |-> {t \in Thread : Inside(t, s, "timeout")}]

\* What rt_sem_take, rt_sem_release, the timeout and the scheduler do to a
\* semaphore, seen from outside, is what SemPromise allows: tokens are never
\* lost or doubled, waiters are served in order, and the return value of
\* rt_sem_take says whether a token was taken.
SemKeepsPromise == Promise!Spec
=============================================================================
