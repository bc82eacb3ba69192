------------------------------- MODULE Timer ---------------------------------
(***************************************************************************)
(* The timers of src/timer.c, with callbacks that start and stop timers    *)
(* themselves.  rt_timer_start is two critical sections with a window      *)
(* between them, and rt_timer_stop tests and clears RT_TIMER_FLAG_ACTIVED  *)
(* outside its own; the tick interrupt, or another thread, may come at     *)
(* each of these places.                                                   *)
(***************************************************************************)
EXTENDS Lists

CONSTANTS
  Timer, NoTimer,   (* the timers; no timer                                *)
  User, Uses,       (* the threads; the timers each starts and stops       *)
  Periodic,         (* those with RT_TIMER_FLAG_PERIODIC                   *)
  CallbackOps,      (* timer -> the pairs (call, timer) its callback makes *)
  Ticks,            (* the values init_tick may have                       *)
  TickMod,          (* number of values of rt_tick_t                       *)
  StartMax          (* bound on the calls of rt_timer_start by threads     *)

\* A timer has one user: a thread, or callbacks.  A time of more than half the
\* range of rt_tick_t would be over at once.
ASSUME TimerAssumption ==
  /\ NoTimer \notin Timer /\ Periodic \subseteq Timer
  /\ Uses \in [User -> SUBSET Timer]
  /\ \A a, b \in User : a # b => Uses[a] \cap Uses[b] = {}
  /\ CallbackOps \in [Timer -> SUBSET ({"start", "stop"} \X Timer)]
  /\ \A t \in Timer : \A c \in CallbackOps[t] :
       c[2] = t \/ \A a \in User : c[2] \notin Uses[a]
  /\ TickMod \in Nat \ {0} /\ Ticks \subseteq 0..TickMod \div 2
  /\ StartMax \in Nat

VARIABLES
  tick, inTick,  (* rt_tick; the tick handler runs                         *)
  timer_list,    (* rt_timer_list                                          *)
  tm,            (* timer -> active, init_tick and, while it is linked,    *)
                 (* timeout_tick and the ticks left since it was read      *)
  timerAt,       (* thread -> the call it is in, and of which timer        *)
  quiet,         (* the timers stopped with RT_EOK and not started since   *)
  starts         (* calls of rt_timer_start so far                         *)

timerVars == <<tick, inTick, timer_list, tm, timerAt, quiet, starts>>

NotCalling == [fn |-> "out", timer |-> NoTimer]

TimerInit ==
  /\ tick = 0 /\ inTick = FALSE /\ timer_list = <<>>
  /\ tm \in [Timer -> {[active |-> FALSE, init |-> i, at |-> 0, left |-> 0] :
                       i \in Ticks}]
  /\ timerAt = [a \in User |-> NotCalling] /\ quiet = {} /\ starts = 0

-----------------------------------------------------------------------------
(* rt_timer_start; _rt_timer_remove is Without, which a timer that is not  *)
(* linked goes through unchanged.                                          *)

Inactive(m, t) == [m EXCEPT ![t].active = FALSE]
Unset(m, t) == [m EXCEPT ![t].at = 0, ![t].left = 0]

Stamped(m, t) == [m EXCEPT ![t].at = (tick + m[t].init) % TickMod,
                           ![t].left = m[t].init]

\* The loop over the leading timers that end at the same tick.
Linked(l, m, t) == InsertTimer(l, [u \in Timer |-> m[u].at], t, m[t].at)

\* All of it by a callback, where no one interrupts.
StartedList(l, m, t) == Linked(Without(l, t), Stamped(m, t), t)
StartedSet(m, t) == [Stamped(m, t) EXCEPT ![t].active = TRUE]

-----------------------------------------------------------------------------
(* Calls of threads. *)

InCall(a, fn) == ~inTick /\ timerAt[a].fn = fn
GoesTo(a, fn, t) == timerAt' = [timerAt EXCEPT ![a] = [fn |-> fn, timer |-> t]]
ComesBack(a) == timerAt' = [timerAt EXCEPT ![a] = NotCalling]

\* The first critical section of rt_timer_start.
TimerStart(a, t) ==
  /\ InCall(a, "out") /\ t \in Uses[a] /\ starts < StartMax
  /\ timer_list' = Without(timer_list, t) /\ tm' = Unset(Inactive(tm, t), t)
  /\ GoesTo(a, "stamp", t)
  /\ quiet' = quiet \ {t} /\ starts' = starts + 1
  /\ UNCHANGED <<tick, inTick>>

\* The window: timeout_tick is set from the tick of the moment.
TimerStamp(a) ==
  /\ InCall(a, "stamp")
  /\ tm' = Stamped(tm, timerAt[a].timer)
  /\ GoesTo(a, "insert", timerAt[a].timer)
  /\ UNCHANGED <<tick, inTick, timer_list, quiet, starts>>

\* The second critical section.
TimerLink(a) ==
  LET t == timerAt[a].timer IN
  /\ InCall(a, "insert")
  /\ timer_list' = Linked(timer_list, tm, t)
  /\ tm' = [tm EXCEPT ![t].active = TRUE]
  /\ ComesBack(a)
  /\ UNCHANGED <<tick, inTick, quiet, starts>>

\* rt_timer_stop of a timer that is not active returns -RT_ERROR.
TimerStop(a, t) ==
  /\ InCall(a, "out") /\ t \in Uses[a] /\ tm[t].active
  /\ GoesTo(a, "unlink", t)
  /\ UNCHANGED <<tick, inTick, timer_list, tm, quiet, starts>>

TimerUnlink(a) ==
  /\ InCall(a, "unlink")
  /\ timer_list' = Without(timer_list, timerAt[a].timer)
  /\ tm' = Unset(tm, timerAt[a].timer)
  /\ GoesTo(a, "clear", timerAt[a].timer)
  /\ UNCHANGED <<tick, inTick, quiet, starts>>

TimerClear(a) ==
  /\ InCall(a, "clear")
  /\ tm' = Inactive(tm, timerAt[a].timer)
  /\ quiet' = quiet \cup {timerAt[a].timer}
  /\ ComesBack(a)
  /\ UNCHANGED <<tick, inTick, timer_list, starts>>

\* rt_timer_control(RT_TIMER_CTRL_SET_TIME).
TimerControl(a, t, n) ==
  /\ InCall(a, "out") /\ t \in Uses[a]
  /\ tm' = [tm EXCEPT ![t].init = n]
  /\ UNCHANGED <<tick, inTick, timer_list, timerAt, quiet, starts>>

\* rt_timer_detach, and rt_timer_init before the next use.
TimerRenew(a, t, n) ==
  /\ InCall(a, "out") /\ t \in Uses[a]
  /\ timer_list' = Without(timer_list, t)
  /\ tm' = [tm EXCEPT ![t] =
              [active |-> FALSE, init |-> n, at |-> 0, left |-> 0]]
  /\ quiet' = quiet \cup {t}
  /\ UNCHANGED <<tick, inTick, timerAt, starts>>

-----------------------------------------------------------------------------
(* The tick handler. *)

Passed(t) == IF tm[t].left > 0 THEN tm[t].left - 1 ELSE 0

NextTick ==
  /\ ~inTick /\ inTick' = TRUE
  /\ tick' = (tick + 1) % TickMod
  /\ tm' = [t \in Timer |-> [tm[t] EXCEPT !.left = Passed(t)]]
  /\ UNCHANGED <<timer_list, timerAt, quiet, starts>>

FirstDue ==
  timer_list # <<>> /\ Due(tick, tm[Head(timer_list)].at, TickMod)

\* Wrong on purpose: a timer that its callback stopped starts anew as well.
AgainAlways(t, m) == t \in Periodic

\* Behind the callback: the timer goes on.
Again(t, m) == t \in Periodic /\ m[t].active

\* What may be behind the callback of t, when l and m are the list and the
\* timers before it: it makes one of its calls, or none.
AfterCallback(t, l, m) ==
  {[list |-> l, tm |-> m, quiet |-> quiet]}
  \cup {[list |-> StartedList(l, m, c[2]), tm |-> StartedSet(m, c[2]),
         quiet |-> quiet \ {c[2]}] : c \in {d \in CallbackOps[t] : d[1] = "start"}}
  \cup {[list |-> Without(l, c[2]), tm |-> Unset(Inactive(m, c[2]), c[2]),
         quiet |-> quiet \cup {c[2]}] :
          c \in {d \in CallbackOps[t] : d[1] = "stop" /\ m[d[2]].active}}

\* A round of rt_timer_check: the first timer is taken out, its callback runs,
\* then a periodic timer starts anew.
FireFirst ==
  LET t == Head(timer_list) IN
  /\ inTick /\ FirstDue
  /\ \E r \in AfterCallback(t, Tail(timer_list), Unset(tm, t)) :
       LET m == Inactive(r.tm, t) IN
       /\ IF Again(t, r.tm)
          THEN timer_list' = StartedList(r.list, m, t) /\ tm' = StartedSet(m, t)
          ELSE timer_list' = r.list /\ tm' = m
       /\ quiet' = r.quiet
  /\ UNCHANGED <<tick, inTick, timerAt, starts>>

LeaveTick ==
  /\ inTick /\ ~FirstDue
  /\ inTick' = FALSE
  /\ UNCHANGED <<tick, timer_list, tm, timerAt, quiet, starts>>

InTimerCall(a) ==
  TimerStamp(a) \/ TimerLink(a) \/ TimerUnlink(a) \/ TimerClear(a)

TimerNext ==
  \/ NextTick \/ FireFirst \/ LeaveTick
  \/ \E a \in User : InTimerCall(a)
  \/ \E a \in User, t \in Timer : TimerStart(a, t) \/ TimerStop(a, t)
  \/ \E a \in User, t \in Timer, n \in Ticks :
       TimerControl(a, t, n) \/ TimerRenew(a, t, n)

TimerSpec == TimerInit /\ [][TimerNext]_timerVars

-----------------------------------------------------------------------------
(* Properties. *)

Using == {"stamp", "insert", "unlink", "clear"}

TimerTypes ==
  /\ tick \in 0..TickMod - 1 /\ inTick \in BOOLEAN
  /\ timer_list \in Seq(Timer)
  /\ tm \in [Timer -> [active : BOOLEAN, init : Ticks,
                       at : 0..TickMod - 1, left : Nat]]
  /\ timerAt \in [User -> [fn : Using, timer : Timer] \cup {NotCalling}]
  /\ \A a \in User : timerAt[a] # NotCalling => timerAt[a].timer \in Uses[a]
  /\ quiet \subseteq Timer /\ starts \in 0..StartMax

IsLinked(t) == t \in ToSet(timer_list)
Busy(t) == \E a \in User : timerAt[a].timer = t
RestartsItself(t) == t \notin Periodic /\ <<"start", t>> \in CallbackOps[t]

\* Between calls RT_TIMER_FLAG_ACTIVED says whether the timer is linked, so
\* that rt_timer_stop takes it out - but for a one-shot timer whose callback
\* started it again, which runs without the flag.
ActiveLinked ==
  \A t \in Timer : ~Busy(t) =>
    /\ tm[t].active => IsLinked(t)
    /\ IsLinked(t) => tm[t].active \/ RestartsItself(t)

\* The list holds a timer at most once, although callbacks and interrupts come
\* between the two critical sections of rt_timer_start.
TimersSound == TimerTypes /\ Once(timer_list) /\ ActiveLinked

\* No callback runs before its time has passed since the start, and none of
\* a timer that was stopped: the wraparound, the window in rt_timer_start
\* and the flag tested before the critical section of rt_timer_stop included.
FiresInTime ==
  [][inTick /\ inTick' => /\ tm[Head(timer_list)].left = 0
                          /\ Head(timer_list) \notin quiet]_timerVars

\* The timers' list and flags agree whatever callbacks and interrupts come in
\* between; no callback is called of a timer that was stopped, and none before
\* its time (src/timer.c).
TimersFire == []TimersSound /\ FiresInTime
=============================================================================
