---------------------------- MODULE ContextProofs ----------------------------
(***************************************************************************)
(* Two parts of MCContext: the timers of Timer fire in time, for any       *)
(* timers, threads, periods and calls of callbacks; and Switch, for any    *)
(* threads, interrupts and number of calls of rt_schedule in a handler.    *)
(***************************************************************************)
EXTENDS Timer, Switch, ListTheorems, FiniteSetTheorems

TimerSet == [Timer -> [active : BOOLEAN, init : Ticks,
                       at : 0..TickMod - 1, left : Nat]]

\* While ticks are left, timeout_tick is that many ticks ahead of the tick n.
Ahead(m, n) ==
  \A t \in Timer : m[t].left > 0 =>
    m[t].at = (n + m[t].left) % TickMod /\ m[t].left <= TickMod \div 2

\* A thread is in a call of t, with t out of the list.
Window == {"stamp", "insert", "clear"}
InWindow(t) == \E a \in User : timerAt[a].timer = t /\ timerAt[a].fn \in Window
Restarting(t) ==
  \E a \in User : timerAt[a].timer = t /\ timerAt[a].fn \in {"stamp", "insert"}

TimersOut ==
  /\ \A t \in Timer : InWindow(t) => ~IsLinked(t)
  /\ \A t \in quiet : ~IsLinked(t) /\ ~Restarting(t)

TimersInv == TimersSound /\ Ahead(tm, tick) /\ TimersOut

-----------------------------------------------------------------------------
(* The pieces of calls. *)

LEMMA InactiveOK ==
  ASSUME NEW m \in TimerSet, NEW t \in Timer, NEW n
  PROVE  /\ Inactive(m, t) \in TimerSet /\ ~Inactive(m, t)[t].active
         /\ \A u \in Timer \ {t} : Inactive(m, t)[u] = m[u]
         /\ Ahead(m, n) => Ahead(Inactive(m, t), n)
<1>1. Inactive(m, t) = [m EXCEPT ![t] = [m[t] EXCEPT !.active = FALSE]]
  BY DEF Inactive, TimerSet
<1>2. m[t] \in [active : BOOLEAN, init : Ticks, at : 0..TickMod - 1, left : Nat]
  BY DEF TimerSet
<1>3. /\ [m[t] EXCEPT !.active = FALSE] \in
            [active : BOOLEAN, init : Ticks, at : 0..TickMod - 1, left : Nat]
      /\ [m[t] EXCEPT !.active = FALSE].active = FALSE
      /\ [m[t] EXCEPT !.active = FALSE].at = m[t].at
      /\ [m[t] EXCEPT !.active = FALSE].left = m[t].left
  BY <1>2
<1>4. QED
  BY <1>1, <1>3 DEF TimerSet, Ahead

LEMMA UnsetOK ==
  ASSUME NEW m \in TimerSet, NEW t \in Timer, NEW n
  PROVE  /\ Unset(m, t) \in TimerSet
         /\ \A u \in Timer : Unset(m, t)[u].active = m[u].active
         /\ \A u \in Timer \ {t} : Unset(m, t)[u] = m[u]
         /\ Ahead(m, n) => Ahead(Unset(m, t), n)
<1> DEFINE r == [m[t] EXCEPT !.at = 0, !.left = 0]
<1>1. Unset(m, t) = [m EXCEPT ![t] = r]
  BY DEF Unset, TimerSet
<1>2. m[t] \in [active : BOOLEAN, init : Ticks, at : 0..TickMod - 1, left : Nat]
  BY DEF TimerSet
<1>3. 0 \in 0..TickMod - 1
  BY TimerAssumption
<1>4. /\ r \in [active : BOOLEAN, init : Ticks, at : 0..TickMod - 1, left : Nat]
      /\ r.active = m[t].active /\ r.left = 0
  BY <1>2, <1>3
<1> HIDE DEF r
<1>5. QED
  BY <1>1, <1>4 DEF TimerSet, Ahead

LEMMA StampedOK ==
  ASSUME NEW m \in TimerSet, NEW t \in Timer, tick \in 0..TickMod - 1
  PROVE  /\ Stamped(m, t) \in TimerSet
         /\ \A u \in Timer : Stamped(m, t)[u].active = m[u].active
         /\ \A u \in Timer \ {t} : Stamped(m, t)[u] = m[u]
         /\ Ahead(m, tick) => Ahead(Stamped(m, t), tick)
<1> DEFINE r == [m[t] EXCEPT !.at = (tick + m[t].init) % TickMod, !.left = m[t].init]
<1>1. Stamped(m, t) = [m EXCEPT ![t] = r]
  BY DEF Stamped, TimerSet
<1>2. m[t] \in [active : BOOLEAN, init : Ticks, at : 0..TickMod - 1, left : Nat]
  BY DEF TimerSet
<1>3. m[t].init \in Nat /\ m[t].init <= TickMod \div 2 /\ (tick + m[t].init) % TickMod \in 0..TickMod - 1
  <2>1. TickMod \in Nat \ {0} /\ m[t].init \in Nat /\ m[t].init <= TickMod \div 2
    <3> DEFINE half == TickMod \div 2
    <3>1. TickMod \in Nat \ {0} /\ half \in Nat /\ Ticks \subseteq 0..half
      BY TimerAssumption
    <3>2. m[t].init \in Ticks
      BY <1>2
    <3> HIDE DEF half
    <3>3. m[t].init \in 0..half
      BY ONLY <3>1, <3>2, Zenon
    <3>4. \A n \in 0..half : n \in Nat /\ n <= half
      BY ONLY <3>1
    <3>5. m[t].init \in Nat /\ m[t].init <= half
      BY ONLY <3>3, <3>4, Zenon
    <3> QED BY <3>1, <3>5 DEF half
  <2>2. \A n \in Nat : n % TickMod \in 0..TickMod - 1
    BY ONLY <2>1
  <2>3. tick + m[t].init \in Nat
    BY <2>1
  <2> QED BY ONLY <2>1, <2>2, <2>3
<1>4. /\ r \in [active : BOOLEAN, init : Ticks, at : 0..TickMod - 1, left : Nat]
      /\ r.active = m[t].active /\ r.left = m[t].init /\ r.at = (tick + m[t].init) % TickMod
  BY <1>2, <1>3
<1> HIDE DEF r
<1>5. QED
  BY <1>1, <1>3, <1>4 DEF TimerSet, Ahead

Active(m, t) == [m EXCEPT ![t].active = TRUE]

LEMMA ActiveOK ==
  ASSUME NEW m \in TimerSet, NEW t \in Timer, NEW n
  PROVE  /\ Active(m, t) \in TimerSet /\ Active(m, t)[t].active
         /\ \A u \in Timer \ {t} : Active(m, t)[u] = m[u]
         /\ Ahead(m, n) => Ahead(Active(m, t), n)
<1> DEFINE r == [m[t] EXCEPT !.active = TRUE]
<1>1. Active(m, t) = [m EXCEPT ![t] = r]
  BY DEF Active, TimerSet
<1>2. m[t] \in [active : BOOLEAN, init : Ticks, at : 0..TickMod - 1, left : Nat]
  BY DEF TimerSet
<1>3. /\ r \in [active : BOOLEAN, init : Ticks, at : 0..TickMod - 1, left : Nat]
      /\ r.active = TRUE /\ r.at = m[t].at /\ r.left = m[t].left
  BY <1>2
<1> HIDE DEF r
<1>4. QED
  BY <1>1, <1>3 DEF TimerSet, Ahead

LEMMA StartedSetOK ==
  ASSUME NEW m \in TimerSet, NEW t \in Timer, tick \in 0..TickMod - 1
  PROVE  /\ StartedSet(m, t) \in TimerSet /\ StartedSet(m, t)[t].active
         /\ \A u \in Timer \ {t} : StartedSet(m, t)[u] = m[u]
         /\ Ahead(m, tick) => Ahead(StartedSet(m, t), tick)
<1> DEFINE s == Stamped(m, t)
<1>1. /\ s \in TimerSet /\ \A u \in Timer \ {t} : s[u] = m[u]
      /\ Ahead(m, tick) => Ahead(s, tick)
  BY StampedOK
<1>2. StartedSet(m, t) = Active(s, t)
  BY DEF StartedSet, Active
<1> HIDE DEF s
<1>3. QED
  BY <1>1, <1>2, ActiveOK

LEMMA LinkedOK ==
  ASSUME NEW l \in Seq(Timer), NEW m, NEW t \in Timer, Once(l), t \notin ToSet(l)
  PROVE  /\ Linked(l, m, t) \in Seq(Timer) /\ Once(Linked(l, m, t))
         /\ ToSet(Linked(l, m, t)) = ToSet(l) \cup {t}
BY InsertTimerOK DEF Linked

LEMMA StartedListOK ==
  ASSUME NEW l \in Seq(Timer), NEW m, NEW t \in Timer, Once(l)
  PROVE  /\ StartedList(l, m, t) \in Seq(Timer) /\ Once(StartedList(l, m, t))
         /\ ToSet(StartedList(l, m, t)) = ToSet(l) \cup {t}
<1>1. /\ Without(l, t) \in Seq(Timer) /\ Once(Without(l, t))
      /\ ToSet(Without(l, t)) = ToSet(l) \ {t}
  BY WithoutOK
<1>2. QED
  BY <1>1, LinkedOK DEF StartedList

-----------------------------------------------------------------------------
(* The calls of threads.                                                   *)

\* The thread in a call of t is the only one.
LEMMA OneUser ==
  ASSUME TimerTypes, NEW a \in User, NEW t \in Uses[a], NEW b \in User, timerAt[b].timer = t
  PROVE  b = a /\ t \in Timer
BY TimerAssumption DEF TimerTypes, NotCalling

LEMMA InCallOK ==
  ASSUME TimerTypes, NEW a \in User, timerAt[a].fn # "out"
  PROVE  /\ timerAt[a].timer \in Uses[a] /\ timerAt[a].timer \in Timer
         /\ timerAt[a].fn \in Using
BY TimerAssumption DEF TimerTypes, NotCalling

\* A step of a thread in a call, that takes t out of the list or leaves it.
LEMMA ThreadOut ==
  ASSUME TimersInv, NEW a \in User, NEW t \in Uses[a], NEW f \in Using,
         timerAt[a] = NotCalling \/ timerAt[a].timer = t,
         GoesTo(a, f, t), UNCHANGED <<tick, inTick>>,
         tm' \in TimerSet, Ahead(tm', tick),
         \A u \in Timer \ {t} : tm'[u] = tm[u],
         \/ timer_list' = Without(timer_list, t)
         \/ timer_list' = timer_list /\ (f \in Window => ~IsLinked(t)),
         quiet' \subseteq quiet, starts' \in 0..StartMax,
         f \in {"stamp", "insert"} => t \notin quiet'
  PROVE  TimersInv'
<1>1. t \in Timer /\ timer_list \in Seq(Timer) /\ Once(timer_list)
  BY TimerAssumption DEF TimersInv, TimersSound, TimerTypes
<1>2. /\ timer_list' \in Seq(Timer) /\ Once(timer_list')
      /\ ToSet(timer_list') \subseteq ToSet(timer_list)
      /\ ToSet(timer_list) \subseteq ToSet(timer_list') \cup {t}
      /\ f \in Window => t \notin ToSet(timer_list')
  BY <1>1, WithoutOK DEF IsLinked
<1>3. /\ timerAt'[a] = [fn |-> f, timer |-> t]
      /\ \A b \in User \ {a} : timerAt'[b] = timerAt[b]
      /\ timerAt' \in [User -> [fn : Using, timer : Timer] \cup {NotCalling}]
  BY <1>1 DEF GoesTo, TimersInv, TimersSound, TimerTypes
<1>4. timerAt'[a].fn = f /\ timerAt'[a].timer = t
  BY <1>3
<1>5. TimerTypes'
  BY <1>2, <1>3, <1>4 DEF TimersInv, TimersSound, TimerTypes, TimerSet
<1>6. \A b \in User \ {a} : timerAt[b].timer # t
  BY OneUser DEF TimersInv, TimersSound
<1>7. ASSUME NEW u \in Timer, ~Busy(u)'
      PROVE  u # t /\ ~Busy(u)
  <2>1. \A b \in User : timerAt'[b].timer # u
    BY <1>7 DEF Busy
  <2>2. u # t
    BY <1>4, <2>1
  <2>3. timerAt[a].timer # u
    BY <1>7, <2>2, TimerAssumption DEF NotCalling
  <2>4. QED
    BY <1>3, <2>1, <2>2, <2>3 DEF Busy
<1>8. ActiveLinked'
  <2>1. ASSUME NEW u \in Timer, ~Busy(u)'
        PROVE  /\ tm'[u].active => u \in ToSet(timer_list')
               /\ u \in ToSet(timer_list') => tm'[u].active \/ RestartsItself(u)
    BY <1>2, <1>7, <2>1 DEF TimersInv, TimersSound, ActiveLinked, IsLinked
  <2>2. QED
    BY <2>1 DEF ActiveLinked, IsLinked, RestartsItself
<1>9. ASSUME NEW u \in Timer
      PROVE  /\ InWindow(u)' => u \notin ToSet(timer_list')
             /\ u \in quiet' => u \notin ToSet(timer_list') /\ ~Restarting(u)'
  <2>1. CASE u = t
    <3>1. InWindow(u)' => f \in Window
      BY <1>3, <1>4, <1>6, <2>1 DEF InWindow
    <3>2. Restarting(u)' => f \in {"stamp", "insert"}
      BY <1>3, <1>4, <1>6, <2>1 DEF Restarting
    <3>3. u \in quiet' => u \notin ToSet(timer_list)
      BY DEF TimersInv, TimersOut, IsLinked
    <3>4. QED
      BY <1>2, <2>1, <3>1, <3>2, <3>3
  <2>2. CASE u # t
    <3>1. InWindow(u)' => InWindow(u)
      BY <1>3, <1>4, <2>2 DEF InWindow
    <3>2. Restarting(u)' => Restarting(u)
      BY <1>3, <1>4, <2>2 DEF Restarting
    <3>3. QED
      BY <1>2, <3>1, <3>2 DEF TimersInv, TimersOut, IsLinked
  <2>3. QED
    BY <2>1, <2>2
<1>10. TimersOut'
  <2>1. \A u \in Timer : InWindow(u)' => ~IsLinked(u)'
    BY <1>9 DEF IsLinked
  <2>2. \A u \in quiet' : ~IsLinked(u)' /\ ~Restarting(u)'
    BY <1>5, <1>9 DEF IsLinked, TimerTypes
  <2>3. QED
    BY <2>1, <2>2 DEF TimersOut
<1>11. QED
  BY <1>2, <1>5, <1>8, <1>10 DEF TimersInv, TimersSound

-----------------------------------------------------------------------------
(* The parts of TimersInv that are about one timer. *)

\* With the list, the timers and the stopped ones as they are, or as a callback
\* leaves them.
GoodIn(u, l, m, q) ==
  /\ ~Busy(u) => /\ m[u].active => u \in ToSet(l)
                 /\ u \in ToSet(l) => m[u].active \/ RestartsItself(u)
  /\ InWindow(u) => u \notin ToSet(l)
  /\ u \in q => u \notin ToSet(l) /\ ~Restarting(u)

Good(u) == GoodIn(u, timer_list, tm, quiet)

LEMMA GoodBefore ==
  ASSUME TimersInv
  PROVE  /\ TimerTypes /\ tm \in TimerSet /\ timer_list \in Seq(Timer)
         /\ Once(timer_list) /\ Ahead(tm, tick) /\ \A u \in Timer : Good(u)
<1>1. /\ TimerTypes /\ tm \in TimerSet /\ timer_list \in Seq(Timer)
      /\ Once(timer_list) /\ Ahead(tm, tick)
  BY DEF TimersInv, TimersSound, TimerTypes, TimerSet
<1>2. ASSUME NEW u \in Timer
      PROVE  Good(u)
  <2>1. ~Busy(u) => /\ tm[u].active => IsLinked(u)
                    /\ IsLinked(u) => tm[u].active \/ RestartsItself(u)
    BY DEF TimersInv, TimersSound, ActiveLinked
  <2>2. /\ InWindow(u) => ~IsLinked(u)
        /\ u \in quiet => ~IsLinked(u) /\ ~Restarting(u)
    BY DEF TimersInv, TimersOut
  <2>3. QED
    BY <2>1, <2>2 DEF Good, GoodIn, IsLinked
<1>3. QED
  BY <1>1, <1>2

LEMMA GoodAfter ==
  ASSUME TimerTypes', Once(timer_list'), Ahead(tm', tick'), \A u \in Timer : Good(u)'
  PROVE  TimersInv'
<1>1. ActiveLinked'
  BY DEF Good, GoodIn, ActiveLinked, IsLinked
<1>2. TimersOut'
  BY DEF Good, GoodIn, TimersOut, TimerTypes, IsLinked
<1>3. QED
  BY <1>1, <1>2 DEF TimersInv, TimersSound, Ahead

\* What nobody touches stays good.
LEMMA OthersGood ==
  ASSUME NEW u \in Timer, Good(u), tm'[u].active = tm[u].active,
         u \in ToSet(timer_list') <=> u \in ToSet(timer_list),
         u \in quiet' => u \in quiet,
         \A b \in User : timerAt'[b].timer = u \/ timerAt[b].timer = u
                         => timerAt'[b] = timerAt[b]
  PROVE  Good(u)'
<1>1. Busy(u)' <=> Busy(u)
  BY DEF Busy
<1>2. InWindow(u)' <=> InWindow(u)
  BY DEF InWindow
<1>3. Restarting(u)' <=> Restarting(u)
  BY DEF Restarting
<1>4. RestartsItself(u)' <=> RestartsItself(u)
  BY DEF RestartsItself
<1>5. QED
  BY <1>1, <1>2, <1>3, <1>4 DEF Good, GoodIn, IsLinked

-----------------------------------------------------------------------------
(* The end of a call, and the calls that are one step. *)

LEMMA ComesBackOK ==
  ASSUME TimerTypes, NEW a \in User, ComesBack(a)
  PROVE  /\ timerAt' \in [User -> [fn : Using, timer : Timer] \cup {NotCalling}]
         /\ \A b \in User : timerAt'[b] # NotCalling => timerAt'[b].timer \in Uses[b]
         /\ timerAt'[a] = NotCalling
         /\ \A b \in User \ {a} : timerAt'[b] = timerAt[b]
BY DEF ComesBack, TimerTypes

\* Thread a is through with t, and nobody else is in a call of it.
LEMMA ThreadDone ==
  ASSUME TimersInv, NEW a \in User, NEW t \in Uses[a],
         \/ timerAt[a].timer = t /\ ComesBack(a)
         \/ timerAt[a] = NotCalling /\ UNCHANGED timerAt,
         UNCHANGED <<tick, inTick, starts>>,
         tm' \in TimerSet, Ahead(tm', tick),
         \A u \in Timer \ {t} : tm'[u] = tm[u],
         timer_list' \in Seq(Timer), Once(timer_list'),
         \A u \in Timer \ {t} : u \in ToSet(timer_list') <=> u \in ToSet(timer_list),
         quiet' \subseteq quiet \cup {t},
         tm'[t].active => t \in ToSet(timer_list'),
         t \in ToSet(timer_list') => tm'[t].active \/ RestartsItself(t),
         t \in quiet' => t \notin ToSet(timer_list')
  PROVE  TimersInv'
<1>1. /\ TimerTypes /\ \A u \in Timer : Good(u)
      /\ t \in Timer /\ tick \in 0..TickMod - 1 /\ inTick \in BOOLEAN
      /\ quiet \subseteq Timer /\ starts \in 0..StartMax
  BY GoodBefore, TimerAssumption DEF TimerTypes
<1>2. /\ timerAt' \in [User -> [fn : Using, timer : Timer] \cup {NotCalling}]
      /\ \A b \in User : timerAt'[b] # NotCalling => timerAt'[b].timer \in Uses[b]
      /\ timerAt'[a] = NotCalling
      /\ \A b \in User \ {a} : timerAt'[b] = timerAt[b]
  BY <1>1, ComesBackOK DEF TimerTypes
<1>3. TimerTypes'
  BY <1>1, <1>2 DEF TimerTypes, TimerSet
<1>4. \A b \in User : timerAt'[b].timer # t
  BY <1>1, <1>2, OneUser, TimerAssumption DEF NotCalling
<1>5. ASSUME NEW u \in Timer
      PROVE  Good(u)'
  <2>1. CASE u = t
    <3>1. ~InWindow(u)' /\ ~Restarting(u)'
      BY <1>4, <2>1 DEF InWindow, Restarting
    <3>2. RestartsItself(u)' <=> RestartsItself(u)
      BY DEF RestartsItself
    <3>3. QED
      BY <2>1, <3>1, <3>2 DEF Good, GoodIn, IsLinked
  <2>2. CASE u # t
    <3>1. \A b \in User : timerAt'[b].timer = u \/ timerAt[b].timer = u
                          => timerAt'[b] = timerAt[b]
      BY <1>2, <2>2, TimerAssumption DEF NotCalling
    <3>2. Good(u) /\ tm'[u].active = tm[u].active /\ (u \in quiet' => u \in quiet)
      BY <1>1, <2>2
    <3>3. u \in ToSet(timer_list') <=> u \in ToSet(timer_list)
      BY <2>2
    <3>4. QED
      BY <3>1, <3>2, <3>3, OthersGood
  <2>3. QED
    BY <2>1, <2>2
<1>6. QED
  BY <1>3, <1>5, GoodAfter

LEMMA LinkKeeps ==
  ASSUME TimersInv, NEW a \in User, TimerLink(a)
  PROVE  TimersInv'
<1> DEFINE t == timerAt[a].timer
<1>1. timerAt[a].fn = "insert" /\ t \in Uses[a] /\ t \in Timer
  BY GoodBefore, InCallOK DEF TimerLink, InCall
<1>2. t \notin ToSet(timer_list) /\ t \notin quiet
  BY <1>1, GoodBefore DEF Good, GoodIn, InWindow, Restarting, Window, IsLinked
<1>3. /\ timer_list' \in Seq(Timer) /\ Once(timer_list')
      /\ ToSet(timer_list') = ToSet(timer_list) \cup {t}
  BY <1>1, <1>2, GoodBefore, LinkedOK DEF TimerLink
<1>4. /\ tm' \in TimerSet /\ tm'[t].active /\ Ahead(tm', tick)
      /\ \A u \in Timer \ {t} : tm'[u] = tm[u]
  <2>1. tm' = Active(tm, t) /\ tm \in TimerSet /\ Ahead(tm, tick)
    BY GoodBefore DEF TimerLink, Active
  <2> HIDE DEF t
  <2>2. QED
    BY <1>1, <2>1, ActiveOK
<1>5. ComesBack(a) /\ UNCHANGED <<tick, inTick, quiet, starts>>
  BY DEF TimerLink
<1>6. QED
  BY <1>1, <1>2, <1>3, <1>4, <1>5, ThreadDone

LEMMA ClearKeeps ==
  ASSUME TimersInv, NEW a \in User, TimerClear(a)
  PROVE  TimersInv'
<1> DEFINE t == timerAt[a].timer
<1>1. timerAt[a].fn = "clear" /\ t \in Uses[a] /\ t \in Timer
  BY GoodBefore, InCallOK DEF TimerClear, InCall
<1>2. t \notin ToSet(timer_list)
  BY <1>1, GoodBefore DEF Good, GoodIn, InWindow, Window, IsLinked
<1>3. /\ tm' \in TimerSet /\ ~tm'[t].active /\ Ahead(tm', tick)
      /\ \A u \in Timer \ {t} : tm'[u] = tm[u]
  BY <1>1, GoodBefore, InactiveOK DEF TimerClear
<1>4. ComesBack(a) /\ UNCHANGED <<tick, inTick, timer_list, starts>> /\ quiet' = quiet \cup {t}
  BY DEF TimerClear
<1>5. timer_list' \in Seq(Timer) /\ Once(timer_list')
  BY <1>4, GoodBefore
<1>6. QED
  BY <1>1, <1>2, <1>3, <1>4, <1>5, ThreadDone

LEMMA OutIsIdle ==
  ASSUME TimerTypes, NEW a \in User, InCall(a, "out")
  PROVE  timerAt[a] = NotCalling
BY DEF TimerTypes, InCall, Using, NotCalling

LEMMA ControlKeeps ==
  ASSUME TimersInv, NEW a \in User, NEW t \in Timer, NEW n \in Ticks, TimerControl(a, t, n)
  PROVE  TimersInv'
<1> DEFINE r == [tm[t] EXCEPT !.init = n]
<1>1. timerAt[a] = NotCalling /\ t \in Uses[a]
  BY GoodBefore, OutIsIdle DEF TimerControl
<1>2. tm \in TimerSet /\ Ahead(tm, tick) /\ timer_list \in Seq(Timer) /\ Once(timer_list)
  BY GoodBefore
<1>3. /\ r \in [active : BOOLEAN, init : Ticks, at : 0..TickMod - 1, left : Nat]
      /\ r.active = tm[t].active /\ r.at = tm[t].at /\ r.left = tm[t].left
  BY <1>2 DEF TimerSet
<1>4. tm' = [tm EXCEPT ![t] = r]
  BY <1>2 DEF TimerControl, TimerSet
<1> HIDE DEF r
<1>5. tm' \in TimerSet /\ tm'[t].active = tm[t].active /\ \A u \in Timer \ {t} : tm'[u] = tm[u]
  BY <1>2, <1>3, <1>4 DEF TimerSet
<1>6. Ahead(tm', tick)
  BY <1>2, <1>3, <1>4 DEF TimerSet, Ahead
<1>7. UNCHANGED <<tick, inTick, timer_list, timerAt, quiet, starts>>
  BY DEF TimerControl
<1>8. ~Busy(t) /\ Good(t)
  <2>1. \A b \in User : timerAt[b].timer # t
    BY <1>1, GoodBefore, OneUser, TimerAssumption DEF NotCalling
  <2>2. QED
    BY <2>1, GoodBefore DEF Busy
<1>9. /\ tm'[t].active => t \in ToSet(timer_list')
      /\ t \in ToSet(timer_list') => tm'[t].active \/ RestartsItself(t)
      /\ t \in quiet' => t \notin ToSet(timer_list')
  BY <1>5, <1>7, <1>8 DEF Good, GoodIn, IsLinked
<1>10. QED
  BY <1>1, <1>2, <1>5, <1>6, <1>7, <1>9, ThreadDone

LEMMA RenewKeeps ==
  ASSUME TimersInv, NEW a \in User, NEW t \in Timer, NEW n \in Ticks, TimerRenew(a, t, n)
  PROVE  TimersInv'
<1> DEFINE r == [active |-> FALSE, init |-> n, at |-> 0, left |-> 0]
<1>1. timerAt[a] = NotCalling /\ t \in Uses[a]
  BY GoodBefore, OutIsIdle DEF TimerRenew
<1>2. tm \in TimerSet /\ Ahead(tm, tick)
  BY GoodBefore
<1>3. /\ timer_list' \in Seq(Timer) /\ Once(timer_list')
      /\ ToSet(timer_list') = ToSet(timer_list) \ {t}
  BY GoodBefore, WithoutOK DEF TimerRenew
<1>4. /\ r \in [active : BOOLEAN, init : Ticks, at : 0..TickMod - 1, left : Nat]
      /\ r.active = FALSE /\ r.left = 0
  BY TimerAssumption
<1>5. tm' = [tm EXCEPT ![t] = r]
  BY DEF TimerRenew
<1> HIDE DEF r
<1>6. tm' \in TimerSet /\ ~tm'[t].active /\ \A u \in Timer \ {t} : tm'[u] = tm[u]
  BY <1>2, <1>4, <1>5 DEF TimerSet
<1>7. Ahead(tm', tick)
  BY <1>2, <1>4, <1>5 DEF TimerSet, Ahead
<1>8. UNCHANGED <<tick, inTick, timerAt, starts>> /\ quiet' = quiet \cup {t}
  BY DEF TimerRenew
<1>9. QED
  BY <1>1, <1>3, <1>6, <1>7, <1>8, ThreadDone

-----------------------------------------------------------------------------
(* The steps of calls that take a timer out or leave the list. *)

LEMMA StartKeeps ==
  ASSUME TimersInv, NEW a \in User, NEW t \in Timer, TimerStart(a, t)
  PROVE  TimersInv'
<1>1. timerAt[a] = NotCalling /\ t \in Uses[a]
  BY GoodBefore, OutIsIdle DEF TimerStart
<1>2. /\ tm' \in TimerSet /\ Ahead(tm', tick)
      /\ \A u \in Timer \ {t} : tm'[u] = tm[u]
  BY GoodBefore, InactiveOK, UnsetOK DEF TimerStart
<1>3. starts' \in 0..StartMax
  BY GoodBefore, TimerAssumption DEF TimerStart, TimerTypes
<1>4. /\ GoesTo(a, "stamp", t) /\ UNCHANGED <<tick, inTick>>
      /\ timer_list' = Without(timer_list, t)
      /\ quiet' \subseteq quiet /\ t \notin quiet'
  BY DEF TimerStart
<1>5. QED
  BY <1>1, <1>2, <1>3, <1>4, ThreadOut DEF Using

LEMMA StampKeeps ==
  ASSUME TimersInv, NEW a \in User, TimerStamp(a)
  PROVE  TimersInv'
<1> DEFINE t == timerAt[a].timer
<1>1. timerAt[a].fn = "stamp" /\ t \in Uses[a] /\ t \in Timer
  BY GoodBefore, InCallOK DEF TimerStamp, InCall
<1>2. ~IsLinked(t) /\ t \notin quiet
  BY <1>1, GoodBefore DEF Good, GoodIn, InWindow, Restarting, Window, IsLinked
<1>3. /\ tm' \in TimerSet /\ Ahead(tm', tick)
      /\ \A u \in Timer \ {t} : tm'[u] = tm[u]
  BY <1>1, GoodBefore, StampedOK DEF TimerStamp, TimerTypes
<1>4. /\ GoesTo(a, "insert", t) /\ UNCHANGED <<tick, inTick, timer_list, quiet, starts>>
      /\ starts \in 0..StartMax
  BY GoodBefore DEF TimerStamp, TimerTypes
<1>5. QED
  BY <1>1, <1>2, <1>3, <1>4, ThreadOut DEF Using

LEMMA StopKeeps ==
  ASSUME TimersInv, NEW a \in User, NEW t \in Timer, TimerStop(a, t)
  PROVE  TimersInv'
<1>1. timerAt[a] = NotCalling /\ t \in Uses[a]
  BY GoodBefore, OutIsIdle DEF TimerStop
<1>2. /\ GoesTo(a, "unlink", t) /\ UNCHANGED <<tick, inTick, timer_list, tm, quiet, starts>>
      /\ starts \in 0..StartMax /\ tm \in TimerSet /\ Ahead(tm, tick)
  BY GoodBefore DEF TimerStop, TimerTypes
<1>3. QED
  BY <1>1, <1>2, ThreadOut DEF Using, Window

LEMMA UnlinkKeeps ==
  ASSUME TimersInv, NEW a \in User, TimerUnlink(a)
  PROVE  TimersInv'
<1> DEFINE t == timerAt[a].timer
<1>1. t \in Uses[a] /\ t \in Timer
  BY GoodBefore, InCallOK DEF TimerUnlink, InCall
<1>2. /\ tm' \in TimerSet /\ Ahead(tm', tick)
      /\ \A u \in Timer \ {t} : tm'[u] = tm[u]
  BY <1>1, GoodBefore, UnsetOK DEF TimerUnlink
<1>3. /\ GoesTo(a, "clear", t) /\ UNCHANGED <<tick, inTick, quiet, starts>>
      /\ timer_list' = Without(timer_list, t) /\ starts \in 0..StartMax
  BY GoodBefore DEF TimerUnlink, TimerTypes
<1>4. QED
  BY <1>1, <1>2, <1>3, ThreadOut DEF Using

-----------------------------------------------------------------------------
(* The tick handler. *)

LEMMA NextTickKeeps ==
  ASSUME TimersInv, NextTick
  PROVE  TimersInv'
<1>1. /\ TimerTypes /\ tm \in TimerSet /\ Ahead(tm, tick) /\ \A u \in Timer : Good(u)
      /\ timer_list \in Seq(Timer) /\ Once(timer_list)
      /\ TickMod \in Nat \ {0} /\ tick \in 0..TickMod - 1
  BY GoodBefore, TimerAssumption DEF TimerTypes
<1>2. /\ tick' = (tick + 1) % TickMod /\ inTick' = TRUE
      /\ tm' = [u \in Timer |-> [tm[u] EXCEPT !.left = Passed(u)]]
      /\ UNCHANGED <<timer_list, timerAt, quiet, starts>>
  BY DEF NextTick
<1>3. ASSUME NEW u \in Timer
      PROVE  /\ tm'[u] \in [active : BOOLEAN, init : Ticks, at : 0..TickMod - 1, left : Nat]
             /\ tm'[u].active = tm[u].active /\ tm'[u].at = tm[u].at /\ tm'[u].left = Passed(u)
             /\ tm[u].left \in Nat
  <2>1. tm[u] \in [active : BOOLEAN, init : Ticks, at : 0..TickMod - 1, left : Nat]
    BY <1>1 DEF TimerSet
  <2>2. Passed(u) \in Nat
    BY <2>1 DEF Passed
  <2>3. QED
    BY <1>2, <2>1, <2>2
<1>4. tm' \in TimerSet /\ tick' \in 0..TickMod - 1
  BY <1>1, <1>2, <1>3 DEF TimerSet
<1>5. ASSUME NEW u \in Timer, tm'[u].left > 0
      PROVE  tm'[u].at = (tick' + tm'[u].left) % TickMod /\ tm'[u].left <= TickMod \div 2
  <2> DEFINE k == tm[u].left
  <2>1. k \in Nat /\ k > 0 /\ tm'[u].left = k - 1
    BY <1>3, <1>5 DEF Passed
  <2>2. tm[u].at = (tick + k) % TickMod /\ k <= TickMod \div 2
    BY <1>1, <2>1 DEF Ahead
  <2>3. k \in 1..TickMod \div 2
    BY <1>1, <2>1, <2>2
  <2>4. (tick + k) % TickMod = (tick' + (k - 1)) % TickMod
    BY <1>1, <1>2, <2>3, TickGoesOn, TimerAssumption
  <2>5. k - 1 <= TickMod \div 2
    BY <1>1, <2>3
  <2>6. QED
    BY <1>3, <2>1, <2>2, <2>4, <2>5
<1>6. Ahead(tm', tick')
  BY <1>5 DEF Ahead
<1>7. TimerTypes'
  BY <1>1, <1>2, <1>4 DEF TimerTypes, TimerSet
<1>8. ASSUME NEW u \in Timer
      PROVE  Good(u)'
  BY <1>1, <1>2, <1>3, OthersGood
<1>9. QED
  BY <1>1, <1>2, <1>6, <1>7, <1>8, GoodAfter

LEMMA LeaveKeeps ==
  ASSUME TimersInv, LeaveTick
  PROVE  TimersInv'
<1>1. /\ TimerTypes /\ Ahead(tm, tick) /\ Once(timer_list)
      /\ \A u \in Timer : Good(u)
  BY GoodBefore
<1>2. inTick' = FALSE /\ UNCHANGED <<tick, timer_list, tm, timerAt, quiet, starts>>
  BY DEF LeaveTick
<1>3. TimerTypes'
  BY <1>1, <1>2 DEF TimerTypes
<1>4. ASSUME NEW u \in Timer
      PROVE  Good(u)'
  BY <1>1, <1>2, OthersGood
<1>5. QED
  BY <1>1, <1>2, <1>3, <1>4, GoodAfter

\* A timer that a callback works on besides its own has no thread that uses it.
LEMMA NoUser ==
  ASSUME TimerTypes, NEW t \in Timer, NEW c \in CallbackOps[t]
  PROVE  /\ c[2] \in Timer /\ c = <<c[1], c[2]>>
         /\ c[2] # t => ~Busy(c[2]) /\ ~InWindow(c[2]) /\ ~Restarting(c[2])
<1>1. c \in {"start", "stop"} \X Timer /\ (c[2] = t \/ \A a \in User : c[2] \notin Uses[a])
  BY TimerAssumption
<1>2. c[2] \in Timer /\ c = <<c[1], c[2]>>
  BY <1>1
<1>3. ASSUME c[2] # t, NEW a \in User, timerAt[a].timer = c[2]
      PROVE  FALSE
  <2>1. timerAt[a] # NotCalling
    BY <1>2, <1>3, TimerAssumption DEF NotCalling
  <2>2. c[2] \in Uses[a]
    BY <1>3, <2>1 DEF TimerTypes
  <2>3. QED
    BY <1>1, <1>3, <2>2
<1>4. QED
  BY <1>2, <1>3 DEF Busy, InWindow, Restarting

\* The first timer is out of the list when its callback runs.
LEMMA TakenOut ==
  ASSUME TimersInv, timer_list # <<>>
  PROVE  LET t == Head(timer_list)
             l == Tail(timer_list)
             m == Unset(tm, t)
         IN  /\ t \in Timer /\ ~InWindow(t) /\ ~Restarting(t) /\ t \notin quiet
             /\ l \in Seq(Timer) /\ Once(l) /\ t \notin ToSet(l)
             /\ m \in TimerSet /\ Ahead(m, tick)
             /\ \A u \in Timer \ {t} : GoodIn(u, l, m, quiet)
<1> DEFINE t == Head(timer_list)
           l == Tail(timer_list)
           m == Unset(tm, t)
<1>1. /\ t \in Timer /\ t \in ToSet(timer_list) /\ l \in Seq(Timer) /\ Once(l)
      /\ ToSet(l) = ToSet(timer_list) \ {t}
  BY GoodBefore, TailOK
<1>2. ~InWindow(t) /\ ~Restarting(t) /\ t \notin quiet
  <2>1. ~InWindow(t) /\ t \notin quiet
    BY <1>1, GoodBefore DEF Good, GoodIn
  <2>2. QED
    BY <2>1 DEF InWindow, Restarting, Window
<1>3. /\ m \in TimerSet /\ Ahead(m, tick)
      /\ \A u \in Timer \ {t} : m[u] = tm[u]
  BY <1>1, GoodBefore, UnsetOK
<1> HIDE DEF t, l, m
<1>4. \A u \in Timer \ {t} : GoodIn(u, l, m, quiet)
  BY <1>1, <1>3, GoodBefore DEF Good, GoodIn
<1>5. QED
  BY <1>1, <1>2, <1>3, <1>4 DEF t, l, m

\* What a callback leaves behind: all is good but for its own timer, which is
\* linked only by a call of the callback, and then active.
LEMMA CallbackOK ==
  ASSUME TimersInv, timer_list # <<>>, NEW t, t = Head(timer_list),
         NEW r \in AfterCallback(t, Tail(timer_list), Unset(tm, t))
  PROVE  /\ t \in Timer /\ ~InWindow(t) /\ ~Restarting(t)
         /\ r.list \in Seq(Timer) /\ Once(r.list)
         /\ r.tm \in TimerSet /\ Ahead(r.tm, tick) /\ r.quiet \subseteq Timer
         /\ \A u \in Timer \ {t} : GoodIn(u, r.list, r.tm, r.quiet)
         /\ t \in ToSet(r.list) => <<"start", t>> \in CallbackOps[t] /\ r.tm[t].active
         /\ t \in r.quiet => ~r.tm[t].active /\ t \notin ToSet(r.list)
<1> DEFINE l == Tail(timer_list)
           m == Unset(tm, t)
<1>1. /\ t \in Timer /\ ~InWindow(t) /\ ~Restarting(t) /\ t \notin quiet
      /\ l \in Seq(Timer) /\ Once(l) /\ t \notin ToSet(l)
      /\ m \in TimerSet /\ Ahead(m, tick)
      /\ \A u \in Timer \ {t} : GoodIn(u, l, m, quiet)
  BY TakenOut
<1>2. TimerTypes /\ quiet \subseteq Timer /\ tick \in 0..TickMod - 1
  BY GoodBefore DEF TimerTypes
<1>3. \/ r = [list |-> l, tm |-> m, quiet |-> quiet]
      \/ \E c \in CallbackOps[t] : c[1] = "start" /\
           r = [list |-> StartedList(l, m, c[2]), tm |-> StartedSet(m, c[2]), quiet |-> quiet \ {c[2]}]
      \/ \E c \in CallbackOps[t] :
           r = [list |-> Without(l, c[2]), tm |-> Unset(Inactive(m, c[2]), c[2]), quiet |-> quiet \cup {c[2]}]
  BY DEF AfterCallback
<1> HIDE DEF l, m
<1>4. CASE r = [list |-> l, tm |-> m, quiet |-> quiet]
  <2>1. r.list = l /\ r.tm = m /\ r.quiet = quiet
    BY <1>4
  <2>2. QED
    BY <1>1, <1>2, <2>1
<1>5. ASSUME NEW c \in CallbackOps[t], c[1] = "start",
             r = [list |-> StartedList(l, m, c[2]), tm |-> StartedSet(m, c[2]), quiet |-> quiet \ {c[2]}]
      PROVE  /\ r.list \in Seq(Timer) /\ Once(r.list)
             /\ r.tm \in TimerSet /\ Ahead(r.tm, tick) /\ r.quiet \subseteq Timer
             /\ \A u \in Timer \ {t} : GoodIn(u, r.list, r.tm, r.quiet)
             /\ t \in ToSet(r.list) => <<"start", t>> \in CallbackOps[t] /\ r.tm[t].active
             /\ t \in r.quiet => ~r.tm[t].active /\ t \notin ToSet(r.list)
  <2> DEFINE v == c[2]
  <2>1. v \in Timer /\ c = <<"start", v>> /\ (v # t => ~Busy(v) /\ ~InWindow(v) /\ ~Restarting(v))
    BY <1>1, <1>2, <1>5, NoUser
  <2>2. r.list = StartedList(l, m, v) /\ r.tm = StartedSet(m, v) /\ r.quiet = quiet \ {v}
    BY <1>5
  <2> HIDE DEF v
  <2>3. r.list \in Seq(Timer) /\ Once(r.list) /\ ToSet(r.list) = ToSet(l) \cup {v}
    BY <1>1, <2>1, <2>2, StartedListOK
  <2>4. /\ r.tm \in TimerSet /\ r.tm[v].active /\ Ahead(r.tm, tick)
        /\ \A u \in Timer \ {v} : r.tm[u] = m[u]
    BY <1>1, <1>2, <2>1, <2>2, StartedSetOK
  <2>5. ASSUME NEW u \in Timer \ {t}
        PROVE  GoodIn(u, r.list, r.tm, r.quiet)
    <3>1. CASE u = v
      BY <2>1, <2>2, <2>3, <2>4, <3>1 DEF GoodIn
    <3>2. CASE u # v
      BY <1>1, <2>2, <2>3, <2>4, <3>2 DEF GoodIn
    <3>3. QED
      BY <3>1, <3>2
  <2>6. t \in ToSet(r.list) => <<"start", t>> \in CallbackOps[t] /\ r.tm[t].active
    BY <1>1, <2>1, <2>3, <2>4
  <2>7. r.quiet \subseteq Timer /\ t \notin r.quiet
    BY <1>1, <1>2, <2>2
  <2>8. QED
    BY <2>3, <2>4, <2>5, <2>6, <2>7
<1>6. ASSUME NEW c \in CallbackOps[t],
             r = [list |-> Without(l, c[2]), tm |-> Unset(Inactive(m, c[2]), c[2]), quiet |-> quiet \cup {c[2]}]
      PROVE  /\ r.list \in Seq(Timer) /\ Once(r.list)
             /\ r.tm \in TimerSet /\ Ahead(r.tm, tick) /\ r.quiet \subseteq Timer
             /\ \A u \in Timer \ {t} : GoodIn(u, r.list, r.tm, r.quiet)
             /\ t \notin ToSet(r.list)
             /\ t \in r.quiet => ~r.tm[t].active
  <2> DEFINE v == c[2]
             i == Inactive(m, v)
  <2>1. v \in Timer /\ (v # t => ~Busy(v) /\ ~InWindow(v) /\ ~Restarting(v))
    BY <1>1, <1>2, NoUser
  <2>2. r.list = Without(l, v) /\ r.tm = Unset(i, v) /\ r.quiet = quiet \cup {v}
    BY <1>6
  <2>3. /\ i \in TimerSet /\ ~i[v].active /\ Ahead(i, tick)
        /\ \A u \in Timer \ {v} : i[u] = m[u]
    BY <1>1, <2>1, InactiveOK
  <2> HIDE DEF v, i
  <2>4. r.list \in Seq(Timer) /\ Once(r.list) /\ ToSet(r.list) = ToSet(l) \ {v}
    BY <1>1, <2>2, WithoutOK
  <2>5. /\ r.tm \in TimerSet /\ ~r.tm[v].active /\ Ahead(r.tm, tick)
        /\ \A u \in Timer \ {v} : r.tm[u] = m[u]
    BY <2>1, <2>2, <2>3, UnsetOK
  <2>6. ASSUME NEW u \in Timer \ {t}
        PROVE  GoodIn(u, r.list, r.tm, r.quiet)
    <3>1. CASE u = v
      BY <2>1, <2>2, <2>4, <2>5, <3>1 DEF GoodIn
    <3>2. CASE u # v
      BY <1>1, <2>2, <2>4, <2>5, <3>2 DEF GoodIn
    <3>3. QED
      BY <3>1, <3>2
  <2>7. t \notin ToSet(r.list) /\ (t \in r.quiet => ~r.tm[t].active)
    BY <1>1, <2>2, <2>4, <2>5
  <2>8. r.quiet \subseteq Timer
    BY <1>2, <2>1, <2>2
  <2>9. QED
    BY <2>4, <2>5, <2>6, <2>7, <2>8
<1>7. QED
  BY <1>1, <1>3, <1>4, <1>5, <1>6

LEMMA FireKeeps ==
  ASSUME TimersInv, FireFirst
  PROVE  TimersInv'
<1> DEFINE t == Head(timer_list)
<1>1. PICK r \in AfterCallback(t, Tail(timer_list), Unset(tm, t)) :
        /\ IF Again(t, r.tm)
           THEN /\ timer_list' = StartedList(r.list, Inactive(r.tm, t), t)
                /\ tm' = StartedSet(Inactive(r.tm, t), t)
           ELSE timer_list' = r.list /\ tm' = Inactive(r.tm, t)
        /\ quiet' = r.quiet
  BY DEF FireFirst
<1>2. UNCHANGED <<tick, inTick, timerAt, starts>> /\ timer_list # <<>>
  BY DEF FireFirst, FirstDue
<1>3. /\ t \in Timer /\ ~InWindow(t) /\ ~Restarting(t)
      /\ r.list \in Seq(Timer) /\ Once(r.list)
      /\ r.tm \in TimerSet /\ Ahead(r.tm, tick) /\ r.quiet \subseteq Timer
      /\ \A u \in Timer \ {t} : GoodIn(u, r.list, r.tm, r.quiet)
      /\ t \in ToSet(r.list) => <<"start", t>> \in CallbackOps[t] /\ r.tm[t].active
      /\ t \in r.quiet => ~r.tm[t].active /\ t \notin ToSet(r.list)
  BY <1>2, CallbackOK
<1>4. TimerTypes /\ tick \in 0..TickMod - 1
  BY GoodBefore DEF TimerTypes
<1> DEFINE i == Inactive(r.tm, t)
<1>5. /\ i \in TimerSet /\ ~i[t].active /\ Ahead(i, tick)
      /\ \A u \in Timer \ {t} : i[u] = r.tm[u]
  BY <1>3, InactiveOK
<1>6. ASSUME Again(t, r.tm)
      PROVE  /\ timer_list' \in Seq(Timer) /\ Once(timer_list')
             /\ tm' \in TimerSet /\ Ahead(tm', tick)
             /\ \A u \in Timer : GoodIn(u, timer_list', tm', quiet')
  <2>1. timer_list' = StartedList(r.list, i, t) /\ tm' = StartedSet(i, t) /\ r.tm[t].active
    BY <1>1, <1>6 DEF Again
  <2> HIDE DEF i, t
  <2>2. /\ timer_list' \in Seq(Timer) /\ Once(timer_list')
        /\ ToSet(timer_list') = ToSet(r.list) \cup {t}
    BY <1>3, <2>1, StartedListOK
  <2>3. /\ tm' \in TimerSet /\ tm'[t].active /\ Ahead(tm', tick)
        /\ \A u \in Timer \ {t} : tm'[u] = r.tm[u]
    BY <1>4, <1>5, <1>3, <2>1, StartedSetOK
  <2>4. GoodIn(t, timer_list', tm', quiet')
    BY <1>1, <1>3, <2>1, <2>2, <2>3 DEF GoodIn
  <2>5. \A u \in Timer \ {t} : GoodIn(u, timer_list', tm', quiet')
    BY <1>1, <1>3, <2>2, <2>3 DEF GoodIn
  <2>6. QED
    BY <2>2, <2>3, <2>4, <2>5
<1>7. ASSUME ~Again(t, r.tm)
      PROVE  /\ timer_list' \in Seq(Timer) /\ Once(timer_list')
             /\ tm' \in TimerSet /\ Ahead(tm', tick)
             /\ \A u \in Timer : GoodIn(u, timer_list', tm', quiet')
  <2>1. timer_list' = r.list /\ tm' = i /\ (r.tm[t].active => t \notin Periodic)
    BY <1>1, <1>7 DEF Again
  <2> HIDE DEF i, t
  <2>2. timer_list' \in Seq(Timer) /\ Once(timer_list') /\ tm' \in TimerSet /\ Ahead(tm', tick)
    BY <1>3, <1>5, <2>1
  <2>3. GoodIn(t, timer_list', tm', quiet')
    BY <1>1, <1>3, <1>5, <2>1 DEF GoodIn, RestartsItself
  <2>4. \A u \in Timer \ {t} : GoodIn(u, timer_list', tm', quiet')
    BY <1>1, <1>3, <1>5, <2>1 DEF GoodIn
  <2>5. QED
    BY <2>2, <2>3, <2>4
<1>8. /\ timer_list' \in Seq(Timer) /\ Once(timer_list') /\ tm' \in TimerSet /\ Ahead(tm', tick)
      /\ \A u \in Timer : GoodIn(u, timer_list', tm', quiet')
  BY <1>6, <1>7
<1>9. \A u \in Timer : Good(u)'
  <2>1. \A u \in Timer : /\ Busy(u)' <=> Busy(u)
                         /\ InWindow(u)' <=> InWindow(u)
                         /\ Restarting(u)' <=> Restarting(u)
                         /\ RestartsItself(u)' <=> RestartsItself(u)
    BY <1>2 DEF Busy, InWindow, Restarting, RestartsItself
  <2>2. QED
    BY <1>8, <2>1 DEF Good, GoodIn
<1>10. TimerTypes'
  BY <1>1, <1>2, <1>3, <1>4, <1>8 DEF TimerTypes, TimerSet
<1>11. QED
  BY <1>2, <1>8, <1>9, <1>10, GoodAfter

-----------------------------------------------------------------------------
(* The theorems. *)

LEMMA TimerInitOK ==
  ASSUME TimerInit
  PROVE  TimersInv
<1>1. tm \in [Timer -> {[active |-> FALSE, init |-> i, at |-> 0, left |-> 0] : i \in Ticks}]
  BY DEF TimerInit
<1>2. 0 \in 0..TickMod - 1 /\ 0 \in 0..StartMax
  BY TimerAssumption
<1>3. ASSUME NEW u \in Timer
      PROVE  /\ tm[u] \in [active : BOOLEAN, init : Ticks, at : 0..TickMod - 1, left : Nat]
             /\ tm[u].active = FALSE /\ tm[u].left = 0
  <2>1. PICK i \in Ticks : tm[u] = [active |-> FALSE, init |-> i, at |-> 0, left |-> 0]
    BY <1>1
  <2>2. QED
    BY <1>2, <2>1
<1>4. tm \in TimerSet /\ Ahead(tm, tick)
  <2>1. tm = [u \in Timer |-> tm[u]]
    BY <1>1
  <2>2. tm \in TimerSet
    BY <1>3, <2>1 DEF TimerSet
  <2>3. ASSUME NEW u \in Timer
        PROVE  ~(tm[u].left > 0)
    <3>1. tm[u].left = 0
      BY <1>3
    <3>2. QED
      BY <3>1
  <2>4. QED
    BY <2>2, <2>3 DEF Ahead
<1>5. timer_list = <<>> /\ timer_list \in Seq(Timer) /\ Once(timer_list) /\ ToSet(timer_list) = {}
  BY DEF TimerInit, Once, ToSet
<1>6. TimerTypes
  BY <1>2, <1>4, <1>5 DEF TimerInit, TimerTypes, TimerSet
<1>7. ActiveLinked
  BY <1>3, <1>5 DEF ActiveLinked, IsLinked
<1>8. TimersOut
  BY <1>5 DEF TimersOut, IsLinked, TimerInit
<1>9. QED
  BY <1>4, <1>5, <1>6, <1>7, <1>8 DEF TimersInv, TimersSound

LEMMA TimerStepOK ==
  ASSUME TimersInv, [TimerNext]_timerVars
  PROVE  TimersInv'
<1>1. CASE NextTick
  BY <1>1, NextTickKeeps
<1>2. CASE FireFirst
  BY <1>2, FireKeeps
<1>3. CASE LeaveTick
  BY <1>3, LeaveKeeps
<1>4. ASSUME NEW a \in User, InTimerCall(a)
      PROVE  TimersInv'
  BY <1>4, StampKeeps, LinkKeeps, UnlinkKeeps, ClearKeeps DEF InTimerCall
<1>5. ASSUME NEW a \in User, NEW t \in Timer, TimerStart(a, t) \/ TimerStop(a, t)
      PROVE  TimersInv'
  BY <1>5, StartKeeps, StopKeeps
<1>6. ASSUME NEW a \in User, NEW t \in Timer, NEW n \in Ticks,
             TimerControl(a, t, n) \/ TimerRenew(a, t, n)
      PROVE  TimersInv'
  BY <1>6, ControlKeeps, RenewKeeps
<1>7. CASE UNCHANGED timerVars
  <2>1. UNCHANGED <<tick, inTick, timer_list, tm, timerAt, quiet, starts>>
    BY <1>7 DEF timerVars
  <2>2. TimerTypes'
    BY <2>1, GoodBefore DEF TimerTypes
  <2>3. \A u \in Timer : Good(u)'
    BY <2>1, GoodBefore, OthersGood
  <2>4. QED
    BY <2>1, <2>2, <2>3, GoodBefore, GoodAfter
<1>8. QED
  BY <1>1, <1>2, <1>3, <1>4, <1>5, <1>6, <1>7 DEF TimerNext

\* The inductive invariant holds in every reachable state.
THEOREM TimerInvariance == TimerSpec => []TimersInv
<1>1. TimerInit => TimersInv
  BY TimerInitOK
<1>2. TimersInv /\ [TimerNext]_timerVars => TimersInv'
  BY TimerStepOK
<1>3. QED
  BY <1>1, <1>2, PTL DEF TimerSpec

\* A round of the tick handler calls the callback of a timer whose time has
\* passed and that is not a stopped one.
LEMMA FiresDue ==
  ASSUME TimersInv, [TimerNext]_timerVars
  PROVE  [inTick /\ inTick' => /\ tm[Head(timer_list)].left = 0
                               /\ Head(timer_list) \notin quiet]_timerVars
<1>1. SUFFICES ASSUME TimerNext, inTick, inTick'
               PROVE  tm[Head(timer_list)].left = 0 /\ Head(timer_list) \notin quiet
  OBVIOUS
<1>2. FireFirst
  BY <1>1 DEF TimerNext, NextTick, LeaveTick, InTimerCall, TimerStamp, TimerLink, TimerUnlink,
              TimerClear, TimerStart, TimerStop, TimerControl, TimerRenew, InCall
<1> DEFINE t == Head(timer_list)
<1>3. timer_list # <<>> /\ Due(tick, tm[t].at, TickMod)
  BY <1>2 DEF FireFirst, FirstDue
<1>4. t \in Timer /\ t \notin quiet
  BY <1>3, TakenOut
<1>5. tm[t].left \in Nat /\ tick \in 0..TickMod - 1
  BY <1>4, GoodBefore DEF TimerSet, TimerTypes
<1>6. ~(tm[t].left > 0)
  <2>1. SUFFICES ASSUME tm[t].left > 0 PROVE FALSE
    OBVIOUS
  <2>2. tm[t].at = (tick + tm[t].left) % TickMod /\ tm[t].left <= TickMod \div 2
    BY <1>4, <2>1, GoodBefore DEF Ahead
  <2>3. tm[t].left \in 1..TickMod \div 2
    BY <1>5, <2>1, <2>2, TimerAssumption
  <2>m. TickMod \in Nat \ {0}
    BY TimerAssumption
  <2>n. ~Due(tick, (tick + tm[t].left) % TickMod, TickMod)
    BY ONLY <1>5, <2>3, <2>m, DueIsOver
  <2>4. ~Due(tick, tm[t].at, TickMod)
    BY <2>2, <2>n
  <2>5. QED
    BY <1>3, <2>4
<1>7. QED
  BY <1>4, <1>5, <1>6

\* The timers' list and flags agree whatever callbacks and interrupts come in
\* between; no callback is called of a timer that was stopped, and none before
\* its time, for any timers, periods and wraparound of the tick.
THEOREM TimersFireInTime == TimerSpec => TimersFire
<1>1. TimersInv => TimersSound
  BY DEF TimersInv
<1>2. TimersInv /\ [TimerNext]_timerVars
        => [inTick /\ inTick' => /\ tm[Head(timer_list)].left = 0
                                 /\ Head(timer_list) \notin quiet]_timerVars
  BY FiresDue
<1>3. QED
  BY <1>1, <1>2, TimerInvariance, PTL DEF TimerSpec, TimersFire, FiresInTime

-----------------------------------------------------------------------------
(* Interrupts and context switches. *)
-----------------------------------------------------------------------------
(* The inductive invariant. *)

\* A register file is the record of its five fields.
Whole(r) ==
  r = [I |-> r.I, r0_3 |-> r.r0_3, r4_12 |-> r.r4_12, lr |-> r.lr, pc |-> r.pc]

\* The frame of a thread with the registers r.
FrameOf(r) == <<r.I, r.r0_3, r.r4_12, r.lr, r.pc>>

\* The thread whose registers are not on its own stack: a handler moves
\* rt_current_thread on, but remembers where it came from.
Running == IF rt_thread_switch_interrupt_flag = 1 THEN rt_interrupt_from_thread
           ELSE rt_current_thread

Shape ==
  /\ DOMAIN stack = Task /\ DOMAIN tcb = Task /\ DOMAIN prog = Task
  /\ stack = [t \in Task |-> stack[t]] /\ tcb = [t \in Task |-> tcb[t]]
  /\ prog = [t \in Task |-> prog[t]]
  /\ Whole(cpu) /\ \A t \in Task : Whole(prog[t])
  /\ at \in {"start", "thread", "irq", "isr", "leave", "return"}

\* The threads that do not run have exactly one frame on their stacks, with
\* what they left in the registers.
Saved(t) == tcb[t] = <<t, 5>> /\ stack[t] = FrameOf(prog[t])

StacksOK ==
  /\ at = "start" => \A t \in Task : Saved(t)
  /\ at # "start" =>
       /\ Running \in Task /\ rt_current_thread \in Task
       /\ stack[Running] = <<>> /\ sp = <<Running, 0>>
       /\ \A t \in Task : t # Running => Saved(t)

\* What the interrupt has taken from the running thread lies on the stack of
\* IRQ mode.
InHandler == at \in {"irq", "isr", "leave", "return"}

HandlerOK ==
  /\ InHandler =>
       /\ spsr = prog[Running].I /\ cpu.lr = prog[Running].lr
       /\ irqstack = <<prog[Running].r0_3, prog[Running].r4_12, prog[Running].pc>>
       /\ rt_interrupt_nest = IF at = "return" THEN 0 ELSE 1
  /\ ~InHandler => irqstack = <<>> /\ rt_interrupt_nest = 0

FlagOK ==
  /\ rt_thread_switch_interrupt_flag \in {0, 1}
  /\ rt_thread_switch_interrupt_flag = 1 =>
       /\ at \in {"isr", "leave", "return"}
       /\ rt_interrupt_to_thread = rt_current_thread

GicOK ==
  /\ line \subseteq Irq /\ enabled = Irq
  /\ IF at = "isr" THEN fullir \in Irq /\ active = {fullir} ELSE active = {}

IInv == Shape /\ StacksOK /\ HandlerOK /\ FlagOK /\ GicOK /\ RegistersKept

-----------------------------------------------------------------------------
(* The lowest pending interrupt. *)

-----------------------------------------------------------------------------
(* Stacks. *)

LEMMA FrameLen == ASSUME NEW r PROVE Len(FrameOf(r)) = 5
  BY DEF FrameOf

\* Changing registers keeps the record whole.
LEMMA ChangedOK ==
  ASSUME NEW r, NEW x, NEW y, Whole(r)
  PROVE  /\ Whole([r EXCEPT !.I = x]) /\ Whole([r EXCEPT !.I = x, !.r4_12 = y])
         /\ Whole([r EXCEPT !.r0_3 = x, !.lr = y])
  <1>1. ASSUME NEW s, s = [r EXCEPT !.I = x]  PROVE Whole(s)  BY <1>1 DEF Whole
  <1>2. ASSUME NEW s, s = [r EXCEPT !.I = x, !.r4_12 = y]  PROVE Whole(s)  BY <1>2 DEF Whole
  <1>3. ASSUME NEW s, s = [r EXCEPT !.r0_3 = x, !.lr = y]  PROVE Whole(s)  BY <1>3 DEF Whole
  <1>. QED  BY <1>1, <1>2, <1>3

\* A frame that is popped gives the registers back.
LEMMA RestoreOK ==
  ASSUME NEW st, NEW t \in Task, NEW r, st[t] = FrameOf(r), Whole(r), Restore(st, <<t, 5>>)
  PROVE  cpu' = r /\ stack' = [st EXCEPT ![t] = <<>>] /\ sp' = <<t, 0>>
  <1> DEFINE words == st[t]
             off == Len(words) - 5
  <1>1. off = 0 /\ Len(words) = 5  BY FrameLen
  <1>2. words = <<r.I, r.r0_3, r.r4_12, r.lr, r.pc>>  BY DEF FrameOf
  <1>3. /\ cpu' = [I |-> words[off + 1], r0_3 |-> words[off + 2], r4_12 |-> words[off + 3],
                   lr |-> words[off + 4], pc |-> words[off + 5]]
        /\ stack' = [st EXCEPT ![t] = SubSeq(words, off + 6, Len(words))]
        /\ sp' = <<t, 5 - 5>>
    BY DEF Restore
  <1>4. words[1] = r.I /\ words[2] = r.r0_3 /\ words[3] = r.r4_12 /\ words[4] = r.lr /\ words[5] = r.pc
    BY <1>2
  <1>5. cpu' = [I |-> r.I, r0_3 |-> r.r0_3, r4_12 |-> r.r4_12, lr |-> r.lr, pc |-> r.pc]
    <2>1. off + 1 = 1 /\ off + 2 = 2 /\ off + 3 = 3 /\ off + 4 = 4 /\ off + 5 = 5  BY <1>1
    <2> HIDE DEF off, words
    <2>. QED  BY <1>3, <1>4, <2>1
  <1>6. SubSeq(words, off + 6, Len(words)) = <<>>
    <2>1. off + 6 = 6  BY <1>1
    <2>2. SubSeq(words, 6, 5) = <<>>  BY SubSeqEmpty
    <2> HIDE DEF off, words
    <2>. QED  BY <1>1, <2>1, <2>2
  <1>7. cpu' = r  BY <1>5 DEF Whole
  <1>8. stack' = [st EXCEPT ![t] = <<>>]
    <2> HIDE DEF off, words
    <2>. QED  BY <1>3, <1>6
  <1>9. sp' = <<t, 0>>  BY <1>3
  <1>. QED  BY <1>7, <1>8, <1>9

\* A frame on an empty stack.
LEMMA PushOK == ASSUME NEW r PROVE Push(FrameOf(r), <<>>) = FrameOf(r)
  BY DEF Push, FrameOf

-----------------------------------------------------------------------------
(* The start. *)

LEMMA InitOK == SwitchInit => IInv
  <1> SUFFICES ASSUME SwitchInit PROVE IInv  OBVIOUS
  <1>1. /\ cpu = [I |-> TRUE, r0_3 |-> "boot", r4_12 |-> "boot", lr |-> "boot", pc |-> "boot"]
        /\ stack = [t \in Task |-> rt_hw_stack_init(t)] /\ tcb = [t \in Task |-> <<t, 5>>]
        /\ irqstack = <<>> /\ rt_interrupt_nest = 0 /\ rt_thread_switch_interrupt_flag = 0
        /\ line = {} /\ enabled = Irq /\ active = {} /\ at = "start"
        /\ prog = [t \in Task |-> [I |-> FALSE, r0_3 |-> "parameter", r4_12 |-> "zero",
                                     lr |-> "texit", pc |-> "tentry"]]
    BY DEF SwitchInit
  <1>2. Whole(cpu) /\ \A t \in Task : Whole(prog[t])  BY <1>1 DEF Whole
  <1>3. Shape  BY <1>1, <1>2 DEF Shape
  <1>4. \A t \in Task : Saved(t)  BY <1>1 DEF Saved, FrameOf, rt_hw_stack_init
  <1>5. StacksOK  BY <1>1, <1>4 DEF StacksOK
  <1>6. HandlerOK /\ FlagOK /\ GicOK /\ RegistersKept
    BY <1>1 DEF HandlerOK, InHandler, FlagOK, GicOK, RegistersKept
  <1>. QED  BY <1>3, <1>5, <1>6 DEF IInv

-----------------------------------------------------------------------------
(* The steps. *)

\* What the steps have in common: the stacks, the thread pointers and prog are
\* untouched, and so is the running thread.
LEMMA SameThreads ==
  ASSUME Shape, StacksOK, at # "start", at' # "start",
         UNCHANGED <<stack, tcb, sp, prog>>, Running' = Running, rt_current_thread' \in Task
  PROVE  StacksOK'
  BY DEF Shape, StacksOK, Saved

\* A switch to thread t, whose frame is on its stack, from the running thread,
\* which has left the registers r behind; q is prog afterwards.
LEMMA SwitchedOK ==
  ASSUME Shape, StacksOK, at # "start", NEW t \in Task, NEW r, Whole(r),
         LET pushed == [stack EXCEPT ![sp[1]] = Push(FrameOf(r), @)]
         IN  /\ tcb' = [tcb EXCEPT ![Running] = <<sp[1], sp[2] + 5>>]
             /\ Restore(pushed, tcb'[t]),
         prog' = [prog EXCEPT ![Running] = r],
         at' = "thread", rt_current_thread' = t, Running' = t
  PROVE  Shape' /\ StacksOK' /\ cpu' = prog'[t]
  <1> DEFINE me == Running
             pushed == [stack EXCEPT ![sp[1]] = Push(FrameOf(r), @)]
  <1>1. /\ me \in Task /\ stack[me] = <<>> /\ sp = <<me, 0>>
        /\ \A u \in Task : u # me => Saved(u)
    BY DEF StacksOK
  <1>2. DOMAIN stack = Task /\ stack = [u \in Task |-> stack[u]]
        /\ tcb = [u \in Task |-> tcb[u]] /\ prog = [u \in Task |-> prog[u]]
        /\ DOMAIN tcb = Task /\ DOMAIN prog = Task
        /\ \A u \in Task : Whole(prog[u])
    BY DEF Shape
  <1> HIDE DEF me
  <1>3. sp[1] = me /\ sp[2] + 5 = 5  BY <1>1
  <1>4. pushed = [stack EXCEPT ![me] = FrameOf(r)]
    <2>1. Push(FrameOf(r), stack[me]) = FrameOf(r)  BY <1>1, PushOK
    <2>. QED  BY <1>3, <2>1
  <1>5. tcb' = [tcb EXCEPT ![me] = <<me, 5>>]  BY <1>3 DEF me
  <1>6. prog' = [prog EXCEPT ![me] = r]  BY DEF me
  <1>7. ASSUME NEW u \in Task
        PROVE  /\ tcb'[u] = <<u, 5>> /\ pushed[u] = FrameOf(prog'[u]) /\ Whole(prog'[u])
    <2>1. CASE u = me
      <3>1. tcb'[u] = <<u, 5>>  BY <1>2, <1>5, <2>1
      <3>2. prog'[u] = r  BY <1>2, <1>6, <2>1
      <3>3. pushed[u] = FrameOf(r)  BY <1>2, <1>4, <2>1
      <3>. QED  BY <3>1, <3>2, <3>3
    <2>2. CASE u # me
      <3>1. tcb'[u] = tcb[u]  BY <1>2, <1>5, <2>2
      <3>2. prog'[u] = prog[u]  BY <1>2, <1>6, <2>2
      <3>3. pushed[u] = stack[u]  BY <1>2, <1>4, <2>2
      <3>4. Saved(u)  BY <1>1, <2>2
      <3>. QED  BY <1>2, <3>1, <3>2, <3>3, <3>4 DEF Saved
    <2>. QED  BY <2>1, <2>2
  <1>8. DOMAIN pushed = Task /\ pushed = [u \in Task |-> pushed[u]]  BY <1>2, <1>4
  <1>9. Restore(pushed, <<t, 5>>)  BY <1>7
  <1> HIDE DEF pushed
  <1>10. cpu' = prog'[t] /\ stack' = [pushed EXCEPT ![t] = <<>>] /\ sp' = <<t, 0>>
    BY <1>7, <1>9, RestoreOK
  <1>11. stack'[t] = <<>> /\ \A u \in Task : u # t => stack'[u] = pushed[u]  BY <1>8, <1>10
  <1>12. Shape'
    <2>1. DOMAIN stack' = Task /\ stack' = [u \in Task |-> stack'[u]]  BY <1>8, <1>10
    <2>2. DOMAIN tcb' = Task /\ tcb' = [u \in Task |-> tcb'[u]]  BY <1>2, <1>5
    <2>3. DOMAIN prog' = Task /\ prog' = [u \in Task |-> prog'[u]]  BY <1>2, <1>6
    <2>4. Whole(cpu')  BY <1>7, <1>10
    <2>. QED  BY <1>7, <2>1, <2>2, <2>3, <2>4 DEF Shape, Whole
  <1>13. StacksOK'
    <2>1. \A u \in Task : u # t => Saved(u)'  BY <1>7, <1>11 DEF Saved
    <2>. QED  BY <1>10, <1>11, <2>1 DEF StacksOK
  <1>. QED  BY <1>10, <1>12, <1>13

LEMMA StepOK == IInv /\ [SwitchNext]_cpuVars => IInv'
  <1> SUFFICES ASSUME IInv, [SwitchNext]_cpuVars PROVE IInv'  OBVIOUS
  <1>t. /\ Shape /\ StacksOK /\ HandlerOK /\ FlagOK /\ GicOK /\ RegistersKept
        /\ DOMAIN stack = Task /\ DOMAIN tcb = Task /\ DOMAIN prog = Task
        /\ stack = [u \in Task |-> stack[u]] /\ tcb = [u \in Task |-> tcb[u]]
        /\ prog = [u \in Task |-> prog[u]]
        /\ Whole(cpu) /\ \A u \in Task : Whole(prog[u])
    BY DEF IInv, Shape
  <1>a. at = "thread" =>
          /\ rt_thread_switch_interrupt_flag = 0 /\ Running = rt_current_thread
          /\ rt_current_thread \in Task
          /\ cpu = prog[rt_current_thread] /\ irqstack = <<>> /\ rt_interrupt_nest = 0
    BY <1>t DEF FlagOK, StacksOK, Running, RegistersKept, HandlerOK, InHandler
  \* The start of the first thread.
  <1>1. ASSUME NEW t \in Task, rt_hw_context_switch_to(t)  PROVE IInv'
    <2>1. /\ at = "start" /\ at' = "thread" /\ Restore(stack, tcb[t]) /\ rt_current_thread' = t
          /\ UNCHANGED <<tcb, irqstack, spsr, rt_interrupt_nest, fullir, calls,
                         rt_thread_switch_interrupt_flag, rt_interrupt_from_thread,
                         rt_interrupt_to_thread, line, enabled, active, prog>>
      BY <1>1 DEF rt_hw_context_switch_to, irqVars, switchVars, gicVars
    <2>2. tcb[t] = <<t, 5>> /\ stack[t] = FrameOf(prog[t]) /\ \A u \in Task : Saved(u)
      BY <1>t, <2>1 DEF StacksOK, Saved
    <2>3. Restore(stack, <<t, 5>>)  BY <2>1, <2>2
    <2>4. cpu' = prog[t] /\ stack' = [stack EXCEPT ![t] = <<>>] /\ sp' = <<t, 0>>
      BY <1>t, <2>2, <2>3, RestoreOK
    <2>5. stack'[t] = <<>> /\ \A u \in Task : u # t => stack'[u] = stack[u]  BY <1>t, <2>4
    <2>6. rt_thread_switch_interrupt_flag' = 0 /\ rt_thread_switch_interrupt_flag = 0
      BY <1>t, <2>1 DEF FlagOK
    <2>7. Running' = t  BY <2>1, <2>6 DEF Running
    <2>8. Shape'
      <3>1. DOMAIN stack' = Task /\ stack' = [u \in Task |-> stack'[u]]  BY <1>t, <2>4
      <3>2. Whole(cpu')  BY <1>t, <2>4
      <3>. QED  BY <1>t, <2>1, <3>1, <3>2 DEF Shape, Whole
    <2>9. StacksOK'
      <3>1. \A u \in Task : u # t => Saved(u)'  BY <2>1, <2>2, <2>5 DEF Saved
      <3>. QED  BY <2>1, <2>4, <2>5, <2>7, <3>1 DEF StacksOK
    <2>10. HandlerOK'  BY <1>t, <2>1 DEF HandlerOK, InHandler
    <2>11. FlagOK' /\ GicOK'  BY <1>t, <2>1, <2>6 DEF FlagOK, GicOK
    <2>12. RegistersKept'  BY <2>1, <2>4 DEF RegistersKept
    <2>. QED  BY <2>8, <2>9, <2>10, <2>11, <2>12 DEF IInv
  \* A thread gives up the CPU itself.
  <1>2. ASSUME NEW t \in Task, rt_hw_context_switch(t)  PROVE IInv'
    <2> DEFINE me == rt_current_thread
               r == [I |-> cpu.I, r0_3 |-> cpu.r0_3, r4_12 |-> cpu.r4_12,
                     lr |-> cpu.lr, pc |-> cpu.lr]
               frame == <<cpu.I, cpu.r0_3, cpu.r4_12, cpu.lr, cpu.lr>>
               pushed == [stack EXCEPT ![sp[1]] = Push(frame, @)]
    <2>1. /\ at = "thread" /\ at' = "thread" /\ rt_current_thread' = t
          /\ tcb' = [tcb EXCEPT ![me] = <<sp[1], sp[2] + 5>>]
          /\ Restore(pushed, tcb'[t])
          /\ prog' = [prog EXCEPT ![me].pc = cpu.lr]
          /\ UNCHANGED <<irqstack, spsr, rt_interrupt_nest, fullir, calls,
                         rt_thread_switch_interrupt_flag, rt_interrupt_from_thread,
                         rt_interrupt_to_thread, line, enabled, active>>
      BY <1>2 DEF rt_hw_context_switch, irqVars, switchVars, gicVars
    <2>2. Running = me /\ Running' = t /\ rt_thread_switch_interrupt_flag' = 0
      BY <1>a, <2>1 DEF Running
    <2>3. Whole(r) /\ frame = FrameOf(r)  BY DEF Whole, FrameOf
    <2>4. prog' = [prog EXCEPT ![me] = r]
      <3>1. cpu = prog[me]  BY <1>a, <2>1
      <3>2. [prog[me] EXCEPT !.pc = cpu.lr] = r
        <4>1. Whole(prog[me])  BY <1>a, <1>t, <2>1
        <4>. QED  BY <3>1, <4>1 DEF Whole
      <3>. QED  BY <2>1, <3>2
    <2> HIDE DEF r
    <2>5. Restore([stack EXCEPT ![sp[1]] = Push(FrameOf(r), @)], tcb'[t])  BY <2>1, <2>3
    <2>6. Shape' /\ StacksOK' /\ cpu' = prog'[t]
      <3> HIDE DEF me
      <3>1. at # "start"  BY <2>1
      <3>2. tcb' = [tcb EXCEPT ![Running] = <<sp[1], sp[2] + 5>>]  BY <2>1, <2>2
      <3>3. prog' = [prog EXCEPT ![Running] = r]  BY <2>2, <2>4
      <3>. QED  BY <1>t, <2>1, <2>2, <2>3, <2>5, <3>1, <3>2, <3>3, SwitchedOK
    <2>7. HandlerOK'  BY <1>a, <2>1 DEF HandlerOK, InHandler
    <2>8. FlagOK' /\ GicOK'  BY <1>t, <2>1, <2>2 DEF FlagOK, GicOK
    <2>9. RegistersKept'  BY <2>1, <2>6 DEF RegistersKept
    <2>. QED  BY <2>6, <2>7, <2>8, <2>9 DEF IInv
  \* rt_schedule in a handler moves rt_current_thread on.
  <1>3. ASSUME NEW t \in Task, rt_hw_context_switch_interrupt(t)  PROVE IInv'
    <2>1. /\ at = "isr" /\ rt_current_thread' = t
          /\ rt_interrupt_from_thread' = From /\ rt_thread_switch_interrupt_flag' = 1
          /\ rt_interrupt_to_thread' = t
          /\ UNCHANGED <<cpu, stack, tcb, sp, irqstack, spsr, rt_interrupt_nest, fullir,
                         line, enabled, active, at, prog>>
      BY <1>3 DEF rt_hw_context_switch_interrupt, stackVars, gicVars, To
    <2>2. Running' = Running  BY <2>1 DEF Running, From
    <2>3. StacksOK'  BY <1>t, <2>1, <2>2 DEF StacksOK, Saved
    <2>4. Shape' /\ RegistersKept'  BY <1>t, <2>1 DEF Shape, Whole, RegistersKept
    <2>5. HandlerOK'  BY <1>t, <2>1, <2>2 DEF HandlerOK, InHandler
    <2>6. FlagOK' /\ GicOK'  BY <1>t, <2>1 DEF FlagOK, GicOK
    <2>. QED  BY <2>3, <2>4, <2>5, <2>6 DEF IInv
  \* A thread changes its registers.
  <1>4. ASSUME NEW regs, Runs(regs), Whole(regs)  PROVE IInv'
    <2>1. /\ at = "thread" /\ cpu' = regs /\ prog' = [prog EXCEPT ![rt_current_thread] = regs]
          /\ UNCHANGED <<stack, tcb, sp, irqstack, spsr, rt_interrupt_nest, fullir, calls,
                         rt_thread_switch_interrupt_flag, rt_interrupt_from_thread,
                         rt_interrupt_to_thread, rt_current_thread, line, enabled, active, at>>
      BY <1>4 DEF Runs, stackVars, irqVars, switchVars, gicVars
    <2>2. prog'[rt_current_thread] = regs
          /\ \A u \in Task : u # rt_current_thread => prog'[u] = prog[u]
      BY <1>t, <1>a, <2>1
    <2>3. Running' = Running /\ Running = rt_current_thread  BY <1>a, <2>1 DEF Running
    <2>4. Shape'
      <3>1. DOMAIN prog' = Task /\ prog' = [u \in Task |-> prog'[u]]  BY <1>t, <2>1
      <3>2. \A u \in Task : Whole(prog'[u])  BY <1>t, <1>4, <2>2
      <3>. QED  BY <1>t, <1>4, <2>1, <3>1, <3>2 DEF Shape, Whole
    <2>5. StacksOK'  BY <1>t, <2>1, <2>2, <2>3 DEF StacksOK, Saved
    <2>6. HandlerOK' /\ FlagOK' /\ GicOK'
      BY <1>t, <2>1 DEF HandlerOK, InHandler, FlagOK, GicOK
    <2>7. RegistersKept'  BY <2>1, <2>2 DEF RegistersKept
    <2>. QED  BY <2>4, <2>5, <2>6, <2>7 DEF IInv
  <1>5. CASE Compute \/ rt_hw_interrupt_disable \/ rt_hw_interrupt_enable
    <2>1. CASE Compute  BY <1>t, ChangedOK, <1>4, <2>1 DEF Compute
    <2>2. CASE rt_hw_interrupt_disable  BY <1>t, ChangedOK, <1>4, <2>2 DEF rt_hw_interrupt_disable
    <2>3. CASE rt_hw_interrupt_enable  BY <1>t, ChangedOK, <1>4, <2>3 DEF rt_hw_interrupt_enable
    <2>. QED  BY <1>5, <2>1, <2>2, <2>3
  \* Steps that touch neither registers nor stacks nor the threads.
  <1>6. ASSUME UNCHANGED <<cpu, stack, tcb, sp, irqstack, spsr, rt_thread_switch_interrupt_flag,
                           rt_interrupt_from_thread, rt_interrupt_to_thread, rt_current_thread, prog>>,
               \/ UNCHANGED <<at, rt_interrupt_nest>>
               \/ at = "irq" /\ at' \in {"isr", "leave"} /\ UNCHANGED rt_interrupt_nest
               \/ at = "isr" /\ at' = "leave" /\ UNCHANGED rt_interrupt_nest
               \/ at = "leave" /\ at' = "return" /\ rt_interrupt_nest' = rt_interrupt_nest - 1,
               GicOK'
        PROVE  IInv'
    <2>1. Running' = Running  BY <1>6 DEF Running
    <2>2. at' \in {"start", "thread", "irq", "isr", "leave", "return"}
      BY <1>t, <1>6 DEF Shape
    <2>3. Shape'  BY <1>t, <1>6, <2>2 DEF Shape, Whole
    <2>4. StacksOK'
      <3>1. CASE at = "start"  BY <1>t, <1>6, <2>1, <3>1 DEF StacksOK, Saved
      <3>2. CASE at # "start"  BY <1>t, <1>6, <2>1, <3>2 DEF StacksOK, Saved
      <3>. QED  BY <3>1, <3>2
    <2>5. HandlerOK'  BY <1>t, <1>6, <2>1 DEF HandlerOK, InHandler
    <2>6. FlagOK'  BY <1>t, <1>6 DEF FlagOK
    <2>7. RegistersKept'  BY <1>t, <1>6 DEF RegistersKept
    <2>. QED  BY <1>6, <2>3, <2>4, <2>5, <2>6, <2>7 DEF IInv
  <1>7. CASE Device
    <2>1. /\ UNCHANGED <<cpu, stack, tcb, sp, irqstack, spsr, rt_interrupt_nest, fullir,
                         rt_thread_switch_interrupt_flag, rt_interrupt_from_thread,
                         rt_interrupt_to_thread, rt_current_thread, enabled, active, at, prog>>
          /\ line' \subseteq Irq
      BY <1>7, <1>t DEF Device, stackVars, irqVars, switchVars, GicOK
    <2>2. GicOK'  BY <1>t, <2>1 DEF GicOK
    <2>. QED  BY <1>6, <2>1, <2>2
  \* The interrupt is taken.
  <1>8. CASE vector_irq
    <2>1. /\ at = "thread" /\ at' = "irq" /\ active = {}
          /\ spsr' = cpu.I /\ irqstack' = <<cpu.r0_3, cpu.r4_12, cpu.pc>>
          /\ rt_interrupt_nest' = rt_interrupt_nest + 1
          /\ cpu' = [cpu EXCEPT !.I = TRUE, !.r0_3 = "irq", !.r4_12 = "irq"]
          /\ UNCHANGED <<stack, tcb, sp, fullir, calls, rt_thread_switch_interrupt_flag,
                         rt_interrupt_from_thread, rt_interrupt_to_thread, rt_current_thread,
                         line, enabled, active, prog>>
      BY <1>8 DEF vector_irq, stackVars, switchVars, gicVars
    <2>2. Running' = Running  BY <2>1 DEF Running
    <2>3. Whole(cpu') /\ cpu'.lr = cpu.lr  BY <1>t, <2>1 DEF Whole
    <2>4. Shape'  BY <1>t, <2>1, <2>3 DEF Shape, Whole
    <2>5. StacksOK'  BY <1>t, <2>1, <2>2 DEF StacksOK, Saved
    <2>6. HandlerOK'
      <3>1. cpu = prog[Running] /\ rt_interrupt_nest' = 1  BY <1>a, <2>1
      <3>. QED  BY <2>1, <2>2, <2>3, <3>1 DEF HandlerOK, InHandler
    <2>7. FlagOK' /\ GicOK' /\ RegistersKept'
      BY <1>t, <1>a, <2>1 DEF FlagOK, GicOK, RegistersKept
    <2>. QED  BY <2>4, <2>5, <2>6, <2>7 DEF IInv
  <1>9. CASE rt_hw_trap_irq
    <2>1. /\ at = "irq"
          /\ fullir' = IF Pending = {} THEN Spurious
                       ELSE CHOOSE i \in Pending : \A j \in Pending : i <= j
          /\ active' = active \cup (Pending \cap {fullir'})
          /\ at' = IF Pending = {} THEN "leave" ELSE "isr"
          /\ UNCHANGED <<cpu, stack, tcb, sp, irqstack, spsr, rt_interrupt_nest, calls,
                         rt_thread_switch_interrupt_flag, rt_interrupt_from_thread,
                         rt_interrupt_to_thread, rt_current_thread, line, enabled, prog>>
      BY <1>9 DEF rt_hw_trap_irq, stackVars, switchVars
    <2>2. active = {} /\ line \subseteq Irq /\ enabled = Irq  BY <1>t, <2>1 DEF GicOK
    <2>3. Pending \subseteq Irq  BY <2>2 DEF Pending
    <2>4. Pending # {} => fullir' \in Pending
      <3>1. ASSUME Pending # {}  PROVE \E i \in Pending : \A j \in Pending : i <= j
        <4>1. Pending \in SUBSET Nat  BY <2>3, SwitchAssumption
        <4>. QED  BY <3>1, <4>1, LeastOK
      <3>. QED  BY <2>1, <3>1
    <2>5. GicOK'
      <3>1. CASE Pending = {}  BY <2>1, <2>2, <3>1 DEF GicOK
      <3>2. CASE Pending # {}
        <4>1. active' = {fullir'}  BY <2>1, <2>2, <2>4, <3>2
        <4>. QED  BY <2>1, <2>2, <2>3, <2>4, <3>2, <4>1 DEF GicOK
      <3>. QED  BY <3>1, <3>2
    <2>. QED  BY <1>6, <2>1, <2>5
  <1>10. CASE arm_gic_ack
    <2>1. /\ at = "isr" /\ at' = "leave"
          /\ line' = line \ {fullir} /\ active' = active \ {fullir}
          /\ enabled' = (enabled \ {fullir}) \cup {fullir}
          /\ UNCHANGED <<cpu, stack, tcb, sp, irqstack, spsr, rt_interrupt_nest,
                         rt_thread_switch_interrupt_flag, rt_interrupt_from_thread,
                         rt_interrupt_to_thread, rt_current_thread, prog>>
      BY <1>10 DEF arm_gic_ack, stackVars, switchVars
    <2>2. GicOK'  BY <1>t, <2>1 DEF GicOK
    <2>. QED  BY <1>6, <2>1, <2>2
  <1>11. CASE rt_interrupt_leave
    <2>1. /\ at = "leave" /\ at' = "return" /\ rt_interrupt_nest' = rt_interrupt_nest - 1
          /\ UNCHANGED <<cpu, stack, tcb, sp, irqstack, spsr, fullir, calls,
                         rt_thread_switch_interrupt_flag, rt_interrupt_from_thread,
                         rt_interrupt_to_thread, rt_current_thread, line, enabled, active, prog>>
      BY <1>11 DEF rt_interrupt_leave, stackVars, switchVars, gicVars
    <2>2. GicOK'  BY <1>t, <2>1 DEF GicOK
    <2>. QED  BY <1>6, <2>1, <2>2
  \* The end of an interrupt without a switch, and with one.
  <1>12. CASE Return
    <2>1. /\ at = "return" /\ at' = "thread" /\ rt_thread_switch_interrupt_flag # 1
          /\ cpu' = [I |-> spsr, r0_3 |-> irqstack[1], r4_12 |-> irqstack[2], lr |-> cpu.lr,
                     pc |-> irqstack[3]]
          /\ irqstack' = <<>>
          /\ UNCHANGED <<stack, tcb, sp, spsr, rt_interrupt_nest, fullir, calls,
                         rt_thread_switch_interrupt_flag, rt_interrupt_from_thread,
                         rt_interrupt_to_thread, rt_current_thread, line, enabled, active, prog>>
      BY <1>12 DEF Return, stackVars, switchVars, gicVars
    <2>2. Running = rt_current_thread /\ Running' = Running  BY <2>1 DEF Running
    <2>3. Running \in Task /\ Whole(prog[Running])  BY <1>t, <2>1 DEF StacksOK
    <2>4. /\ spsr = prog[Running].I /\ cpu.lr = prog[Running].lr
          /\ irqstack = <<prog[Running].r0_3, prog[Running].r4_12, prog[Running].pc>>
          /\ rt_interrupt_nest = 0
      BY <1>t, <2>1 DEF HandlerOK, InHandler
    <2>5. cpu' = prog[Running]  BY <2>1, <2>3, <2>4 DEF Whole
    <2>6. Shape'
      <3>1. Whole(cpu')  BY <2>3, <2>5
      <3>. QED  BY <1>t, <2>1, <3>1 DEF Shape, Whole
    <2>7. StacksOK'  BY <1>t, <2>1, <2>2 DEF StacksOK, Saved
    <2>8. HandlerOK' /\ FlagOK' /\ GicOK'
      BY <1>t, <2>1, <2>4 DEF HandlerOK, InHandler, FlagOK, GicOK
    <2>9. RegistersKept'  BY <2>1, <2>2, <2>5 DEF RegistersKept
    <2>. QED  BY <2>6, <2>7, <2>8, <2>9 DEF IInv
  <1>13. CASE rt_hw_context_switch_interrupt_do
    <2> DEFINE t == rt_interrupt_to_thread
               r == prog[Running]
               frame == <<spsr, irqstack[1], irqstack[2], cpu.lr, irqstack[3]>>
               pushed == [stack EXCEPT ![sp[1]] = Push(frame, @)]
    <2>1. /\ at = "return" /\ at' = "thread"
          /\ rt_thread_switch_interrupt_flag = 1 /\ rt_thread_switch_interrupt_flag' = 0
          /\ irqstack' = <<>>
          /\ tcb' = [tcb EXCEPT ![rt_interrupt_from_thread] = <<sp[1], sp[2] + 5>>]
          /\ Restore(pushed, tcb'[t])
          /\ UNCHANGED <<spsr, rt_interrupt_nest, fullir, calls, rt_interrupt_from_thread,
                         rt_interrupt_to_thread, rt_current_thread, line, enabled, active, prog>>
      BY <1>13 DEF rt_hw_context_switch_interrupt_do, gicVars, FlagCleared
    <2>2. Running = rt_interrupt_from_thread /\ t = rt_current_thread /\ t \in Task
          /\ Running \in Task
      BY <1>t, <2>1 DEF FlagOK, StacksOK, Running
    <2>3. Running' = t  BY <2>1, <2>2 DEF Running
    <2>4. /\ spsr = r.I /\ cpu.lr = r.lr /\ irqstack = <<r.r0_3, r.r4_12, r.pc>>
          /\ rt_interrupt_nest = 0 /\ Whole(r)
      BY <1>t, <2>1, <2>2 DEF HandlerOK, InHandler
    <2>5. frame = FrameOf(r)  BY <2>4 DEF FrameOf
    <2>6. prog' = [prog EXCEPT ![Running] = r]  BY <1>t, <2>1, <2>2
    <2> HIDE DEF r, t
    <2>7. Restore([stack EXCEPT ![sp[1]] = Push(FrameOf(r), @)], tcb'[t])  BY <2>1, <2>5
    <2>8. Shape' /\ StacksOK' /\ cpu' = prog'[t]
      <3>1. at # "start" /\ rt_current_thread' = t  BY <2>1, <2>2
      <3>2. tcb' = [tcb EXCEPT ![Running] = <<sp[1], sp[2] + 5>>]  BY <2>1, <2>2
      <3>. QED  BY <1>t, <2>1, <2>2, <2>3, <2>4, <2>6, <2>7, <3>1, <3>2, SwitchedOK
    <2>9. HandlerOK' /\ FlagOK' /\ GicOK'
      BY <1>t, <2>1, <2>4 DEF HandlerOK, InHandler, FlagOK, GicOK
    <2>10. RegistersKept'
      <3>1. rt_current_thread' = t  BY <2>1, <2>2
      <3>. QED  BY <2>8, <3>1 DEF RegistersKept
    <2>. QED  BY <2>8, <2>9, <2>10 DEF IInv
  <1>14. CASE UNCHANGED cpuVars
    <2>1. UNCHANGED <<cpu, stack, tcb, sp, irqstack, spsr, rt_interrupt_nest, fullir, calls,
                      rt_thread_switch_interrupt_flag, rt_interrupt_from_thread,
                      rt_interrupt_to_thread, rt_current_thread, line, enabled, active, at, prog>>
      BY <1>14 DEF cpuVars, stackVars, irqVars, switchVars, gicVars
    <2>2. GicOK'  BY <1>t, <2>1 DEF GicOK
    <2>. QED  BY <1>6, <2>1, <2>2
  <1>. QED
    BY <1>1, <1>2, <1>3, <1>5, <1>7, <1>8, <1>9, <1>10, <1>11, <1>12, <1>13, <1>14 DEF SwitchNext

\* The inductive invariant holds always.
THEOREM SwitchInvariance == SwitchSpec => []IInv
  BY InitOK, StepOK, PTL DEF SwitchSpec

\* For any threads, interrupts and calls of rt_schedule in a handler, a thread
\* finds its registers and the I bit as it left them.
THEOREM ThreadsKeepRegisters == SwitchSpec => []RegistersKept
  <1>1. IInv => RegistersKept  BY DEF IInv
  <1>. QED  BY <1>1, SwitchInvariance, PTL

\* Thread code always runs on its own stack, with nothing left on it.
THEOREM StacksApart == SwitchSpec => []OnOwnStack
  <1>1. IInv => OnOwnStack
    <2> SUFFICES ASSUME IInv, at = "thread"
                 PROVE  sp = <<rt_current_thread, Len(stack[rt_current_thread])>>
      BY DEF OnOwnStack
    <2>1. Running = rt_current_thread  BY DEF IInv, FlagOK, Running
    <2>2. stack[rt_current_thread] = <<>> /\ sp = <<rt_current_thread, 0>>
      BY <2>1 DEF IInv, StacksOK
    <2>3. Len(stack[rt_current_thread]) = 0  BY <2>2
    <2>. QED  BY <2>2, <2>3
  <1>. QED  BY <1>1, SwitchInvariance, PTL

\* Behind every interrupt, the stack of IRQ mode, the nesting, the flag and the
\* interrupt controller are as they were before it.
THEOREM NothingLeft == SwitchSpec => []InterruptsLeaveNothing
  <1>1. IInv => InterruptsLeaveNothing
    BY DEF IInv, InterruptsLeaveNothing, HandlerOK, InHandler, FlagOK, GicOK
  <1>. QED  BY <1>1, SwitchInvariance, PTL
=============================================================================
