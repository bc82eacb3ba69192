----------------------------- MODULE MCContext -------------------------------
(***************************************************************************)
(* Three parts of the kernel that Kernel takes as one step each, in detail *)
(* and one at a time: the calls on other threads (Threads), the timers     *)
(* (Timer), and the switch of the registers (Switch).  The initial states  *)
(* choose the part that is active; the others stay as they are.            *)
(*                                                                         *)
(* Threads: a suspends and resumes two threads, one less and one more      *)
(* urgent than itself, and a fourth, as urgent, ends.  Timer: a thread     *)
(* with a periodic and a one-shot timer; the periodic timer's callback may *)
(* stop it, the one-shot timer's may start it again, or start or stop a    *)
(* third.                                                                  *)
(***************************************************************************)
EXTENDS Threads, Timer, Switch, TLC

CONSTANTS a, b, c, d

MCPrio    == a :> 1 @@ b :> 2 @@ c :> 0 @@ d :> 1 @@ Idle :> 3
MCStarted == 0 :> <<c>> @@ 1 :> <<a, d>> @@ 2 :> <<b>> @@ 3 :> <<Idle>>
MCCalls   == a :> {"suspend", "resume", "sleep", "critical"}
             @@ b :> {"sleep", "wait", "schedule"}
             @@ c :> {"sleep", "suspend", "schedule"}
             @@ d :> {"exit", "sleep"} @@ Idle :> {}
MCTargets == a :> {b, c} @@ [t \in {b, c, d, Idle} |-> {}]

MCUses == [u \in User |-> {"periodic", "once"}]
MCCallbackOps ==
  [t \in Timer |->
     CASE t = "periodic" -> {<<"stop", "periodic">>}
       [] t = "once" -> {<<"start", "once">>, <<"start", "third">>, <<"stop", "third">>}
       [] t = "third" -> {}]

VARIABLE part   \* the part that is active

ContextInit ==
  /\ Init /\ SwitchInit /\ TimerInit
  /\ part \in {"threads", "timers", "switch"}
  /\ part # "timers" => \A t \in Timer : tm[t].init = 1

ContextNext ==
  /\ UNCHANGED part
  /\ \/ part = "threads" /\ Next /\ UNCHANGED <<cpuVars, timerVars>>
     \/ part = "timers" /\ TimerNext /\ UNCHANGED <<vars, cpuVars>>
     \/ part = "switch" /\ SwitchNext /\ UNCHANGED <<vars, timerVars>>

ContextSpec == ContextInit /\ [][ContextNext]_<<vars, cpuVars, timerVars, part>>
=============================================================================
