----------------------------- MODULE SemPromise ------------------------------
(***************************************************************************)
(* What a counting semaphore promises its users, without thread states,    *)
(* priorities, timers or interrupts.  Each release is worth one take.  A   *)
(* release with waiters is given to the one that has waited longest; no    *)
(* token is lost to a timeout, and a take that was given a token reports   *)
(* success even when its timeout is close.                                 *)
(***************************************************************************)
EXTENDS Integers, Sequences, SequencesExt

CONSTANTS Thread, Sem, Initial

VARIABLES
  free,     (* semaphore -> tokens nobody has taken                        *)
  queue,    (* semaphore -> the threads that wait, first come first        *)
  given,    (* semaphore -> threads given a token, still inside take       *)
  expired   (* semaphore -> threads whose wait ended, still inside take    *)

semVars == <<free, queue, given, expired>>

Init ==
  /\ free = Initial
  /\ queue = [s \in Sem |-> <<>>]
  /\ given = [s \in Sem |-> {}]
  /\ expired = [s \in Sem |-> {}]

Outside(t) ==
  \A s \in Sem : t \notin ToSet(queue[s]) \cup given[s] \cup expired[s]

Take(s) ==
  /\ free[s] > 0
  /\ free' = [free EXCEPT ![s] = @ - 1]
  /\ UNCHANGED <<queue, given, expired>>

Wait(t, s) ==
  /\ Outside(t) /\ free[s] = 0
  /\ queue' = [queue EXCEPT ![s] = Append(@, t)]
  /\ UNCHANGED <<free, given, expired>>

Release(s) ==
  /\ queue[s] = <<>>
  /\ free' = [free EXCEPT ![s] = @ + 1]
  /\ UNCHANGED <<queue, given, expired>>

Grant(s) ==
  /\ queue[s] # <<>>
  /\ queue' = [queue EXCEPT ![s] = Tail(@)]
  /\ given' = [given EXCEPT ![s] = @ \cup {Head(queue[s])}]
  /\ UNCHANGED <<free, expired>>

Expire(t, s) ==
  /\ \E i \in DOMAIN queue[s] :
       queue[s][i] = t /\ queue' = [queue EXCEPT ![s] = RemoveAt(@, i)]
  /\ expired' = [expired EXCEPT ![s] = @ \cup {t}]
  /\ UNCHANGED <<free, given>>

\* take comes back with success or with a timeout.
Succeed(t, s) ==
  /\ t \in given[s]
  /\ given' = [given EXCEPT ![s] = @ \ {t}]
  /\ UNCHANGED <<free, queue, expired>>

Fail(t, s) ==
  /\ t \in expired[s]
  /\ expired' = [expired EXCEPT ![s] = @ \ {t}]
  /\ UNCHANGED <<free, queue, given>>

Next ==
  \E s \in Sem :
    \/ Take(s) \/ Release(s) \/ Grant(s)
    \/ \E t \in Thread :
         Wait(t, s) \/ Expire(t, s) \/ Succeed(t, s) \/ Fail(t, s)

Spec == Init /\ [][Next]_semVars
=============================================================================
