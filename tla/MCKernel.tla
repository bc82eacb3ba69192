------------------------------ MODULE MCKernel -------------------------------
(***************************************************************************)
(* The kernel with three or four threads.  The constants that differ       *)
(* between the runs (how many objects, how long a take may wait, what the  *)
(* programs call) are set by the configurations.                           *)
(***************************************************************************)
EXTENDS Kernel

CONSTANTS a, b

UnitSlice == [t \in Thread |-> 1]

-----------------------------------------------------------------------------
(* Threads that share the CPU: time slices, delays, yields, a locked          *)
(* scheduler, changed priorities, threads that end.                           *)

MixedPrio  == Main :> 1 @@ a :> 0 @@ b :> 1 @@ Idle :> 3
AllCalls   == Main :> {"startup", "delay", "control", "critical"}
              @@ a :> {"delay", "exit"} @@ b :> {"delay", "yield"}
              @@ Idle :> {}

\* a only computes: nothing but the time slice takes the CPU from it.
EqualPrio  == Main :> 1 @@ a :> 1 @@ b :> 1 @@ Idle :> 2
FairSlice  == Main :> 2 @@ a :> 1 @@ b :> 2 @@ Idle :> 1
FairCalls  == Main :> {"startup", "yield", "delay"} @@ a :> {}
              @@ b :> {"delay", "yield", "exit"} @@ Idle :> {}

-----------------------------------------------------------------------------
(* Two threads and an interrupt handler around a semaphore, and a mutex.      *)
(* Main is the more urgent of the two, as in the semaphore test of main.c.    *)

SemPrio    == Main :> 0 @@ a :> 1 @@ Idle :> 2
SemSlice   == Main :> 2 @@ a :> 1 @@ Idle :> 1
SemCalls   == Main :> {"startup", "delay", "sem_take", "critical", "mutex_take", "mutex_release"}
              @@ a :> {"delay", "sem_take", "sem_release", "exit", "mutex_take", "mutex_release"}
              @@ Idle :> {}
Zero       == [s \in Sem |-> 0]
AnyTime    == {-1, 0, 1, 3}

-----------------------------------------------------------------------------
(* Threads of different urgency, and mutexes: takes, recursive takes,         *)
(* releases, delays.                                                          *)

MutexPrio  == [t \in Thread |-> CASE t = Main -> 1 [] t = a -> 0 [] t = b -> 2
                                   [] OTHER -> 3]
Locking    == {"delay", "mutex_take", "mutex_release"}
LockCalls  == [t \in Thread |-> IF t = Main THEN {"startup"} \cup Locking
                                ELSE IF t = Idle THEN {} ELSE Locking]
Forever    == {-1}
Nothing    == <<>>
=============================================================================
