------------------------------- MODULE Startup -------------------------------
(***************************************************************************)
(* From _reset to the shell: rtthread_startup and the functions registered *)
(* for automatic initialisation (src/components.c), which the linker sorts *)
(* by level and, within one level, in the order it meets them; then main   *)
(* (applications/main.c) beside the other threads and the tick.            *)
(***************************************************************************)
EXTENDS Integers, Sequences, FiniteSets

CONSTANTS Delay,     (* the ticks mutex_thread_entry waits                 *)
          TickMax    (* bound on the ticks                                 *)

StartupAssumption == Delay \in Nat \ {0} /\ TickMax \in Nat

VARIABLES
  at,               (* the next call of rtthread_startup, then "threads"   *)
  done,             (* the initialisation functions called                 *)
  I,                (* interrupts disabled                                 *)
  heap, handlers, devices, console, rx_int,
  lists,            (* which lists of the kernel hold: "timer", "ready"    *)
  ready, current, main_at, sleeping, ticks,
  filesystem_operation_table, filesystem_table, fslock,
  broken            (* history: a call that met what was not there         *)

kernelVars == <<lists, ready, current, main_at, sleeping, ticks>>
deviceVars == <<handlers, devices, console, rx_int>>
dfsVars == <<filesystem_operation_table, filesystem_table, fslock>>
vars == <<at, done, I, heap, deviceVars, kernelVars, dfsVars, broken>>

\* Wrong on purpose: the root is mounted before there is a table to mount it in.
LevelMountEarly == [rt_hw_timer_init |-> 1, rt_hw_uart_init |-> 1, dfs_init |-> 2,
                    dfs_ramfs_init |-> 4, mnt_init |-> 3, finsh_system_init |-> 6]

\* Where a function stands: the levels of rtdef.h, as link.lds sorts them.
Level == [rt_hw_timer_init |-> 1, rt_hw_uart_init |-> 1, dfs_init |-> 2,
          dfs_ramfs_init |-> 4, mnt_init |-> 5, finsh_system_init |-> 6]

Priority == [main |-> 10, tshell |-> 29, mutexpost |-> 30, tidle |-> 31]
Nobody == "nobody"

\* The memory after _reset has cleared .bss.
Init ==
  /\ at = "rt_hw_interrupt_disable" /\ done = {} /\ I = FALSE /\ heap = FALSE
  /\ handlers = {} /\ devices = {} /\ console = Nobody /\ rx_int = FALSE
  /\ lists = {} /\ ready = {} /\ current = Nobody /\ main_at = "none"
  /\ sleeping = 0 /\ ticks = 0
  /\ filesystem_operation_table = {} /\ filesystem_table = {} /\ fslock = Nobody
  /\ broken = FALSE

Needs(condition) == broken' = (broken \/ ~condition)

Sequence == <<"rt_hw_interrupt_disable", "rt_hw_interrupt_init", "rt_system_heap_init",
  "rt_components_board_init", "rt_console_set_device", "rt_system_timer_init",
  "rt_system_scheduler_init", "rt_application_init", "rt_thread_idle_init",
  "rt_system_scheduler_start", "threads">>

Step(name) ==
  LET k == CHOOSE k \in 1..Len(Sequence) : Sequence[k] = name
  IN  at = name /\ at' = Sequence[k + 1]

-----------------------------------------------------------------------------
(* rtthread_startup, with rt_hw_board_init. *)

rt_hw_interrupt_disable ==
  /\ Step("rt_hw_interrupt_disable") /\ I' = TRUE
  /\ UNCHANGED <<done, heap, deviceVars, kernelVars, dfsVars, broken>>

rt_hw_interrupt_init ==
  /\ Step("rt_hw_interrupt_init") /\ handlers' = {}
  /\ UNCHANGED <<done, I, heap, devices, console, rx_int, kernelVars, dfsVars, broken>>

rt_system_heap_init ==
  /\ Step("rt_system_heap_init") /\ heap' = TRUE
  /\ UNCHANGED <<done, I, deviceVars, kernelVars, dfsVars, broken>>

\* The functions of a range of levels that are still to be called, and those
\* of them that may be the next.
Left(range) == {f \in DOMAIN Level \ done : Level[f] \in range}
Nexts(range) == {f \in Left(range) : \A g \in Left(range) : Level[f] <= Level[g]}

rt_components_board_init ==
  /\ Left(0..1) = {} /\ Step("rt_components_board_init")
  /\ UNCHANGED <<done, I, heap, deviceVars, kernelVars, dfsVars, broken>>

\* The first opening of the console makes the rings, out of the heap.
rt_console_set_device ==
  /\ Step("rt_console_set_device")
  /\ console' = IF "uart0" \in devices THEN "uart0" ELSE console
  /\ Needs(heap)
  /\ UNCHANGED <<done, I, heap, handlers, devices, rx_int, kernelVars, dfsVars>>

rt_system_timer_init ==
  /\ Step("rt_system_timer_init")
  /\ lists' = lists \cup {"timer"} /\ sleeping' = 0
  /\ UNCHANGED <<done, I, heap, deviceVars, ready, current, main_at, ticks, dfsVars, broken>>

\* The ready lists are made empty.
rt_system_scheduler_init ==
  /\ Step("rt_system_scheduler_init")
  /\ lists' = lists \cup {"ready"} /\ ready' = {} /\ current' = Nobody
  /\ UNCHANGED <<done, I, heap, deviceVars, main_at, sleeping, ticks, dfsVars, broken>>

\* rt_thread_startup links the thread into a ready list.
Started(t) == ready' = ready \cup {t} /\ Needs("ready" \in lists)

rt_application_init ==
  /\ Step("rt_application_init") /\ Started("main") /\ main_at' = "components"
  /\ UNCHANGED <<done, I, heap, deviceVars, lists, current, sleeping, ticks, dfsVars>>

rt_thread_idle_init ==
  /\ Step("rt_thread_idle_init") /\ Started("tidle")
  /\ UNCHANGED <<done, I, heap, deviceVars, lists, current, main_at, sleeping, ticks, dfsVars>>

Highest(S) == CHOOSE t \in S : \A u \in S : Priority[t] <= Priority[u]

\* The first thread begins with interrupts enabled.
rt_system_scheduler_start ==
  /\ Step("rt_system_scheduler_start")
  /\ current' = Highest(ready) /\ I' = FALSE
  /\ UNCHANGED <<done, heap, deviceVars, lists, ready, main_at, sleeping, ticks, dfsVars, broken>>

-----------------------------------------------------------------------------
(* The functions registered for initialisation: those up to level 1 are     *)
(* called by rt_components_board_init, the others by the thread main.       *)

MayCall(f) ==
  /\ \/ at = "rt_components_board_init" /\ f \in Nexts(0..1)
     \/ at = "threads" /\ current = "main" /\ main_at = "components" /\ f \in Nexts(2..6)
  /\ done' = done \cup {f}
  /\ UNCHANGED at

rt_hw_timer_init ==
  /\ MayCall("rt_hw_timer_init")
  /\ handlers' = handlers \cup {"tick"}
  /\ UNCHANGED <<I, heap, devices, console, rx_int, kernelVars, dfsVars, broken>>

rt_hw_uart_init ==
  /\ MayCall("rt_hw_uart_init")
  /\ handlers' = handlers \cup {"uart0"} /\ devices' = devices \cup {"uart0"}
  /\ UNCHANGED <<I, heap, console, rx_int, kernelVars, dfsVars, broken>>

\* The tables are cleared and the lock is made.
dfs_init ==
  /\ MayCall("dfs_init")
  /\ filesystem_operation_table' = {} /\ filesystem_table' = {} /\ fslock' = "free"
  /\ UNCHANGED <<I, heap, deviceVars, kernelVars, broken>>

dfs_ramfs_init ==
  /\ MayCall("dfs_ramfs_init")
  /\ filesystem_operation_table' = filesystem_operation_table \cup {"ram"}
  /\ Needs(fslock = "free")
  /\ UNCHANGED <<I, heap, deviceVars, kernelVars, filesystem_table, fslock>>

\* dfs_mount fails when the file system is not in the table.
mnt_init ==
  /\ MayCall("mnt_init")
  /\ filesystem_table' = IF "ram" \in filesystem_operation_table
                         THEN filesystem_table \cup {"/"} ELSE filesystem_table
  /\ Needs(heap /\ fslock = "free")
  /\ UNCHANGED <<I, heap, deviceVars, kernelVars, filesystem_operation_table, fslock>>

finsh_system_init ==
  /\ MayCall("finsh_system_init") /\ Started("tshell")
  /\ UNCHANGED <<I, heap, deviceVars, lists, current, main_at, sleeping, ticks, dfsVars>>

-----------------------------------------------------------------------------
(* The threads and the tick. *)

\* The current thread takes one step of its own.
Runs(t) == at = "threads" /\ current = t /\ UNCHANGED <<at, heap, done, dfsVars>>

\* main starts mutex_thread, takes the mutex and ends, and the thread with the
\* highest priority goes on.
main ==
  /\ Runs("main") /\ main_at = "components" /\ Left(2..6) = {}
  /\ main_at' = "ended"
  /\ ready' = (ready \ {"main"}) \cup {"mutexpost"}
  /\ current' = Highest(ready')
  /\ UNCHANGED <<I, deviceVars, lists, sleeping, ticks, broken>>

\* The shell opens the console for receiving and waits for input.
finsh_thread_entry ==
  /\ Runs("tshell")
  /\ rx_int' = TRUE
  /\ ready' = ready \ {"tshell"} /\ current' = Highest(ready')
  /\ Needs(console = "uart0" /\ "/" \in filesystem_table)
  /\ UNCHANGED <<I, handlers, devices, console, lists, main_at, sleeping, ticks>>

\* mutex_thread_entry waits, fails to release what it does not own, and ends.
mutex_thread_entry ==
  /\ Runs("mutexpost")
  /\ sleeping' = IF sleeping = 0 THEN Delay ELSE 0
  /\ ready' = ready \ {"mutexpost"} /\ current' = Highest(ready')
  /\ Needs("timer" \in lists)
  /\ UNCHANGED <<I, deviceVars, lists, main_at, ticks>>

\* The CPU takes an interrupt.
Taken == ~I

\* The tick charges the running thread and wakes the one that waits.
rt_hw_timer_isr ==
  /\ "tick" \in handlers /\ Taken /\ ticks < TickMax
  /\ ticks' = ticks + 1
  /\ Needs(current # Nobody /\ "timer" \in lists)
  /\ sleeping' = IF sleeping > 1 THEN sleeping - 1 ELSE sleeping
  /\ ready' = IF sleeping = 1 THEN ready \cup {"mutexpost"} ELSE ready
  /\ current' = IF current = Nobody THEN Nobody ELSE Highest(ready')
  /\ UNCHANGED <<at, done, I, heap, deviceVars, lists, main_at, dfsVars>>

\* A byte from the UART makes the shell ready.
rt_hw_uart_isr ==
  /\ "uart0" \in handlers /\ rx_int /\ Taken
  /\ ready' = ready \cup {"tshell"} /\ current' = Highest(ready')
  /\ UNCHANGED <<at, done, I, heap, deviceVars, lists, main_at, sleeping, ticks, dfsVars,
                 broken>>

Next ==
  \/ rt_hw_interrupt_disable \/ rt_hw_interrupt_init \/ rt_system_heap_init
  \/ rt_components_board_init \/ rt_console_set_device \/ rt_system_timer_init
  \/ rt_system_scheduler_init \/ rt_application_init \/ rt_thread_idle_init
  \/ rt_system_scheduler_start
  \/ rt_hw_timer_init \/ rt_hw_uart_init \/ dfs_init \/ dfs_ramfs_init \/ mnt_init
  \/ finsh_system_init
  \/ main \/ finsh_thread_entry \/ mutex_thread_entry \/ rt_hw_timer_isr \/ rt_hw_uart_isr

Spec == Init /\ [][Next]_vars /\ WF_vars(Next)

-----------------------------------------------------------------------------
(* Properties. *)

\* In every order the linker may choose within the levels, and with a tick at
\* any place, no call meets what is not there yet: no allocation before the
\* heap, no thread before its lists, no mount before the lock and the file
\* system, no shell without its console and the root, no tick without a thread.
NothingMissing == ~broken

\* What was made is not made again: no list, table or heap that already holds
\* something is emptied by a later step.
NothingLost ==
  [][/\ ready \ ready' \subseteq {current}
     /\ handlers \subseteq handlers' /\ filesystem_table \subseteq filesystem_table'
     /\ filesystem_operation_table \subseteq filesystem_operation_table']_vars

\* The shell gets to wait for input over a mounted root.
ShellRuns == <>(rx_int /\ "/" \in filesystem_table)
=============================================================================
