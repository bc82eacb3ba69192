------------------------------- MODULE Switch --------------------------------
(***************************************************************************)
(* Interrupts and context switches at the level of registers               *)
(* (bsp/qemu-vexpress-a9/cpu: context_gcc.S, start_gcc.S, trap.c, gic.c,   *)
(* interrupt.c, stack.c; src/irq.c; drivers/board.c).  The registers are   *)
(* r0 to r3, r4 to r12, lr, pc and the I bit of cpsr; a stack is a         *)
(* sequence of such words with its top in front.  The kernel's choice of   *)
(* the next thread is any: Kernel has it exactly.                          *)
(***************************************************************************)
EXTENDS Integers, Sequences

CONSTANTS Task,         (* the threads                                     *)
          Irq,          (* the interrupt numbers with a handler            *)
          ScheduleMax   (* bound on the calls of rt_schedule in a handler  *)

ASSUME SwitchAssumption == Irq \subseteq 0..1019 /\ ScheduleMax \in Nat

Spurious == 1023
Nobody == "nobody"

VARIABLES
  cpu,                            (* the registers in thread mode           *)
  stack, tcb, sp,                 (* stacks, saved and present stack pointer: *)
                                  (*   the thread, and the words on its stack *)
  irqstack, spsr,                 (* of IRQ mode                            *)
  rt_interrupt_nest,
  rt_thread_switch_interrupt_flag, rt_interrupt_from_thread, rt_interrupt_to_thread,
  rt_current_thread,
  line, enabled, active,          (* of the GIC, for each interrupt         *)
  at, fullir, calls,              (* where the CPU is                       *)
  prog                            (* history: the registers as each thread  *)
                                  (*   itself left them                     *)

switchVars == <<rt_thread_switch_interrupt_flag, rt_interrupt_from_thread,
                rt_interrupt_to_thread>>
gicVars == <<line, enabled, active>>
stackVars == <<stack, tcb, sp>>
irqVars == <<irqstack, spsr, rt_interrupt_nest, fullir, calls>>
cpuVars == <<cpu, stackVars, irqVars, switchVars, rt_current_thread, gicVars, at, prog>>

\* The first frame of a thread: it begins at tentry with its parameter and
\* returns to texit, with interrupts enabled.
rt_hw_stack_init(t) == <<FALSE, "parameter", "zero", "texit", "tentry">>

\* rtthread_startup disables interrupts; rt_hw_interrupt_init clears the rest,
\* and the drivers have installed their handlers and enabled their numbers.
SwitchInit ==
  /\ cpu = [I |-> TRUE, r0_3 |-> "boot", r4_12 |-> "boot", lr |-> "boot", pc |-> "boot"]
  /\ stack = [t \in Task |-> rt_hw_stack_init(t)]
  /\ tcb = [t \in Task |-> <<t, 5>>] /\ sp = <<Nobody, 0>>
  /\ irqstack = <<>> /\ spsr = TRUE /\ rt_interrupt_nest = 0
  /\ rt_thread_switch_interrupt_flag = 0
  /\ rt_interrupt_from_thread = Nobody /\ rt_interrupt_to_thread = Nobody
  /\ rt_current_thread = Nobody
  /\ line = {} /\ enabled = Irq /\ active = {}
  /\ at = "start" /\ fullir = Spurious /\ calls = 0
  /\ prog = [t \in Task |-> [I |-> FALSE, r0_3 |-> "parameter", r4_12 |-> "zero",
                               lr |-> "texit", pc |-> "tentry"]]

\* Words pushed on the stack of t, the last word of the sequence first.
Push(ws, s) == ws \o s

\* ldmfd sp!, {r4}; ldmfd sp!, {r0-r12, lr, pc}^ at a stack pointer.
Restore(st, ptr) ==
  LET words == st[ptr[1]]
      off == Len(words) - ptr[2]
  IN  /\ cpu' = [I |-> words[off + 1], r0_3 |-> words[off + 2], r4_12 |-> words[off + 3],
                 lr |-> words[off + 4], pc |-> words[off + 5]]
      /\ stack' = [st EXCEPT ![ptr[1]] = SubSeq(words, off + 6, Len(words))]
      /\ sp' = <<ptr[1], ptr[2] - 5>>

rt_hw_context_switch_to(t) ==
  /\ at = "start" /\ at' = "thread"
  /\ Restore(stack, tcb[t])
  /\ rt_current_thread' = t
  /\ UNCHANGED <<tcb, irqVars, switchVars, gicVars, prog>>

-----------------------------------------------------------------------------
(* Thread code. *)

\* The running thread changes its registers and knows what they are.
Runs(regs) ==
  /\ at = "thread"
  /\ cpu' = regs /\ prog' = [prog EXCEPT ![rt_current_thread] = regs]
  /\ UNCHANGED <<stackVars, irqVars, switchVars, rt_current_thread, gicVars, at>>

Compute ==
  /\ ~cpu.I
  /\ Runs([cpu EXCEPT !.r0_3 = <<rt_current_thread, "r0">>, !.lr = <<rt_current_thread, "lr">>])

\* The level goes into a register the caller keeps.
rt_hw_interrupt_disable == ~cpu.I /\ Runs([cpu EXCEPT !.I = TRUE, !.r4_12 = cpu.I])
rt_hw_interrupt_enable == cpu.I /\ Runs([cpu EXCEPT !.I = cpu.r4_12])

\* The caller's registers go on its stack, with the return address as pc.
rt_hw_context_switch(t) ==
  LET me == rt_current_thread
      frame == <<cpu.I, cpu.r0_3, cpu.r4_12, cpu.lr, cpu.lr>>
      pushed == [stack EXCEPT ![sp[1]] = Push(frame, @)]
  IN
  /\ at = "thread" /\ cpu.I /\ t # me
  /\ rt_current_thread' = t
  /\ tcb' = [tcb EXCEPT ![me] = <<sp[1], sp[2] + 5>>]
  /\ Restore(pushed, tcb'[t])
  /\ prog' = [prog EXCEPT ![me].pc = cpu.lr]
  /\ UNCHANGED <<irqVars, switchVars, gicVars, at>>

-----------------------------------------------------------------------------
(* The interrupt. *)

\* A device raises its line, or withdraws it by itself.
Device ==
  /\ \E i \in Irq : line' = IF i \in line THEN line \ {i} ELSE line \cup {i}
  /\ UNCHANGED <<cpu, stackVars, irqVars, switchVars, rt_current_thread, enabled,
                 active, at, prog>>

Pending == {i \in line : i \in enabled /\ i \notin active}

\* vector_irq: the interrupted registers go on the stack of IRQ mode.
vector_irq ==
  /\ at = "thread" /\ at' = "irq"
  /\ ~cpu.I /\ Pending # {} /\ active = {}
  /\ spsr' = cpu.I
  /\ irqstack' = <<cpu.r0_3, cpu.r4_12, cpu.pc>>
  /\ rt_interrupt_nest' = rt_interrupt_nest + 1
  /\ cpu' = [cpu EXCEPT !.I = TRUE, !.r0_3 = "irq", !.r4_12 = "irq"]
  /\ UNCHANGED <<stackVars, fullir, calls, switchVars, rt_current_thread, gicVars, prog>>

\* arm_gic_get_active_irq: the lowest number pending, or none any more.
rt_hw_trap_irq ==
  /\ at = "irq"
  /\ fullir' = IF Pending = {} THEN Spurious
               ELSE CHOOSE i \in Pending : \A j \in Pending : i <= j
  /\ active' = active \cup (Pending \cap {fullir'})
  /\ at' = IF Pending = {} THEN "leave" ELSE "isr"
  /\ UNCHANGED <<cpu, stackVars, irqstack, spsr, rt_interrupt_nest, calls, switchVars,
                 rt_current_thread, line, enabled, prog>>

\* Wrong on purpose: the thread of an earlier call is forgotten.
FromOfLast == rt_current_thread

\* The interrupted thread is the one of the first call.
From == IF rt_thread_switch_interrupt_flag = 1 THEN rt_interrupt_from_thread
        ELSE rt_current_thread
To(t) == t

\* rt_schedule in the handler picks another thread.
rt_hw_context_switch_interrupt(t) ==
  /\ at = "isr" /\ calls < ScheduleMax /\ t # rt_current_thread
  /\ calls' = calls + 1
  /\ rt_interrupt_from_thread' = From
  /\ rt_thread_switch_interrupt_flag' = 1
  /\ rt_interrupt_to_thread' = To(t)
  /\ rt_current_thread' = t
  /\ UNCHANGED <<cpu, stackVars, irqstack, spsr, rt_interrupt_nest, fullir, gicVars,
                 at, prog>>

\* The handler quiets its device, and arm_gic_ack ends the interrupt.
arm_gic_ack ==
  /\ at = "isr" /\ at' = "leave"
  /\ line' = line \ {fullir}
  /\ active' = active \ {fullir}
  /\ enabled' = (enabled \ {fullir}) \cup {fullir}
  /\ calls' = 0 /\ fullir' = Spurious
  /\ UNCHANGED <<cpu, stackVars, irqstack, spsr, rt_interrupt_nest, switchVars,
                 rt_current_thread, prog>>

rt_interrupt_leave ==
  /\ at = "leave" /\ at' = "return"
  /\ rt_interrupt_nest' = rt_interrupt_nest - 1
  /\ UNCHANGED <<cpu, stackVars, irqstack, spsr, fullir, calls, switchVars,
                 rt_current_thread, gicVars, prog>>

\* Without a switch the thread goes on where it was.
Return ==
  /\ at = "return" /\ at' = "thread"
  /\ rt_thread_switch_interrupt_flag # 1
  /\ cpu' = [I |-> spsr, r0_3 |-> irqstack[1], r4_12 |-> irqstack[2], lr |-> cpu.lr,
             pc |-> irqstack[3]]
  /\ irqstack' = <<>>
  /\ UNCHANGED <<stackVars, spsr, rt_interrupt_nest, fullir, calls, switchVars,
                 rt_current_thread, gicVars, prog>>

FlagCleared == 0

\* The registers move from the stack of IRQ mode to the interrupted thread's:
\* pc, then lr with r12 to r4, then r3 to r0, then cpsr.
rt_hw_context_switch_interrupt_do ==
  LET frame == <<spsr, irqstack[1], irqstack[2], cpu.lr, irqstack[3]>>
      pushed == [stack EXCEPT ![sp[1]] = Push(frame, @)]
  IN
  /\ at = "return" /\ at' = "thread"
  /\ rt_thread_switch_interrupt_flag = 1
  /\ rt_thread_switch_interrupt_flag' = FlagCleared
  /\ irqstack' = <<>>
  /\ tcb' = [tcb EXCEPT ![rt_interrupt_from_thread] = <<sp[1], sp[2] + 5>>]
  /\ Restore(pushed, tcb'[rt_interrupt_to_thread])
  /\ UNCHANGED <<spsr, rt_interrupt_nest, fullir, calls, rt_interrupt_from_thread,
                 rt_interrupt_to_thread, rt_current_thread, gicVars, prog>>

-----------------------------------------------------------------------------

SwitchNext ==
  \/ \E t \in Task : \/ rt_hw_context_switch_to(t) \/ rt_hw_context_switch(t)
                       \/ rt_hw_context_switch_interrupt(t)
  \/ Compute \/ rt_hw_interrupt_disable \/ rt_hw_interrupt_enable
  \/ Device \/ vector_irq \/ rt_hw_trap_irq \/ arm_gic_ack \/ rt_interrupt_leave
  \/ Return \/ rt_hw_context_switch_interrupt_do

SwitchSpec == SwitchInit /\ [][SwitchNext]_cpuVars

-----------------------------------------------------------------------------
(* Properties. *)

\* A thread finds every register and the I bit as it left them, whether it
\* gave up the CPU itself or lost it to an interrupt, and whatever thread a
\* handler picked first, second or last.
RegistersKept == at = "thread" => cpu = prog[rt_current_thread]

\* Thread code runs on the stack of the thread the kernel takes it for, and
\* that stack is as deep as its pointer says.
OnOwnStack ==
  at = "thread" => sp = <<rt_current_thread, Len(stack[rt_current_thread])>>

\* An interrupt leaves nothing behind: no word on its stack, no nesting, no
\* switch that would be made up for by a later interrupt, no number that is
\* still active or disabled.
InterruptsLeaveNothing ==
  at = "thread" =>
    /\ irqstack = <<>> /\ rt_interrupt_nest = 0
    /\ rt_thread_switch_interrupt_flag = 0
    /\ active = {} /\ enabled = Irq
=============================================================================
