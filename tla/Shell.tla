------------------------------- MODULE Shell ---------------------------------
(***************************************************************************)
(* The receive ring of components/drivers/serial/serial.c, which the       *)
(* interrupt handler fills, and the thread of components/finsh/shell.c     *)
(* that empties it: it opens the console, reads bytes, waits on rx_sem     *)
(* when there are none, edits the input line and executes it.              *)
(* finsh_rx_ind, called by the handler, releases rx_sem once for all the   *)
(* bytes the handler found.  No thread runs while the handler does, but    *)
(* bytes go on arriving.                                                   *)
(***************************************************************************)
EXTENDS Integers, Sequences

CONSTANTS
  Byte,     (* what arrives                                                *)
  NUL,      (* the byte 0                                                  *)
  bufsz,    (* serial->config.bufsz                                        *)
  HwDepth   (* bytes the UART holds                                        *)

ASSUME RingAssumption ==
  NUL \in Byte /\ bufsz \in Nat /\ bufsz > 1 /\ HwDepth \in Nat \ {0}

VARIABLES
  buffer, put_index, get_index, is_full,   (* struct rt_serial_rx_fifo     *)
  hw,       (* the receive register of the UART                            *)
  isr       (* the handler: not running, in its loop, behind it            *)

fifo == <<buffer, put_index, get_index, is_full>>
rxVars == <<fifo, hw, isr>>

Slot == 0..(bufsz - 1)

\* rt_serial_open has made the ring.
RxInit ==
  /\ buffer = [i \in Slot |-> NUL]
  /\ put_index = 0 /\ get_index = 0 /\ is_full = FALSE
  /\ hw = <<>> /\ isr = "none"

\* An index moves on by one.
Inc(i) == IF i + 1 >= bufsz THEN 0 ELSE i + 1

IsEmpty == get_index = put_index /\ ~is_full

\* What rt_hw_serial_isr hands to rx_indicate.
RxLength ==
  IF put_index >= get_index THEN put_index - get_index
  ELSE bufsz - (get_index - put_index)

-----------------------------------------------------------------------------
(* The UART and the handler. *)

Arrive(b) ==
  /\ Len(hw) < HwDepth
  /\ hw' = Append(hw, b)
  /\ UNCHANGED <<fifo, isr>>

\* The RX interrupt is pending as long as the UART holds a byte.
IsrEnter ==
  /\ isr = "none" /\ hw # <<>>
  /\ isr' = "loop"
  /\ UNCHANGED <<fifo, hw>>

\* Wrong on purpose: the oldest byte is not given up.
PushedOutNone(p) == UNCHANGED <<get_index, is_full>>

\* The new byte has caught up with the oldest one.
PushedOut(p) ==
  IF p = get_index THEN get_index' = Inc(get_index) /\ is_full' = TRUE
  ELSE UNCHANGED <<get_index, is_full>>

\* One round of the loop: getc has a byte.
IsrByte ==
  /\ isr = "loop" /\ hw # <<>>
  /\ hw' = Tail(hw)
  /\ buffer' = [buffer EXCEPT ![put_index] = Head(hw)]
  /\ put_index' = Inc(put_index)
  /\ PushedOut(put_index')
  /\ UNCHANGED isr

\* getc returns -1: the loop is over.
IsrDrained ==
  /\ isr = "loop" /\ hw = <<>>
  /\ isr' = "indicate"
  /\ UNCHANGED <<fifo, hw>>

-----------------------------------------------------------------------------
(* _serial_int_rx for one byte, in its critical section. *)

Taken == get_index' = Inc(get_index) /\ is_full' = FALSE

\* b is the byte read.
ReadByte(b) ==
  /\ isr = "none" /\ ~IsEmpty
  /\ b = buffer[get_index]
  /\ Taken
  /\ UNCHANGED <<buffer, put_index, hw, isr>>

\* The ring is empty: 0 bytes are read.
ReadNone == isr = "none" /\ IsEmpty /\ UNCHANGED rxVars

-----------------------------------------------------------------------------
(* The shell. *)

CONSTANTS
  NL,              (* carriage return and line feed                        *)
  FINSH_CMD_SIZE,  (* bytes of shell->line                                 *)
  SemMax           (* bound on the value of rx_sem                         *)

ASSUME ShellAssumption ==
  /\ NL \in Byte \ {NUL}
  /\ FINSH_CMD_SIZE \in 2..255 /\ SemMax \in Nat

VARIABLES
  pc,             (* what the shell does next                              *)
  ch,             (* the byte it has read                                  *)
  rx_sem,         (* the value of the semaphore                            *)
  indicate,       (* device->rx_indicate is finsh_rx_ind                   *)
  line, line_position, line_curpos,   (* struct finsh_shell                *)
  echoed          (* the last FINSH_CMD_SIZE bytes echoed behind the prompt *)

lineVars == <<line, line_position, line_curpos, echoed>>
vars == <<rxVars, pc, ch, rx_sem, indicate, lineVars>>

Cell == 0..(FINSH_CMD_SIZE - 1)
Blank == [i \in Cell |-> NUL]

\* finsh_thread_entry has opened the console: the ring is filled from now on.
Init ==
  /\ RxInit
  /\ pc = "attach" /\ ch = buffer[0]
  /\ rx_sem = 0 /\ indicate = FALSE
  /\ line = Blank /\ line_position = 0 /\ line_curpos = 0
  /\ echoed = <<>>

-----------------------------------------------------------------------------
(* The handler; the bound stands for the 65535 releases rx_sem can count.  *)

ByteComes(b) ==
  /\ rx_sem + 1 < SemMax
  /\ Arrive(b)
  /\ UNCHANGED <<pc, ch, rx_sem, indicate, lineVars>>

Isr ==
  /\ IsrEnter \/ IsrByte \/ IsrDrained
  /\ UNCHANGED <<pc, ch, rx_sem, indicate, lineVars>>

\* Wrong on purpose: a thread that does not wait needs no token.
ReleaseWaiter ==
  /\ pc' = IF pc = "wait" THEN "read" ELSE pc
  /\ UNCHANGED rx_sem

\* rt_sem_release(&shell->rx_sem).
Release ==
  IF pc = "wait" THEN pc' = "read" /\ UNCHANGED rx_sem
  ELSE rx_sem' = rx_sem + 1 /\ UNCHANGED pc

\* rx_indicate, if set, and the end of the handler.
IsrLeave ==
  /\ isr = "indicate" /\ isr' = "none"
  /\ IF indicate THEN Release ELSE UNCHANGED <<pc, rx_sem>>
  /\ UNCHANGED <<fifo, hw, ch, indicate, lineVars>>

-----------------------------------------------------------------------------
(* The shell thread; it runs while no handler does. *)

\* The end of finsh_set_device.
Attach ==
  /\ isr = "none" /\ pc = "attach"
  /\ indicate' = TRUE /\ line' = Blank
  /\ pc' = "read"
  /\ UNCHANGED <<rxVars, ch, rx_sem, line_position, line_curpos, echoed>>

\* finsh_getchar: rt_device_read, then rt_sem_take when nothing was read.
GetChar ==
  /\ pc = "read"
  /\ \/ \E b \in Byte : ReadByte(b) /\ ch' = b /\ pc' = "edit"
     \/ ReadNone /\ pc' = "take" /\ UNCHANGED ch
  /\ UNCHANGED <<rx_sem, indicate, lineVars>>

Take ==
  /\ isr = "none" /\ pc = "take"
  /\ IF rx_sem > 0 THEN rx_sem' = rx_sem - 1 /\ pc' = "read"
     ELSE pc' = "wait" /\ UNCHANGED rx_sem
  /\ UNCHANGED <<rxVars, ch, indicate, lineVars>>

Editing == isr = "none" /\ pc = "edit" /\ pc' = "read"

SkipNul ==
  /\ Editing /\ ch = NUL
  /\ UNCHANGED <<rxVars, ch, rx_sem, indicate, lineVars>>

Cleared == Blank

\* Return: msh_exec(line, line_position) runs, and a new line begins.
Enter ==
  /\ Editing /\ ch = NL
  /\ line' = Cleared /\ line_position' = 0 /\ line_curpos' = 0
  /\ echoed' = <<>>
  /\ UNCHANGED <<rxVars, ch, rx_sem, indicate>>

Wraps(n) == n >= FINSH_CMD_SIZE

\* The part of the echo that the line has cells for.
LastOf(s) == IF Len(s) > FINSH_CMD_SIZE THEN Tail(s) ELSE s

\* Any other byte goes into the line and is echoed; behind the last cell the
\* line starts over at the first, with the old text still in it.
Insert ==
  LET p == IF Wraps(line_position) THEN 0 ELSE line_position
      full == Wraps(p + 1)
  IN  /\ Editing /\ ch \notin {NUL, NL}
      /\ IF line_curpos < p THEN UNCHANGED <<line, echoed>>
         ELSE /\ line' = [line EXCEPT ![p] = ch]
              /\ echoed' = LastOf(Append(echoed, ch))
      /\ line_position' = IF full THEN 0 ELSE p + 1
      /\ line_curpos' = IF full THEN 0 ELSE line_curpos + 1
      /\ UNCHANGED <<rxVars, ch, rx_sem, indicate>>

ShellStep == Attach \/ GetChar \/ Take \/ SkipNul \/ Enter \/ Insert

Next == (\E b \in Byte : ByteComes(b)) \/ Isr \/ IsrLeave \/ ShellStep

Spec == Init /\ [][Next]_vars

\* Handlers run to their end, also when bytes come in again and again: the
\* loop is faster than the line.  The shell gets the CPU when it is READY.
FairSpec ==
  /\ Spec /\ WF_vars(Isr) /\ WF_vars(IsrLeave) /\ SF_vars(ShellStep)
  /\ SF_vars(IsrDrained /\ UNCHANGED <<pc, ch, rx_sem, indicate, lineVars>>)

-----------------------------------------------------------------------------
(* Properties. *)

RxTypeOK ==
  /\ buffer \in [Slot -> Byte]
  /\ put_index \in Slot /\ get_index \in Slot /\ is_full \in BOOLEAN
  /\ hw \in Seq(Byte) /\ Len(hw) <= HwDepth
  /\ isr \in {"none", "loop", "indicate"}

\* The bytes in the ring, oldest first.
Content == [i \in 1..RxLength |-> buffer[(get_index + i - 1) % bufsz]]

\* Equal indices mean an empty ring, never a full one: is_full is only set
\* in the step that moves get_index away from put_index.  A ring of bufsz
\* bytes so holds at most bufsz - 1.
NeverQuiteFull == is_full => RxLength = bufsz - 1

TypeOK ==
  /\ RxTypeOK
  /\ pc \in {"attach", "read", "take", "wait", "edit"}
  /\ ch \in Byte /\ rx_sem \in 0..SemMax /\ indicate \in BOOLEAN
  /\ line \in [Cell -> Byte]
  /\ line_position \in Cell /\ line_curpos \in Cell
  /\ echoed \in Seq(Byte)

\* The shell never sleeps beside input, though one token stands for many
\* bytes, old tokens are left over, and bytes may come between its look at
\* the ring and rt_sem_take, or before rx_indicate was set.
InputNotStuck == pc = "wait" /\ isr = "none" => IsEmpty

\* The line holds what the user has seen echoed: what Return executes is the
\* echo since the last prompt or, behind FINSH_CMD_SIZE bytes, the end of it,
\* with older bytes in the cells behind and no byte 0 to end it.
LineIsEcho ==
  LET n == Len(echoed)
  IN  /\ line_curpos = line_position
      /\ n < FINSH_CMD_SIZE =>
           line_position = n /\ \A i \in Cell : i >= n => line[i] = NUL
      /\ \A i \in 1..n :
           line[(line_position - n + i - 1) % FINSH_CMD_SIZE] = echoed[i]

\* The ring is a queue of bufsz - 1 bytes that drops its oldest one.
Queue == INSTANCE ByteQueue WITH
  Cap <- bufsz - 1, waiting <- Content, last <- ch

InOrder == Queue!Spec

\* The handler comes to its end, and a shell that waits while a byte is in the
\* ring or on its way reads on.
InputServed ==
  /\ isr # "none" ~> isr = "none"
  /\ (pc = "wait" /\ (hw # <<>> \/ ~IsEmpty)) ~> pc = "edit"
=============================================================================
