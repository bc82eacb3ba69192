------------------------------- MODULE Device --------------------------------
(***************************************************************************)
(* The console device: rt_device_open and rt_device_close (src/device.c),  *)
(* what they call in the serial driver, rt_console_set_device and          *)
(* rt_kprintf (src/kservice.c), which changes the open flags of the device *)
(* while it prints.  One thread at a time opens and closes; any thread     *)
(* prints, and may lose the CPU between any two steps.                     *)
(***************************************************************************)
EXTENDS Integers, FiniteSets

CONSTANTS
  Printer,       (* the threads that print                                 *)
  RefMax,        (* bound on the open descriptors                          *)
  KeepsConsole   (* the last reference is not given up                     *)

ASSUME DeviceAssumption == RefMax \in Nat \ {0} /\ KeepsConsole \in BOOLEAN

VARIABLES
  activated,     (* RT_DEVICE_FLAG_ACTIVATED                               *)
  ref_count, open_flag,
  serial_rx,     (* the receive ring exists                                *)
  unmasked,      (* the UART's receive interrupt                           *)
  console,       (* _console_device is the device                          *)
  step, oflag,   (* where the opening thread is, and its flags             *)
  setting,       (* it is in rt_console_set_device                         *)
  printing, old_flag (* printer -> where it is in rt_kprintf, what it saved *)

devVars == <<activated, ref_count, open_flag, serial_rx, unmasked, console>>
openVars == <<step, oflag, setting>>
printVars == <<printing, old_flag>>
deviceVars == <<devVars, openVars, printVars>>

Flag == {"RDWR", "INT_RX", "STREAM", "OPEN"}

\* The flags rt_console_set_device and finsh_set_device open with.
ConsoleFlags == {"RDWR", "STREAM"}
ShellFlags == {"RDWR", "STREAM", "INT_RX"}

\* rt_hw_serial_register: serial->close is not among the functions it sets.
DeviceInit ==
  /\ activated = FALSE /\ ref_count = 0 /\ open_flag = {}
  /\ serial_rx = FALSE /\ unmasked = FALSE /\ console = FALSE
  /\ step = "none" /\ oflag = {} /\ setting = FALSE
  /\ printing = [p \in Printer |-> "out"] /\ old_flag = [p \in Printer |-> {}]

-----------------------------------------------------------------------------
(* Opening and closing. *)

\* rt_device_close.  Without a close function ret is never set: the flags are
\* cleared or not.
Close ==
  /\ step = "none" /\ ref_count > 0
  /\ KeepsConsole => ref_count > 1
  /\ ref_count' = ref_count - 1
  /\ \/ open_flag' = open_flag
     \/ ref_count = 1 /\ open_flag' = {}
  /\ UNCHANGED <<activated, serial_rx, unmasked, console, openVars, printVars>>

\* The part of rt_console_set_device before rt_device_open.
SetConsole ==
  /\ step = "none" /\ (KeepsConsole => ~console)
  /\ step' = "init" /\ oflag' = ConsoleFlags /\ setting' = TRUE
  /\ IF console /\ ref_count > 0
     THEN /\ ref_count' = ref_count - 1
          /\ open_flag' = open_flag \/ (ref_count = 1 /\ open_flag' = {})
     ELSE UNCHANGED <<ref_count, open_flag>>
  /\ UNCHANGED <<activated, serial_rx, unmasked, console, printVars>>

\* finsh_set_device, once there is a console.
SetShell ==
  /\ step = "none" /\ console /\ ref_count < RefMax
  /\ step' = "init" /\ oflag' = ShellFlags /\ setting' = FALSE
  /\ UNCHANGED <<devVars, printVars>>

\* dev->init, at the first open only.
Activate ==
  /\ step = "init" /\ step' = "flags"
  /\ activated' = TRUE
  /\ serial_rx' = (activated /\ serial_rx)
  /\ UNCHANGED <<ref_count, open_flag, unmasked, console, oflag, setting,
                 printVars>>

\* Wrong on purpose: the caller's flags come with the count.
SetFlagsLate ==
  /\ step = "flags" /\ open_flag' = {}
  /\ step' = IF serial_rx THEN "ref" ELSE "ring"
  /\ UNCHANGED <<activated, ref_count, serial_rx, unmasked, console, oflag,
                 setting, printVars>>

\* rt_serial_open: the flags are overwritten, without those beyond 0xff.
SetFlags ==
  /\ step = "flags"
  /\ open_flag' = oflag \ {"INT_RX"}
  /\ step' = IF serial_rx THEN "ref" ELSE "ring"
  /\ UNCHANGED <<activated, ref_count, serial_rx, unmasked, console, oflag, setting,
                 printVars>>

\* The ring is made; or there is no memory, and rt_device_open fails, which
\* rt_console_set_device does not look at.
MakeRing ==
  /\ step = "ring"
  /\ \/ /\ serial_rx' = TRUE /\ unmasked' = TRUE
        /\ open_flag' = open_flag \cup {"INT_RX"}
        /\ step' = "ref" /\ UNCHANGED console
     \/ /\ step' = "none" /\ console' = (console \/ setting)
        /\ UNCHANGED <<serial_rx, unmasked, open_flag>>
  /\ UNCHANGED <<activated, ref_count, oflag, setting, printVars>>

\* The end of rt_device_open.
CountRef ==
  /\ step = "ref"
  /\ open_flag' = open_flag \cup {"OPEN"} /\ ref_count' = ref_count + 1
  /\ console' = (console \/ setting) /\ step' = "none"
  /\ UNCHANGED <<activated, serial_rx, unmasked, oflag, setting, printVars>>

-----------------------------------------------------------------------------
(* rt_kprintf, behind the formatting. *)

SaveFlags(p) ==
  /\ printing[p] = "out" /\ console
  /\ old_flag' = [old_flag EXCEPT ![p] = open_flag]
  /\ open_flag' = open_flag \cup {"STREAM"}
  /\ printing' = [printing EXCEPT ![p] = "write"]
  /\ UNCHANGED <<activated, ref_count, serial_rx, unmasked, console, openVars>>

\* rt_device_write; nothing is written when no one has the device open.
Write(p) ==
  /\ printing[p] = "write" /\ printing' = [printing EXCEPT ![p] = "restore"]
  /\ UNCHANGED <<devVars, openVars, old_flag>>

RestoreFlags(p) ==
  /\ printing[p] = "restore" /\ printing' = [printing EXCEPT ![p] = "out"]
  /\ open_flag' = old_flag[p]
  /\ UNCHANGED <<activated, ref_count, serial_rx, unmasked, console, openVars,
                 old_flag>>

DeviceNext ==
  \/ Close \/ SetConsole \/ SetShell
  \/ Activate \/ SetFlags \/ MakeRing \/ CountRef
  \/ \E p \in Printer : SaveFlags(p) \/ Write(p) \/ RestoreFlags(p)

DeviceSpec == DeviceInit /\ [][DeviceNext]_deviceVars

-----------------------------------------------------------------------------
(* Properties. *)

DeviceTypes ==
  /\ {activated, serial_rx, unmasked, console} \subseteq BOOLEAN
  /\ ref_count \in 0..RefMax /\ open_flag \subseteq Flag
  /\ step \in {"none", "init", "flags", "ring", "ref"}
  /\ oflag \subseteq Flag /\ setting \in BOOLEAN
  /\ printing \in [Printer -> {"out", "write", "restore"}]
  /\ old_flag \in [Printer -> SUBSET Flag]

\* A device that someone has open has its ring, and its interrupt reaches the
\* handler.
OpenHasRing == ref_count > 0 => serial_rx /\ unmasked

\* While a thread prints, RT_DEVICE_FLAG_STREAM is set, so that a line feed
\* gets its carriage return - though other threads that print, and the shell
\* that opens the device, store flags they read before.
StreamSet ==
  \A p \in Printer : printing[p] = "write" /\ ref_count > 0 => "STREAM" \in open_flag

\* Output keeps its line ends, and an open device has its ring (src/device.c).
PrintsStream == StreamSet /\ OpenHasRing
=============================================================================
