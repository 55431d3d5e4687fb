-------------------------------- MODULE Console --------------------------------
(***************************************************************************)
(* The console: the emulated UART of each VM (vuart), which host bytes     *)
(* reach whom and how guests' characters become lines (console_mux).       *)
(*                                                                         *)
(* The interrupt of the physical UART is taken on core 0; the registers of *)
(* an emulated one are written on the core of its VM.  The two meet under  *)
(* a lock of the VM, and the interrupt is posted after it is dropped.      *)
(***************************************************************************)
EXTENDS Integers, Sequences, FiniteSets, Functions

CONSTANTS
  ConVms,        \* VMs, 0 .. n - 1, of one vCPU each
  VuartVms,      \* those with UartKind::kVuart
  CoreZeroVms,   \* those that run on core 0
  FifoDepth,     \* kFifoDepth
  LineMax,       \* kLineMax
  MaxBytes,      \* bound: bytes typed on the host and characters printed
  MaxMasks,      \* bound: writes to the interrupt masks
  MaxReboots     \* bound: warm resets

ASSUME ConAssumption ==
  /\ Cardinality(ConVms) \in Nat \ {0} /\ ConVms = 0..(Cardinality(ConVms) - 1)
  /\ VuartVms \subseteq ConVms
  /\ FifoDepth \in Nat \ {0} /\ LineMax \in Nat \ {0}

VARIABLES
  g_uart,        \* UartState of each VM, its mask reduced to the RX bit
  uartSpi,       \* NOVA_VUART_SPI is pending in the VM's vGIC
  guestUart,        \* the guest's UART driver, or "off" with the boot vCPU
  wire,          \* the receive FIFO of the physical UART
  rxIrq,         \* handle_irq on core 0: where it is, and inject()'s VM
  g_focus,
  g_line,        \* the line buffer of each VM's vCPU
  keys, masks, reboots,
  pushed, popped,\* bytes put into and taken from each emulated FIFO
  printed, shown \* characters guests printed, and those emitted or dropped by a reset

conVars == <<g_uart, uartSpi, guestUart, wire, rxIrq, g_focus, g_line, keys, masks, reboots, pushed, popped, printed, shown>>
RxVars == <<wire, rxIrq, g_focus, keys>>
TxVars == <<g_line, printed, shown>>

\* Characters guests have printed so far.
Printed == FoldFunctionOnSet(LAMBDA s, n : Len(s) + n, 0, printed, ConVms)

FocusByte == -1   \* kFocusByte; other bytes and characters are numbered
CR == -2
LF == -3

------------------------------------------------------------------------------
(* vuart_model                                                              *)

ResetUart == [fifo |-> [i \in 0..(FifoDepth - 1) |-> 0], head |-> 0, count |-> 0, imsc |-> FALSE]

rx_empty(u) == u.count = 0
mis(u) == ~rx_empty(u) /\ u.imsc

\* A full FIFO drops the byte.
rx_push(u, b) ==
  IF u.count = FifoDepth THEN u
  ELSE [u EXCEPT !.fifo[(u.head + u.count) % FifoDepth] = b, !.count = @ + 1]
rx_pop(u) == [u EXCEPT !.head = (@ + 1) % FifoDepth, !.count = @ - 1]
OldestByte(u) == u.fifo[u.head]

Received(u) == [i \in 1..u.count |-> u.fifo[(u.head + i - 1) % FifoDepth]]

\* The level rose, by a byte or by its mask: the interrupt is owed.
\* Faulty: only a byte raises it.
RisesOnByte(u, v) == rx_empty(u) /\ mis(v)
Rises(u, v) == ~mis(u) /\ mis(v)

------------------------------------------------------------------------------
(* line_model                                                               *)

\* put_char: what the buffer holds next, and whether it must be emitted.
put_char(l, c) ==
  CASE c = CR -> [line |-> l, emit |-> FALSE]
    [] c = LF -> [line |-> l, emit |-> TRUE]
    [] OTHER -> LET longer == IF Len(l) < LineMax THEN Append(l, c) ELSE l
                IN [line |-> longer, emit |-> Len(longer) = LineMax]

focus_valid(vm) == vm \in VuartVms /\ guestUart[vm] \notin {"off", "resetting"}

VmCount == Cardinality(ConVms)
\* The first valid VM after `from`, cyclically; `from` when there is none.
next_focus(from) ==
  LET after == {i \in 1..VmCount : focus_valid((from + i) % VmCount)}
  IN IF after = {} THEN from
     ELSE (from + (CHOOSE i \in after : \A j \in after : i <= j)) % VmCount

------------------------------------------------------------------------------
(* EL2 runs a handler of core 0 to its end: the interrupt of the physical   *)
(* UART and the guests of that core do not meet.                            *)

RxResting == [pc |-> "idle", vm |-> 0]
CoreFree(vm) == vm \in CoreZeroVms => rxIrq.pc = "idle"
CoreZeroQuiet == \A vm \in CoreZeroVms : guestUart[vm] \notin {"post", "resetting"}

------------------------------------------------------------------------------
(* The host types.                                                          *)

Type ==
  /\ keys + Printed < MaxBytes
  /\ keys' = keys + 1
  /\ \E b \in {keys + 1, FocusByte} : wire' = Append(wire, b)
  /\ UNCHANGED <<g_uart, uartSpi, guestUart, rxIrq, g_focus, masks, reboots, pushed, popped>> /\ UNCHANGED TxVars

RxIrq ==
  /\ rxIrq.pc = "idle" /\ wire # <<>> /\ CoreZeroQuiet
  /\ rxIrq' = [RxResting EXCEPT !.pc = "reading"]
  /\ UNCHANGED <<g_uart, uartSpi, guestUart, wire, g_focus, keys, masks, reboots, pushed, popped>> /\ UNCHANGED TxVars

\* try_read and input_route: the focus byte moves the focus and is consumed.
\* Any other goes to the focused VM, or to the next that can read it.
Route ==
  /\ rxIrq.pc = "reading" /\ wire # <<>>
  /\ IF Head(wire) = FocusByte
     THEN /\ g_focus' = next_focus(g_focus)
          /\ wire' = Tail(wire) /\ UNCHANGED rxIrq
     ELSE /\ g_focus' = IF focus_valid(g_focus) THEN g_focus ELSE next_focus(g_focus)
          /\ rxIrq' = [pc |-> "inject", vm |-> g_focus']
          /\ UNCHANGED wire
  /\ UNCHANGED <<g_uart, uartSpi, guestUart, keys, masks, reboots, pushed, popped>> /\ UNCHANGED TxVars

\* inject(), under the lock: the byte, and whether the level rose.
Inject ==
  /\ rxIrq.pc = "inject"
  /\ LET u == g_uart[rxIrq.vm]
         v == rx_push(u, Head(wire))
     IN /\ g_uart' = [g_uart EXCEPT ![rxIrq.vm] = v]
        /\ pushed' = IF v = u THEN pushed ELSE [pushed EXCEPT ![rxIrq.vm] = Append(@, Head(wire))]
        /\ rxIrq' = [rxIrq EXCEPT !.pc = IF Rises(u, v) THEN "post" ELSE "reading"]
  /\ wire' = Tail(wire)
  /\ UNCHANGED <<uartSpi, guestUart, g_focus, keys, masks, reboots, popped>> /\ UNCHANGED TxVars

\* post_rx, after it.
PostInjected ==
  /\ rxIrq.pc = "post"
  /\ uartSpi' = [uartSpi EXCEPT ![rxIrq.vm] = TRUE]
  /\ rxIrq' = [rxIrq EXCEPT !.pc = "reading"]
  /\ UNCHANGED <<g_uart, guestUart, wire, g_focus, keys, masks, reboots, pushed, popped>> /\ UNCHANGED TxVars

RxIrqEnds ==
  /\ rxIrq.pc = "reading" /\ wire = <<>>
  /\ rxIrq' = RxResting
  /\ UNCHANGED <<g_uart, uartSpi, guestUart, wire, g_focus, keys, masks, reboots, pushed, popped>> /\ UNCHANGED TxVars

------------------------------------------------------------------------------
(* A guest and its driver, which empties the FIFO before it is done with    *)
(* the interrupt.                                                           *)

\* UARTIMSC; the interrupt of a level unmasked is posted after the lock.
WriteImsc(vm) ==
  /\ CoreFree(vm) /\ vm \in VuartVms /\ guestUart[vm] = "run" /\ masks < MaxMasks
  /\ LET u == g_uart[vm]
         v == [u EXCEPT !.imsc = ~@]
     IN /\ g_uart' = [g_uart EXCEPT ![vm] = v]
        /\ guestUart' = [guestUart EXCEPT ![vm] = IF Rises(u, v) THEN "post" ELSE "run"]
  /\ masks' = masks + 1
  /\ UNCHANGED <<uartSpi, reboots, pushed, popped>> /\ UNCHANGED RxVars /\ UNCHANGED TxVars

PostUnmasked(vm) ==
  /\ guestUart[vm] = "post"
  /\ uartSpi' = [uartSpi EXCEPT ![vm] = TRUE]
  /\ guestUart' = [guestUart EXCEPT ![vm] = "run"]
  /\ UNCHANGED <<g_uart, masks, reboots, pushed, popped>> /\ UNCHANGED RxVars /\ UNCHANGED TxVars

TakeSpi(vm) ==
  /\ CoreFree(vm) /\ guestUart[vm] = "run" /\ uartSpi[vm]
  /\ uartSpi' = [uartSpi EXCEPT ![vm] = FALSE]
  /\ guestUart' = [guestUart EXCEPT ![vm] = "draining"]
  /\ UNCHANGED <<g_uart, masks, reboots, pushed, popped>> /\ UNCHANGED RxVars /\ UNCHANGED TxVars

\* UARTDR while UARTFR says there is something
ReadDr(vm) ==
  /\ CoreFree(vm) /\ guestUart[vm] = "draining" /\ ~rx_empty(g_uart[vm])
  /\ popped' = [popped EXCEPT ![vm] = Append(@, OldestByte(g_uart[vm]))]
  /\ g_uart' = [g_uart EXCEPT ![vm] = rx_pop(@)]
  /\ UNCHANGED <<uartSpi, guestUart, masks, reboots, pushed>> /\ UNCHANGED RxVars /\ UNCHANGED TxVars

SeesEmpty(vm) ==
  /\ CoreFree(vm) /\ guestUart[vm] = "draining" /\ rx_empty(g_uart[vm])
  /\ guestUart' = [guestUart EXCEPT ![vm] = "drained"]
  /\ UNCHANGED <<g_uart, uartSpi, masks, reboots, pushed, popped>> /\ UNCHANGED RxVars /\ UNCHANGED TxVars

EndsIsr(vm) ==
  /\ CoreFree(vm) /\ guestUart[vm] = "drained"
  /\ guestUart' = [guestUart EXCEPT ![vm] = "run"]
  /\ UNCHANGED <<g_uart, uartSpi, masks, reboots, pushed, popped>> /\ UNCHANGED RxVars /\ UNCHANGED TxVars

\* finish_line and the reset of the buffer: the payload between tag and newline.
Emitted(vm, line) == shown' = [shown EXCEPT ![vm] = @ \o line] /\ g_line' = [g_line EXCEPT ![vm] = <<>>]

\* UARTDR, or the PUTC and PUTS calls: guest_putc.
Putc(vm) ==
  /\ CoreFree(vm) /\ guestUart[vm] = "run"
  /\ \E text \in BOOLEAN :
       LET c == Len(printed[vm]) + 1 IN
       \E ch \in IF text THEN {c} ELSE {CR, LF} :
         LET put == put_char(g_line[vm], ch) IN
         /\ text => keys + Printed < MaxBytes
         /\ printed' = IF text THEN [printed EXCEPT ![vm] = Append(@, c)] ELSE printed
         /\ IF put.emit THEN Emitted(vm, put.line)
            ELSE g_line' = [g_line EXCEPT ![vm] = put.line] /\ UNCHANGED shown
  /\ UNCHANGED <<g_uart, uartSpi, guestUart, masks, reboots, pushed, popped>> /\ UNCHANGED RxVars

flush(vm) == IF g_line[vm] # <<>> THEN Emitted(vm, g_line[vm]) ELSE UNCHANGED <<g_line, shown>>

\* A guest that waits shows its prompt.
Wfi(vm) ==
  /\ CoreFree(vm) /\ guestUart[vm] = "run"
  /\ flush(vm)
  /\ UNCHANGED <<g_uart, uartSpi, guestUart, masks, reboots, pushed, popped, printed>> /\ UNCHANGED RxVars

\* kHvcExit flushes; PSCI off, a stop and a fault do not.
Stop(vm, exits) ==
  /\ CoreFree(vm) /\ guestUart[vm] = "run" /\ reboots < MaxReboots
  /\ IF exits THEN flush(vm) ELSE UNCHANGED <<g_line, shown>>
  /\ guestUart' = [guestUart EXCEPT ![vm] = "off"]
  /\ reboots' = reboots + 1
  /\ UNCHANGED <<g_uart, uartSpi, masks, pushed, popped, printed>> /\ UNCHANGED RxVars

\* reset_vm_devices: the SPI bank and the line, then the subscribers of
\* VmResetService.  A partial line is dropped.
Reset(vm) ==
  /\ CoreFree(vm) /\ guestUart[vm] = "off"
  /\ uartSpi' = [uartSpi EXCEPT ![vm] = FALSE]
  /\ g_line' = [g_line EXCEPT ![vm] = <<>>]
  /\ shown' = [shown EXCEPT ![vm] = @ \o g_line[vm]]
  /\ guestUart' = [guestUart EXCEPT ![vm] = "resetting"]
  /\ UNCHANGED <<g_uart, masks, reboots, pushed, popped, printed>> /\ UNCHANGED RxVars

ResetDone(vm) ==
  /\ guestUart[vm] = "resetting"
  /\ popped' = [popped EXCEPT ![vm] = @ \o Received(g_uart[vm])]
  /\ g_uart' = [g_uart EXCEPT ![vm] = ResetUart]
  /\ guestUart' = [guestUart EXCEPT ![vm] = "run"]
  /\ UNCHANGED <<uartSpi, masks, reboots, pushed>> /\ UNCHANGED RxVars /\ UNCHANGED TxVars

------------------------------------------------------------------------------
ConInit ==
  /\ g_uart = [vm \in ConVms |-> ResetUart]
  /\ uartSpi = [vm \in ConVms |-> FALSE]
  /\ guestUart = [vm \in ConVms |-> "run"]
  /\ wire = <<>> /\ rxIrq = RxResting /\ g_focus = 0
  /\ keys = 0 /\ masks = 0 /\ reboots = 0
  /\ pushed = [vm \in ConVms |-> <<>>] /\ popped = [vm \in ConVms |-> <<>>]
  /\ g_line = [vm \in ConVms |-> <<>>]
  /\ printed = [vm \in ConVms |-> <<>>] /\ shown = [vm \in ConVms |-> <<>>]

ConNext ==
  \/ Type \/ RxIrq \/ Route \/ Inject \/ PostInjected \/ RxIrqEnds
  \/ \E vm \in ConVms :
       \/ WriteImsc(vm) \/ PostUnmasked(vm) \/ TakeSpi(vm) \/ ReadDr(vm) \/ SeesEmpty(vm) \/ EndsIsr(vm)
       \/ Putc(vm) \/ Wfi(vm) \/ Reset(vm) \/ ResetDone(vm)
       \/ \E exits \in BOOLEAN : Stop(vm, exits)

ConSpec == ConInit /\ [][ConNext]_conVars

------------------------------------------------------------------------------
(* Properties                                                               *)

\* A level that is up is announced: its interrupt is pending, is being served
\* by a driver that has not seen the FIFO empty, or is about to be posted.
Announced(vm) ==
  mis(g_uart[vm]) => \/ uartSpi[vm]
                     \/ guestUart[vm] \in {"draining", "post"}
                     \/ rxIrq = [pc |-> "post", vm |-> vm]

\* Each FIFO gives its bytes in the order the host typed them, each once.
InOrder(vm) == pushed[vm] = popped[vm] \o Received(g_uart[vm])

\* What was emitted and what still waits is what the guest printed.
LinesWhole(vm) == shown[vm] \o g_line[vm] = printed[vm] /\ Len(g_line[vm]) < LineMax

\* No byte is lost between the host and a guest that drains its FIFO, and no
\* character between a guest and the console: an asserted receive level is
\* never left without its interrupt, whatever the order in which core 0 and
\* the core of the VM push, mask, drain and post; bytes keep their order over
\* the wrap of the FIFO; and the lines emitted are what was printed, even when
\* the buffer fills.
ConsoleLossless ==
  \A vm \in ConVms :
    /\ guestUart[vm] \notin {"off", "resetting"} => Announced(vm)
    /\ InOrder(vm) /\ LinesWhole(vm)
================================================================================
