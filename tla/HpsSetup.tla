------------------------------ MODULE HpsSetup -------------------------------
(***************************************************************************)
(* The setup of the interrupts and of the UART by main (hps_baremetal.c),  *)
(* up to its loop, and after it any calls of the two drivers: what a       *)
(* program that grows would do, and what main itself would if its loop     *)
(* ended.  The interrupt handler comes in between two accesses, as soon as *)
(* an interrupt is signalled.                                              *)
(***************************************************************************)
EXTENDS InterruptController, UartConfig

CONSTANTS UART0,     \* the interrupt of the UART
          Others,    \* other interrupts, whose lines come and go
          Unknown,   \* the number of no interrupt
          Priorities, Targets, Divisors, Bauds, \* bounds: arguments of the calls
          MaxCalls   \* bound: calls after the setup

ASSUME SetupAssumption ==
  /\ UART0 \in Implemented
  /\ Priorities \subseteq Nat /\ Divisors \subseteq Nat /\ Bauds \subseteq Nat

VARIABLES main,      \* where main is in its setup
          todo,      \* the accesses left of the call under way
          other,     \* the other interrupts whose lines are high
          calls      \* the calls after the setup

vars == <<interruptVars, uartVars, main, todo, other, calls>>

\* Mutant of Setup: the interrupt is enabled in the controller before the FIFOs are on.
SetupEnabledEarly ==
  <<"alt_16550_init", "alt_16550_line_config_set", "alt_16550_divisor_set", "alt_16550_enable",
    "alt_int_global_init", "alt_int_cpu_init", "alt_int_cpu_enable", "alt_int_global_enable",
    "alt_int_isr_register", "alt_int_dist_target_set", "alt_int_dist_enable",
    "alt_16550_int_enable_rx", "alt_16550_fifo_enable", "alt_16550_fifo_trigger_set_rx",
    "alt_16550_fifo_trigger_set_tx", "alt_16550_int_enable_line">>

\* The order of the calls; those that only read are left out.
Setup ==
  <<"alt_16550_init", "alt_16550_line_config_set", "alt_16550_divisor_set", "alt_16550_enable",
    "alt_int_global_init", "alt_int_cpu_init", "alt_int_cpu_enable", "alt_int_global_enable",
    "alt_16550_fifo_enable", "alt_16550_fifo_trigger_set_rx", "alt_16550_fifo_trigger_set_tx",
    "alt_16550_int_enable_rx", "alt_16550_int_enable_line", "alt_int_isr_register",
    "alt_int_dist_target_set", "alt_int_dist_enable">>

Accesses(call) ==
  CASE call = "alt_16550_init"                -> alt_16550_init
    [] call = "alt_16550_line_config_set"     -> alt_16550_line_config_set("8N1")
    [] call = "alt_16550_divisor_set"         -> alt_16550_divisor_set(5)
    [] call = "alt_16550_enable"              -> alt_16550_enable
    [] call = "alt_int_global_init"           -> alt_int_global_init
    [] call = "alt_int_cpu_init"              -> alt_int_cpu_init
    [] call = "alt_int_cpu_enable"            -> alt_int_cpu_enable
    [] call = "alt_int_global_enable"         -> alt_int_global_enable
    [] call = "alt_16550_fifo_enable"         -> alt_16550_fifo_enable
    [] call = "alt_16550_fifo_trigger_set_rx" -> alt_16550_fifo_trigger_set_rx("RX_HALF_FULL")
    [] call = "alt_16550_fifo_trigger_set_tx" -> alt_16550_fifo_trigger_set_tx("TX_EMPTY")
    [] call = "alt_16550_int_enable_rx"       -> alt_16550_int_enable("ERBFI")
    [] call = "alt_16550_int_enable_line"     -> alt_16550_int_enable("ELSI")
    [] call = "alt_int_isr_register"          -> alt_int_isr_register(UART0, "uart_callback", "NULL")
    [] call = "alt_int_dist_target_set"       ->
         alt_int_dist_target_set(UART0, (2 ^ driver.count_cpu) - 1)
    [] call = "alt_int_dist_enable"           -> alt_int_dist_enable(UART0)

Init ==
  /\ InterruptInit /\ UartInit
  /\ main = 1 /\ todo = <<>>
  /\ other \in SUBSET Others
  /\ calls = 0
-----------------------------------------------------------------------------
UartLine == ~uart.held /\ (LinePending \/ DataPending \/ IdlePending)
Asserted == other \cup (IF UartLine THEN {UART0} ELSE {})

SetUp == main > Len(Setup)

\* The program goes on when it is not interrupted, and not about to be.
Running == isr.at = "none" /\ ~Interrupted(Asserted)

MainCall ==
  /\ Running /\ todo = <<>> /\ ~SetUp
  /\ todo' = Accesses(Setup[main])
  /\ main' = main + 1
  /\ UNCHANGED <<interruptVars, uartVars, other, calls>>

Access ==
  /\ Running /\ todo # <<>>
  /\ todo' = Tail(todo)
  /\ \/ Head(todo).dev = "gic" /\ GicAccess(Head(todo)) /\ UNCHANGED <<isr, uartVars>>
     \/ Head(todo).dev = "uart" /\ UartAccess(Head(todo)) /\ UNCHANGED interruptVars
  /\ UNCHANGED <<main, other, calls>>

Free == Running /\ todo = <<>> /\ SetUp /\ calls < MaxCalls

Call(accesses) ==
  /\ accesses # <<>>
  /\ todo' = accesses
  /\ calls' = calls + 1
  /\ UNCHANGED <<interruptVars, uartVars, main, other>>

Ids == Implemented \cup {Unknown, Provision}
-----------------------------------------------------------------------------
(* The calls after the setup.                                              *)

DistributorCall ==
  /\ Free
  /\ \/ \E id \in Ids :
          \/ Call(alt_int_dist_secure_enable(id)) \/ Call(alt_int_dist_secure_disable(id))
          \/ Call(alt_int_dist_enable(id)) \/ Call(alt_int_dist_disable(id))
          \/ Call(alt_int_dist_pending_set(id)) \/ Call(alt_int_dist_pending_clear(id))
          \/ \E priority \in Priorities : Call(alt_int_dist_priority_set(id, priority))
          \/ \E target \in Targets : Call(alt_int_dist_target_set(id, target))
          \/ \E type \in {"LEVEL", "EDGE", "AUTODETECT"} : Call(alt_int_dist_trigger_set(id, type))
          \/ \E filter \in {"LIST", "ALL_EXCL_SENDER", "SENDER_ONLY"}, target \in Targets,
                secure \in BOOLEAN : Call(alt_int_sgi_trigger(id, filter, target, secure))
     \/ \E id \in Implemented \cup {Provision} :
          \/ Call(alt_int_isr_register(id, "callback", "context"))
          \/ Call(alt_int_isr_unregister(id))

ControllerCall ==
  /\ Free
  /\ \/ Call(alt_int_global_init)
     \/ Call(alt_int_global_enable) \/ Call(alt_int_global_disable)
     \/ Call(alt_int_global_enable_ns) \/ Call(alt_int_global_disable_ns)
     \/ Call(alt_int_global_enable_all) \/ Call(alt_int_global_disable_all)
     \/ Call(alt_int_cpu_init)
     \/ Call(alt_int_cpu_enable) \/ Call(alt_int_cpu_disable)
     \/ Call(alt_int_cpu_enable_ns) \/ Call(alt_int_cpu_disable_ns)
     \/ Call(alt_int_cpu_enable_all) \/ Call(alt_int_cpu_disable_all)
     \/ \E set \in SUBSET {"sbpr", "fiq", "ack"} : Call(alt_int_cpu_config_set(set))
     \/ \E mask \in Priorities : Call(alt_int_cpu_priority_mask_set(mask))
     \/ \E point \in {0, 7, 8} :
          Call(alt_int_cpu_binary_point_set(point)) \/ Call(alt_int_cpu_binary_point_set_ns(point))

UartCall ==
  /\ Free
  /\ \/ Call(alt_16550_init) \/ Call(alt_16550_uninit) \/ Call(alt_16550_reset)
     \/ Call(alt_16550_enable) \/ Call(alt_16550_disable)
     \/ Call(alt_16550_read)
     \/ Call(alt_16550_fifo_enable) \/ Call(alt_16550_fifo_disable)
     \/ Call(alt_16550_fifo_clear_rx) \/ Call(alt_16550_fifo_clear_tx)
     \/ Call(alt_16550_fifo_clear_all)
     \/ \E trigger \in {"RX_ANY", "TX_EMPTY"} :
          \/ Call(alt_16550_fifo_trigger_set_rx(trigger))
          \/ Call(alt_16550_fifo_trigger_set_tx(trigger))
     \/ \E divisor \in Divisors : Call(alt_16550_divisor_set(divisor))
     \/ \E baudrate \in Bauds : Call(alt_16550_baudrate_set(baudrate))
     \/ \E source \in {"ERBFI", "ETBEI", "ELSI", "EDSSI"} :
          Call(alt_16550_int_enable(source)) \/ Call(alt_16550_int_disable(source))
     \/ Call(alt_16550_int_disable_all)
     \/ \E frame \in {"7E2", "9N1"} : Call(alt_16550_line_config_set(frame))
     \/ Call(alt_16550_line_break_enable) \/ Call(alt_16550_line_break_disable)
     \/ Call(alt_16550_flowcontrol_enable) \/ Call(alt_16550_flowcontrol_disable)
     \/ Call(alt_16550_loopback_enable) \/ Call(alt_16550_loopback_disable)
     \/ \E signal \in {"OUT1", "RTS"} :
          Call(alt_16550_modem_enable(signal)) \/ Call(alt_16550_modem_disable(signal))
-----------------------------------------------------------------------------
(* The handler, and the world.                                             *)

\* uart_callback serves the interrupt of highest priority.  A level it cannot get, with
\* the FIFOs off, is whatever its variable holds.
ServeUart ==
  /\ IF LinePending THEN uart' = [uart EXCEPT !.overrun = FALSE]
     ELSE IF DataPending
     THEN uart' \in (IF FifosOn THEN {[uart EXCEPT !.rx = 0]} ELSE {[uart EXCEPT !.rx = 0], uart})
     ELSE uart' = IF IdlePending /\ "DLAB" \notin uart.lcr THEN [uart EXCEPT !.ier = @ \ {"ETBEI"}]
                  ELSE uart
  /\ UNCHANGED <<handle, l4_sp>>

\* Any other callback quiets its device.
Callback ==
  /\ isr.at = "callback"
  /\ isr' = [isr EXCEPT !.at = "end"]
  /\ IF driver.dispatch[isr.id].callback = "uart_callback"
     THEN ServeUart /\ UNCHANGED other
     ELSE other' = other \ {isr.id} /\ UNCHANGED uartVars
  /\ UNCHANGED <<gic, irq, driver>>

Handler ==
  /\ \/ (Interrupt(Asserted) \/ Acknowledge(Asserted) \/ EndOfInterrupt) /\ UNCHANGED <<uartVars, other>>
     \/ Callback
  /\ UNCHANGED <<main, todo, calls>>

\* A line goes up or down: an edge becomes pending.
Line ==
  \E i \in Others :
    /\ other' = IF i \in other THEN other \ {i} ELSE other \cup {i}
    /\ gic' = IF i \notin other /\ i \in gic.icdicfr THEN [gic EXCEPT !.icdispr = @ \cup {i}] ELSE gic
    /\ UNCHANGED <<irq, driver, isr, uartVars>>

Environment ==
  /\ Line \/ (Received /\ UNCHANGED <<interruptVars, other>>)
  /\ UNCHANGED <<main, todo, calls>>

Program == MainCall \/ Access \/ DistributorCall \/ ControllerCall \/ UartCall

Next == Program \/ Handler \/ Environment

\* The processor goes on whenever it is not interrupted again and again.
Spec == Init /\ [][Next]_vars /\ WF_vars(Handler) /\ SF_vars(MainCall) /\ SF_vars(Access)
-----------------------------------------------------------------------------
\* main's order of calls: until its setup is complete an interrupt finds its callback, and
\* the callback finds the FIFOs on and the divisor latch closed, whatever the preloader has
\* left enabled.
SetupSafe ==
  calls = 0 /\ isr.at \in {"callback", "end"} /\ isr.id < Provision =>
    /\ driver.dispatch[isr.id].callback # "0"
    /\ FifosOn /\ "DLAB" \notin uart.lcr

\* A callback gets the context it was registered with, unless the interrupt came in the
\* middle of the registration.
ContextMatches ==
  isr.at = "callback" =>
    \/ driver.dispatch[isr.id] \in
         {[callback |-> "uart_callback", context |-> "NULL"],
          [callback |-> "callback", context |-> "context"]}
    \/ todo # <<>> /\ Head(todo) = Dispatch(isr.id, "context", "context")

\* Between calls the handle knows whether the UART has a divisor and whether its FIFOs are
\* on, the calls that read and write depend on it; a reset of the UART of the SoC, or of
\* its module, is not noted in the handle.
HandleMatches ==
  todo = <<>> /\ Reached /\ ~handle.stale =>
    /\ handle.enabled <=> <<uart.dll, uart.dlh>> # <<0, 0>>
    /\ FifosOn <=> "FIFOE" \in uart.fcr

\* main comes to its loop, though the lines of other devices stay high and a preloader has
\* enabled their interrupts: no interrupt that nobody handles comes again and again.
SetupEnds == <>(SetUp /\ todo = <<>>)
=============================================================================
