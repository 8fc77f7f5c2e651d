----------------------------- MODULE UartConfig ------------------------------
(***************************************************************************)
(* alt_16550_uart.c: the calls that configure the UART, and the registers  *)
(* they write (external), for the UARTs of the SoC and for the one that    *)
(* can be put into the fabric.  As in InterruptController a call is the    *)
(* sequence of its accesses, to the registers or to the handle, and one    *)
(* that is refused is the empty sequence.                                  *)
(*                                                                         *)
(* The registers LCR, IER, MCR and FCR are the sets of their bits, a       *)
(* setting of several bits being one member.                               *)
(***************************************************************************)
EXTENDS Integers, Sequences

CONSTANTS Clock,     \* the frequency of L4_SP, or of the UART in the fabric
          DEFAULT_BAUD,
          FifoBytes  \* bound: bytes that are received

ASSUME UartAssumption == Clock \in Nat /\ DEFAULT_BAUD \in Nat

Frames == {"5O1", "7E2", "8N1"}      \* settings of data bits, parity and stop bits
RxTriggers == {"RX_ANY", "RX_QUARTER_FULL", "RX_HALF_FULL", "RX_ALMOST_FULL"}
TxTriggers == {"TX_EMPTY", "TX_ALMOST_EMPTY", "TX_QUARTER_FULL", "TX_HALF_FULL"}
Flows == {"AFCE", "LOOPBACK", "OUT1", "OUT2", "RTS", "DTR"}

VARIABLES uart,      \* the registers of the UART, and the number of bytes received
          handle,    \* the handle: the data and the cached FCR
          l4_sp      \* the clock of the UART is on

uartVars == <<uart, handle, l4_sp>>

UartReset ==
  [dll |-> 0, dlh |-> 0, lcr |-> {}, ier |-> {}, mcr |-> {}, fcr |-> {}, rx |-> 0,
   overrun |-> FALSE, held |-> FALSE]

\* The program fills in device.  A preloader has used the UART of the SoC.
UartInit ==
  /\ uart \in {[UartReset EXCEPT !.held = TRUE], [UartReset EXCEPT !.dll = 54, !.lcr = {"8N1"}, !.fcr = {"FIFOE"}]}
  /\ handle \in [device : {"SOCFPGA_UART0", "ALTERA_16550_UART"}, located : {FALSE},
                 divisor : {0}, enabled : {FALSE}, fcr : {{}}, stale : {FALSE}]
  /\ l4_sp \in BOOLEAN
-----------------------------------------------------------------------------
(* An access.                                                              *)

Reg(reg, off, on)  == [dev |-> "uart", op |-> "reg", reg |-> reg, off |-> off, on |-> on]
Latch(reg, val)    == [dev |-> "uart", op |-> "latch", reg |-> reg, val |-> val]
Fcr(set)           == [dev |-> "uart", op |-> "fcr", set |-> set]
Srr(set)           == [dev |-> "uart", op |-> "srr", set |-> set]
ReadRbr            == [dev |-> "uart", op |-> "rbr"]
Hold(b)            == [dev |-> "uart", op |-> "hold", held |-> b]
Handle(f, val)     == [dev |-> "uart", op |-> "handle", new |-> [x \in {f} |-> val]]

\* The FIFOs are cleared on request, and when they are turned on or off.
FcrWritten(u, set) ==
  [u EXCEPT !.fcr = set \ {"RFIFOR", "XFIFOR"},
            !.rx = IF "RFIFOR" \in set \/ ("FIFOE" \in set <=> "FIFOE" \notin u.fcr) THEN 0 ELSE @]

Reached == handle.located /\ ~uart.held

\* While the divisor latch is open IER is the upper byte of the divisor, whose bits
\* are 0.  A handle that has not been located leads nowhere, and so does a UART in reset.
UartAccess(a) ==
  /\ handle' = IF a.op # "handle" THEN handle
               ELSE [f \in DOMAIN handle |-> IF f \in DOMAIN a.new THEN a.new[f] ELSE handle[f]]
  /\ uart' =
       CASE a.op = "hold" -> [UartReset EXCEPT !.held = a.held]
         [] a.op = "handle" \/ ((~handle.located \/ uart.held) /\ a.op # "hold") -> uart
         [] Reached /\ a.op = "reg" ->
              IF a.reg = "ier" /\ "DLAB" \in uart.lcr THEN uart
              ELSE [uart EXCEPT ![a.reg] = (@ \ a.off) \cup a.on]
         [] Reached /\ a.op = "latch" -> [uart EXCEPT ![a.reg] = a.val]
         [] Reached /\ a.op = "fcr" -> FcrWritten(uart, a.set)
         [] Reached /\ a.op = "srr" ->
              IF "UR" \in a.set THEN UartReset
              ELSE IF "RFR" \in a.set THEN [uart EXCEPT !.rx = 0] ELSE uart
         [] Reached /\ a.op = "rbr" -> [uart EXCEPT !.rx = IF @ > 0 THEN @ - 1 ELSE 0]
  /\ UNCHANGED l4_sp

\* A byte comes in, once there is a divisor; the interrupts are those of the driver.
Received ==
  /\ ~uart.held /\ <<uart.dll, uart.dlh>> # <<0, 0>> /\ "DLAB" \notin uart.lcr
  /\ uart' = IF uart.rx < (IF "FIFOE" \in uart.fcr THEN FifoBytes ELSE 1)
             THEN [uart EXCEPT !.rx = @ + 1] ELSE [uart EXCEPT !.overrun = TRUE]
  /\ UNCHANGED <<handle, l4_sp>>

LinePending == uart.overrun /\ "ELSI" \in uart.ier
DataPending == uart.rx > 0 /\ "ERBFI" \in uart.ier
IdlePending == "ETBEI" \in uart.ier \* the transmitter is idle when nothing is sent
-----------------------------------------------------------------------------
(* The calls.                                                              *)

\* A call that is refused does nothing.
Allowed(cond, accesses) == IF cond THEN accesses ELSE <<>>

\* Mutant of alt_16550_write_divisor_helper: the flag is not cleared.
alt_16550_write_divisor_helper_set(divisor) ==
  <<Reg("lcr", {}, {"DLAB"}), Latch("dll", divisor % 256), Latch("dlh", divisor \div 256),
    Reg("lcr", {"DLAB"}, {})>>
  \o Allowed(divisor # 0, <<Handle("enabled", TRUE)>>)

alt_16550_write_divisor_helper(divisor) ==
  <<Reg("lcr", {}, {"DLAB"}), Latch("dll", divisor % 256), Latch("dlh", divisor \div 256),
    Reg("lcr", {"DLAB"}, {}), Handle("enabled", divisor # 0)>>

\* Not before the UART moves to the enabled state.
alt_16550_divisor_set(divisor) ==
  Allowed(divisor > 0 /\ divisor < 65536, <<Handle("divisor", divisor)>>)

\* The divisor is rounded to the nearest.
alt_16550_baudrate_set(baudrate) ==
  IF baudrate = 0 THEN <<>>
  ELSE alt_16550_divisor_set((Clock + 8 * baudrate) \div (16 * baudrate))

alt_16550_ier_mask_set_helper(mask) == <<Reg("ier", {}, mask)>>
alt_16550_ier_mask_clr_helper(mask) == <<Reg("ier", mask, {})>>

alt_16550_int_enable(source)  == alt_16550_ier_mask_set_helper({source})
alt_16550_int_disable(source) == alt_16550_ier_mask_clr_helper({source})
alt_16550_int_disable_all     == alt_16550_ier_mask_clr_helper({"ERBFI", "ETBEI", "ELSI", "EDSSI"})

\* What was read stays in the other bits.
alt_16550_line_config_set(frame) == Allowed(frame \in Frames, <<Reg("lcr", Frames, {frame})>>)

alt_16550_line_break_enable  == <<Reg("lcr", {}, {"BREAK"})>>
alt_16550_line_break_disable == <<Reg("lcr", {"BREAK"}, {})>>

alt_16550_mcr_mask_set_helper(mask) == <<Reg("mcr", {}, mask)>>
alt_16550_mcr_mask_clr_helper(mask) == <<Reg("mcr", mask, {})>>

\* The bits that clear the FIFOs stay in the cache, so that every later write of FCR
\* clears them again.
alt_16550_fifo_enable ==
  LET fcr == handle.fcr \cup {"FIFOE", "RFIFOR", "XFIFOR"} IN <<Handle("fcr", fcr), Fcr(fcr)>>

FifoDisable(fcr) == <<Handle("fcr", fcr \ {"FIFOE"}), Fcr(fcr \ {"FIFOE"})>>

alt_16550_fifo_disable == FifoDisable(handle.fcr)

FifosOn == "FIFOE" \in handle.fcr

Soc == handle.device = "SOCFPGA_UART0"

\* The UART of the SoC has a register for this.
Cleared(srr, fcr) == Allowed(FifosOn, IF Soc THEN <<Srr(srr)>> ELSE <<Fcr(handle.fcr \cup fcr)>>)

alt_16550_fifo_clear_rx  == Cleared({"RFR"}, {"RFIFOR"})
alt_16550_fifo_clear_tx  == Cleared({"XFR"}, {"XFIFOR"})
alt_16550_fifo_clear_all == Cleared({"RFR", "XFR"}, {"RFIFOR", "XFIFOR"})

alt_16550_fifo_trigger_set_rx(trigger) ==
  LET fcr == (handle.fcr \ RxTriggers) \cup {trigger}
  IN Allowed(FifosOn /\ trigger \in RxTriggers, <<Handle("fcr", fcr), Fcr(fcr)>>)

alt_16550_fifo_trigger_set_tx(trigger) ==
  LET fcr == (handle.fcr \ TxTriggers) \cup {trigger}
  IN Allowed(FifosOn /\ trigger \in TxTriggers, <<Handle("fcr", fcr), Fcr(fcr)>>)

\* The UART in the fabric has flow control in this configuration.
alt_16550_flowcontrol_enable == Allowed(FifosOn, alt_16550_mcr_mask_set_helper({"AFCE"}))
alt_16550_flowcontrol_disable == alt_16550_mcr_mask_clr_helper({"AFCE"})

alt_16550_loopback_enable == Allowed(Soc, alt_16550_mcr_mask_set_helper({"LOOPBACK"}))
alt_16550_loopback_disable == alt_16550_mcr_mask_clr_helper({"LOOPBACK"})

alt_16550_modem_enable(signal)  == alt_16550_mcr_mask_set_helper({signal})
alt_16550_modem_disable(signal) == alt_16550_mcr_mask_clr_helper({signal})

\* The terminal is made ready first; the write of the divisor is what enables.
alt_16550_enable ==
  alt_16550_modem_enable("DTR") \o alt_16550_modem_enable("RTS")
  \o alt_16550_write_divisor_helper(handle.divisor)

alt_16550_disable == alt_16550_write_divisor_helper(0)

\* The handle is not told that the UART of the SoC has lost everything.  divisor and
\* fcr are what the handle has then.
alt_16550_reset_helper(enable_init, divisor, fcr) ==
  (IF Soc THEN <<Handle("stale", TRUE), Srr({"UR"})>>
   ELSE alt_16550_write_divisor_helper(0) \o alt_16550_int_disable_all
        \o FifoDisable(fcr) \o <<Reg("mcr", Flows, {})>>)
  \o Allowed(enable_init,
       <<Reg("ier", {}, {"PTIME"})>> \o alt_16550_line_config_set("8N1")
       \o Allowed(divisor = 0, alt_16550_baudrate_set(DEFAULT_BAUD)))

alt_16550_reset == alt_16550_reset_helper(TRUE, handle.divisor, handle.fcr)

\* Without its clock the UART of the SoC is refused, and the handle leads nowhere.
alt_16550_init ==
  <<Handle("divisor", 0), Handle("enabled", FALSE), Handle("fcr", {})>>
  \o Allowed(~Soc \/ l4_sp,
       <<Handle("located", TRUE)>> \o Allowed(Soc /\ uart.held, <<Hold(FALSE)>>)
       \o alt_16550_reset_helper(TRUE, 0, {})
       \o <<Handle("stale", FALSE)>>)

\* The UART of the SoC is put into reset; the handle is what it was.
alt_16550_uninit ==
  IF Soc THEN <<Handle("stale", TRUE), Hold(TRUE)>>
  ELSE alt_16550_reset_helper(FALSE, handle.divisor, handle.fcr)

\* Without the FIFOs.
alt_16550_read == Allowed(handle.enabled /\ ~FifosOn, <<ReadRbr>>)
=============================================================================
