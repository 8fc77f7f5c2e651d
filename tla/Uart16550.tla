----------------------------- MODULE Uart16550 ------------------------------
(***************************************************************************)
(* The functions of alt_16550_uart.c the application calls once the UART   *)
(* is configured, and the device behind them: a receive and a transmit     *)
(* FIFO, the interrupt enable register and the interrupt identity          *)
(* register.  The FIFOs are enabled, so that no call returns an error.     *)
(***************************************************************************)
EXTENDS Integers, Sequences

CONSTANTS FifoSize,    \* bytes in each FIFO: size_rx and size_tx, 128
          Trigger      \* the receive trigger, half of FifoSize

ASSUME FifoAssumption == FifoSize \in Nat /\ Trigger \in 1..FifoSize

VARIABLE uart          \* the registers and the FIFOs of the device

\* The interrupts that can be enabled, of those the application uses.
Enables == {"ERBFI", "ETBEI", "ELSI"}

UartTypeOK ==
  /\ DOMAIN uart = {"rx", "tx", "shift", "ier", "overrun"}
  /\ uart.rx \in Seq(Nat)
  /\ uart.tx \in Seq(Int) /\ uart.shift \in Seq(Int)
  /\ uart.ier \subseteq Enables /\ uart.overrun \in BOOLEAN

\* Receive and line interrupts are enabled, nothing was received yet.
Init ==
  uart = [ rx |-> <<>>, tx |-> <<>>, shift |-> <<>>,
           ier |-> {"ERBFI", "ELSI"}, overrun |-> FALSE ]
-----------------------------------------------------------------------------
\* A byte comes in over the line: a full FIFO keeps what it has.
Receive(byte) ==
  uart' = IF Len(uart.rx) < FifoSize THEN [uart EXCEPT !.rx = Append(@, byte)]
                                     ELSE [uart EXCEPT !.overrun = TRUE]

\* The next byte moves from the transmit FIFO to the shift register ...
Shift ==
  /\ uart.shift = <<>> /\ uart.tx # <<>>
  /\ uart' = [uart EXCEPT !.shift = <<Head(uart.tx)>>, !.tx = Tail(@)]

\* ... and from there over the line.
ShiftOut ==
  /\ uart.shift # <<>>
  /\ uart' = [uart EXCEPT !.shift = <<>>]

\* The interrupt identity register: the pending interrupt of highest priority.
\* A receive FIFO below its trigger may, or may not yet, have timed out.  TX_IDLE is the
\* transmit interrupt for the trigger "empty".
LinePending == uart.overrun /\ "ELSI" \in uart.ier
DataPending == Len(uart.rx) >= Trigger /\ "ERBFI" \in uart.ier

\* Mutant of RX_TIMEOUT: it is not handled.
RX_TIMEOUT_ignored == FALSE

RX_DATA    == ~LinePending /\ DataPending
RX_TIMEOUT == ~LinePending /\ ~DataPending /\ uart.rx # <<>> /\ "ERBFI" \in uart.ier
TX_IDLE    == ~LinePending /\ ~DataPending /\ uart.tx = <<>> /\ "ETBEI" \in uart.ier
-----------------------------------------------------------------------------
fifo_level_get_rx == Len(uart.rx)
fifo_level_get_tx == Len(uart.tx)

\* The bytes that fifo_read returns, and what it leaves.
FirstBytes(count) == SubSeq(uart.rx, 1, count)
fifo_read(count) == uart' = [uart EXCEPT !.rx = SubSeq(@, count + 1, Len(@))]

fifo_write(bytes) == uart' = [uart EXCEPT !.tx = @ \o bytes]

fifo_clear_rx == uart' = [uart EXCEPT !.rx = <<>>]

int_disable_tx == uart' = [uart EXCEPT !.ier = @ \ {"ETBEI"}]

\* int_enable_tx reads the register and writes it back: two accesses.
int_enable_tx(ier) == uart' = [uart EXCEPT !.ier = ier \cup {"ETBEI"}]

\* The helpers behind all calls that enable or disable interrupts: ier is what was
\* read from the register.
ier_mask_set_helper(ier, mask) == uart' = [uart EXCEPT !.ier = ier \cup mask]
ier_mask_clr_helper(ier, mask) == uart' = [uart EXCEPT !.ier = ier \ mask]

\* Reading the line status clears it.
line_status_get == uart' = [uart EXCEPT !.overrun = FALSE]
=============================================================================
