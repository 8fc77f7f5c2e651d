---------------------------- MODULE Buffer16550 -----------------------------
(***************************************************************************)
(* alt_16550_buffer.c: two ring buffers between a program and the          *)
(* interrupt handler of a UART.  The handler interrupts a call of the      *)
(* program between any two of its steps and runs to its end (one           *)
(* processor: ALT_16550_BUFFER_ENABLE_SMP is 0); the UART goes on.         *)
(*                                                                         *)
(* Received bytes are numbered 1, 2, 3 ..., those of the program -1, -2,   *)
(* -3 ...; which of them are line ends, or zero, is a constant.            *)
(***************************************************************************)
EXTENDS Uart16550, SequencesExt

CONSTANTS BufferSize,  \* ALT_16550_BUFFER_PROVISION_RX_BUFFER_SIZE, ..._TX_..., 4096
          OutputSize,  \* MAX_BUFFER_SIZE, 256
          TxTrigger,   \* ALT_16550_FIFO_TRIGGER_TX_QUARTER_FULL
          LineEnds,    \* the received bytes that are '\r', the program's that are '\n'
          Nuls,        \* the received bytes that are 0
          EchoModes,   \* what the program may pass to echo_enable
          Sizes,       \* the sizes of the program's reads and writes
          MaxReceived, \* bound: bytes that come over the line in a behaviour
          MaxWritten   \* bound: bytes the program writes in a behaviour

ASSUME BufferAssumption ==
  /\ BufferSize \in Nat \ {0} /\ OutputSize \in Nat \ {0, 1}
  /\ TxTrigger \in 0 .. FifoSize - 1
  /\ LineEnds \subseteq Int /\ Nuls \subseteq Int /\ Sizes \subseteq Nat \ {0}
  /\ EchoModes \subseteq BOOLEAN \X BOOLEAN
  /\ MaxReceived \in Nat /\ MaxWritten \in Nat

VARIABLES buffer,      \* ALT_16550_BUFFER_t
          prog,        \* the call of the program, where it is, its local variables
          isr,         \* where the handler is, and its local variables
          received,    \* bytes received, also those the UART has lost
          written,     \* bytes of the program
          unread,      \* history: received, and not yet taken out by the program
          unsent,      \* history: put into the TX buffer, and not yet sent
          intact       \* history: what the program was handed was what came next

history == <<received, written, unread, unsent, intact>>
vars    == <<uart, buffer, prog, isr, history>>

\* Whatever is in memory where the caller did not mean to go; an injected byte;
\* the character that is echoed in place of the one typed.
Unknown  == MaxReceived + 1
Injected == 0
Star     == MaxReceived + 2

Idle  == [at |-> "Idle", call |-> "none", size |-> 0, bytes |-> <<>>, ier |-> {},
          place |-> 0, left |-> <<>>]
NoInt == [at |-> "None", copy_size |-> 0, echo |-> <<>>]

\* After alt_16550_buffer_init.
BufferInit ==
  /\ Init
  /\ buffer = [ status |-> "SUCCESS",
                rx_buffer |-> [p \in 0 .. BufferSize - 1 |-> Unknown],
                rx_start |-> 0, rx_level |-> 0, rx_nl_count |-> 0,
                tx_buffer |-> [p \in 0 .. BufferSize - 1 |-> Unknown],
                tx_start |-> 0, tx_level |-> 0,
                echo_enable |-> FALSE, echo_inject_lf |-> FALSE, echo_char |-> FALSE ]
  /\ prog = Idle /\ isr = NoInt
  /\ received = 0 /\ written = 0
  /\ unread = <<>> /\ unsent = <<>>
  /\ intact = TRUE
-----------------------------------------------------------------------------
\* Lesser of two: stdminul.
Min2(a, b) == IF a > b THEN b ELSE a

\* strnpop: the line ends among some bytes, up to the first byte that is zero.
LinesIn(bytes) ==
  Quantify(DOMAIN bytes, LAMBDA k : bytes[k] \in LineEnds /\ \A i \in 1..k : bytes[i] \notin Nuls)

\* The bytes from a place in a ring, and the ring with bytes written there.
Ring(ring, from, count) == [k \in 1..count |-> ring[(from + k - 1) % BufferSize]]
Filled(ring, from, bytes) ==
  [p \in DOMAIN ring |-> LET k == 1 + ((p - from) % BufferSize) IN
                         IF k <= Len(bytes) THEN bytes[k] ELSE ring[p]]

RxRing == Ring(buffer.rx_buffer, buffer.rx_start, buffer.rx_level)
TxRing == Ring(buffer.tx_buffer, buffer.tx_start, buffer.tx_level)

\* copy_size_1: what fits in front of the end of the ring.
Part1(from, count) ==
  IF from < BufferSize /\ from + count > BufferSize THEN BufferSize - from ELSE count

\* Copying between a ring and the caller's memory advances the caller's pointer
\* past the first part twice: in its loop, and by copy_size_1 behind it.
ToCaller(bytes, part1) ==
  [k \in DOMAIN bytes |-> IF k <= part1 THEN bytes[k]
                          ELSE IF k > 2 * part1 THEN bytes[k - part1] ELSE Unknown]
FromCaller(bytes, count, part1) ==
  [k \in 1..count |-> LET i == IF k <= part1 THEN k ELSE k + part1 IN
                      IF i <= Len(bytes) THEN bytes[i] ELSE Unknown]

\* Items are what the bytes are turned into.  As many of them as fit in output are
\* written at once, leaving room for an injected byte.
Output(items, n) == FlattenSeq(SubSeq(items, 1, n))
ChunkLen(items) ==
  Min({ n \in DOMAIN items : Len(Output(items, n)) >= Min2(Len(items), OutputSize - 1) })
Rest(bytes, n) == SubSeq(bytes, n + 1, Len(bytes))

LineItems(bytes) ==
  [k \in DOMAIN bytes |-> IF bytes[k] \in LineEnds THEN <<Injected, bytes[k]>> ELSE <<bytes[k]>>]
EchoItems(bytes) ==
  [k \in DOMAIN bytes |->
     IF buffer.echo_inject_lf /\ bytes[k] \in LineEnds THEN <<bytes[k], Injected>>
     ELSE IF buffer.echo_char THEN <<Star>> ELSE <<bytes[k]>>]
-----------------------------------------------------------------------------
(* The program: a call disables an interrupt, does its work and enables it. *)

Flag == IF prog.call \in {"read_raw", "read_line", "level_rx"} THEN {"ERBFI"} ELSE {"ETBEI"}

Begin(call, size, bytes) ==
  prog' = [Idle EXCEPT !.at = "DisableRead", !.call = call, !.size = size, !.bytes = bytes]

read_raw(size) ==
  /\ prog.at = "Idle" /\ isr.at = "None"
  /\ buffer.status = "SUCCESS" /\ buffer.rx_level > 0
  /\ Begin("read_raw", size, <<>>)
  /\ UNCHANGED <<uart, buffer, isr, history>>

read_line(size) ==
  /\ prog.at = "Idle" /\ isr.at = "None"
  /\ buffer.status = "SUCCESS" /\ buffer.rx_level > 0 /\ buffer.rx_nl_count # 0
  /\ Begin("read_line", size, <<>>)
  /\ UNCHANGED <<uart, buffer, isr, history>>

\* alt_16550_buffer_level_rx, alt_16550_buffer_level_tx.
level(call) ==
  /\ prog.at = "Idle" /\ isr.at = "None"
  /\ Begin(call, 0, <<>>)
  /\ UNCHANGED <<uart, buffer, isr, history>>

\* The next bytes of the program.
NewBytes(size) == [k \in 1..size |-> - written - k]

write_raw(size) ==
  /\ prog.at = "Idle" /\ isr.at = "None"
  /\ buffer.status = "SUCCESS" /\ buffer.tx_level # BufferSize
  /\ written + size <= MaxWritten
  /\ Begin("write_raw", size, NewBytes(size))
  /\ written' = written + size
  /\ UNCHANGED <<uart, buffer, isr, received, unread, unsent, intact>>

write_line(size) ==
  /\ prog.at = "Idle" /\ isr.at = "None"
  /\ buffer.status = "SUCCESS"
  /\ written + size <= MaxWritten
  /\ prog' = [Idle EXCEPT !.at = "NextChunk", !.call = "write_line", !.size = size,
                          !.left = NewBytes(size)]
  /\ written' = written + size
  /\ UNCHANGED <<uart, buffer, isr, received, unread, unsent, intact>>

\* write_line calls write_raw for what fits in output, and goes on behind it however
\* much of it was written.
NextChunk ==
  /\ prog.at = "NextChunk" /\ isr.at = "None"
  /\ prog.left # <<>>
  /\ LET n == ChunkLen(LineItems(prog.left))
         output == Output(LineItems(prog.left), n) IN
     prog' = IF buffer.status # "SUCCESS" THEN Idle
             ELSE [prog EXCEPT !.left = Rest(@, n), !.bytes = output,
                               !.at = IF buffer.tx_level = BufferSize THEN "NextChunk"
                                                                      ELSE "DisableRead"]
  /\ UNCHANGED <<uart, buffer, isr, history>>

LineWritten ==
  /\ prog.at = "NextChunk" /\ isr.at = "None"
  /\ prog.left = <<>>
  /\ prog' = Idle
  /\ UNCHANGED <<uart, buffer, isr, history>>

echo_enable(inject_lf, echo) ==
  /\ prog.at = "Idle" /\ isr.at = "None"
  /\ buffer' = [buffer EXCEPT !.echo_enable = TRUE, !.echo_inject_lf = inject_lf,
                              !.echo_char = echo]
  /\ UNCHANGED <<uart, prog, isr, history>>

echo_disable ==
  /\ prog.at = "Idle" /\ isr.at = "None"
  /\ buffer.echo_enable
  /\ buffer' = [buffer EXCEPT !.echo_enable = FALSE]
  /\ UNCHANGED <<uart, prog, isr, history>>
-----------------------------------------------------------------------------
\* alt_16550_int_disable_rx and ..._tx, ..._enable_rx and ..._tx: the interrupt enable
\* register is read, modified and written.
ReadIer(from, to) ==
  /\ prog.at = from /\ isr.at = "None"
  /\ prog' = [prog EXCEPT !.at = to, !.ier = uart.ier]
  /\ UNCHANGED <<uart, buffer, isr, history>>

\* Mutant of DisableWrite: the register is not written.
DisableWriteSkipped ==
  /\ prog.at = "DisableWrite" /\ isr.at = "None"
  /\ prog' = [prog EXCEPT !.at = "Section", !.ier = {}]
  /\ UNCHANGED <<uart, buffer, isr, history>>

DisableWrite ==
  /\ prog.at = "DisableWrite" /\ isr.at = "None"
  /\ ier_mask_clr_helper(prog.ier, Flag)
  /\ prog' = [prog EXCEPT !.at = "Section", !.ier = {}]
  /\ UNCHANGED <<buffer, isr, history>>

\* Where a call goes on when its interrupt is enabled again, or left as it is.
Returned == IF prog.call = "write_line" THEN [prog EXCEPT !.at = "NextChunk", !.ier = {}] ELSE Idle

EnableWrite ==
  /\ prog.at = "EnableWrite" /\ isr.at = "None"
  /\ ier_mask_set_helper(prog.ier, Flag)
  /\ prog' = Returned
  /\ UNCHANGED <<buffer, isr, history>>

\* The bytes leave the RX buffer, in two steps.  Line ends are counted in the memory
\* behind the copy, for data has been advanced past it.
TakeOut(count, lines) ==
  LET bytes == Ring(buffer.rx_buffer, buffer.rx_start, count) IN
  /\ buffer' = [buffer EXCEPT !.rx_start = (@ + count) % BufferSize,
                              !.rx_nl_count = (@ - lines) % 65536]
  /\ intact' = (intact /\ ToCaller(bytes, Part1(buffer.rx_start, count))
                            = SubSeq(unread, 1, count))
  /\ unread' = Rest(unread, count)
  /\ prog' = [prog EXCEPT !.at = "Lower", !.place = count]
  /\ UNCHANGED <<uart, isr, received, written, unsent>>

LowerLevel ==
  /\ prog.at = "Lower" /\ isr.at = "None"
  /\ buffer' = [buffer EXCEPT !.rx_level = @ - prog.place]
  /\ prog' = [prog EXCEPT !.at = "EnableRead", !.place = 0]
  /\ UNCHANGED <<uart, isr, history>>

ReadSection ==
  /\ prog.at = "Section" /\ prog.call = "read_raw" /\ isr.at = "None"
  /\ LET copy_size == Min2(prog.size, buffer.rx_level) IN
     \E lines \in 0..copy_size : TakeOut(copy_size, lines)

\* strnchr, for each of the two parts of the first size bytes: a byte that is zero ends
\* the search of its part.
Seen(n) ==
  LET scan_nl   == Min2(prog.size, buffer.rx_level)
      scan_nl_1 == Part1(buffer.rx_start, scan_nl)
  IN /\ n \in 1..scan_nl
     /\ RxRing[n] \in LineEnds
     /\ \A k \in (IF n <= scan_nl_1 THEN 1 ELSE scan_nl_1 + 1) .. n : RxRing[k] \notin Nuls

\* The line end looked for is the first that is seen.
Found(n) == Seen(n) /\ \A k \in 1 .. n - 1 : ~Seen(k)

LineSection ==
  /\ prog.at = "Section" /\ prog.call = "read_line" /\ isr.at = "None"
  /\ \E n \in 1..BufferSize : Found(n) /\ TakeOut(n, 1)

\* Mutant of LineNotFound: the interrupt stays disabled.
LineNotFoundDisarmed ==
  /\ prog.at = "Section" /\ prog.call = "read_line" /\ isr.at = "None"
  /\ \A n \in 1..BufferSize : ~Found(n)
  /\ prog' = Idle
  /\ UNCHANGED <<uart, buffer, isr, history>>

\* ALT_E_BUF_OVF.
LineNotFound ==
  /\ prog.at = "Section" /\ prog.call = "read_line" /\ isr.at = "None"
  /\ \A n \in 1..BufferSize : ~Found(n)
  /\ prog' = IF buffer.rx_level < BufferSize THEN [prog EXCEPT !.at = "EnableRead"] ELSE Idle
  /\ UNCHANGED <<uart, buffer, isr, history>>

\* Mutant of LevelSection: for the RX buffer the same test as for the TX buffer.
LevelSectionSameTest ==
  /\ prog.at = "Section" /\ isr.at = "None"
  /\ \/ prog.call = "level_rx"
        /\ prog' = IF buffer.rx_level > 0 THEN [prog EXCEPT !.at = "EnableRead"] ELSE Idle
     \/ prog.call = "level_tx"
        /\ prog' = IF buffer.tx_level > 0 THEN [prog EXCEPT !.at = "EnableRead"] ELSE Idle
  /\ UNCHANGED <<uart, buffer, isr, history>>

LevelSection ==
  /\ prog.at = "Section" /\ isr.at = "None"
  /\ \/ prog.call = "level_rx"
        /\ prog' = IF buffer.rx_level < BufferSize THEN [prog EXCEPT !.at = "EnableRead"] ELSE Idle
     \/ prog.call = "level_tx"
        /\ prog' = IF buffer.tx_level > 0 THEN [prog EXCEPT !.at = "EnableRead"] ELSE Idle
  /\ UNCHANGED <<uart, buffer, isr, history>>

\* What fits into the TX buffer, and where.
\* Mutant of Room: what is in the buffer already is forgotten.
RoomOfEmpty == BufferSize

Room   == BufferSize - buffer.tx_level
Behind == buffer.tx_start + buffer.tx_level

\* write_raw finds the size of the copy and its place in the ring ...
WriteSection ==
  /\ prog.at = "Section" /\ prog.call \in {"write_raw", "write_line"} /\ isr.at = "None"
  /\ prog' = [prog EXCEPT !.at = "Store", !.place = Behind,
                          !.bytes = FromCaller(@, Min2(Len(@), Room),
                                               Part1(Behind, Min2(Len(@), Room)))]
  /\ UNCHANGED <<uart, buffer, isr, history>>

\* ... and copies.
Store ==
  /\ prog.at = "Store" /\ isr.at = "None"
  /\ buffer' = [buffer EXCEPT !.tx_buffer = Filled(@, prog.place, prog.bytes),
                              !.tx_level = @ + Len(prog.bytes)]
  /\ unsent' = unsent \o prog.bytes
  /\ prog' = [prog EXCEPT !.at = "EnableRead", !.bytes = <<>>, !.place = 0]
  /\ UNCHANGED <<uart, isr, received, written, unread, intact>>

\* What the program may call.
Call ==
  \/ \E size \in Sizes : read_raw(size) \/ read_line(size) \/ write_raw(size) \/ write_line(size)
  \/ level("level_rx") \/ level("level_tx")
  \/ \E mode \in EchoModes : echo_enable(mode[1], mode[2])
  \/ echo_disable

Program ==
  \/ NextChunk \/ LineWritten
  \/ ReadIer("DisableRead", "DisableWrite") \/ DisableWrite
  \/ ReadSection \/ LineSection \/ LowerLevel \/ LineNotFound \/ LevelSection
  \/ WriteSection \/ Store
  \/ ReadIer("EnableRead", "EnableWrite") \/ EnableWrite
-----------------------------------------------------------------------------
(* The handler.  An error makes it disable the interrupt at the distributor. *)

Enter(step) ==
  /\ isr.at = "None" /\ buffer.status = "SUCCESS"
  /\ isr' = [isr EXCEPT !.at = step]
  /\ UNCHANGED <<uart, buffer, prog, history>>

\* The transmit FIFO is a quarter full, or less.
TX_QUARTER == ~LinePending /\ ~DataPending /\ Len(uart.tx) <= TxTrigger /\ "ETBEI" \in uart.ier

RxInt   == (RX_DATA \/ RX_TIMEOUT) /\ Enter("RxLevel")
TxInt   == TX_QUARTER /\ Enter("TxLevel")
LineInt == LinePending /\ Enter("Line")

int_callback == RxInt \/ TxInt \/ LineInt

RxLevel ==
  /\ isr.at = "RxLevel"
  /\ isr' = [isr EXCEPT !.at = "RxCopy",
                        !.copy_size = Min2(fifo_level_get_rx, BufferSize - buffer.rx_level)]
  /\ UNCHANGED <<uart, buffer, prog, history>>

RxEnd == buffer.rx_start + buffer.rx_level

RxCopy ==
  /\ isr.at = "RxCopy"
  /\ LET bytes == FirstBytes(isr.copy_size)
         part1 == Part1(RxEnd, isr.copy_size) IN
     /\ fifo_read(isr.copy_size)
     /\ buffer' = [buffer EXCEPT !.rx_buffer = Filled(@, RxEnd, bytes),
                                 !.rx_nl_count = (@ + LinesIn(SubSeq(bytes, 1, part1))
                                                    + LinesIn(Rest(bytes, part1))) % 65536]
     /\ isr' = [isr EXCEPT !.at = "Echo",
                  !.echo = IF buffer.echo_enable
                           THEN <<SubSeq(bytes, 1, part1), Rest(bytes, part1)>> ELSE <<>>]
  /\ UNCHANGED <<prog, history>>

\* alt_16550_buffer_echo, for one of the two parts: with injection, what does not fit
\* in the TX buffer is dropped; without, it is tried again.  write_raw is not
\* interrupted here.
Echoed(output) ==
  IF buffer.tx_level = BufferSize THEN <<>>
  ELSE FromCaller(output, Min2(Len(output), Room), Part1(Behind, Min2(Len(output), Room)))

Echo ==
  /\ isr.at = "Echo"
  /\ isr.echo # <<>> /\ Head(isr.echo) # <<>>
  /\ LET bytes  == Head(isr.echo)
         n      == IF buffer.echo_inject_lf THEN ChunkLen(EchoItems(bytes))
                   ELSE IF buffer.echo_char THEN Min2(Len(bytes), OutputSize) ELSE Len(bytes)
         stored == Echoed(Output(EchoItems(bytes), n))
         done   == IF buffer.echo_inject_lf THEN n ELSE Len(stored) IN
     /\ buffer' = [buffer EXCEPT !.tx_buffer = Filled(@, Behind, stored),
                                 !.tx_level = @ + Len(stored)]
     /\ unsent' = unsent \o stored
     /\ IF stored = <<>> THEN UNCHANGED uart ELSE ier_mask_set_helper(uart.ier, {"ETBEI"})
     /\ isr' = [isr EXCEPT !.echo[1] = Rest(bytes, done)]
  /\ UNCHANGED <<prog, received, written, unread, intact>>

NextPart ==
  /\ isr.at = "Echo"
  /\ isr.echo # <<>> /\ Head(isr.echo) = <<>>
  /\ isr' = [isr EXCEPT !.echo = Tail(@)]
  /\ UNCHANGED <<uart, buffer, prog, history>>

RxDone ==
  /\ isr.at = "Echo"
  /\ isr.echo = <<>>
  /\ buffer' = [buffer EXCEPT !.rx_level = @ + isr.copy_size]
  /\ IF buffer.rx_level + isr.copy_size = BufferSize
     THEN ier_mask_clr_helper(uart.ier, {"ERBFI"}) ELSE UNCHANGED uart
  /\ isr' = NoInt
  /\ UNCHANGED <<prog, history>>

TxLevel ==
  /\ isr.at = "TxLevel"
  /\ isr' = [isr EXCEPT !.at = "TxCopy",
                        !.copy_size = Min2(FifoSize - fifo_level_get_tx, buffer.tx_level)]
  /\ UNCHANGED <<uart, buffer, prog, history>>

TxCopy ==
  /\ isr.at = "TxCopy"
  /\ fifo_write(Ring(buffer.tx_buffer, buffer.tx_start, isr.copy_size))
  /\ buffer' = [buffer EXCEPT !.tx_start = (@ + isr.copy_size) % BufferSize,
                              !.tx_level = @ - isr.copy_size]
  /\ isr' = NoInt
  /\ UNCHANGED <<prog, history>>

\* ALT_E_UART_OE.
Line ==
  /\ isr.at = "Line"
  /\ line_status_get
  /\ buffer' = [buffer EXCEPT !.status = "UART_OE"]
  /\ isr' = NoInt
  /\ UNCHANGED <<prog, history>>

Handler == RxLevel \/ RxCopy \/ Echo \/ NextPart \/ RxDone \/ TxLevel \/ TxCopy \/ Line
-----------------------------------------------------------------------------
\* The line.
LineReceives ==
  /\ received < MaxReceived
  /\ Receive(received + 1)
  /\ received' = received + 1
  /\ unread' = IF Len(uart.rx) < FifoSize THEN Append(unread, received + 1) ELSE unread
  /\ UNCHANGED <<buffer, prog, isr, written, unsent, intact>>

ShiftNext ==
  /\ Shift
  /\ UNCHANGED <<buffer, prog, isr, history>>

LineSends ==
  /\ ShiftOut
  /\ unsent' = Tail(unsent)
  /\ UNCHANGED <<buffer, prog, isr, received, written, unread, intact>>

Next ==
  \/ Call \/ Program
  \/ int_callback \/ Handler
  \/ LineReceives \/ ShiftNext \/ LineSends

Spec == BufferInit /\ [][Next]_vars

\* The processor goes on in a call and in the handler, and the line sends.  A pending
\* interrupt is taken between two calls, however many calls there are, and a call
\* gets its turn between two interrupts: the driver leaves the transmit interrupt
\* enabled when it has nothing left to send.
FairSpec ==
  /\ Spec
  /\ SF_vars(Program) /\ WF_vars(Handler)
  /\ SF_vars(RxInt) /\ SF_vars(TxInt) /\ SF_vars(LineInt)
  /\ WF_vars(ShiftNext) /\ WF_vars(LineSends)
-----------------------------------------------------------------------------
\* Starts and levels stay within the rings.
TypeOK ==
  /\ UartTypeOK
  /\ buffer.status \in {"SUCCESS", "UART_OE"}
  /\ buffer.rx_buffer \in [0 .. BufferSize - 1 -> Int]
  /\ buffer.tx_buffer \in [0 .. BufferSize - 1 -> Int]
  /\ buffer.rx_start \in 0 .. BufferSize - 1 /\ buffer.rx_level \in 0..BufferSize
  /\ buffer.tx_start \in 0 .. BufferSize - 1 /\ buffer.tx_level \in 0..BufferSize
  /\ buffer.rx_nl_count \in Nat /\ buffer.rx_nl_count < 65536

\* The bytes in the RX buffer that wait for the program: also those the handler has
\* copied but not yet counted, not those the program has copied but not yet
\* discounted.
Waiting == buffer.rx_level + (IF isr.at = "Echo" THEN isr.copy_size ELSE 0)
                           - (IF prog.at = "Lower" THEN prog.place ELSE 0)

\* The rings and the FIFOs behind them keep what has not been taken out, in order and
\* without a gap, wherever the rings wrap and wherever the handler interrupts a
\* call: what was received and what was put into the TX buffer.  The handler hands the
\* transmit FIFO, which need not be empty, no more than it takes.
RingsIntact ==
  /\ TypeOK
  /\ Len(uart.tx) <= FifoSize
  /\ Ring(buffer.rx_buffer, buffer.rx_start, Waiting) \o uart.rx = unread
  /\ uart.shift \o uart.tx \o TxRing = unsent

\* An interrupt that is needed is enabled, except in a call that needs it disabled,
\* although calls and handler both read, modify and write the enable register.
RxArmed ==
  Waiting < BufferSize /\ prog.call \notin {"read_raw", "read_line", "level_rx"}
    => "ERBFI" \in uart.ier

TxArmed ==
  buffer.tx_level > 0 /\ prog.call \notin {"write_raw", "write_line", "level_tx"}
    => "ETBEI" \in uart.ier

InterruptsArmed == RxArmed /\ TxArmed

Failed == buffer.status # "SUCCESS"

\* What is in a buffer or a FIFO does not stay there, unless the UART has reported an
\* error: it is sent, or moved to the RX buffer as long as that has room.
Drained ==
  /\ buffer.tx_level > 0 ~> buffer.tx_level = 0 \/ buffer.rx_level = BufferSize \/ Failed
  /\ uart.rx # <<>> ~> uart.rx = <<>> \/ buffer.rx_level = BufferSize \/ Failed
-----------------------------------------------------------------------------
\* What the header promises and the code does not keep, alt_16550_buffer.h:50, "This
\* buffer constantly reads data out of the UART FIFO into a circular buffer, which can
\* then be read back to the caller": the caller is handed the bytes that were received.
ReadInOrder == intact
=============================================================================
