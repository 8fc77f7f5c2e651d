---------------------------- MODULE HpsBaremetal ----------------------------
(***************************************************************************)
(* hps_baremetal.c: the loop of main that receives an image over the UART, *)
(* has it filtered and sends it back, and the interrupt handler            *)
(* uart_callback, which moves the bytes.  The handler interrupts the loop  *)
(* between any two of its steps and runs to its end; the UART and the      *)
(* computer on the other end of the line go on meanwhile.                  *)
(*                                                                         *)
(* The bytes the computer sends are numbered 1, 2, 3 ..., the filter turns *)
(* the byte n into -n.                                                     *)
(***************************************************************************)
EXTENDS Uart16550

CONSTANTS ImageSize,   \* IMG_WIDTH*IMG_HEIGHT
          MaxBytes     \* bound: bytes the computer sends in a behaviour

ASSUME SizeAssumption == ImageSize \in Nat \ {0} /\ MaxBytes \in Nat

VARIABLES main,              \* where the loop of main is
          isr,               \* where uart_callback is, and its local variables
          ier_read,          \* local to int_enable_tx, called by main
          img, img_offset,
          transmission_done, irq_hit,
          sent, received,    \* the computer: bytes sent; the bytes received
          round,             \* history: images filtered
          clean              \* history: every byte was received in its time

appVars == <<main, isr, ier_read, img, img_offset, transmission_done, irq_hit, round>>
vars    == <<uart, appVars, sent, received, clean>>

Sending == {"NextChunk", "ReadIer", "WriteIer", "Wait"}
Places  == {"Allocate", "Restart", "Receiving", "Filter", "Rewind"} \cup Sending

Steps   == {"None", "RxLevel", "RxCopy", "RxClear", "TxLevel", "TxCopy", "TxDisable", "Line"}
NoCall  == [at |-> "None", level |-> 0, copy_size |-> 0]

AppInit ==
  /\ Init
  /\ main = "Allocate" /\ isr = NoCall /\ ier_read = {}
  /\ img = [k \in 1..ImageSize |-> 0] /\ img_offset = 0
  /\ transmission_done = FALSE /\ irq_hit = FALSE
  /\ sent = 0 /\ received = <<>>
  /\ round = 0 /\ clean = TRUE
-----------------------------------------------------------------------------
\* A step of main from one place to the next.
Goto(from, to) ==
  /\ isr.at = "None"
  /\ main = from /\ main' = to
  /\ UNCHANGED <<isr, sent, received, clean>>

\* img = malloc(...), with the interrupts already enabled.
Allocate ==
  /\ Goto("Allocate", "Restart")
  /\ UNCHANGED <<uart, ier_read, img, img_offset, transmission_done, irq_hit, round>>

Restart ==
  /\ Goto("Restart", "Receiving")
  /\ img_offset' = 0
  /\ UNCHANGED <<uart, ier_read, img, transmission_done, irq_hit, round>>

ImageReceived ==
  /\ img_offset >= ImageSize
  /\ Goto("Receiving", "Filter")
  /\ UNCHANGED <<uart, ier_read, img, img_offset, transmission_done, irq_hit, round>>

\* do_adaptive_threshold(img), see Accelerator.
Filter ==
  /\ Goto("Filter", "Rewind")
  /\ img' = [k \in DOMAIN img |-> -img[k]]
  /\ round' = round + 1
  /\ UNCHANGED <<uart, ier_read, img_offset, transmission_done, irq_hit>>

Rewind ==
  /\ Goto("Rewind", "NextChunk")
  /\ transmission_done' = FALSE
  /\ img_offset' = 0
  /\ UNCHANGED <<uart, ier_read, img, irq_hit, round>>

\* while(!transmission_done) { irq_hit = false; alt_16550_int_enable_tx(&handle); ...
NextChunk ==
  /\ ~transmission_done
  /\ Goto("NextChunk", "ReadIer")
  /\ irq_hit' = FALSE
  /\ UNCHANGED <<uart, ier_read, img, img_offset, transmission_done, round>>

ReadIer ==
  /\ Goto("ReadIer", "WriteIer")
  /\ ier_read' = uart.ier
  /\ UNCHANGED <<uart, img, img_offset, transmission_done, irq_hit, round>>

WriteIer ==
  /\ Goto("WriteIer", "Wait")
  /\ int_enable_tx(ier_read)
  /\ UNCHANGED <<ier_read, img, img_offset, transmission_done, irq_hit, round>>

\* ... while(!irq_hit) { } }
ChunkSent ==
  /\ irq_hit
  /\ Goto("Wait", "NextChunk")
  /\ UNCHANGED <<uart, ier_read, img, img_offset, transmission_done, irq_hit, round>>

TransmissionDone ==
  /\ transmission_done
  /\ Goto("NextChunk", "Restart")
  /\ UNCHANGED <<uart, ier_read, img, img_offset, transmission_done, irq_hit, round>>

\* The two empty loops.
Spin ==
  /\ \/ main = "Receiving" /\ img_offset < ImageSize
     \/ main = "Wait" /\ ~irq_hit
  /\ isr.at = "None"
  /\ UNCHANGED vars

Main ==
  \/ Allocate \/ Restart \/ ImageReceived \/ Filter \/ Rewind \/ NextChunk
  \/ ReadIer \/ WriteIer \/ ChunkSent \/ TransmissionDone
-----------------------------------------------------------------------------
\* The handler is entered and reads the interrupt status.  A status of no
\* interest makes it return at once.
uart_callback ==
  /\ isr.at = "None"
  /\ \/ (RX_DATA \/ RX_TIMEOUT) /\ isr' = [isr EXCEPT !.at = "RxLevel"]
     \/ TX_IDLE /\ isr' = [isr EXCEPT !.at = "TxLevel"]
     \/ LinePending /\ isr' = [isr EXCEPT !.at = "Line"]
  /\ UNCHANGED <<uart, main, ier_read, img, img_offset, transmission_done, irq_hit,
                 round, sent, received, clean>>

\* Mutant of CopySize: the end of the image is not looked at.
CopySizeUncut(size) == size

\* A transfer of this size, cut at the end of the image.
CopySize(size) ==
  IF img_offset + size > ImageSize THEN ImageSize - img_offset ELSE size

RxLevel ==
  /\ isr.at = "RxLevel"
  /\ isr' = [at |-> "RxCopy", level |-> fifo_level_get_rx,
             copy_size |-> CopySize(fifo_level_get_rx)]
  /\ UNCHANGED <<uart, main, ier_read, img, img_offset, transmission_done, irq_hit,
                 round, sent, received, clean>>

\* Mutant of Stored: always at the start of the buffer.
StoredAtStart(count) ==
  [k \in 1..ImageSize |-> IF k \in 1..count THEN FirstBytes(count)[k] ELSE img[k]]

\* The bytes received are stored behind those that came before.  Without a buffer
\* they go astray.
Stored(count) ==
  IF main = "Allocate" THEN img
  ELSE [k \in 1..ImageSize |->
          IF k \in img_offset + 1 .. img_offset + count
          THEN FirstBytes(count)[k - img_offset] ELSE img[k]]

RxCopy ==
  /\ isr.at = "RxCopy"
  /\ fifo_read(isr.copy_size)
  /\ img' = Stored(isr.copy_size)
  /\ img_offset' = img_offset + isr.copy_size
  /\ isr' = IF isr.level > isr.copy_size
            THEN [isr EXCEPT !.at = "RxClear", !.level = @ - isr.copy_size] ELSE NoCall
  /\ clean' = (clean /\ (isr.copy_size > 0 => main = "Receiving"))
  /\ UNCHANGED <<main, ier_read, transmission_done, irq_hit, round, sent, received>>

\* Whatever does not belong to the image is dropped, also what has come meanwhile.
RxClear ==
  /\ isr.at = "RxClear"
  /\ fifo_clear_rx
  /\ isr' = NoCall
  /\ clean' = FALSE
  /\ UNCHANGED <<main, ier_read, img, img_offset, transmission_done, irq_hit,
                 round, sent, received>>

TxLevel ==
  /\ isr.at = "TxLevel"
  /\ isr' = [at |-> "TxCopy", level |-> fifo_level_get_tx,
             copy_size |-> CopySize(FifoSize - fifo_level_get_tx)]
  /\ UNCHANGED <<uart, main, ier_read, img, img_offset, transmission_done, irq_hit,
                 round, sent, received, clean>>

\* Mutants of TxCopy: the same bytes again and again; the end is announced with
\* the last bytes; the end is not announced.
TxCopyAgain ==
  /\ isr.at = "TxCopy"
  /\ fifo_write([k \in 1..isr.copy_size |-> img[k]])
  /\ img_offset' = img_offset + isr.copy_size
  /\ transmission_done' = IF isr.copy_size > 0 THEN transmission_done ELSE TRUE
  /\ isr' = [isr EXCEPT !.at = "TxDisable"]
  /\ UNCHANGED <<main, ier_read, img, irq_hit, round, sent, received, clean>>

TxCopyDoneEarly ==
  /\ isr.at = "TxCopy"
  /\ fifo_write([k \in 1..isr.copy_size |-> img[img_offset + k]])
  /\ img_offset' = img_offset + isr.copy_size
  /\ transmission_done' = (img_offset + isr.copy_size >= ImageSize)
  /\ isr' = [isr EXCEPT !.at = "TxDisable"]
  /\ UNCHANGED <<main, ier_read, img, irq_hit, round, sent, received, clean>>
TxCopyNeverDone ==
  /\ isr.at = "TxCopy"
  /\ fifo_write([k \in 1..isr.copy_size |-> img[img_offset + k]])
  /\ img_offset' = img_offset + isr.copy_size
  /\ isr' = [isr EXCEPT !.at = "TxDisable"]
  /\ UNCHANGED <<main, ier_read, img, transmission_done, irq_hit, round, sent, received, clean>>

TxCopy ==
  /\ isr.at = "TxCopy"
  /\ fifo_write([k \in 1..isr.copy_size |-> img[img_offset + k]])
  /\ img_offset' = img_offset + isr.copy_size
  /\ transmission_done' = IF isr.copy_size > 0 THEN transmission_done ELSE TRUE
  /\ isr' = [isr EXCEPT !.at = "TxDisable"]
  /\ UNCHANGED <<main, ier_read, img, irq_hit, round, sent, received, clean>>

\* Mutant of TxDisable: the loop is not woken up.
TxDisableSilent ==
  /\ isr.at = "TxDisable"
  /\ int_disable_tx
  /\ isr' = NoCall
  /\ UNCHANGED <<main, ier_read, img, img_offset, transmission_done, irq_hit, round,
                 sent, received, clean>>

TxDisable ==
  /\ isr.at = "TxDisable"
  /\ int_disable_tx
  /\ irq_hit' = TRUE
  /\ isr' = NoCall
  /\ UNCHANGED <<main, ier_read, img, img_offset, transmission_done, round,
                 sent, received, clean>>

\* Parity is off and the other line errors come with the bytes concerned: all that
\* the handler does is to print a message.
Line ==
  /\ isr.at = "Line"
  /\ line_status_get
  /\ isr' = NoCall
  /\ UNCHANGED <<main, ier_read, img, img_offset, transmission_done, irq_hit, round,
                 sent, received, clean>>

Handler == RxLevel \/ RxCopy \/ RxClear \/ TxLevel \/ TxCopy \/ TxDisable \/ Line
-----------------------------------------------------------------------------
\* The computer sends bytes whenever it likes.
PcSends ==
  /\ sent < MaxBytes
  /\ Receive(sent + 1)
  /\ sent' = sent + 1
  /\ clean' = (clean /\ Len(uart.rx) < FifoSize)
  /\ UNCHANGED <<appVars, received>>

PcReceives ==
  /\ ShiftOut
  /\ received' = received \o uart.shift
  /\ UNCHANGED <<appVars, sent, clean>>

ShiftNext ==
  /\ Shift
  /\ UNCHANGED <<appVars, sent, received, clean>>

Next ==
  \/ Main \/ Spin
  \/ uart_callback \/ Handler
  \/ PcSends \/ PcReceives \/ ShiftNext

Spec == AppInit /\ [][Next]_vars

\* The processor makes progress in the loop and in the handler, takes pending
\* interrupts, and the line transmits.  Nothing is assumed of the computer.
FairSpec ==
  /\ Spec
  /\ WF_vars(Main) /\ WF_vars(uart_callback) /\ WF_vars(Handler)
  /\ WF_vars(PcReceives) /\ WF_vars(ShiftNext)
-----------------------------------------------------------------------------
TypeOK ==
  /\ UartTypeOK
  /\ main \in Places
  /\ DOMAIN isr = {"at", "level", "copy_size"}
  /\ isr.at \in Steps /\ isr.level \in Nat /\ isr.copy_size \in Nat
  /\ ier_read \subseteq Enables
  /\ img \in [1..ImageSize -> Int] /\ img_offset \in Nat
  /\ transmission_done \in BOOLEAN /\ irq_hit \in BOOLEAN
  /\ sent \in Nat /\ received \in Seq(Int)
  /\ round \in Nat /\ clean \in BOOLEAN

\* The handler stays inside the buffer in both directions, although img_offset is
\* shared by both directions and reset by the loop ...
InsideBuffer ==
  /\ img_offset <= ImageSize
  /\ isr.at \in {"RxCopy", "TxCopy"} => img_offset + isr.copy_size <= ImageSize

\* ... and never reads more bytes than the FIFO holds, nor writes more than it takes,
\* although the level was taken before and the line goes on.
FifosRespected ==
  /\ isr.at = "RxCopy" => isr.copy_size <= Len(uart.rx)
  /\ isr.at = "TxCopy" => Len(uart.tx) + isr.copy_size <= FifoSize

\* Every transfer of the handler stays within the bounds of the buffer and of the FIFO,
\* whenever and however much the computer sends.
CopyInBounds == InsideBuffer /\ FifosRespected

\* The loop waits for the flag exactly as long as the transmit interrupt that will
\* set it is enabled.
WakeUpNotLost == main = "Wait" /\ ~irq_hit <=> "ETBEI" \in uart.ier

\* The loop and the handler both modify the interrupt enable register: the
\* handler never does so between the read and the write of the loop.
EnableNotTorn == main = "WriteIer" => ier_read = uart.ier

\* When the filter is called, the buffer holds the bytes of the image in the order
\* in which they were sent, provided that every byte was received in its time.
ImageIntact ==
  clean /\ main = "Filter" =>
    img = [k \in 1..ImageSize |-> round * ImageSize + k]

\* What the computer has received, and what is on its way.
Reply == received \o uart.shift \o uart.tx

\* The bytes of filtered images that the handler has still to hand over.
Unsent == IF main \in Sending THEN ImageSize - img_offset
          ELSE IF main = "Rewind" THEN ImageSize ELSE 0

\* Every byte of every filtered image is handed to the line once and in order,
\* and img_offset tells how many have been.
ReplyIntact ==
  clean => /\ Reply = [k \in 1..Len(Reply) |-> -k]
           /\ Len(Reply) = ImageSize * round - Unsent

\* The next image is waited for only when the FIFO has been transmitted.
SentBeforeNext == main \in {"Restart", "Receiving", "Filter"} => uart.tx = <<>>

\* A transmission comes to its end, whatever the computer sends meanwhile.
TransmissionEnds == main \in Sending ~> main = "Receiving"

\* The last bytes of an image, fewer than the trigger, are received as well.
ImageCompletes ==
  main = "Receiving" /\ sent = ImageSize * (round + 1) ~> main = "Filter" \/ ~clean
-----------------------------------------------------------------------------
\* The parts of the inductive invariant IInv, from which HpsBaremetalProofs proves
\* the safety properties.

\* A transfer in progress fits the buffer and the FIFO, and one to the transmit
\* FIFO finds it empty.
TransferFits ==
  /\ InsideBuffer
  /\ isr.at = "RxCopy" => isr.copy_size <= isr.level /\ isr.level <= Len(uart.rx)
  /\ isr.at \in {"TxLevel", "TxCopy"} => uart.tx = <<>>
  /\ isr.at = "TxCopy" => isr.copy_size = CopySize(FifoSize)

\* The transmit interrupt, the flags and the place in the loop go together.
Handshake ==
  /\ WakeUpNotLost
  /\ EnableNotTorn
  /\ isr.at \in {"TxLevel", "TxCopy", "TxDisable"} => "ETBEI" \in uart.ier
  /\ main \in {"ReadIer", "WriteIer"} => ~irq_hit /\ ~transmission_done

\* The end is announced when everything was handed over and has left the FIFO.
EndAnnounced ==
  /\ main = "Wait" /\ transmission_done => irq_hit \/ isr.at = "TxDisable"
  /\ main \in Sending /\ transmission_done => img_offset = ImageSize
  /\ main \notin Sending \/ transmission_done => uart.tx = <<>>

\* The bytes received so far are those of earlier images and of this one; the next
\* ones are in the FIFO.
Received == ImageSize * round + IF main \in {"Receiving", "Filter"} THEN img_offset ELSE 0

Incoming ==
  /\ Received + Len(uart.rx) = sent
  /\ \A k \in 1..Len(uart.rx) : uart.rx[k] = Received + k

\* What the buffer holds while an image is received, and while it is sent.
Buffered ==
  /\ main \in {"Receiving", "Filter"} =>
       \A k \in 1..img_offset : img[k] = ImageSize * round + k
  /\ main = "Filter" => img_offset = ImageSize
  /\ main \in {"Rewind"} \cup Sending =>
       \A k \in 1..ImageSize : img[k] = ImageSize - ImageSize * round - k

\* What was handed over is on the three parts of the way, in order.
Outgoing ==
  /\ Len(received) + Len(uart.shift) + Len(uart.tx) = ImageSize * round - Unsent
  /\ \A k \in 1..Len(received) : received[k] = -k
  /\ \A k \in 1..Len(uart.shift) : uart.shift[k] = -(Len(received) + k)
  /\ \A k \in 1..Len(uart.tx) : uart.tx[k] = -(Len(received) + Len(uart.shift) + k)

\* The inductive invariant.
IInv ==
  /\ TypeOK /\ TransferFits /\ Handshake /\ EndAnnounced
  /\ clean => Incoming /\ Buffered /\ Outgoing
=============================================================================
