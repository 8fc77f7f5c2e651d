---------------------------- MODULE Accelerator -----------------------------
(***************************************************************************)
(* adaptive_threshold_top_level.vhd: the components of the accelerator,    *)
(* wired as in its port maps, together with the memory on one side and the *)
(* program that drives the accelerator on the other.                       *)
(*                                                                         *)
(* Tick is one rising edge of the common clock: every component reads the  *)
(* registers of the others as they were before the edge.                   *)
(***************************************************************************)
EXTENDS Integers, Sequences

CONSTANTS RowCount,    \* rows of the image
          ColCount,    \* words in a row
          Depth,       \* words a FIFO holds
          Image,       \* address of the image in memory
          MaxFrames,   \* bound: images processed in a behaviour
          MaxResets    \* bound: presses of the reset button in a behaviour

\* Rows are counted in 8 bits (and one further row is fetched), words of a row in 7;
\* a row of two words would not end in the filter.
ASSUME RowCountAssumption == RowCount \in Nat /\ 2 <= RowCount /\ RowCount + 2 < 256
ASSUME ColCountAssumption == ColCount \in 3..127
\* The buffer is none of the memory at address 0, which a start after a reset filters.
ASSUME ImageAssumption == Image \in Nat /\ Image % 4 = 0 /\ 4 * RowCount * ColCount <= Image
ASSUME BoundsAssumption == MaxFrames \in Nat \ {0} /\ MaxResets \in Nat
ASSUME DepthAssumption == Depth \in Nat /\ ColCount <= Depth

VARIABLES slave, fsm, reader, writer, compute,   \* registers of the components
          fifo, ofifo,                           \* row FIFOs and output FIFO
          mem, bus,                              \* memory and its bus
          host, frame,                           \* the program, its last image
          base,        \* history: start address of the current run
          aborted,     \* history: reset since the program made its request
          resets       \* number of resets so far

vars == <<slave, fsm, reader, writer, compute, fifo, ofifo, mem, bus, host, frame,
          base, aborted, resets>>

Border   == <<0, 0>>
ZeroWord == <<Border, Border, Border, Border>>

\* The image and the row of memory behind it.
Filter0 == INSTANCE ImageFilter WITH image <- mem, requested <- FALSE
MemWords == (RowCount + 1) * ColCount
Loaded(f) == [w \in 0 .. MemWords - 1 |-> Filter0!OriginalWord(f, w)]

Slave   == INSTANCE AvalonSlave
Fsm     == INSTANCE FiniteStateMachine WITH Address <- {0, Image}
Reader  == INSTANCE BurstReader WITH BurstCount <- ColCount
Writer  == INSTANCE BurstWriter WITH BurstCount <- ColCount
Thresh  == INSTANCE AdaptiveThreshold WITH ColSize <- 4 * ColCount
Rows    == INSTANCE Scfifo
Mult    == INSTANCE FifoMult
Bus     == INSTANCE AvalonBus WITH MemBase <- Image, Nowhere <- ZeroWord
Host    == INSTANCE HpsDriver

Init ==
  /\ Slave!Init /\ Fsm!Init /\ Thresh!Init
  /\ Reader!Init(ZeroWord) /\ Writer!Init(ZeroWord)
  /\ fifo = [f \in Mult!Fifos |-> Rows!EmptyFifo]
  /\ ofifo = Rows!EmptyFifo
  /\ mem = Loaded(1) /\ Bus!BusInit
  /\ Host!Init /\ frame = 1
  /\ base = 0 /\ aborted = FALSE /\ resets = 0
-----------------------------------------------------------------------------
\* The outputs of the multiplexer towards adaptive_threshold.
row_q     == [i \in 1..3 |-> fifo[Mult!FifoOf(fsm.select_idx, i)].q]
row_empty == [i \in 1..3 |-> Rows!IsEmpty(fifo[Mult!FifoOf(fsm.select_idx, i)])]

\* The Avalon master: the address comes from the component that owns the bus.
avm_add == IF Fsm!WriterOwnsBus THEN writer.avm_address ELSE reader.avm_address

RowFifosClock ==
  fifo' = [f \in Mult!Fifos |->
             Rows!Clocked(fifo[f],
               Mult!Sclr(fsm.select_idx, f, reader.row_sclr, fsm.clr_all),
               Mult!Wrreq(fsm.select_idx, f, reader.row_wrreq, compute.row_wrreq),
               Mult!Data(fsm.select_idx, f, reader.row_data, compute.row_data),
               Mult!Rdreq(fsm.select_idx, f, compute.row_rdreq))]

OutputFifoClock ==
  ofifo' = Rows!Clocked(ofifo, compute.ofifo_sclr, compute.ofifo_wrreq,
                        compute.ofifo_data, writer.ofifo_rdreq)

\* One clock edge: the program has its next access on the bus or not, the memory
\* asks to wait or not, and delivers a word or not.
Tick(issue, waitrequest, rddatavalid) ==
  /\ issue => Host!CanIssue
  /\ Bus!Polite(reader.avm_rd, writer.avm_wr, waitrequest, rddatavalid)
  /\ Slave!Clock(Host!avs_wr(issue), Host!avs_rd(issue), Host!avs_add,
                 Host!avs_wrdata, fsm.done)
  /\ Fsm!Clock(slave.Start, slave.RegStartAddress,
               reader.done, writer.done, compute.done)
  /\ Reader!Clock(fsm.enable_burst_reader, fsm.dummy_read_burst_reader,
                  fsm.add_burst_reader, waitrequest, rddatavalid, Bus!ReadWord)
  /\ Writer!Clock(fsm.enable_burst_writer, fsm.add_burst_writer, waitrequest,
                  Rows!Lookahead(ofifo))
  /\ Thresh!Clock(fsm.enable_compute, row_q, row_empty)
  /\ RowFifosClock
  /\ OutputFifoClock
  /\ Bus!Clock(reader.avm_rd, writer.avm_wr, avm_add, ColCount, writer.avm_wrdata,
               waitrequest, rddatavalid)
  /\ Host!Clock(issue, slave.avs_rddata)
  /\ base' = IF fsm.state = "Idle" /\ slave.Start THEN slave.RegStartAddress ELSE base
  /\ aborted' = (aborted /\ ~(host = "WriteAddress" /\ issue))
  /\ UNCHANGED <<frame, resets>>

\* The program calls the accelerator for the image in memory.
Call ==
  /\ Host!Call
  /\ mem = Loaded(frame)
  /\ UNCHANGED <<slave, fsm, reader, writer, compute, fifo, ofifo, mem, bus, frame,
                 base, aborted, resets>>

\* The next image has been received (uart_callback), over the previous one.
LoadImage ==
  /\ host = "Filling"
  /\ frame < MaxFrames
  /\ frame' = frame + 1
  /\ mem' = Loaded(frame + 1)
  /\ UNCHANGED <<slave, fsm, reader, writer, compute, fifo, ofifo, bus, host,
                 base, aborted, resets>>

\* KEY_N(0) is pressed.  The FIFOs have no asynchronous clear and keep their
\* contents, the processor and the memory are not reset.
ResetButton ==
  /\ resets < MaxResets
  /\ resets' = resets + 1
  /\ aborted' = TRUE
  /\ Slave!Reset /\ Fsm!Reset /\ Reader!Reset /\ Writer!Reset /\ Thresh!Reset
  /\ Bus!Reset
  /\ UNCHANGED <<fifo, ofifo, host, frame, base>>

Next ==
  \/ \E issue, waitrequest, rddatavalid \in BOOLEAN : Tick(issue, waitrequest, rddatavalid)
  \/ Call
  \/ LoadImage
  \/ ResetButton

Spec == Init /\ [][Next]_vars

\* The clock ticks, and neither the program nor the memory keeps the accelerator
\* waiting for ever.
Served == Tick(Host!CanIssue, FALSE, bus.rd_left > 0 )

FairSpec == Spec /\ WF_vars(Served)
-----------------------------------------------------------------------------
TypeOK ==
  /\ Fsm!FsmTypeOK /\ Reader!TypeOK /\ Writer!TypeOK /\ Thresh!TypeOK /\ Bus!BusTypeOK
  /\ slave.RegStartAddress \in {0, Image} /\ slave.Start \in BOOLEAN
  /\ slave.avs_rddata \in {0, 1, Image}
  /\ host \in Host!Places
  /\ \A f \in Mult!Fifos : Len(fifo[f].words) <= Depth
  /\ Len(ofifo.words) <= Depth
  /\ DOMAIN mem = 0 .. MemWords - 1
  /\ frame \in 1..MaxFrames /\ resets \in 0..MaxResets
  /\ base \in {0, Image} /\ aborted \in BOOLEAN

\* Word k of a row of the current image, a black one above the first row.
RowWord(row, k) ==
  IF row < 0 THEN ZeroWord ELSE Filter0!OriginalWord(frame, row * ColCount + k)

\* A run of the accelerator is going on that nothing has disturbed.
Running == fsm.state \notin {"Idle", "ReadFirstRowWait"} /\ ~aborted

\* A FIFO never holds words of two rows, nor of two images, nor a hole: it holds
\* consecutive words (the last of a row being followed by the first, once the
\* row is written back) of one row of its own residue class.  In particular the
\* last word of a fetch arrives before select_idx moves on to the next FIFO.
RowsUnmixed ==
  Running =>
    \A f \in {f \in Mult!Fifos : ~Rows!IsEmpty(fifo[f])} :
      \E row \in 0..RowCount, k \in 0..ColCount-1 :
        /\ row % 4 = f
        /\ \A n \in 1..Len(fifo[f].words) :
             fifo[f].words[n] = RowWord(row, (k + n - 1) % ColCount)

\* No FIFO is asked for a word it does not have or given one it cannot take: the
\* scfifo would ignore the request and shift the rest of the row.
FifosNeverOverrun ==
  /\ \A i \in 1..3 :
       /\ compute.row_rdreq[i] => ~row_empty[i]
       /\ compute.row_wrreq[i] =>
            ~Rows!IsFull(fifo[Mult!FifoOf(fsm.select_idx, i)])
  /\ reader.row_wrreq => ~Rows!IsFull(fifo[fsm.select_idx])
  /\ compute.ofifo_wrreq => ~Rows!IsFull(ofifo)
  /\ fsm.enable_burst_writer \/ writer.state = "HasData" => ~Rows!IsEmpty(ofifo)

\* The FIFOs hold what they should and nothing is asked of them they cannot do, and the
\* registers of all components keep their types.
RowsIntact == TypeOK /\ RowsUnmixed /\ FifosNeverOverrun

\* The bus sees one burst at a time: a burst begins only when the one before it
\* has been answered completely, and every word written belongs to a burst of
\* ColCount words that was announced.
OneBurstAtATime ==
  /\ reader.avm_rd => bus.rd_left = 0 /\ bus.wr_left = 0 /\ ~writer.avm_wr
  /\ writer.avm_wr => bus.rd_left = 0 /\ (writer.avm_beginburst <=> bus.wr_left = 0)
  /\ fsm.done /\ ~aborted => bus.rd_left = 0 /\ bus.wr_left = 0

\* The pixel to the left of the one being filtered is the adjacent one, as in
\* the program's own filter (hps_baremetal.c:210, img[(i-1+k)*320+(j-1+l)]).
LeftNeighbourAdjacent ==
  \A w \in 0 .. RowCount * ColCount - 1, p \in 1..4 :
    LET row == w \div ColCount
        col == 4 * (w % ColCount) + p - 1 IN
    Len(mem[w][p]) = 3 => mem[w][p][2][1] = Filter0!Pixel(frame, row, col - 1)

\* The program's view: the accelerator is an in-place filter that works on the
\* original image and reports done only when the whole image is filtered.
Filter == INSTANCE ImageFilter WITH
  image     <- [w \in 0 .. RowCount * ColCount - 1 |-> mem[w]],
  requested <- host \in {"WriteStart", "Gap", "Read", "Test"}

ImplementsImageFilter == Filter!Spec

\* The components keep the handshakes the state machine relies on, so that what
\* is proved of ControlPath holds of the accelerator.
Control == INSTANCE ControlPath WITH
  Address              <- {0, Image},
  done_burst_reader    <- reader.done,
  avm_add_burst_reader <- reader.avm_address,
  done_burst_writer    <- writer.done,
  avm_add_burst_writer <- writer.avm_address,
  done_compute         <- compute.done

ImplementsControlPath == Control!Spec

\* The program gets its answer.
HostAnswered == host = "WriteStart" ~> host = "Filling"
=============================================================================
