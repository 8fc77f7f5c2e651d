------------------------- MODULE FiniteStateMachine -------------------------
(***************************************************************************)
(* finite_state_machine.vhd: the controller of the accelerator.  It makes  *)
(* the burst reader fetch one image row after the other into the row FIFOs *)
(* and, from the third row on, lets the threshold component filter the     *)
(* middle row of the last three while the next row is being fetched, then  *)
(* has the burst writer put the filtered row back where it came from.      *)
(*                                                                         *)
(* Every action is one rising clock edge; its parameters are the inputs    *)
(* sampled at that edge.  A field of fsm that an action does not mention   *)
(* keeps its value, as a VHDL signal does.                                 *)
(***************************************************************************)
EXTENDS Naturals

CONSTANTS RowCount,    \* row_count: rows of the image, 240 in the code
          ColCount,    \* col_count: 32-bit words in a row, 80 in the code
          Address      \* 32-bit addresses

ASSUME RowCountAssumption == RowCount \in Nat /\ 2 <= RowCount /\ RowCount + 2 < 256
ASSUME ColCountAssumption == ColCount \in Nat /\ 0 < ColCount
ASSUME AddressAssumption  == Address \subseteq Nat

VARIABLE fsm           \* the registers of the component

States == { "Idle", "ReadFirstRowWait", "ReadFirstRow", "ReadSecondRowWait",
            "ReadSecondRow", "ReadComputeWait", "ReadCompute", "WriteWait", "Write" }

Registers == { "state", "enable_burst_reader", "enable_burst_writer", "enable_compute",
               "dummy_read_burst_reader", "done", "clr_all", "select_idx",
               "add_burst_reader", "add_burst_writer",
               "read_row", "write_row", "read_address", "write_address" }

FsmTypeOK ==
  /\ DOMAIN fsm = Registers
  /\ fsm.state \in States
  /\ fsm.enable_burst_reader \in BOOLEAN /\ fsm.enable_burst_writer \in BOOLEAN
  /\ fsm.enable_compute \in BOOLEAN /\ fsm.dummy_read_burst_reader \in BOOLEAN
  /\ fsm.done \in BOOLEAN /\ fsm.clr_all \in BOOLEAN
  /\ fsm.select_idx \in 0..3
  /\ fsm.add_burst_reader \in Nat /\ fsm.add_burst_writer \in Nat
  /\ fsm.read_row \in 0..255 /\ fsm.write_row \in 0..255
  /\ fsm.read_address \in Nat /\ fsm.write_address \in Nat

RowBytes == 4 * ColCount

\* read_row and write_row are unsigned(7 downto 0).
Next8(row) == (row + 1) % 256

\* select_idx is read_row(1 downto 0).
Select(row) == row % 4

\* The address and row registers are not reset; an FPGA register powers up as 0.
Init ==
  fsm = [ state |-> "Idle",
          enable_burst_reader |-> FALSE, enable_burst_writer |-> FALSE,
          enable_compute |-> FALSE, dummy_read_burst_reader |-> FALSE,
          done |-> TRUE, clr_all |-> FALSE, select_idx |-> 0,
          add_burst_reader |-> 0, add_burst_writer |-> 0,
          read_row |-> 0, write_row |-> 0,
          read_address |-> 0, write_address |-> 0 ]

\* reset_n = '0' (asynchronous).
Reset ==
  fsm' = [fsm EXCEPT !.state = "Idle",
                     !.enable_burst_reader = FALSE, !.enable_burst_writer = FALSE,
                     !.enable_compute = FALSE, !.dummy_read_burst_reader = FALSE,
                     !.done = TRUE, !.clr_all = FALSE, !.select_idx = 0]
-----------------------------------------------------------------------------
Idle(enable) ==
  /\ fsm.state = "Idle"
  /\ ~enable
  /\ fsm' = [fsm EXCEPT !.clr_all = FALSE, !.dummy_read_burst_reader = FALSE,
                        !.select_idx = 0]

Start(enable, start_address) ==
  /\ fsm.state = "Idle"
  /\ enable
  /\ fsm' = [fsm EXCEPT !.state = "ReadFirstRowWait",
                        !.clr_all = TRUE, !.dummy_read_burst_reader = FALSE,
                        !.enable_burst_reader = TRUE,
                        !.add_burst_reader = start_address,
                        !.read_address = start_address,
                        !.write_address = start_address,
                        !.read_row = 0, !.write_row = 0,
                        !.select_idx = Select(0), !.done = FALSE]

\* The extra cycle: the done of a component falls one edge after its enable.
ReadFirstRowWait ==
  /\ fsm.state = "ReadFirstRowWait"
  /\ fsm' = [fsm EXCEPT !.state = "ReadFirstRow", !.clr_all = FALSE,
                        !.enable_burst_reader = FALSE]

FirstRowRead(reader_done) ==
  /\ fsm.state = "ReadFirstRow"
  /\ reader_done
  /\ fsm' = [fsm EXCEPT !.state = "ReadSecondRowWait", !.clr_all = FALSE,
                        !.read_row = Next8(@),
                        !.read_address = @ + RowBytes,
                        !.add_burst_reader = fsm.read_address + RowBytes,
                        !.select_idx = Select(Next8(fsm.read_row)),
                        !.enable_burst_reader = TRUE]

ReadSecondRowWait ==
  /\ fsm.state = "ReadSecondRowWait"
  /\ fsm' = [fsm EXCEPT !.state = "ReadSecondRow", !.clr_all = FALSE,
                        !.enable_burst_reader = FALSE]

\* Mutant of SecondRowRead: without the extra cycle.
SecondRowReadNoWait(reader_done) ==
  /\ fsm.state = "ReadSecondRow"
  /\ reader_done
  /\ fsm' = [fsm EXCEPT !.state = "ReadCompute",
                        !.read_row = Next8(@),
                        !.read_address = @ + RowBytes,
                        !.add_burst_reader = fsm.read_address + RowBytes,
                        !.select_idx = Select(Next8(fsm.read_row)),
                        !.enable_burst_reader = TRUE,
                        !.enable_compute = TRUE]

\* Two rows are in: fetch the third and filter the first at the same time.
SecondRowRead(reader_done) ==
  /\ fsm.state = "ReadSecondRow"
  /\ reader_done
  /\ fsm' = [fsm EXCEPT !.state = "ReadComputeWait", !.clr_all = FALSE,
                        !.read_row = Next8(@),
                        !.read_address = @ + RowBytes,
                        !.add_burst_reader = fsm.read_address + RowBytes,
                        !.select_idx = Select(Next8(fsm.read_row)),
                        !.enable_burst_reader = TRUE,
                        !.enable_compute = TRUE]

ReadComputeWait ==
  /\ fsm.state = "ReadComputeWait"
  /\ fsm' = [fsm EXCEPT !.state = "ReadCompute", !.clr_all = FALSE,
                        !.enable_burst_reader = FALSE, !.enable_compute = FALSE]

\* Mutant of RowComputed: the fetch of the next row is not awaited.
RowComputedTooSoon(reader_done, compute_done) ==
  /\ fsm.state = "ReadCompute"
  /\ compute_done
  /\ fsm' = [fsm EXCEPT !.state = "WriteWait", !.clr_all = FALSE,
                        !.read_row = Next8(@),
                        !.select_idx = Select(Next8(fsm.read_row)),
                        !.enable_burst_writer = TRUE,
                        !.add_burst_writer = fsm.write_address]

RowComputed(reader_done, compute_done) ==
  /\ fsm.state = "ReadCompute"
  /\ reader_done /\ compute_done
  /\ fsm' = [fsm EXCEPT !.state = "WriteWait", !.clr_all = FALSE,
                        !.read_row = Next8(@),
                        !.select_idx = Select(Next8(fsm.read_row)),
                        !.enable_burst_writer = TRUE,
                        !.add_burst_writer = fsm.write_address]

WriteWait ==
  /\ fsm.state = "WriteWait"
  /\ fsm' = [fsm EXCEPT !.state = "Write", !.clr_all = FALSE,
                        !.enable_burst_writer = FALSE]

\* Mutant of PastLastRow: two rows too early.
PastLastRowEarly(read_row) == read_row + 1 >= RowCount

\* The read that goes with this row has no row of the image left to fetch.
PastLastRow(read_row) == read_row > RowCount

\* Mutant of RowWritten: the read address stays where it is.
RowWrittenSameAddress(writer_done) ==
  /\ fsm.state = "Write"
  /\ writer_done
  /\ Next8(fsm.write_row) < RowCount
  /\ fsm' = [fsm EXCEPT !.state = "ReadComputeWait", !.clr_all = FALSE,
                        !.write_row = Next8(@),
                        !.write_address = @ + RowBytes,
                        !.add_burst_reader = fsm.read_address + RowBytes,
                        !.enable_burst_reader = TRUE,
                        !.dummy_read_burst_reader =
                           IF PastLastRow(fsm.read_row) THEN TRUE ELSE @,
                        !.enable_compute = TRUE]

RowWritten(writer_done) ==
  /\ fsm.state = "Write"
  /\ writer_done
  /\ Next8(fsm.write_row) < RowCount
  /\ fsm' = [fsm EXCEPT !.state = "ReadComputeWait", !.clr_all = FALSE,
                        !.write_row = Next8(@),
                        !.write_address = @ + RowBytes,
                        !.read_address = @ + RowBytes,
                        !.add_burst_reader = fsm.read_address + RowBytes,
                        !.enable_burst_reader = TRUE,
                        !.dummy_read_burst_reader =
                           IF PastLastRow(fsm.read_row) THEN TRUE ELSE @,
                        !.enable_compute = TRUE]

\* Mutants of LastRowWritten: the writer is not awaited; the last row is missed.
LastRowWrittenTooSoon(writer_done) ==
  /\ fsm.state = "Write"
  /\ Next8(fsm.write_row) >= RowCount
  /\ fsm' = [fsm EXCEPT !.state = "Idle", !.clr_all = FALSE,
                        !.write_row = Next8(@),
                        !.write_address = @ + RowBytes,
                        !.done = TRUE]
LastRowWrittenMissed(writer_done) ==
  /\ fsm.state = "Write"
  /\ writer_done
  /\ Next8(fsm.write_row) > RowCount
  /\ fsm' = [fsm EXCEPT !.state = "Idle", !.clr_all = FALSE,
                        !.write_row = Next8(@),
                        !.write_address = @ + RowBytes,
                        !.done = TRUE]

LastRowWritten(writer_done) ==
  /\ fsm.state = "Write"
  /\ writer_done
  /\ Next8(fsm.write_row) >= RowCount
  /\ fsm' = [fsm EXCEPT !.state = "Idle", !.clr_all = FALSE,
                        !.write_row = Next8(@),
                        !.write_address = @ + RowBytes,
                        !.done = TRUE]

\* An edge at which the awaited done is still low.
Waiting(reader_done, writer_done, compute_done) ==
  /\ \/ fsm.state \in {"ReadFirstRow", "ReadSecondRow"} /\ ~reader_done
     \/ fsm.state = "ReadCompute" /\ ~(reader_done /\ compute_done)
     \/ fsm.state = "Write" /\ ~writer_done
  /\ fsm' = [fsm EXCEPT !.clr_all = FALSE]

Clock(enable, start_address, reader_done, writer_done, compute_done) ==
  \/ Idle(enable)
  \/ Start(enable, start_address)
  \/ ReadFirstRowWait
  \/ FirstRowRead(reader_done)
  \/ ReadSecondRowWait
  \/ SecondRowRead(reader_done)
  \/ ReadComputeWait
  \/ RowComputed(reader_done, compute_done)
  \/ WriteWait
  \/ RowWritten(writer_done)
  \/ LastRowWritten(writer_done)
  \/ Waiting(reader_done, writer_done, compute_done)
-----------------------------------------------------------------------------
\* Mutant of WriterOwnsBus: the multiplexer switches back too soon.
WriterOwnsBusBriefly == fsm.state = "WriteWait"

\* The Avalon master is driven by the writer in these states, else by the reader.
WriterOwnsBus == fsm.state \in {"Write", "WriteWait"}
=============================================================================
