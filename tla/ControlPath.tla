---------------------------- MODULE ControlPath -----------------------------
(***************************************************************************)
(* The state machine of finite_state_machine.vhd closed with the three     *)
(* components it drives, each reduced to its handshake (Worker).  All of   *)
(* them share one clock: a step is one edge, at which every component      *)
(* samples the outputs the others had before the edge.                     *)
(*                                                                         *)
(* The host may pulse `enable' at any edge, also while a run is going on.  *)
(***************************************************************************)
EXTENDS FiniteStateMachine

VARIABLES done_burst_reader, avm_add_burst_reader,
          done_burst_writer, avm_add_burst_writer,
          done_compute,
          base         \* history: the start_address of the current run

vars == <<fsm, done_burst_reader, avm_add_burst_reader,
          done_burst_writer, avm_add_burst_writer, done_compute, base>>

Reader  == INSTANCE Worker WITH Address <- Nat, done <- done_burst_reader,
                                address <- avm_add_burst_reader
Writer  == INSTANCE Worker WITH Address <- Nat, done <- done_burst_writer,
                                address <- avm_add_burst_writer
Compute == INSTANCE Worker WITH Address <- {0}, done <- done_compute,
                                address <- 0

TypeOK ==
  /\ FsmTypeOK
  /\ done_burst_reader \in BOOLEAN /\ avm_add_burst_reader \in Nat
  /\ done_burst_writer \in BOOLEAN /\ avm_add_burst_writer \in Nat
  /\ done_compute \in BOOLEAN
  /\ base \in Nat

CPInit ==
  /\ Init
  /\ done_burst_reader = TRUE /\ avm_add_burst_reader = 0
  /\ done_burst_writer = TRUE /\ avm_add_burst_writer = 0
  /\ done_compute = TRUE
  /\ base \in Address

\* One rising edge of clk with these command inputs.
Tick(enable, start_address) ==
  /\ Clock(enable, start_address, done_burst_reader, done_burst_writer, done_compute)
  /\ Reader!Clock(fsm.enable_burst_reader, fsm.dummy_read_burst_reader,
                  fsm.add_burst_reader)
  /\ Writer!Clock(fsm.enable_burst_writer, FALSE, fsm.add_burst_writer)
  /\ Compute!Clock(fsm.enable_compute, FALSE, 0)
  /\ base' = IF fsm.state = "Idle" /\ enable THEN start_address ELSE base

ResetAll ==
  /\ Reset
  /\ Reader!Reset /\ Writer!Reset /\ Compute!Reset
  /\ UNCHANGED base

Next ==
  \/ \E enable \in BOOLEAN, start_address \in Address : Tick(enable, start_address)
  \/ ResetAll

Spec == CPInit /\ [][Next]_vars

\* The clock keeps ticking, and no job goes on for ever: with the bus answering,
\* burst_reader and burst_writer complete their bursts, and adaptive_threshold
\* needs no help at all.
JobsEnd ==
  \E enable \in BOOLEAN, start_address \in Address :
    /\ Tick(enable, start_address)
    /\ done_burst_reader' /\ done_burst_writer' /\ done_compute'

FairSpec ==
  /\ Spec
  /\ WF_vars(\E enable \in BOOLEAN, start_address \in Address : Tick(enable, start_address))
  /\ WF_vars(JobsEnd)
-----------------------------------------------------------------------------
RowAddress(row) == base + RowBytes * row

\* The done the state machine acts on is that of the job it has just ordered,
\* never the one left over from the job before: in a state that tests a done
\* flag the component has already latched the address of the current row
\* (comment at finite_state_machine.vhd:134).
DoneBelongsToJob ==
  /\ fsm.state \in {"ReadFirstRow", "ReadSecondRow"} =>
       avm_add_burst_reader = fsm.read_address
  /\ fsm.state = "ReadCompute" /\ ~fsm.dummy_read_burst_reader =>
       avm_add_burst_reader = fsm.read_address
  /\ fsm.state = "Write" => avm_add_burst_writer = fsm.write_address

\* The reader and the writer share one Avalon master: at most one of them has a
\* job, and the address multiplexer already points at it.
BusOwner ==
  /\ done_burst_reader \/ done_burst_writer
  /\ ~done_burst_writer => WriterOwnsBus
  /\ ~done_burst_reader => ~WriterOwnsBus

\* The image is filtered in place: while row w is being overwritten, the rows
\* up to w + 2 have been fetched completely, so that no row is fetched after it
\* was overwritten (only the last row has no row w + 2 to fetch).
WriteBehindReads ==
  ~done_burst_writer =>
    /\ done_burst_reader
    /\ \/ avm_add_burst_reader = avm_add_burst_writer + 2 * RowBytes
       \/ /\ fsm.dummy_read_burst_reader
          /\ avm_add_burst_writer = RowAddress(RowCount - 1)
          /\ avm_add_burst_reader = avm_add_burst_writer + RowBytes

\* While row w is filtered, nothing is written back, the only fetch under way is
\* that of row w + 2, and the FIFO multiplexer sends it to the FIFO of w + 2, not
\* to one of the three that hold w - 1, w and w + 1.
ComputeWindow ==
  ~done_compute =>
    /\ done_burst_writer
    /\ fsm.select_idx = Select(fsm.write_row + 2)
    /\ ~done_burst_reader => avm_add_burst_reader = RowAddress(fsm.write_row + 2)

\* The 8-bit row counters never wrap and the two address registers stay in
\* step with them, although rows and addresses are advanced in different states.
AddressesTrackRows ==
  fsm.state # "Idle" =>
    /\ fsm.write_row < RowCount
    /\ fsm.write_address = RowAddress(fsm.write_row)
    /\ fsm.read_address =
         RowAddress(IF WriterOwnsBus THEN fsm.read_row - 1 ELSE fsm.read_row)
    /\ fsm.read_row =
         fsm.write_row + (CASE fsm.state \in {"ReadFirstRow", "ReadFirstRowWait"} -> 0
                            [] fsm.state \in {"ReadSecondRow", "ReadSecondRowWait"} -> 1
                            [] fsm.state \in {"ReadCompute", "ReadComputeWait"} -> 2
                            [] WriterOwnsBus -> 3)

\* Where the accelerator may touch memory: it writes rows of the image only, and
\* it reads at most one row past the end of it.
BurstsBounded ==
  /\ ~done_burst_writer => \E row \in 0 .. RowCount - 1 : avm_add_burst_writer = RowAddress(row)
  /\ ~done_burst_reader => \E row \in 0 .. RowCount : avm_add_burst_reader = RowAddress(row)

\* What the buffer of the application requires (hps_baremetal.c:304 allocates
\* IMG_WIDTH*IMG_HEIGHT bytes): every row that is read is a row of the image.
ReadsInsideImage ==
  ~done_burst_reader => \E row \in 0 .. RowCount - 1 : avm_add_burst_reader = RowAddress(row)

\* The status bit the host polls rises, other than by a reset, only when the
\* writer has completed the job for the last row of the image.
DoneAfterLastRow ==
  [][fsm'.done /\ ~fsm.done =>
       \/ fsm.state = "Write" /\ done_burst_writer
          /\ avm_add_burst_writer = RowAddress(RowCount - 1)
       \/ ResetAll]_vars

\* A run that was started ends (or is cut short by a reset).
RunEnds == ~fsm.done ~> fsm.done
-----------------------------------------------------------------------------
(***************************************************************************)
(* The inductive invariant: what each state of the state machine says of   *)
(* the registers and of the components, one edge after the other.          *)
(***************************************************************************)
FirstRow  == {"ReadFirstRow", "ReadFirstRowWait"}
SecondRow == {"ReadSecondRow", "ReadSecondRowWait"}
Filtering == {"ReadCompute", "ReadComputeWait"}
Writing   == {"Write", "WriteWait"}

EnablesFollowState ==
  /\ fsm.done <=> (fsm.state = "Idle")
  /\ fsm.enable_burst_reader <=>
       (fsm.state \in {"ReadFirstRowWait", "ReadSecondRowWait", "ReadComputeWait"})
  /\ fsm.enable_compute <=> (fsm.state = "ReadComputeWait")
  /\ fsm.enable_burst_writer <=> (fsm.state = "WriteWait")

JobsFollowState ==
  /\ ~done_burst_reader =>
       /\ fsm.state \in {"ReadFirstRow", "ReadSecondRow", "ReadCompute"}
       /\ ~fsm.dummy_read_burst_reader
  /\ ~done_compute => fsm.state = "ReadCompute"
  /\ ~done_burst_writer => fsm.state = "Write"

RowsFollowState ==
  /\ fsm.state \in FirstRow => fsm.write_row = 0 /\ fsm.read_row = 0
  /\ fsm.state \in SecondRow => fsm.write_row = 0 /\ fsm.read_row = 1
  /\ fsm.state \in Filtering => fsm.read_row = fsm.write_row + 2
  /\ fsm.state \in Writing => fsm.read_row = fsm.write_row + 3
  /\ fsm.state # "Idle" =>
       /\ fsm.write_row < RowCount
       /\ fsm.select_idx = Select(fsm.read_row)
       /\ fsm.dummy_read_burst_reader <=>
            (fsm.state \in Filtering \cup Writing /\ fsm.write_row = RowCount - 1)

AddressesFollowState ==
  /\ fsm.state # "Idle" => fsm.write_address = RowAddress(fsm.write_row)
  /\ fsm.state \in FirstRow => fsm.read_address = fsm.write_address
  /\ fsm.state \in SecondRow => fsm.read_address = fsm.write_address + RowBytes
  /\ fsm.state \in Filtering \cup Writing =>
       fsm.read_address = fsm.write_address + 2 * RowBytes

LatchedAddresses ==
  /\ fsm.enable_burst_reader => fsm.add_burst_reader = fsm.read_address
  /\ fsm.enable_burst_writer => fsm.add_burst_writer = fsm.write_address
  /\ fsm.state \in {"ReadFirstRow", "ReadSecondRow"} =>
       avm_add_burst_reader = fsm.read_address
  /\ fsm.state \in {"ReadCompute"} \cup Writing =>
       avm_add_burst_reader =
         IF fsm.dummy_read_burst_reader THEN fsm.write_address + RowBytes
                                        ELSE fsm.read_address
  /\ fsm.state = "ReadComputeWait" /\ fsm.dummy_read_burst_reader =>
       avm_add_burst_reader = fsm.write_address + RowBytes
  /\ fsm.state = "Write" => avm_add_burst_writer = fsm.write_address

IInv ==
  /\ TypeOK
  /\ EnablesFollowState
  /\ JobsFollowState
  /\ RowsFollowState
  /\ AddressesFollowState
  /\ LatchedAddresses
=============================================================================
