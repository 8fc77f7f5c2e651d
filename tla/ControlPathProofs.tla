------------------------- MODULE ControlPathProofs --------------------------
(***************************************************************************)
(* Proofs about ControlPath, for every image size, every start address and *)
(* every moment at which the host pulses `enable' or the board is reset.   *)
(*                                                                         *)
(* IInv is inductive: InitIInv, TickIInv (one step per action of the state *)
(* machine) and ResetIInv.  The properties follow from IInv alone.         *)
(***************************************************************************)
EXTENDS ControlPath, TLAPS

USE RowCountAssumption, ColCountAssumption, AddressAssumption

\* A row has at least one word.
LEMMA RowBytesType == RowBytes \in Nat /\ RowBytes > 0
  BY DEF RowBytes

\* The power-up state.
LEMMA InitIInv == CPInit => IInv
<1> SUFFICES ASSUME CPInit PROVE IInv
  OBVIOUS
<1> USE DEF CPInit, Init
<1>1. TypeOK
  BY DEF TypeOK, FsmTypeOK, Registers, States
<1>2. EnablesFollowState
  BY DEF EnablesFollowState
<1>3. JobsFollowState
  BY DEF JobsFollowState
<1>4. RowsFollowState
  BY DEF RowsFollowState, FirstRow, SecondRow, Filtering, Writing
<1>5. AddressesFollowState
  BY DEF AddressesFollowState, FirstRow, SecondRow, Filtering, Writing
<1>6. LatchedAddresses
  BY DEF LatchedAddresses, Writing
<1>7. QED
  BY <1>1, <1>2, <1>3, <1>4, <1>5, <1>6 DEF IInv

\* reset_n, at whatever edge it falls.
LEMMA ResetIInv == IInv /\ ResetAll => IInv'
<1> SUFFICES ASSUME IInv, ResetAll PROVE IInv'
  OBVIOUS
<1> USE DEF IInv, ResetAll, Reset, Reader!Reset, Writer!Reset, Compute!Reset
<1>1. TypeOK'
  BY DEF TypeOK, FsmTypeOK, Registers, States
<1>2. EnablesFollowState'
  BY DEF TypeOK, FsmTypeOK, Registers, EnablesFollowState
<1>3. JobsFollowState'
  BY DEF TypeOK, FsmTypeOK, Registers, JobsFollowState
<1>4. RowsFollowState'
  BY DEF TypeOK, FsmTypeOK, Registers, RowsFollowState, FirstRow, SecondRow, Filtering, Writing
<1>5. AddressesFollowState'
  BY DEF TypeOK, FsmTypeOK, Registers, AddressesFollowState, FirstRow, SecondRow, Filtering, Writing
<1>6. LatchedAddresses'
  BY DEF TypeOK, FsmTypeOK, Registers, LatchedAddresses, Writing
<1>7. QED
  BY <1>1, <1>2, <1>3, <1>4, <1>5, <1>6 DEF IInv

\* A component that is done and not enabled is still done after the edge.
LEMMA ComponentsRest ==
  ASSUME NEW enable, NEW start_address, Tick(enable, start_address),
         done_burst_reader, done_burst_writer, done_compute,
         ~fsm.enable_burst_reader, ~fsm.enable_burst_writer, ~fsm.enable_compute
  PROVE  done_burst_reader' /\ done_burst_writer' /\ done_compute'
<1>1. done_burst_reader'
  BY DEF Tick, Reader!Clock, Reader!Rest, Reader!Work, Reader!vars
<1>2. done_burst_writer'
  BY DEF Tick, Writer!Clock, Writer!Rest, Writer!Work, Writer!vars
<1>3. done_compute'
  BY DEF Tick, Compute!Clock, Compute!Rest, Compute!Work, Compute!vars
<1>4. QED
  BY <1>1, <1>2, <1>3

\* Every clock edge preserves the invariant.
LEMMA TickIInv ==
  ASSUME IInv, NEW enable \in BOOLEAN, NEW start_address \in Address,
         Tick(enable, start_address)
  PROVE  IInv'
<1> USE RowBytesType DEF IInv, TypeOK, FsmTypeOK, Registers, States, FirstRow, SecondRow, Filtering, Writing, Tick, Next8, Select, RowAddress, PastLastRow, Reader!Clock, Reader!Accept, Reader!Rest, Reader!Work, Reader!vars, Writer!Clock, Writer!Accept, Writer!Rest, Writer!Work, Writer!vars, Compute!Clock, Compute!Accept, Compute!Rest, Compute!Work, Compute!vars
<1>1. CASE Idle(enable)
  <2> USE <1>1 DEF Idle
  <2>1. FsmTypeOK'
    BY DEF FsmTypeOK
  <2>2. (done_burst_reader \in BOOLEAN)' /\ (done_burst_writer \in BOOLEAN)' /\ (done_compute \in BOOLEAN)'
    BY DEF FsmTypeOK
  <2>3. (avm_add_burst_reader \in Nat)' /\ (avm_add_burst_writer \in Nat)' /\ (base \in Nat)'
    BY DEF FsmTypeOK
  <2>4. EnablesFollowState'
    BY DEF EnablesFollowState
  <2>5. JobsFollowState'
    BY DEF JobsFollowState, EnablesFollowState
  <2>6. RowsFollowState'
    BY DEF RowsFollowState
  <2>7. AddressesFollowState'
    BY DEF AddressesFollowState, RowsFollowState
  <2>8. LatchedAddresses'
    BY DEF LatchedAddresses, JobsFollowState, EnablesFollowState, AddressesFollowState, RowsFollowState
  <2>9. QED
    BY <2>1, <2>2, <2>3, <2>4, <2>5, <2>6, <2>7, <2>8 DEF IInv
<1>2. CASE Start(enable, start_address)
  <2> USE <1>2 DEF Start
  <2>1. FsmTypeOK'
    <3>1. start_address \in Nat /\ Select(0) \in 0..3
      BY DEF Select
    <3>2. QED
      <4>1. DOMAIN fsm' = Registers /\ fsm'.state \in States
        BY <3>1
      <4>2. /\ fsm'.enable_burst_reader \in BOOLEAN /\ fsm'.enable_burst_writer \in BOOLEAN
            /\ fsm'.enable_compute \in BOOLEAN
            /\ fsm'.done \in BOOLEAN /\ fsm'.clr_all \in BOOLEAN
        BY <3>1
      <4>3. fsm'.dummy_read_burst_reader \in BOOLEAN
        BY <3>1
      <4>4. /\ fsm'.select_idx \in 0..3
            /\ fsm'.read_row \in 0..255 /\ fsm'.write_row \in 0..255
        BY <3>1
      <4>5. /\ fsm'.add_burst_reader \in Nat /\ fsm'.add_burst_writer \in Nat
            /\ fsm'.read_address \in Nat /\ fsm'.write_address \in Nat
        BY <3>1
      <4>6. QED
        BY <4>1, <4>2, <4>3, <4>4, <4>5 DEF FsmTypeOK
  <2>2. (done_burst_reader \in BOOLEAN)' /\ (done_burst_writer \in BOOLEAN)' /\ (done_compute \in BOOLEAN)'
    BY DEF FsmTypeOK
  <2>3. (avm_add_burst_reader \in Nat)' /\ (avm_add_burst_writer \in Nat)' /\ (base \in Nat)'
    BY DEF FsmTypeOK
  <2>4. EnablesFollowState'
    BY DEF EnablesFollowState
  <2>5. JobsFollowState'
    BY DEF JobsFollowState, EnablesFollowState
  <2>6. RowsFollowState'
    BY DEF RowsFollowState
  <2>7. AddressesFollowState'
    BY DEF AddressesFollowState, RowsFollowState
  <2>8. LatchedAddresses'
    BY DEF LatchedAddresses, JobsFollowState, EnablesFollowState, AddressesFollowState, RowsFollowState
  <2>9. QED
    BY <2>1, <2>2, <2>3, <2>4, <2>5, <2>6, <2>7, <2>8 DEF IInv
<1>3. CASE ReadFirstRowWait
  <2> USE <1>3 DEF ReadFirstRowWait
  <2>1. FsmTypeOK'
    BY DEF FsmTypeOK
  <2>2. (done_burst_reader \in BOOLEAN)' /\ (done_burst_writer \in BOOLEAN)' /\ (done_compute \in BOOLEAN)'
    BY DEF FsmTypeOK
  <2>3. (avm_add_burst_reader \in Nat)' /\ (avm_add_burst_writer \in Nat)' /\ (base \in Nat)'
    BY DEF FsmTypeOK
  <2>4. EnablesFollowState'
    BY DEF EnablesFollowState
  <2>5. JobsFollowState'
    BY DEF JobsFollowState, EnablesFollowState
  <2>6. RowsFollowState'
    BY DEF RowsFollowState
  <2>7. AddressesFollowState'
    BY DEF AddressesFollowState, RowsFollowState
  <2>8. LatchedAddresses'
    BY DEF LatchedAddresses, JobsFollowState, EnablesFollowState, AddressesFollowState, RowsFollowState
  <2>9. QED
    BY <2>1, <2>2, <2>3, <2>4, <2>5, <2>6, <2>7, <2>8 DEF IInv
<1>4. CASE FirstRowRead(done_burst_reader)
  <2> USE <1>4 DEF FirstRowRead
  <2>1. FsmTypeOK'
    BY DEF FsmTypeOK
  <2>2. (done_burst_reader \in BOOLEAN)' /\ (done_burst_writer \in BOOLEAN)' /\ (done_compute \in BOOLEAN)'
    BY DEF FsmTypeOK
  <2>3. (avm_add_burst_reader \in Nat)' /\ (avm_add_burst_writer \in Nat)' /\ (base \in Nat)'
    BY DEF FsmTypeOK
  <2>4. EnablesFollowState'
    BY DEF EnablesFollowState
  <2>5. JobsFollowState'
    <3>1. done_burst_reader /\ done_burst_writer /\ done_compute
      BY DEF JobsFollowState
    <3>2. ~fsm.enable_burst_reader /\ ~fsm.enable_burst_writer /\ ~fsm.enable_compute
      BY DEF EnablesFollowState
    <3>3. done_burst_reader' /\ done_burst_writer' /\ done_compute'
      BY <3>1, <3>2, ComponentsRest
    <3>4. QED
      BY <3>3 DEF JobsFollowState
  <2>6. RowsFollowState'
    BY DEF RowsFollowState
  <2>7. AddressesFollowState'
    BY DEF AddressesFollowState, RowsFollowState
  <2>8. LatchedAddresses'
    BY DEF LatchedAddresses, JobsFollowState, EnablesFollowState, AddressesFollowState, RowsFollowState
  <2>9. QED
    BY <2>1, <2>2, <2>3, <2>4, <2>5, <2>6, <2>7, <2>8 DEF IInv
<1>5. CASE ReadSecondRowWait
  <2> USE <1>5 DEF ReadSecondRowWait
  <2>1. FsmTypeOK'
    BY DEF FsmTypeOK
  <2>2. (done_burst_reader \in BOOLEAN)' /\ (done_burst_writer \in BOOLEAN)' /\ (done_compute \in BOOLEAN)'
    BY DEF FsmTypeOK
  <2>3. (avm_add_burst_reader \in Nat)' /\ (avm_add_burst_writer \in Nat)' /\ (base \in Nat)'
    BY DEF FsmTypeOK
  <2>4. EnablesFollowState'
    BY DEF EnablesFollowState
  <2>5. JobsFollowState'
    BY DEF JobsFollowState, EnablesFollowState
  <2>6. RowsFollowState'
    BY DEF RowsFollowState
  <2>7. AddressesFollowState'
    BY DEF AddressesFollowState, RowsFollowState
  <2>8. LatchedAddresses'
    BY DEF LatchedAddresses, JobsFollowState, EnablesFollowState, AddressesFollowState, RowsFollowState
  <2>9. QED
    BY <2>1, <2>2, <2>3, <2>4, <2>5, <2>6, <2>7, <2>8 DEF IInv
<1>6. CASE SecondRowRead(done_burst_reader)
  <2> USE <1>6 DEF SecondRowRead
  <2>1. FsmTypeOK'
    BY DEF FsmTypeOK
  <2>2. (done_burst_reader \in BOOLEAN)' /\ (done_burst_writer \in BOOLEAN)' /\ (done_compute \in BOOLEAN)'
    BY DEF FsmTypeOK
  <2>3. (avm_add_burst_reader \in Nat)' /\ (avm_add_burst_writer \in Nat)' /\ (base \in Nat)'
    BY DEF FsmTypeOK
  <2>4. EnablesFollowState'
    BY DEF EnablesFollowState
  <2>5. JobsFollowState'
    <3>1. done_burst_reader /\ done_burst_writer /\ done_compute
      BY DEF JobsFollowState
    <3>2. ~fsm.enable_burst_reader /\ ~fsm.enable_burst_writer /\ ~fsm.enable_compute
      BY DEF EnablesFollowState
    <3>3. done_burst_reader' /\ done_burst_writer' /\ done_compute'
      BY <3>1, <3>2, ComponentsRest
    <3>4. QED
      BY <3>3 DEF JobsFollowState
  <2>6. RowsFollowState'
    BY DEF RowsFollowState
  <2>7. AddressesFollowState'
    BY DEF AddressesFollowState, RowsFollowState
  <2>8. LatchedAddresses'
    BY DEF LatchedAddresses, JobsFollowState, EnablesFollowState, AddressesFollowState, RowsFollowState
  <2>9. QED
    BY <2>1, <2>2, <2>3, <2>4, <2>5, <2>6, <2>7, <2>8 DEF IInv
<1>7. CASE ReadComputeWait
  <2> USE <1>7 DEF ReadComputeWait
  <2>1. FsmTypeOK'
    BY DEF FsmTypeOK
  <2>2. (done_burst_reader \in BOOLEAN)' /\ (done_burst_writer \in BOOLEAN)' /\ (done_compute \in BOOLEAN)'
    BY DEF FsmTypeOK
  <2>3. (avm_add_burst_reader \in Nat)' /\ (avm_add_burst_writer \in Nat)' /\ (base \in Nat)'
    BY DEF FsmTypeOK
  <2>4. EnablesFollowState'
    BY DEF EnablesFollowState
  <2>5. JobsFollowState'
    BY DEF JobsFollowState, EnablesFollowState
  <2>6. RowsFollowState'
    BY DEF RowsFollowState
  <2>7. AddressesFollowState'
    BY DEF AddressesFollowState, RowsFollowState
  <2>8. LatchedAddresses'
    BY DEF LatchedAddresses, JobsFollowState, EnablesFollowState, AddressesFollowState, RowsFollowState
  <2>9. QED
    BY <2>1, <2>2, <2>3, <2>4, <2>5, <2>6, <2>7, <2>8 DEF IInv
<1>8. CASE RowComputed(done_burst_reader, done_compute)
  <2> USE <1>8 DEF RowComputed
  <2>1. FsmTypeOK'
    BY DEF FsmTypeOK
  <2>2. (done_burst_reader \in BOOLEAN)' /\ (done_burst_writer \in BOOLEAN)' /\ (done_compute \in BOOLEAN)'
    BY DEF FsmTypeOK
  <2>3. (avm_add_burst_reader \in Nat)' /\ (avm_add_burst_writer \in Nat)' /\ (base \in Nat)'
    BY DEF FsmTypeOK
  <2>4. EnablesFollowState'
    BY DEF EnablesFollowState
  <2>5. JobsFollowState'
    <3>1. done_burst_reader /\ done_burst_writer /\ done_compute
      BY DEF JobsFollowState
    <3>2. ~fsm.enable_burst_reader /\ ~fsm.enable_burst_writer /\ ~fsm.enable_compute
      BY DEF EnablesFollowState
    <3>3. done_burst_reader' /\ done_burst_writer' /\ done_compute'
      BY <3>1, <3>2, ComponentsRest
    <3>4. QED
      BY <3>3 DEF JobsFollowState
  <2>6. RowsFollowState'
    BY DEF RowsFollowState
  <2>7. AddressesFollowState'
    BY DEF AddressesFollowState, RowsFollowState
  <2>8. LatchedAddresses'
    <3>1. fsm.enable_burst_writer' /\ ~fsm.enable_burst_reader' /\ fsm.state' = "WriteWait"
      BY DEF EnablesFollowState
    <3>2. avm_add_burst_reader' = avm_add_burst_reader
      BY DEF EnablesFollowState
    <3>3. QED
      BY <3>1, <3>2 DEF LatchedAddresses
  <2>9. QED
    BY <2>1, <2>2, <2>3, <2>4, <2>5, <2>6, <2>7, <2>8 DEF IInv
<1>9. CASE WriteWait
  <2> USE <1>9 DEF WriteWait
  <2>1. FsmTypeOK'
    BY DEF FsmTypeOK
  <2>2. (done_burst_reader \in BOOLEAN)' /\ (done_burst_writer \in BOOLEAN)' /\ (done_compute \in BOOLEAN)'
    BY DEF FsmTypeOK
  <2>3. (avm_add_burst_reader \in Nat)' /\ (avm_add_burst_writer \in Nat)' /\ (base \in Nat)'
    BY DEF FsmTypeOK
  <2>4. EnablesFollowState'
    BY DEF EnablesFollowState
  <2>5. JobsFollowState'
    BY DEF JobsFollowState, EnablesFollowState
  <2>6. RowsFollowState'
    BY DEF RowsFollowState
  <2>7. AddressesFollowState'
    BY DEF AddressesFollowState, RowsFollowState
  <2>8. LatchedAddresses'
    BY DEF LatchedAddresses, JobsFollowState, EnablesFollowState, AddressesFollowState, RowsFollowState
  <2>9. QED
    BY <2>1, <2>2, <2>3, <2>4, <2>5, <2>6, <2>7, <2>8 DEF IInv
<1>10. CASE RowWritten(done_burst_writer)
  <2> USE <1>10 DEF RowWritten
  <2>1. FsmTypeOK'
    <3>1. fsm.write_row < RowCount /\ Next8(fsm.write_row) \in 0..255
      BY DEF RowsFollowState
    <3>2. QED
      <4>1. DOMAIN fsm' = Registers /\ fsm'.state \in States
        BY <3>1
      <4>2. /\ fsm'.enable_burst_reader \in BOOLEAN /\ fsm'.enable_burst_writer \in BOOLEAN
            /\ fsm'.enable_compute \in BOOLEAN
            /\ fsm'.done \in BOOLEAN /\ fsm'.clr_all \in BOOLEAN
        BY <3>1
      <4>3. fsm'.dummy_read_burst_reader \in BOOLEAN
        BY <3>1
      <4>4. /\ fsm'.select_idx \in 0..3
            /\ fsm'.read_row \in 0..255 /\ fsm'.write_row \in 0..255
        BY <3>1
      <4>5. /\ fsm'.add_burst_reader \in Nat /\ fsm'.add_burst_writer \in Nat
            /\ fsm'.read_address \in Nat /\ fsm'.write_address \in Nat
        BY <3>1
      <4>6. QED
        BY <4>1, <4>2, <4>3, <4>4, <4>5 DEF FsmTypeOK
  <2>2. (done_burst_reader \in BOOLEAN)' /\ (done_burst_writer \in BOOLEAN)' /\ (done_compute \in BOOLEAN)'
    BY DEF FsmTypeOK
  <2>3. (avm_add_burst_reader \in Nat)' /\ (avm_add_burst_writer \in Nat)' /\ (base \in Nat)'
    BY DEF FsmTypeOK
  <2>4. EnablesFollowState'
    BY DEF EnablesFollowState
  <2>5. JobsFollowState'
    <3>1. done_burst_reader /\ done_burst_writer /\ done_compute
      BY DEF JobsFollowState
    <3>2. ~fsm.enable_burst_reader /\ ~fsm.enable_burst_writer /\ ~fsm.enable_compute
      BY DEF EnablesFollowState
    <3>3. done_burst_reader' /\ done_burst_writer' /\ done_compute'
      BY <3>1, <3>2, ComponentsRest
    <3>4. QED
      BY <3>3 DEF JobsFollowState
  <2>6. RowsFollowState'
    <3>1. fsm.read_row = fsm.write_row + 3 /\ Next8(fsm.write_row) = fsm.write_row + 1
      BY DEF RowsFollowState
    <3>2. fsm.write_row' = fsm.write_row + 1 /\ fsm.read_row' = fsm.read_row
          /\ fsm.select_idx' = fsm.select_idx /\ fsm.state' = "ReadComputeWait"
      BY <3>1
    <3>3. fsm.dummy_read_burst_reader' <=> (fsm.write_row' = RowCount - 1)
      BY <3>1, <3>2 DEF RowsFollowState
    <3>4. QED
      BY <3>1, <3>2, <3>3 DEF RowsFollowState
  <2>7. AddressesFollowState'
    BY DEF AddressesFollowState, RowsFollowState
  <2>8. LatchedAddresses'
    BY DEF LatchedAddresses, JobsFollowState, EnablesFollowState, AddressesFollowState, RowsFollowState
  <2>9. QED
    BY <2>1, <2>2, <2>3, <2>4, <2>5, <2>6, <2>7, <2>8 DEF IInv
<1>11. CASE LastRowWritten(done_burst_writer)
  <2> USE <1>11 DEF LastRowWritten
  <2>1. FsmTypeOK'
    BY DEF FsmTypeOK
  <2>2. (done_burst_reader \in BOOLEAN)' /\ (done_burst_writer \in BOOLEAN)' /\ (done_compute \in BOOLEAN)'
    BY DEF FsmTypeOK
  <2>3. (avm_add_burst_reader \in Nat)' /\ (avm_add_burst_writer \in Nat)' /\ (base \in Nat)'
    BY DEF FsmTypeOK
  <2>4. EnablesFollowState'
    BY DEF EnablesFollowState
  <2>5. JobsFollowState'
    <3>1. done_burst_reader /\ done_burst_writer /\ done_compute
      BY DEF JobsFollowState
    <3>2. ~fsm.enable_burst_reader /\ ~fsm.enable_burst_writer /\ ~fsm.enable_compute
      BY DEF EnablesFollowState
    <3>3. done_burst_reader' /\ done_burst_writer' /\ done_compute'
      BY <3>1, <3>2, ComponentsRest
    <3>4. QED
      BY <3>3 DEF JobsFollowState
  <2>6. RowsFollowState'
    BY DEF RowsFollowState
  <2>7. AddressesFollowState'
    BY DEF AddressesFollowState, RowsFollowState
  <2>8. LatchedAddresses'
    BY DEF LatchedAddresses, JobsFollowState, EnablesFollowState, AddressesFollowState, RowsFollowState
  <2>9. QED
    BY <2>1, <2>2, <2>3, <2>4, <2>5, <2>6, <2>7, <2>8 DEF IInv
<1>12. CASE Waiting(done_burst_reader, done_burst_writer, done_compute)
  <2> USE <1>12 DEF Waiting
  <2>1. FsmTypeOK'
    BY DEF FsmTypeOK
  <2>2. (done_burst_reader \in BOOLEAN)' /\ (done_burst_writer \in BOOLEAN)' /\ (done_compute \in BOOLEAN)'
    BY DEF FsmTypeOK
  <2>3. (avm_add_burst_reader \in Nat)' /\ (avm_add_burst_writer \in Nat)' /\ (base \in Nat)'
    BY DEF FsmTypeOK
  <2>4. EnablesFollowState'
    BY DEF EnablesFollowState
  <2>5. JobsFollowState'
    BY DEF JobsFollowState, EnablesFollowState
  <2>6. RowsFollowState'
    BY DEF RowsFollowState
  <2>7. AddressesFollowState'
    BY DEF AddressesFollowState, RowsFollowState
  <2>8. LatchedAddresses'
    BY DEF LatchedAddresses, JobsFollowState, EnablesFollowState, AddressesFollowState, RowsFollowState
  <2>9. QED
    BY <2>1, <2>2, <2>3, <2>4, <2>5, <2>6, <2>7, <2>8 DEF IInv
<1>13. QED
  BY <1>1, <1>2, <1>3, <1>4, <1>5, <1>6, <1>7, <1>8, <1>9, <1>10, <1>11, <1>12 DEF Clock

LEMMA StutterIInv == IInv /\ UNCHANGED vars => IInv'
  BY DEF vars, IInv, TypeOK, FsmTypeOK, EnablesFollowState, JobsFollowState,
         RowsFollowState, AddressesFollowState, LatchedAddresses, RowAddress

\* The inductive invariant holds in every reachable state.
THEOREM Inductive == Spec => []IInv
<1>1. CPInit => IInv
  BY InitIInv
<1>2. IInv /\ [Next]_vars => IInv'
  BY TickIInv, ResetIInv, StutterIInv DEF Next
<1>3. QED
  BY <1>1, <1>2, PTL DEF Spec

\* Type correctness; in particular the 8-bit row counters and the address
\* registers stay in range.
THEOREM TypeCorrect == Spec => []TypeOK
<1>1. IInv => TypeOK
  BY DEF IInv
<1>2. QED
  BY Inductive, <1>1, PTL

\* The done flag the state machine acts on belongs to the job it has just
\* ordered (finite_state_machine.vhd:134).
THEOREM DoneBelongs == Spec => []DoneBelongsToJob
<1>1. IInv => DoneBelongsToJob
  BY DEF IInv, LatchedAddresses, DoneBelongsToJob, Writing
<1>2. QED
  BY Inductive, <1>1, PTL

\* Reader and writer never use the Avalon master at the same time, and the
\* multiplexer points at the one that does.
THEOREM OneBusOwner == Spec => []BusOwner
<1>1. IInv => BusOwner
  BY DEF IInv, TypeOK, JobsFollowState, BusOwner, WriterOwnsBus
<1>2. QED
  BY Inductive, <1>1, PTL

\* No row of the image is overwritten before the rows that need it were read.
THEOREM InPlaceSafe == Spec => []WriteBehindReads
<1>1. IInv => WriteBehindReads
  <2> SUFFICES ASSUME IInv, ~done_burst_writer
               PROVE  /\ done_burst_reader
                      /\ \/ avm_add_burst_reader = avm_add_burst_writer + 2 * RowBytes
                         \/ /\ fsm.dummy_read_burst_reader
                            /\ avm_add_burst_writer = RowAddress(RowCount - 1)
                            /\ avm_add_burst_reader = avm_add_burst_writer + RowBytes
    BY DEF WriteBehindReads
  <2> USE DEF IInv, TypeOK, FsmTypeOK
  <2>1. fsm.state = "Write" /\ done_burst_reader
    BY DEF JobsFollowState
  <2>2. /\ avm_add_burst_writer = fsm.write_address
        /\ avm_add_burst_reader =
             IF fsm.dummy_read_burst_reader THEN fsm.write_address + RowBytes
                                            ELSE fsm.read_address
    BY <2>1 DEF LatchedAddresses, Writing
  <2>3. /\ fsm.write_address = RowAddress(fsm.write_row)
        /\ fsm.read_address = fsm.write_address + 2 * RowBytes
    BY <2>1 DEF AddressesFollowState, Writing, Filtering
  <2>4. fsm.dummy_read_burst_reader => fsm.write_row = RowCount - 1
    BY <2>1 DEF RowsFollowState, Writing, Filtering
  <2>5. CASE fsm.dummy_read_burst_reader
    BY <2>1, <2>2, <2>3, <2>4, <2>5
  <2>6. CASE ~fsm.dummy_read_burst_reader
    BY <2>1, <2>2, <2>3, <2>6
  <2>7. QED
    BY <2>5, <2>6
<1>2. QED
  BY Inductive, <1>1, PTL

\* The window being filtered is complete and is not disturbed by the fetch that
\* goes on at the same time.
THEOREM WindowUndisturbed == Spec => []ComputeWindow
<1>1. IInv => ComputeWindow
  <2> SUFFICES ASSUME IInv, ~done_compute
               PROVE  /\ done_burst_writer
                      /\ fsm.select_idx = Select(fsm.write_row + 2)
                      /\ ~done_burst_reader =>
                           avm_add_burst_reader = RowAddress(fsm.write_row + 2)
    BY DEF ComputeWindow
  <2> USE DEF IInv, TypeOK, FsmTypeOK
  <2>1. fsm.state = "ReadCompute" /\ done_burst_writer
    BY DEF JobsFollowState
  <2>2. fsm.select_idx = Select(fsm.write_row + 2)
    BY <2>1 DEF RowsFollowState, Filtering
  <2>3. ASSUME ~done_burst_reader
        PROVE  avm_add_burst_reader = RowAddress(fsm.write_row + 2)
    <3>1. fsm.read_address = RowAddress(fsm.write_row) + 2 * RowBytes
      BY <2>1 DEF AddressesFollowState, Filtering
    <3>2. RowAddress(fsm.write_row) + 2 * RowBytes = RowAddress(fsm.write_row + 2)
      BY RowBytesType DEF RowAddress
    <3>3. ~fsm.dummy_read_burst_reader
      BY <2>1, <2>3 DEF JobsFollowState
    <3>4. QED
      BY <2>1, <3>1, <3>2, <3>3 DEF LatchedAddresses
  <2>4. QED
    BY <2>1, <2>2, <2>3
<1>2. QED
  BY Inductive, <1>1, PTL

\* The row counters never wrap and the addresses stay in step with them.
THEOREM AddressesInStep == Spec => []AddressesTrackRows
<1>1. IInv => AddressesTrackRows
  <2> SUFFICES ASSUME IInv, fsm.state # "Idle" PROVE AddressesTrackRows
    BY DEF AddressesTrackRows
  <2> USE RowBytesType DEF IInv, TypeOK, FsmTypeOK, FirstRow, SecondRow, Filtering, Writing, WriterOwnsBus
  <2>1. /\ fsm.write_row < RowCount
        /\ fsm.write_address = RowAddress(fsm.write_row)
    BY DEF RowsFollowState, AddressesFollowState
  <2>2. CASE fsm.state \in FirstRow
    BY <2>1, <2>2 DEF RowsFollowState, AddressesFollowState, AddressesTrackRows
  <2>3. CASE fsm.state \in SecondRow
    <3>1. fsm.write_row = 0 /\ fsm.read_row = 1 /\ fsm.read_address = fsm.write_address + RowBytes
      BY <2>3 DEF RowsFollowState, AddressesFollowState
    <3>2. fsm.read_address = RowAddress(1)
      BY <2>1, <3>1 DEF RowAddress
    <3>3. QED
      BY <2>1, <2>3, <3>1, <3>2 DEF AddressesTrackRows
  <2>4. CASE fsm.state \in Filtering \cup Writing
    <3>1. fsm.read_address = fsm.write_address + 2 * RowBytes
      BY <2>4 DEF AddressesFollowState
    <3>2. RowAddress(fsm.write_row) + 2 * RowBytes = RowAddress(fsm.write_row + 2)
      BY DEF RowAddress
    <3>3. CASE fsm.state \in Filtering
      <4>1. fsm.read_row = fsm.write_row + 2
        BY <3>3 DEF RowsFollowState
      <4>2. QED
        BY <2>1, <3>1, <3>2, <3>3, <4>1 DEF AddressesTrackRows
    <3>4. CASE fsm.state \in Writing
      <4>1. fsm.read_row = fsm.write_row + 3
        BY <3>4 DEF RowsFollowState
      <4>2. fsm.read_row - 1 = fsm.write_row + 2
        BY <4>1
      <4>3. QED
        BY <2>1, <3>1, <3>2, <3>4, <4>1, <4>2 DEF AddressesTrackRows
    <3>5. QED
      BY <2>4, <3>3, <3>4
  <2>5. QED
    BY <2>2, <2>3, <2>4 DEF States
<1>2. QED
  BY Inductive, <1>1, PTL

\* Where the accelerator may touch memory: rows of the image for writes, one row
\* further at most for reads.
THEOREM BurstsInBounds == Spec => []BurstsBounded
<1>1. IInv /\ AddressesTrackRows => BurstsBounded
  <2> SUFFICES ASSUME IInv, AddressesTrackRows PROVE BurstsBounded
    OBVIOUS
  <2> USE DEF IInv, TypeOK, FsmTypeOK
  <2>1. ASSUME ~done_burst_writer
        PROVE  \E row \in 0 .. RowCount - 1 : avm_add_burst_writer = RowAddress(row)
    <3>1. fsm.state = "Write"
      BY <2>1 DEF JobsFollowState
    <3>2. /\ avm_add_burst_writer = RowAddress(fsm.write_row)
          /\ fsm.write_row \in 0 .. RowCount - 1
      BY <3>1 DEF LatchedAddresses, AddressesTrackRows
    <3>3. QED
      BY <3>2
  <2>2. ASSUME ~done_burst_reader
        PROVE  \E row \in 0 .. RowCount : avm_add_burst_reader = RowAddress(row)
    <3>1. /\ fsm.state \in {"ReadFirstRow", "ReadSecondRow", "ReadCompute"}
          /\ ~fsm.dummy_read_burst_reader
      BY <2>2 DEF JobsFollowState
    <3>2. avm_add_burst_reader = fsm.read_address
      BY <3>1 DEF LatchedAddresses
    <3>3. fsm.read_address = RowAddress(fsm.read_row)
      BY <3>1 DEF AddressesTrackRows, WriterOwnsBus
    <3>4. fsm.read_row \in 0 .. RowCount
      BY <3>1 DEF RowsFollowState, FirstRow, SecondRow, Filtering, Writing
    <3>5. QED
      BY <3>2, <3>3, <3>4
  <2>3. QED
    BY <2>1, <2>2 DEF BurstsBounded
<1>2. QED
  BY Inductive, AddressesInStep, <1>1, PTL

\* The host is told that the image is done only after its last row was written.
THEOREM DoneIsComplete == Spec => DoneAfterLastRow
<1> DEFINE Completed == \/ /\ fsm.state = "Write" /\ done_burst_writer
                           /\ avm_add_burst_writer = RowAddress(RowCount - 1)
                        \/ ResetAll
<1>1. ASSUME IInv, [Next]_vars, fsm'.done, ~fsm.done
      PROVE  Completed
  <2> USE <1>1 DEF IInv, TypeOK, FsmTypeOK, Registers
  <2>1. CASE ResetAll
    BY <2>1
  <2>2. ASSUME NEW enable \in BOOLEAN, NEW start_address \in Address,
               Tick(enable, start_address)
        PROVE  Completed
    <3>1. LastRowWritten(done_burst_writer)
      BY <2>2 DEF Tick, Clock, EnablesFollowState, Idle, Start, ReadFirstRowWait,
           FirstRowRead, ReadSecondRowWait, SecondRowRead, ReadComputeWait, RowComputed,
           WriteWait, RowWritten, Waiting
    <3>2. fsm.state = "Write" /\ done_burst_writer /\ fsm.write_row = RowCount - 1
      BY <3>1, RowCountAssumption DEF LastRowWritten, Next8, RowsFollowState, Writing
    <3>3. avm_add_burst_writer = RowAddress(RowCount - 1)
      BY <3>2 DEF LatchedAddresses, AddressesFollowState
    <3>4. QED
      BY <3>2, <3>3
  <2>3. CASE UNCHANGED vars
    BY <2>3 DEF vars
  <2>4. QED
    BY <2>1, <2>2, <2>3 DEF Next
<1>2. IInv /\ [Next]_vars => [fsm'.done /\ ~fsm.done => Completed]_vars
  BY <1>1
<1>3. QED
  BY Inductive, <1>2, PTL DEF DoneAfterLastRow, Spec
=============================================================================
