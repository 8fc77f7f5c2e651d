------------------------- MODULE AcceleratorProofs --------------------------
(***************************************************************************)
(* Proofs about Accelerator, for every image size the counters allow and   *)
(* every timing of the program, the memory and the reset button:           *)
(*   - the handshakes, the control path and the bus (ControlRefined);      *)
(*   - what the memory and the FIFOs hold (RowsStayIntact);                *)
(*   - that the accelerator implements ImageFilter (ImageFiltered).        *)
(***************************************************************************)
EXTENDS Accelerator, TLAPS, SequenceTheorems

USE ColCountAssumption

-----------------------------------------------------------------------------
(***************************************************************************)
(* The handshakes.  Each component's registers keep their types, and `done'*)
(* is what Worker says it is.                                              *)
(***************************************************************************)
ReaderRegisters ==
  /\ Reader!TypeOK
  /\ reader.done <=> reader.state = "Idle"
  /\ reader.state = "Read" => reader.count < ColCount

WriterRegisters ==
  /\ Writer!TypeOK
  /\ writer.done <=> writer.state = "Idle"
  /\ writer.state \in {"HasReq", "HasData"} => writer.count \in 1 .. ColCount - 1

ComputeFields ==
  { "state", "ColCounter", "done", "row_rdreq", "row_wrreq", "row_data", "last_q",
    "last_result", "current_result", "next_result", "ofifo_data", "ofifo_wrreq",
    "ofifo_sclr" }

ComputeRegisters ==
  /\ DOMAIN compute = ComputeFields /\ Thresh!TypeOK
  /\ compute.done => compute.state = "IdleCompute"
  /\ compute.state \in {"ReadDelay", "FirstCompute"} => compute.ColCounter = 0
  /\ compute.state = "Compute" =>
       /\ compute.ColCounter % 4 = 0
       /\ compute.ColCounter \in 4 .. 4 * ColCount - 8
  /\ compute.state \in {"LastCompute", "LastComputeWrite"} =>
       compute.ColCounter = 4 * ColCount - 4

SlaveRegisters ==
  /\ slave \in [RegStartAddress : {0, Image}, Start : BOOLEAN, avs_rddata : {0, 1, Image}]
  /\ host \in Host!Places

Handshakes ==
  /\ Fsm!FsmTypeOK
  /\ ReaderRegisters /\ WriterRegisters /\ ComputeRegisters /\ SlaveRegisters

\* A clock edge of the state machine.
LEMMA FsmStep ==
  ASSUME Fsm!FsmTypeOK, NEW e, NEW a \in Nat, NEW r, NEW w, NEW c,
         Fsm!Clock(e, a, r, w, c)
  PROVE  Fsm!FsmTypeOK'
<1> USE DEF Fsm!FsmTypeOK, Fsm!Registers, Fsm!States
<1>0. Fsm!RowBytes \in Nat
  BY DEF Fsm!RowBytes
<1>1. CASE Fsm!Idle(e)
  BY <1>1 DEF Fsm!Idle
<1>2. CASE Fsm!Start(e, a)
  <2>1. DOMAIN fsm' = Fsm!Registers /\ fsm'.state \in Fsm!States
    BY <1>2 DEF Fsm!Start
  <2>2. /\ fsm'.enable_burst_reader \in BOOLEAN /\ fsm'.enable_burst_writer \in BOOLEAN
        /\ fsm'.enable_compute \in BOOLEAN /\ fsm'.dummy_read_burst_reader \in BOOLEAN
        /\ fsm'.done \in BOOLEAN /\ fsm'.clr_all \in BOOLEAN
    BY <1>2 DEF Fsm!Start
  <2>3. /\ fsm'.select_idx \in 0..3
        /\ fsm'.read_row \in 0..255 /\ fsm'.write_row \in 0..255
    BY <1>2 DEF Fsm!Start, Fsm!Next8, Fsm!Select
  <2>4. /\ fsm'.add_burst_reader \in Nat /\ fsm'.add_burst_writer \in Nat
        /\ fsm'.read_address \in Nat /\ fsm'.write_address \in Nat
    BY <1>0, <1>2 DEF Fsm!Start
  <2>5. QED
    BY <2>1, <2>2, <2>3, <2>4
<1>3. CASE Fsm!ReadFirstRowWait
  BY <1>3 DEF Fsm!ReadFirstRowWait
<1>4. CASE Fsm!FirstRowRead(r)
  <2>1. DOMAIN fsm' = Fsm!Registers /\ fsm'.state \in Fsm!States
    BY <1>4 DEF Fsm!FirstRowRead
  <2>2. /\ fsm'.enable_burst_reader \in BOOLEAN /\ fsm'.enable_burst_writer \in BOOLEAN
        /\ fsm'.enable_compute \in BOOLEAN /\ fsm'.dummy_read_burst_reader \in BOOLEAN
        /\ fsm'.done \in BOOLEAN /\ fsm'.clr_all \in BOOLEAN
    BY <1>4 DEF Fsm!FirstRowRead
  <2>3. /\ fsm'.select_idx \in 0..3
        /\ fsm'.read_row \in 0..255 /\ fsm'.write_row \in 0..255
    BY <1>4 DEF Fsm!FirstRowRead, Fsm!Next8, Fsm!Select
  <2>4. /\ fsm'.add_burst_reader \in Nat /\ fsm'.add_burst_writer \in Nat
        /\ fsm'.read_address \in Nat /\ fsm'.write_address \in Nat
    BY <1>0, <1>4 DEF Fsm!FirstRowRead
  <2>5. QED
    BY <2>1, <2>2, <2>3, <2>4
<1>5. CASE Fsm!ReadSecondRowWait
  BY <1>5 DEF Fsm!ReadSecondRowWait
<1>6. CASE Fsm!SecondRowRead(r)
  <2>1. DOMAIN fsm' = Fsm!Registers /\ fsm'.state \in Fsm!States
    BY <1>6 DEF Fsm!SecondRowRead
  <2>2. /\ fsm'.enable_burst_reader \in BOOLEAN /\ fsm'.enable_burst_writer \in BOOLEAN
        /\ fsm'.enable_compute \in BOOLEAN /\ fsm'.dummy_read_burst_reader \in BOOLEAN
        /\ fsm'.done \in BOOLEAN /\ fsm'.clr_all \in BOOLEAN
    BY <1>6 DEF Fsm!SecondRowRead
  <2>3. /\ fsm'.select_idx \in 0..3
        /\ fsm'.read_row \in 0..255 /\ fsm'.write_row \in 0..255
    BY <1>6 DEF Fsm!SecondRowRead, Fsm!Next8, Fsm!Select
  <2>4. /\ fsm'.add_burst_reader \in Nat /\ fsm'.add_burst_writer \in Nat
        /\ fsm'.read_address \in Nat /\ fsm'.write_address \in Nat
    BY <1>0, <1>6 DEF Fsm!SecondRowRead
  <2>5. QED
    BY <2>1, <2>2, <2>3, <2>4
<1>7. CASE Fsm!ReadComputeWait
  BY <1>7 DEF Fsm!ReadComputeWait
<1>8. CASE Fsm!RowComputed(r, c)
  <2>1. DOMAIN fsm' = Fsm!Registers /\ fsm'.state \in Fsm!States
    BY <1>8 DEF Fsm!RowComputed
  <2>2. /\ fsm'.enable_burst_reader \in BOOLEAN /\ fsm'.enable_burst_writer \in BOOLEAN
        /\ fsm'.enable_compute \in BOOLEAN /\ fsm'.dummy_read_burst_reader \in BOOLEAN
        /\ fsm'.done \in BOOLEAN /\ fsm'.clr_all \in BOOLEAN
    BY <1>8 DEF Fsm!RowComputed
  <2>3. /\ fsm'.select_idx \in 0..3
        /\ fsm'.read_row \in 0..255 /\ fsm'.write_row \in 0..255
    BY <1>8 DEF Fsm!RowComputed, Fsm!Next8, Fsm!Select
  <2>4. /\ fsm'.add_burst_reader \in Nat /\ fsm'.add_burst_writer \in Nat
        /\ fsm'.read_address \in Nat /\ fsm'.write_address \in Nat
    BY <1>0, <1>8 DEF Fsm!RowComputed
  <2>5. QED
    BY <2>1, <2>2, <2>3, <2>4
<1>9. CASE Fsm!WriteWait
  BY <1>9 DEF Fsm!WriteWait
<1>10. CASE Fsm!RowWritten(w)
  <2>1. DOMAIN fsm' = Fsm!Registers /\ fsm'.state \in Fsm!States
    BY <1>10 DEF Fsm!RowWritten
  <2>2. /\ fsm'.enable_burst_reader \in BOOLEAN /\ fsm'.enable_burst_writer \in BOOLEAN
        /\ fsm'.enable_compute \in BOOLEAN /\ fsm'.dummy_read_burst_reader \in BOOLEAN
        /\ fsm'.done \in BOOLEAN /\ fsm'.clr_all \in BOOLEAN
    BY <1>10 DEF Fsm!RowWritten
  <2>3. /\ fsm'.select_idx \in 0..3
        /\ fsm'.read_row \in 0..255 /\ fsm'.write_row \in 0..255
    BY <1>10 DEF Fsm!RowWritten, Fsm!Next8, Fsm!Select
  <2>4. /\ fsm'.add_burst_reader \in Nat /\ fsm'.add_burst_writer \in Nat
        /\ fsm'.read_address \in Nat /\ fsm'.write_address \in Nat
    BY <1>0, <1>10 DEF Fsm!RowWritten
  <2>5. QED
    BY <2>1, <2>2, <2>3, <2>4
<1>11. CASE Fsm!LastRowWritten(w)
  <2>1. DOMAIN fsm' = Fsm!Registers /\ fsm'.state \in Fsm!States
    BY <1>11 DEF Fsm!LastRowWritten
  <2>2. /\ fsm'.enable_burst_reader \in BOOLEAN /\ fsm'.enable_burst_writer \in BOOLEAN
        /\ fsm'.enable_compute \in BOOLEAN /\ fsm'.dummy_read_burst_reader \in BOOLEAN
        /\ fsm'.done \in BOOLEAN /\ fsm'.clr_all \in BOOLEAN
    BY <1>11 DEF Fsm!LastRowWritten
  <2>3. /\ fsm'.select_idx \in 0..3
        /\ fsm'.read_row \in 0..255 /\ fsm'.write_row \in 0..255
    BY <1>11 DEF Fsm!LastRowWritten, Fsm!Next8, Fsm!Select
  <2>4. /\ fsm'.add_burst_reader \in Nat /\ fsm'.add_burst_writer \in Nat
        /\ fsm'.read_address \in Nat /\ fsm'.write_address \in Nat
    BY <1>0, <1>11 DEF Fsm!LastRowWritten
  <2>5. QED
    BY <2>1, <2>2, <2>3, <2>4
<1>12. CASE Fsm!Waiting(r, w, c)
  BY <1>12 DEF Fsm!Waiting
<1>13. QED
  BY <1>1, <1>2, <1>3, <1>4, <1>5, <1>6, <1>7, <1>8, <1>9, <1>10, <1>11, <1>12 DEF Fsm!Clock

\* A clock edge of the burst reader, whatever its inputs are.
LEMMA ReaderStep ==
  ASSUME ReaderRegisters, NEW e, NEW d, NEW a \in Nat,
         NEW w, NEW v, NEW q, Reader!Clock(e, d, a, w, v, q)
  PROVE  ReaderRegisters'
<1> USE DEF ReaderRegisters, Reader!TypeOK
<1>1. CASE Reader!Idle(e)
  BY <1>1 DEF Reader!Idle
<1>2. CASE Reader!StartBurst(e, d, a)
  BY <1>2 DEF Reader!StartBurst
<1>3. CASE Reader!DummyRead(e, d)
  BY <1>3 DEF Reader!DummyRead
<1>4. CASE Reader!ReadBeat(w, v, q)
  <2>1. Reader!Next7(reader.count) = reader.count + 1
    BY <1>4 DEF Reader!ReadBeat, Reader!Next7
  <2>2. CASE Reader!LastBeat(reader.count)
    BY <1>4, <2>1, <2>2 DEF Reader!ReadBeat, Reader!LastBeat
  <2>3. CASE ~Reader!LastBeat(reader.count)
    BY <1>4, <2>1, <2>3 DEF Reader!ReadBeat, Reader!LastBeat
  <2>4. QED
    BY <2>2, <2>3
<1>5. CASE Reader!ReadWait(w, v)
  BY <1>5 DEF Reader!ReadWait
<1>6. QED
  BY <1>1, <1>2, <1>3, <1>4, <1>5 DEF Reader!Clock

\* A clock edge of the burst writer.
LEMMA WriterStep ==
  ASSUME WriterRegisters, NEW e, NEW a \in Nat, NEW w, NEW q,
         Writer!Clock(e, a, w, q)
  PROVE  WriterRegisters'
<1> USE DEF WriterRegisters, Writer!TypeOK
<1>1. CASE Writer!Idle(e)
  BY <1>1 DEF Writer!Idle
<1>2. CASE Writer!StartBurst(e, q, a)
  BY <1>2 DEF Writer!StartBurst
<1>3. CASE Writer!HasReq
  BY <1>3 DEF Writer!HasReq
<1>4. CASE Writer!HasData(w, q)
  <2>1. Writer!Next7(writer.count) = writer.count + 1
    BY <1>4 DEF Writer!HasData, Writer!Next7
  <2>2. CASE Writer!LastBeat(writer.count)
    BY <1>4, <2>1, <2>2 DEF Writer!HasData, Writer!LastBeat
  <2>3. CASE ~Writer!LastBeat(writer.count)
    BY <1>4, <2>1, <2>3 DEF Writer!HasData, Writer!LastBeat
  <2>4. QED
    BY <2>2, <2>3
<1>5. CASE Writer!Stalled(w)
  BY <1>5 DEF Writer!Stalled
<1>6. CASE Writer!WaitDone
  BY <1>6 DEF Writer!WaitDone
<1>7. CASE Writer!WaitDoneNext(w)
  BY <1>7 DEF Writer!WaitDoneNext
<1>8. CASE Writer!StalledDone(w)
  BY <1>8 DEF Writer!StalledDone
<1>9. QED
  BY <1>1, <1>2, <1>3, <1>4, <1>5, <1>6, <1>7, <1>8 DEF Writer!Clock

\* The column counter counts words, four pixels each.
LEMMA NextWord == ASSUME NEW n \in Nat, n % 4 = 0 PROVE (n + 4) % 4 = 0
  OBVIOUS

\* A clock edge of adaptive_threshold.
LEMMA ComputeStep ==
  ASSUME ComputeRegisters, NEW e, NEW q, NEW empty \in [1..3 -> BOOLEAN],
         Thresh!Clock(e, q, empty)
  PROVE  ComputeRegisters'
<1> USE DEF ComputeRegisters, ComputeFields, Thresh!TypeOK, Thresh!Lanes
<1>0. Thresh!None \in [1..3 -> BOOLEAN] /\ Thresh!NotEmpty(empty) \in [1..3 -> BOOLEAN]
  BY DEF Thresh!None, Thresh!NotEmpty
<1>1. CASE Thresh!IdleCompute(e)
  BY <1>0, <1>1 DEF Thresh!IdleCompute
<1>2. CASE Thresh!StartRow(e, empty)
  BY <1>0, <1>2 DEF Thresh!StartRow
<1>3. CASE Thresh!ReadDelay
  BY <1>3 DEF Thresh!ReadDelay
<1>4. CASE Thresh!FirstCompute(q, empty)
  <2>1. /\ DOMAIN compute' = ComputeFields /\ compute'.state = "Compute"
        /\ compute'.ColCounter = 4 /\ compute'.done = compute.done
    BY <1>4 DEF Thresh!FirstCompute
  <2>2. /\ compute'.row_rdreq = compute.row_rdreq
        /\ compute'.row_wrreq = Thresh!NotEmpty(empty)
        /\ ~compute'.ofifo_wrreq /\ ~compute'.ofifo_sclr
        /\ compute'.ofifo_wrreq \in BOOLEAN /\ compute'.ofifo_sclr \in BOOLEAN
    BY <1>4 DEF Thresh!FirstCompute
  <2>3. 4 % 4 = 0 /\ 4 \in 4 .. 4 * ColCount - 8 /\ 4 \in 0 .. 4 * ColCount
    OBVIOUS
  <2>4. ~compute.done
    BY <1>4 DEF Thresh!FirstCompute
  <2>5. QED
    BY <1>0, <2>1, <2>2, <2>3, <2>4
<1>5. CASE Thresh!Compute(q, empty)
  <2> DEFINE leave == Thresh!LastWordNext(compute.ColCounter + 4)
  <2>1. /\ DOMAIN compute' = ComputeFields
        /\ compute'.state = IF leave THEN "LastCompute" ELSE "Compute"
        /\ compute'.ColCounter = compute.ColCounter + 4 /\ compute'.done = compute.done
    BY <1>5 DEF Thresh!Compute
  <2>2. /\ compute'.row_rdreq = IF leave THEN Thresh!None ELSE compute.row_rdreq
        /\ compute'.row_wrreq = Thresh!NotEmpty(empty)
        /\ compute'.ofifo_wrreq \in BOOLEAN /\ compute'.ofifo_sclr \in BOOLEAN
    BY <1>5 DEF Thresh!Compute
  <2>3. /\ compute.state = "Compute" /\ ~compute.done
        /\ compute.ColCounter + 4 \in 4 .. 4 * ColCount - 4
        /\ compute.ColCounter \in Nat /\ compute.ColCounter % 4 = 0
    BY <1>5 DEF Thresh!Compute
  <2>9. (compute.ColCounter + 4) % 4 = 0
    BY <2>3, NextWord
  <2>4. leave <=> compute.ColCounter + 4 >= 4 * ColCount - 4
    BY DEF Thresh!LastWordNext
  <2> HIDE DEF leave
  <2>5. leave => compute.ColCounter + 4 = 4 * ColCount - 4
    BY <2>3, <2>4
  <2>6. ~leave => compute.ColCounter + 4 \in 4 .. 4 * ColCount - 8
    BY <2>3, <2>4
  <2>7. compute'.row_rdreq \in [1..3 -> BOOLEAN]
    BY <1>0, <2>2
  <2>8. QED
    BY <1>0, <2>1, <2>2, <2>3, <2>9, <2>5, <2>6, <2>7
<1>6. CASE Thresh!LastCompute(q, empty)
  BY <1>0, <1>6 DEF Thresh!LastCompute
<1>7. CASE Thresh!LastComputeWrite
  BY <1>0, <1>7 DEF Thresh!LastComputeWrite
<1>8. QED
  BY <1>1, <1>2, <1>3, <1>4, <1>5, <1>6, <1>7 DEF Thresh!Clock

\* The access of the program, and the answer to it.
LEMMA SlaveStep ==
  ASSUME SlaveRegisters, NEW issue \in BOOLEAN, NEW done \in BOOLEAN,
         Slave!Clock(Host!avs_wr(issue), Host!avs_rd(issue), Host!avs_add,
                     Host!avs_wrdata, done),
         Host!Clock(issue, slave.avs_rddata)
  PROVE  SlaveRegisters'
<1> USE DEF SlaveRegisters, Host!Places
<1>1. host' \in Host!Places
  BY DEF Host!Clock, Host!Filling, Host!WriteAddress, Host!WriteStart, Host!Gap, Host!Read,
         Host!Test, Host!Delay
<1>2. Host!avs_add = 0 => Host!avs_wrdata = Image
  BY DEF Host!avs_add, Host!avs_wrdata
<1>3. Slave!ReadData(Host!avs_add, done) \in {0, 1, Image}
  BY DEF Slave!ReadData, Slave!Bit, Host!avs_add
<1>4. Slave!Started(Host!avs_wr(issue), Host!avs_add, Host!avs_wrdata) \in BOOLEAN
  BY DEF Slave!Started, Host!avs_wr
<1>5. slave' \in [RegStartAddress : {0, Image}, Start : BOOLEAN, avs_rddata : {0, 1, Image}]
  BY <1>2, <1>3, <1>4 DEF Slave!Clock
<1>6. QED
  BY <1>1, <1>5

LEMMA HandshakesInit == Init => Handshakes
<1> SUFFICES ASSUME Init PROVE Handshakes
  OBVIOUS
<1>1. Fsm!FsmTypeOK
  BY DEF Init, Fsm!Init, Fsm!FsmTypeOK, Fsm!Registers, Fsm!States
<1>2. ReaderRegisters
  BY DEF Init, Reader!Init, ReaderRegisters, Reader!TypeOK
<1>3. WriterRegisters
  BY DEF Init, Writer!Init, WriterRegisters, Writer!TypeOK
<1>4. ComputeRegisters
  BY DEF Init, Thresh!Init, ComputeRegisters, Thresh!TypeOK, ComputeFields, Thresh!Lanes
<1>5. SlaveRegisters
  BY DEF Init, Slave!Init, Host!Init, SlaveRegisters, Host!Places
<1>6. QED
  BY <1>1, <1>2, <1>3, <1>4, <1>5 DEF Handshakes

LEMMA HandshakesTick ==
  ASSUME Handshakes, NEW issue \in BOOLEAN, NEW waitrequest \in BOOLEAN,
         NEW rddatavalid \in BOOLEAN, Tick(issue, waitrequest, rddatavalid)
  PROVE  Handshakes'
<1> USE ImageAssumption DEF Handshakes, Tick
<1>1. slave.RegStartAddress \in Nat /\ fsm.done \in BOOLEAN
      /\ fsm.add_burst_reader \in Nat /\ fsm.add_burst_writer \in Nat
  BY DEF SlaveRegisters, Fsm!FsmTypeOK
<1>2. Fsm!FsmTypeOK'
  BY <1>1, FsmStep
<1>3. ReaderRegisters'
  BY <1>1, ReaderStep
<1>4. WriterRegisters'
  BY <1>1, WriterStep
<1>5. ComputeRegisters'
  <2>1. row_empty \in [1..3 -> BOOLEAN]
    BY DEF row_empty, Rows!IsEmpty
  <2>2. QED
    BY <2>1, ComputeStep
<1>6. SlaveRegisters'
  BY <1>1, SlaveStep
<1>7. QED
  BY <1>2, <1>3, <1>4, <1>5, <1>6

LEMMA HandshakesReset == Handshakes /\ ResetButton => Handshakes'
<1> SUFFICES ASSUME Handshakes, ResetButton PROVE Handshakes'
  OBVIOUS
<1> USE DEF Handshakes, ResetButton
<1>1. Fsm!FsmTypeOK'
  BY DEF Fsm!Reset, Fsm!FsmTypeOK, Fsm!Registers, Fsm!States
<1>2. ReaderRegisters'
  BY DEF Reader!Reset, ReaderRegisters, Reader!TypeOK
<1>3. WriterRegisters'
  BY DEF Writer!Reset, WriterRegisters, Writer!TypeOK
<1>4. ComputeRegisters'
  BY DEF Thresh!Reset, ComputeRegisters, Thresh!TypeOK, ComputeFields, Thresh!Lanes
<1>5. SlaveRegisters'
  BY DEF Slave!Reset, SlaveRegisters
<1>6. QED
  BY <1>1, <1>2, <1>3, <1>4, <1>5

\* The program's own steps and stuttering leave the components alone.
LEMMA HandshakesOther == Handshakes /\ (Call \/ LoadImage \/ UNCHANGED vars) => Handshakes'
<1> SUFFICES ASSUME Handshakes, Call \/ LoadImage \/ UNCHANGED vars PROVE Handshakes'
  OBVIOUS
<1>1. UNCHANGED <<slave, fsm, reader, writer, compute>> /\ host' \in Host!Places
  BY DEF Call, LoadImage, vars, Host!Call, Handshakes, SlaveRegisters, Host!Places
<1>2. QED
  BY <1>1 DEF Handshakes, Fsm!FsmTypeOK, ReaderRegisters, Reader!TypeOK, WriterRegisters,
     Writer!TypeOK, ComputeRegisters, Thresh!TypeOK, SlaveRegisters

LEMMA HandshakesHold == Spec => []Handshakes
<1>1. Handshakes /\ [Next]_vars => Handshakes'
  BY HandshakesTick, HandshakesReset, HandshakesOther DEF Next
<1>2. QED
  BY <1>1, HandshakesInit, PTL DEF Spec
-----------------------------------------------------------------------------
(***************************************************************************)
(* The accelerator implements ControlPath.                                 *)
(***************************************************************************)
LEMMA ReaderIsWorker ==
  ASSUME ReaderRegisters, NEW e \in BOOLEAN, NEW d \in BOOLEAN, NEW a \in Nat,
         NEW w, NEW v, NEW q, Reader!Clock(e, d, a, w, v, q)
  PROVE  Control!Reader!Clock(e, d, a)
<1> USE DEF ReaderRegisters, Reader!TypeOK, Control!Reader!Clock, Control!Reader!Accept,
        Control!Reader!Rest, Control!Reader!Work, Control!Reader!vars
<1>1. CASE Reader!Idle(e)
  BY <1>1 DEF Reader!Idle
<1>2. CASE Reader!StartBurst(e, d, a)
  BY <1>2 DEF Reader!StartBurst
<1>3. CASE Reader!DummyRead(e, d)
  BY <1>3 DEF Reader!DummyRead
<1>4. CASE Reader!ReadBeat(w, v, q)
  BY <1>4 DEF Reader!ReadBeat
<1>5. CASE Reader!ReadWait(w, v)
  BY <1>5 DEF Reader!ReadWait
<1>6. QED
  BY <1>1, <1>2, <1>3, <1>4, <1>5 DEF Reader!Clock

LEMMA WriterIsWorker ==
  ASSUME WriterRegisters, NEW e \in BOOLEAN, NEW a \in Nat, NEW w, NEW q,
         Writer!Clock(e, a, w, q)
  PROVE  Control!Writer!Clock(e, FALSE, a)
<1> USE DEF WriterRegisters, Writer!TypeOK, Control!Writer!Clock, Control!Writer!Accept,
        Control!Writer!Rest, Control!Writer!Work, Control!Writer!vars
<1>1. CASE Writer!Idle(e)
  BY <1>1 DEF Writer!Idle
<1>2. CASE Writer!StartBurst(e, q, a)
  BY <1>2 DEF Writer!StartBurst
<1>3. CASE Writer!HasReq
  BY <1>3 DEF Writer!HasReq
<1>4. CASE Writer!HasData(w, q)
  BY <1>4 DEF Writer!HasData
<1>5. CASE Writer!Stalled(w)
  BY <1>5 DEF Writer!Stalled
<1>6. CASE Writer!WaitDone
  BY <1>6 DEF Writer!WaitDone
<1>7. CASE Writer!WaitDoneNext(w)
  BY <1>7 DEF Writer!WaitDoneNext
<1>8. CASE Writer!StalledDone(w)
  BY <1>8 DEF Writer!StalledDone
<1>9. QED
  BY <1>1, <1>2, <1>3, <1>4, <1>5, <1>6, <1>7, <1>8 DEF Writer!Clock

LEMMA ComputeIsWorker ==
  ASSUME ComputeRegisters, NEW e \in BOOLEAN, NEW q, NEW empty,
         Thresh!Clock(e, q, empty)
  PROVE  Control!Compute!Clock(e, FALSE, 0)
<1> USE DEF ComputeRegisters, ComputeFields, Thresh!TypeOK, Control!Compute!Clock,
        Control!Compute!Accept, Control!Compute!Rest, Control!Compute!Work, Control!Compute!vars
<1>1. CASE Thresh!IdleCompute(e)
  BY <1>1 DEF Thresh!IdleCompute
<1>2. CASE Thresh!StartRow(e, empty)
  BY <1>2 DEF Thresh!StartRow
<1>3. CASE Thresh!ReadDelay
  BY <1>3 DEF Thresh!ReadDelay
<1>4. CASE Thresh!FirstCompute(q, empty)
  BY <1>4 DEF Thresh!FirstCompute
<1>5. CASE Thresh!Compute(q, empty)
  BY <1>5 DEF Thresh!Compute
<1>6. CASE Thresh!LastCompute(q, empty)
  BY <1>6 DEF Thresh!LastCompute
<1>7. CASE Thresh!LastComputeWrite
  BY <1>7 DEF Thresh!LastComputeWrite
<1>8. QED
  BY <1>1, <1>2, <1>3, <1>4, <1>5, <1>6, <1>7 DEF Thresh!Clock

\* The burst engines and the filter keep the handshake on which the state machine
\* relies, so that every step of the accelerator is one of ControlPath or none.
THEOREM ControlRefined == Spec => ImplementsControlPath
<1>1. Init => Control!CPInit
  BY DEF Init, Fsm!Init, Reader!Init, Writer!Init, Thresh!Init, Control!CPInit, Control!Init
<1>2. ASSUME Handshakes, NEW issue \in BOOLEAN, NEW waitrequest \in BOOLEAN,
             NEW rddatavalid \in BOOLEAN, Tick(issue, waitrequest, rddatavalid)
      PROVE  Control!Next
  <2> USE <1>2, ImageAssumption DEF Handshakes, Tick
  <2>1. slave.RegStartAddress \in {0, Image} /\ slave.Start \in BOOLEAN
    BY DEF SlaveRegisters
  <2>2. /\ fsm.enable_burst_reader \in BOOLEAN /\ fsm.dummy_read_burst_reader \in BOOLEAN
        /\ fsm.enable_burst_writer \in BOOLEAN /\ fsm.enable_compute \in BOOLEAN
        /\ fsm.add_burst_reader \in Nat /\ fsm.add_burst_writer \in Nat
    BY DEF Fsm!FsmTypeOK
  <2>3. Control!Clock(slave.Start, slave.RegStartAddress, reader.done, writer.done, compute.done)
    BY DEF Control!Clock, Fsm!Clock, Control!Idle, Fsm!Idle, Control!Start, Fsm!Start,
       Control!ReadFirstRowWait, Fsm!ReadFirstRowWait, Control!FirstRowRead, Fsm!FirstRowRead,
       Control!ReadSecondRowWait, Fsm!ReadSecondRowWait, Control!SecondRowRead,
       Fsm!SecondRowRead, Control!ReadComputeWait, Fsm!ReadComputeWait, Control!RowComputed,
       Fsm!RowComputed, Control!WriteWait, Fsm!WriteWait, Control!RowWritten, Fsm!RowWritten,
       Control!LastRowWritten, Fsm!LastRowWritten, Control!Waiting, Fsm!Waiting,
       Control!Next8, Fsm!Next8, Control!Select, Fsm!Select, Control!RowBytes, Fsm!RowBytes,
       Control!PastLastRow, Fsm!PastLastRow
  <2>4. Control!Reader!Clock(fsm.enable_burst_reader, fsm.dummy_read_burst_reader,
                             fsm.add_burst_reader)
    BY <2>2, ReaderIsWorker
  <2>5. Control!Writer!Clock(fsm.enable_burst_writer, FALSE, fsm.add_burst_writer)
    BY <2>2, WriterIsWorker
  <2>6. Control!Compute!Clock(fsm.enable_compute, FALSE, 0)
    BY <2>2, ComputeIsWorker
  <2>7. Control!Tick(slave.Start, slave.RegStartAddress)
    BY <2>3, <2>4, <2>5, <2>6 DEF Control!Tick
  <2>8. QED
    BY <2>1, <2>7 DEF Control!Next
<1>3. ASSUME Handshakes, ResetButton PROVE Control!Next
  BY <1>3 DEF ResetButton, Handshakes, Fsm!Reset, Reader!Reset, Writer!Reset, Thresh!Reset,
     ReaderRegisters, Reader!TypeOK, WriterRegisters, Writer!TypeOK, ComputeRegisters,
     ComputeFields, Control!Next, Control!ResetAll, Control!Reset, Control!Reader!Reset,
     Control!Writer!Reset, Control!Compute!Reset
<1>4. Call \/ LoadImage \/ UNCHANGED vars => UNCHANGED Control!vars
  BY DEF Call, LoadImage, vars, Control!vars
<1>5. Handshakes /\ [Next]_vars => [Control!Next]_(Control!vars)
  BY <1>2, <1>3, <1>4 DEF Next
<1>6. QED
  BY <1>1, <1>5, HandshakesHold, PTL DEF Spec, ImplementsControlPath, Control!Spec
(***************************************************************************)
(* The invariant of ControlPath, read on the accelerator.                  *)
(***************************************************************************)
LEMMA ControlAddresses == 0 \in Nat /\ Image \in Nat
  BY ImageAssumption

LEMMA ControlRowBytes == Control!RowBytes \in Nat /\ Control!RowBytes > 0
  BY DEF Control!RowBytes

\* The power-up state.
LEMMA ControlInit == Control!CPInit => Control!IInv
<1> SUFFICES ASSUME Control!CPInit PROVE Control!IInv
  OBVIOUS
<1> USE RowCountAssumption, ControlAddresses DEF Control!CPInit, Control!Init
<1>1. Control!TypeOK
  <2>1. Control!FsmTypeOK
    BY DEF Control!FsmTypeOK, Control!Registers, Control!States
  <2>2. /\ reader.done \in BOOLEAN /\ writer.done \in BOOLEAN
        /\ compute.done \in BOOLEAN /\ base \in Nat
    OBVIOUS
  <2>3. reader.avm_address \in Nat /\ writer.avm_address \in Nat
    OBVIOUS
  <2>4. QED
    BY <2>1, <2>2, <2>3 DEF Control!TypeOK
<1>2. Control!EnablesFollowState
  BY DEF Control!EnablesFollowState
<1>3. Control!JobsFollowState
  BY DEF Control!JobsFollowState
<1>4. Control!RowsFollowState
  BY DEF Control!RowsFollowState, Control!FirstRow, Control!SecondRow, Control!Filtering, Control!Writing
<1>5. Control!AddressesFollowState
  BY DEF Control!AddressesFollowState, Control!FirstRow, Control!SecondRow, Control!Filtering, Control!Writing
<1>6. Control!LatchedAddresses
  BY DEF Control!LatchedAddresses, Control!Writing
<1>7. QED
  BY <1>1, <1>2, <1>3, <1>4, <1>5, <1>6 DEF Control!IInv

\* reset_n, at whatever edge it falls.
LEMMA ControlReset == Control!IInv /\ Control!ResetAll => Control!IInv'
<1> SUFFICES ASSUME Control!IInv, Control!ResetAll PROVE Control!IInv'
  OBVIOUS
<1> USE RowCountAssumption, ControlAddresses DEF Control!IInv, Control!ResetAll, Control!Reset, Control!Reader!Reset, Control!Writer!Reset, Control!Compute!Reset
<1>1. Control!TypeOK'
  <2>1. Control!FsmTypeOK'
    BY DEF Control!TypeOK, Control!FsmTypeOK, Control!Registers, Control!States
  <2>2. /\ (reader.done \in BOOLEAN)' /\ (writer.done \in BOOLEAN)'
        /\ (compute.done \in BOOLEAN)' /\ (base \in Nat)'
    BY DEF Control!TypeOK
  <2>3. (reader.avm_address \in Nat)' /\ (writer.avm_address \in Nat)'
    BY DEF Control!TypeOK
  <2>4. QED
    BY <2>1, <2>2, <2>3 DEF Control!TypeOK
<1>2. Control!EnablesFollowState'
  BY DEF Control!TypeOK, Control!FsmTypeOK, Control!Registers, Control!EnablesFollowState
<1>3. Control!JobsFollowState'
  BY DEF Control!TypeOK, Control!FsmTypeOK, Control!Registers, Control!JobsFollowState
<1>4. Control!RowsFollowState'
  BY DEF Control!TypeOK, Control!FsmTypeOK, Control!Registers, Control!RowsFollowState, Control!FirstRow, Control!SecondRow, Control!Filtering, Control!Writing
<1>5. Control!AddressesFollowState'
  BY DEF Control!TypeOK, Control!FsmTypeOK, Control!Registers, Control!AddressesFollowState, Control!FirstRow, Control!SecondRow, Control!Filtering, Control!Writing
<1>6. Control!LatchedAddresses'
  BY DEF Control!TypeOK, Control!FsmTypeOK, Control!Registers, Control!LatchedAddresses, Control!Writing
<1>7. QED
  BY <1>1, <1>2, <1>3, <1>4, <1>5, <1>6 DEF Control!IInv

\* A component that is done and not enabled is still done after the edge.
LEMMA ControlRest ==
  ASSUME NEW enable, NEW start_address, Control!Tick(enable, start_address),
         reader.done, writer.done, compute.done,
         ~fsm.enable_burst_reader, ~fsm.enable_burst_writer, ~fsm.enable_compute
  PROVE  reader.done' /\ writer.done' /\ compute.done'
<1>1. reader.done'
  BY DEF Control!Tick, Control!Reader!Clock, Control!Reader!Rest, Control!Reader!Work, Control!Reader!vars
<1>2. writer.done'
  BY DEF Control!Tick, Control!Writer!Clock, Control!Writer!Rest, Control!Writer!Work, Control!Writer!vars
<1>3. compute.done'
  BY DEF Control!Tick, Control!Compute!Clock, Control!Compute!Rest, Control!Compute!Work, Control!Compute!vars
<1>4. QED
  BY <1>1, <1>2, <1>3

\* Every clock edge preserves the invariant.
LEMMA ControlTick ==
  ASSUME Control!IInv, NEW enable \in BOOLEAN, NEW start_address \in {0, Image},
         Control!Tick(enable, start_address)
  PROVE  Control!IInv'
<1> USE RowCountAssumption, ControlAddresses, ControlRowBytes DEF Control!IInv, Control!TypeOK, Control!FsmTypeOK, Control!Registers, Control!States, Control!FirstRow, Control!SecondRow, Control!Filtering, Control!Writing, Control!Tick, Control!Next8, Control!Select, Control!RowAddress, Control!PastLastRow, Control!Reader!Clock, Control!Reader!Accept, Control!Reader!Rest, Control!Reader!Work, Control!Reader!vars, Control!Writer!Clock, Control!Writer!Accept, Control!Writer!Rest, Control!Writer!Work, Control!Writer!vars, Control!Compute!Clock, Control!Compute!Accept, Control!Compute!Rest, Control!Compute!Work, Control!Compute!vars
<1>1. CASE Control!Idle(enable)
  <2> USE <1>1 DEF Control!Idle
  <2>1. Control!FsmTypeOK'
    BY DEF Control!FsmTypeOK
  <2>2. (reader.done \in BOOLEAN)' /\ (writer.done \in BOOLEAN)' /\ (compute.done \in BOOLEAN)'
    BY DEF Control!FsmTypeOK
  <2>3. (reader.avm_address \in Nat)' /\ (writer.avm_address \in Nat)' /\ (base \in Nat)'
    BY DEF Control!FsmTypeOK
  <2>4. Control!EnablesFollowState'
    BY DEF Control!EnablesFollowState
  <2>5. Control!JobsFollowState'
    BY DEF Control!JobsFollowState, Control!EnablesFollowState
  <2>6. Control!RowsFollowState'
    BY DEF Control!RowsFollowState
  <2>7. Control!AddressesFollowState'
    BY DEF Control!AddressesFollowState, Control!RowsFollowState
  <2>8. Control!LatchedAddresses'
    BY DEF Control!LatchedAddresses, Control!JobsFollowState, Control!EnablesFollowState, Control!AddressesFollowState, Control!RowsFollowState
  <2>9. QED
    BY <2>1, <2>2, <2>3, <2>4, <2>5, <2>6, <2>7, <2>8 DEF Control!IInv
<1>2. CASE Control!Start(enable, start_address)
  <2> USE <1>2 DEF Control!Start
  <2>1. Control!FsmTypeOK'
    <3>1. start_address \in Nat /\ Control!Select(0) \in 0..3
      BY DEF Control!Select
    <3>2. QED
      <4>1. DOMAIN fsm' = Control!Registers /\ fsm'.state \in Control!States
        BY <3>1
      <4>2. /\ fsm'.enable_burst_reader \in BOOLEAN /\ fsm'.enable_burst_writer \in BOOLEAN
            /\ fsm'.enable_compute \in BOOLEAN
            /\ fsm'.done \in BOOLEAN /\ fsm'.clr_all \in BOOLEAN
        BY <3>1
      <4>3. fsm'.dummy_read_burst_reader \in BOOLEAN
        BY <3>1
      <4>4. /\ fsm'.select_idx \in 0..3
            /\ fsm'.read_row \in 0..255 /\ fsm'.write_row \in 0..255
        BY <3>1
      <4>5. /\ fsm'.add_burst_reader \in Nat /\ fsm'.add_burst_writer \in Nat
            /\ fsm'.read_address \in Nat /\ fsm'.write_address \in Nat
        BY <3>1
      <4>6. QED
        BY <4>1, <4>2, <4>3, <4>4, <4>5 DEF Control!FsmTypeOK
  <2>2. (reader.done \in BOOLEAN)' /\ (writer.done \in BOOLEAN)' /\ (compute.done \in BOOLEAN)'
    BY DEF Control!FsmTypeOK
  <2>3. (reader.avm_address \in Nat)' /\ (writer.avm_address \in Nat)' /\ (base \in Nat)'
    BY DEF Control!FsmTypeOK
  <2>4. Control!EnablesFollowState'
    BY DEF Control!EnablesFollowState
  <2>5. Control!JobsFollowState'
    BY DEF Control!JobsFollowState, Control!EnablesFollowState
  <2>6. Control!RowsFollowState'
    BY DEF Control!RowsFollowState
  <2>7. Control!AddressesFollowState'
    BY DEF Control!AddressesFollowState, Control!RowsFollowState
  <2>8. Control!LatchedAddresses'
    BY DEF Control!LatchedAddresses, Control!JobsFollowState, Control!EnablesFollowState, Control!AddressesFollowState, Control!RowsFollowState
  <2>9. QED
    BY <2>1, <2>2, <2>3, <2>4, <2>5, <2>6, <2>7, <2>8 DEF Control!IInv
<1>3. CASE Control!ReadFirstRowWait
  <2> USE <1>3 DEF Control!ReadFirstRowWait
  <2>1. Control!FsmTypeOK'
    BY DEF Control!FsmTypeOK
  <2>2. (reader.done \in BOOLEAN)' /\ (writer.done \in BOOLEAN)' /\ (compute.done \in BOOLEAN)'
    BY DEF Control!FsmTypeOK
  <2>3. (reader.avm_address \in Nat)' /\ (writer.avm_address \in Nat)' /\ (base \in Nat)'
    BY DEF Control!FsmTypeOK
  <2>4. Control!EnablesFollowState'
    BY DEF Control!EnablesFollowState
  <2>5. Control!JobsFollowState'
    BY DEF Control!JobsFollowState, Control!EnablesFollowState
  <2>6. Control!RowsFollowState'
    BY DEF Control!RowsFollowState
  <2>7. Control!AddressesFollowState'
    BY DEF Control!AddressesFollowState, Control!RowsFollowState
  <2>8. Control!LatchedAddresses'
    BY DEF Control!LatchedAddresses, Control!JobsFollowState, Control!EnablesFollowState, Control!AddressesFollowState, Control!RowsFollowState
  <2>9. QED
    BY <2>1, <2>2, <2>3, <2>4, <2>5, <2>6, <2>7, <2>8 DEF Control!IInv
<1>4. CASE Control!FirstRowRead(reader.done)
  <2> USE <1>4 DEF Control!FirstRowRead
  <2>1. Control!FsmTypeOK'
    BY DEF Control!FsmTypeOK
  <2>2. (reader.done \in BOOLEAN)' /\ (writer.done \in BOOLEAN)' /\ (compute.done \in BOOLEAN)'
    BY DEF Control!FsmTypeOK
  <2>3. (reader.avm_address \in Nat)' /\ (writer.avm_address \in Nat)' /\ (base \in Nat)'
    BY DEF Control!FsmTypeOK
  <2>4. Control!EnablesFollowState'
    BY DEF Control!EnablesFollowState
  <2>5. Control!JobsFollowState'
    <3>1. reader.done /\ writer.done /\ compute.done
      BY DEF Control!JobsFollowState
    <3>2. ~fsm.enable_burst_reader /\ ~fsm.enable_burst_writer /\ ~fsm.enable_compute
      BY DEF Control!EnablesFollowState
    <3>3. reader.done' /\ writer.done' /\ compute.done'
      BY <3>1, <3>2, ControlRest
    <3>4. QED
      BY <3>3 DEF Control!JobsFollowState
  <2>6. Control!RowsFollowState'
    BY DEF Control!RowsFollowState
  <2>7. Control!AddressesFollowState'
    BY DEF Control!AddressesFollowState, Control!RowsFollowState
  <2>8. Control!LatchedAddresses'
    BY DEF Control!LatchedAddresses, Control!JobsFollowState, Control!EnablesFollowState, Control!AddressesFollowState, Control!RowsFollowState
  <2>9. QED
    BY <2>1, <2>2, <2>3, <2>4, <2>5, <2>6, <2>7, <2>8 DEF Control!IInv
<1>5. CASE Control!ReadSecondRowWait
  <2> USE <1>5 DEF Control!ReadSecondRowWait
  <2>1. Control!FsmTypeOK'
    BY DEF Control!FsmTypeOK
  <2>2. (reader.done \in BOOLEAN)' /\ (writer.done \in BOOLEAN)' /\ (compute.done \in BOOLEAN)'
    BY DEF Control!FsmTypeOK
  <2>3. (reader.avm_address \in Nat)' /\ (writer.avm_address \in Nat)' /\ (base \in Nat)'
    BY DEF Control!FsmTypeOK
  <2>4. Control!EnablesFollowState'
    BY DEF Control!EnablesFollowState
  <2>5. Control!JobsFollowState'
    BY DEF Control!JobsFollowState, Control!EnablesFollowState
  <2>6. Control!RowsFollowState'
    BY DEF Control!RowsFollowState
  <2>7. Control!AddressesFollowState'
    BY DEF Control!AddressesFollowState, Control!RowsFollowState
  <2>8. Control!LatchedAddresses'
    BY DEF Control!LatchedAddresses, Control!JobsFollowState, Control!EnablesFollowState, Control!AddressesFollowState, Control!RowsFollowState
  <2>9. QED
    BY <2>1, <2>2, <2>3, <2>4, <2>5, <2>6, <2>7, <2>8 DEF Control!IInv
<1>6. CASE Control!SecondRowRead(reader.done)
  <2> USE <1>6 DEF Control!SecondRowRead
  <2>1. Control!FsmTypeOK'
    BY DEF Control!FsmTypeOK
  <2>2. (reader.done \in BOOLEAN)' /\ (writer.done \in BOOLEAN)' /\ (compute.done \in BOOLEAN)'
    BY DEF Control!FsmTypeOK
  <2>3. (reader.avm_address \in Nat)' /\ (writer.avm_address \in Nat)' /\ (base \in Nat)'
    BY DEF Control!FsmTypeOK
  <2>4. Control!EnablesFollowState'
    BY DEF Control!EnablesFollowState
  <2>5. Control!JobsFollowState'
    <3>1. reader.done /\ writer.done /\ compute.done
      BY DEF Control!JobsFollowState
    <3>2. ~fsm.enable_burst_reader /\ ~fsm.enable_burst_writer /\ ~fsm.enable_compute
      BY DEF Control!EnablesFollowState
    <3>3. reader.done' /\ writer.done' /\ compute.done'
      BY <3>1, <3>2, ControlRest
    <3>4. QED
      BY <3>3 DEF Control!JobsFollowState
  <2>6. Control!RowsFollowState'
    BY DEF Control!RowsFollowState
  <2>7. Control!AddressesFollowState'
    BY DEF Control!AddressesFollowState, Control!RowsFollowState
  <2>8. Control!LatchedAddresses'
    BY DEF Control!LatchedAddresses, Control!JobsFollowState, Control!EnablesFollowState, Control!AddressesFollowState, Control!RowsFollowState
  <2>9. QED
    BY <2>1, <2>2, <2>3, <2>4, <2>5, <2>6, <2>7, <2>8 DEF Control!IInv
<1>7. CASE Control!ReadComputeWait
  <2> USE <1>7 DEF Control!ReadComputeWait
  <2>1. Control!FsmTypeOK'
    BY DEF Control!FsmTypeOK
  <2>2. (reader.done \in BOOLEAN)' /\ (writer.done \in BOOLEAN)' /\ (compute.done \in BOOLEAN)'
    BY DEF Control!FsmTypeOK
  <2>3. (reader.avm_address \in Nat)' /\ (writer.avm_address \in Nat)' /\ (base \in Nat)'
    BY DEF Control!FsmTypeOK
  <2>4. Control!EnablesFollowState'
    BY DEF Control!EnablesFollowState
  <2>5. Control!JobsFollowState'
    BY DEF Control!JobsFollowState, Control!EnablesFollowState
  <2>6. Control!RowsFollowState'
    BY DEF Control!RowsFollowState
  <2>7. Control!AddressesFollowState'
    BY DEF Control!AddressesFollowState, Control!RowsFollowState
  <2>8. Control!LatchedAddresses'
    BY DEF Control!LatchedAddresses, Control!JobsFollowState, Control!EnablesFollowState, Control!AddressesFollowState, Control!RowsFollowState
  <2>9. QED
    BY <2>1, <2>2, <2>3, <2>4, <2>5, <2>6, <2>7, <2>8 DEF Control!IInv
<1>8. CASE Control!RowComputed(reader.done, compute.done)
  <2> USE <1>8 DEF Control!RowComputed
  <2>1. Control!FsmTypeOK'
    BY DEF Control!FsmTypeOK
  <2>2. (reader.done \in BOOLEAN)' /\ (writer.done \in BOOLEAN)' /\ (compute.done \in BOOLEAN)'
    BY DEF Control!FsmTypeOK
  <2>3. (reader.avm_address \in Nat)' /\ (writer.avm_address \in Nat)' /\ (base \in Nat)'
    BY DEF Control!FsmTypeOK
  <2>4. Control!EnablesFollowState'
    BY DEF Control!EnablesFollowState
  <2>5. Control!JobsFollowState'
    <3>1. reader.done /\ writer.done /\ compute.done
      BY DEF Control!JobsFollowState
    <3>2. ~fsm.enable_burst_reader /\ ~fsm.enable_burst_writer /\ ~fsm.enable_compute
      BY DEF Control!EnablesFollowState
    <3>3. reader.done' /\ writer.done' /\ compute.done'
      BY <3>1, <3>2, ControlRest
    <3>4. QED
      BY <3>3 DEF Control!JobsFollowState
  <2>6. Control!RowsFollowState'
    BY DEF Control!RowsFollowState
  <2>7. Control!AddressesFollowState'
    BY DEF Control!AddressesFollowState, Control!RowsFollowState
  <2>8. Control!LatchedAddresses'
    <3>1. fsm.enable_burst_writer' /\ ~fsm.enable_burst_reader' /\ fsm.state' = "WriteWait"
      BY DEF Control!EnablesFollowState
    <3>2. reader.avm_address' = reader.avm_address
      BY DEF Control!EnablesFollowState
    <3>3. QED
      BY <3>1, <3>2 DEF Control!LatchedAddresses
  <2>9. QED
    BY <2>1, <2>2, <2>3, <2>4, <2>5, <2>6, <2>7, <2>8 DEF Control!IInv
<1>9. CASE Control!WriteWait
  <2> USE <1>9 DEF Control!WriteWait
  <2>1. Control!FsmTypeOK'
    BY DEF Control!FsmTypeOK
  <2>2. (reader.done \in BOOLEAN)' /\ (writer.done \in BOOLEAN)' /\ (compute.done \in BOOLEAN)'
    BY DEF Control!FsmTypeOK
  <2>3. (reader.avm_address \in Nat)' /\ (writer.avm_address \in Nat)' /\ (base \in Nat)'
    BY DEF Control!FsmTypeOK
  <2>4. Control!EnablesFollowState'
    BY DEF Control!EnablesFollowState
  <2>5. Control!JobsFollowState'
    BY DEF Control!JobsFollowState, Control!EnablesFollowState
  <2>6. Control!RowsFollowState'
    BY DEF Control!RowsFollowState
  <2>7. Control!AddressesFollowState'
    BY DEF Control!AddressesFollowState, Control!RowsFollowState
  <2>8. Control!LatchedAddresses'
    BY DEF Control!LatchedAddresses, Control!JobsFollowState, Control!EnablesFollowState, Control!AddressesFollowState, Control!RowsFollowState
  <2>9. QED
    BY <2>1, <2>2, <2>3, <2>4, <2>5, <2>6, <2>7, <2>8 DEF Control!IInv
<1>10. CASE Control!RowWritten(writer.done)
  <2> USE <1>10 DEF Control!RowWritten
  <2>1. Control!FsmTypeOK'
    <3>1. fsm.write_row < RowCount /\ Control!Next8(fsm.write_row) \in 0..255
      BY DEF Control!RowsFollowState
    <3>2. QED
      <4>1. DOMAIN fsm' = Control!Registers /\ fsm'.state \in Control!States
        BY <3>1
      <4>2. /\ fsm'.enable_burst_reader \in BOOLEAN /\ fsm'.enable_burst_writer \in BOOLEAN
            /\ fsm'.enable_compute \in BOOLEAN
            /\ fsm'.done \in BOOLEAN /\ fsm'.clr_all \in BOOLEAN
        BY <3>1
      <4>3. fsm'.dummy_read_burst_reader \in BOOLEAN
        BY <3>1
      <4>4. /\ fsm'.select_idx \in 0..3
            /\ fsm'.read_row \in 0..255 /\ fsm'.write_row \in 0..255
        BY <3>1
      <4>5. /\ fsm'.add_burst_reader \in Nat /\ fsm'.add_burst_writer \in Nat
            /\ fsm'.read_address \in Nat /\ fsm'.write_address \in Nat
        BY <3>1
      <4>6. QED
        BY <4>1, <4>2, <4>3, <4>4, <4>5 DEF Control!FsmTypeOK
  <2>2. (reader.done \in BOOLEAN)' /\ (writer.done \in BOOLEAN)' /\ (compute.done \in BOOLEAN)'
    BY DEF Control!FsmTypeOK
  <2>3. (reader.avm_address \in Nat)' /\ (writer.avm_address \in Nat)' /\ (base \in Nat)'
    BY DEF Control!FsmTypeOK
  <2>4. Control!EnablesFollowState'
    BY DEF Control!EnablesFollowState
  <2>5. Control!JobsFollowState'
    <3>1. reader.done /\ writer.done /\ compute.done
      BY DEF Control!JobsFollowState
    <3>2. ~fsm.enable_burst_reader /\ ~fsm.enable_burst_writer /\ ~fsm.enable_compute
      BY DEF Control!EnablesFollowState
    <3>3. reader.done' /\ writer.done' /\ compute.done'
      BY <3>1, <3>2, ControlRest
    <3>4. QED
      BY <3>3 DEF Control!JobsFollowState
  <2>6. Control!RowsFollowState'
    <3>1. fsm.read_row = fsm.write_row + 3 /\ Control!Next8(fsm.write_row) = fsm.write_row + 1
      BY DEF Control!RowsFollowState
    <3>2. fsm.write_row' = fsm.write_row + 1 /\ fsm.read_row' = fsm.read_row
          /\ fsm.select_idx' = fsm.select_idx /\ fsm.state' = "ReadComputeWait"
      BY <3>1
    <3>3. fsm.dummy_read_burst_reader' <=> (fsm.write_row' = RowCount - 1)
      BY <3>1, <3>2 DEF Control!RowsFollowState
    <3>4. QED
      BY <3>1, <3>2, <3>3 DEF Control!RowsFollowState
  <2>7. Control!AddressesFollowState'
    BY DEF Control!AddressesFollowState, Control!RowsFollowState
  <2>8. Control!LatchedAddresses'
    BY DEF Control!LatchedAddresses, Control!JobsFollowState, Control!EnablesFollowState, Control!AddressesFollowState, Control!RowsFollowState
  <2>9. QED
    BY <2>1, <2>2, <2>3, <2>4, <2>5, <2>6, <2>7, <2>8 DEF Control!IInv
<1>11. CASE Control!LastRowWritten(writer.done)
  <2> USE <1>11 DEF Control!LastRowWritten
  <2>1. Control!FsmTypeOK'
    BY DEF Control!FsmTypeOK
  <2>2. (reader.done \in BOOLEAN)' /\ (writer.done \in BOOLEAN)' /\ (compute.done \in BOOLEAN)'
    BY DEF Control!FsmTypeOK
  <2>3. (reader.avm_address \in Nat)' /\ (writer.avm_address \in Nat)' /\ (base \in Nat)'
    BY DEF Control!FsmTypeOK
  <2>4. Control!EnablesFollowState'
    BY DEF Control!EnablesFollowState
  <2>5. Control!JobsFollowState'
    <3>1. reader.done /\ writer.done /\ compute.done
      BY DEF Control!JobsFollowState
    <3>2. ~fsm.enable_burst_reader /\ ~fsm.enable_burst_writer /\ ~fsm.enable_compute
      BY DEF Control!EnablesFollowState
    <3>3. reader.done' /\ writer.done' /\ compute.done'
      BY <3>1, <3>2, ControlRest
    <3>4. QED
      BY <3>3 DEF Control!JobsFollowState
  <2>6. Control!RowsFollowState'
    BY DEF Control!RowsFollowState
  <2>7. Control!AddressesFollowState'
    BY DEF Control!AddressesFollowState, Control!RowsFollowState
  <2>8. Control!LatchedAddresses'
    BY DEF Control!LatchedAddresses, Control!JobsFollowState, Control!EnablesFollowState, Control!AddressesFollowState, Control!RowsFollowState
  <2>9. QED
    BY <2>1, <2>2, <2>3, <2>4, <2>5, <2>6, <2>7, <2>8 DEF Control!IInv
<1>12. CASE Control!Waiting(reader.done, writer.done, compute.done)
  <2> USE <1>12 DEF Control!Waiting
  <2>1. Control!FsmTypeOK'
    BY DEF Control!FsmTypeOK
  <2>2. (reader.done \in BOOLEAN)' /\ (writer.done \in BOOLEAN)' /\ (compute.done \in BOOLEAN)'
    BY DEF Control!FsmTypeOK
  <2>3. (reader.avm_address \in Nat)' /\ (writer.avm_address \in Nat)' /\ (base \in Nat)'
    BY DEF Control!FsmTypeOK
  <2>4. Control!EnablesFollowState'
    BY DEF Control!EnablesFollowState
  <2>5. Control!JobsFollowState'
    BY DEF Control!JobsFollowState, Control!EnablesFollowState
  <2>6. Control!RowsFollowState'
    BY DEF Control!RowsFollowState
  <2>7. Control!AddressesFollowState'
    BY DEF Control!AddressesFollowState, Control!RowsFollowState
  <2>8. Control!LatchedAddresses'
    BY DEF Control!LatchedAddresses, Control!JobsFollowState, Control!EnablesFollowState, Control!AddressesFollowState, Control!RowsFollowState
  <2>9. QED
    BY <2>1, <2>2, <2>3, <2>4, <2>5, <2>6, <2>7, <2>8 DEF Control!IInv
<1>13. QED
  BY <1>1, <1>2, <1>3, <1>4, <1>5, <1>6, <1>7, <1>8, <1>9, <1>10, <1>11, <1>12 DEF Control!Clock

LEMMA ControlStutter == Control!IInv /\ UNCHANGED Control!vars => Control!IInv'
  BY DEF Control!vars, Control!IInv, Control!TypeOK, Control!FsmTypeOK, Control!EnablesFollowState, Control!JobsFollowState,
         Control!RowsFollowState, Control!AddressesFollowState, Control!LatchedAddresses, Control!RowAddress

LEMMA ControlInvariant == Spec => []Control!IInv
<1>1. Control!IInv /\ [Control!Next]_(Control!vars) => Control!IInv'
  BY ControlTick, ControlReset, ControlStutter DEF Control!Next
<1>2. Control!Spec => []Control!IInv
  BY <1>1, ControlInit, PTL DEF Control!Spec
<1>3. QED
  BY <1>2, ControlRefined, PTL DEF ImplementsControlPath
-----------------------------------------------------------------------------
(***************************************************************************)
(* The bursts on the bus.                                                  *)
(***************************************************************************)
\* The words of a burst of writes the memory has taken.
Taken == CASE writer.state = "HasReq"   -> writer.count - 1
           [] writer.state = "HasData"  -> writer.count
           [] writer.state = "WaitDone" -> ColCount - 1
           [] OTHER                     -> ColCount

ReadBurst ==
  /\ reader.avm_rd => /\ reader.state = "Read" /\ reader.count = 0
                      /\ reader.row_sclr /\ ~reader.row_wrreq
  /\ reader.state = "Idle" => bus.rd_left = 0
  /\ reader.state = "Read" =>
       /\ bus.rd_left = IF reader.avm_rd THEN 0 ELSE ColCount - reader.count
       /\ ~reader.avm_rd =>
            /\ ~reader.row_sclr
            /\ bus.rd_index = Bus!Index(reader.avm_address) + reader.count

WriteBurst ==
  /\ writer.avm_wr <=> writer.state \in {"HasReq", "WaitDone"}
  /\ writer.avm_beginburst <=> writer.state = "HasReq" /\ writer.count = 1
  /\ bus.wr_left = IF \/ writer.state \in {"Idle", "WaitDoneNext"}
                      \/ writer.state = "HasReq" /\ writer.count = 1
                   THEN 0 ELSE ColCount - Taken
  /\ bus.wr_left > 0 => bus.wr_index = Bus!Index(writer.avm_address) + Taken

Bursts ==
  /\ bus \in [rd_left : Nat, rd_index : Int, wr_left : Nat, wr_index : Int]
  /\ ReadBurst /\ WriteBurst

LEMMA BurstsInit == Init => Bursts
  BY DEF Init, Reader!Init, Writer!Init, Bus!BusInit, Bursts, ReadBurst, WriteBurst

LEMMA BurstsReset == Handshakes /\ ResetButton => Bursts'
  BY DEF Handshakes, ReaderRegisters, Reader!TypeOK, WriterRegisters, Writer!TypeOK,
     ResetButton, Reader!Reset, Writer!Reset, Bus!Reset, Bursts, ReadBurst, WriteBurst

\* Who owns the bus.
LEMMA ReaderAlone ==
  ASSUME Handshakes, Control!IInv, reader.state = "Read"
  PROVE  writer.state = "Idle" /\ avm_add = reader.avm_address
  BY DEF Handshakes, ReaderRegisters, WriterRegisters, Writer!TypeOK, Control!IInv, Control!TypeOK, Control!JobsFollowState, avm_add, Fsm!WriterOwnsBus

LEMMA WriterAlone ==
  ASSUME Handshakes, Control!IInv, writer.state # "Idle"
  PROVE  reader.state = "Idle" /\ avm_add = writer.avm_address
  BY DEF Handshakes, ReaderRegisters, Reader!TypeOK, WriterRegisters, Control!IInv, Control!TypeOK, Control!JobsFollowState, avm_add, Fsm!WriterOwnsBus

LEMMA IndexType == ASSUME NEW a \in Nat PROVE Bus!Index(a) \in Int
  BY ImageAssumption DEF Bus!Index

LEMMA BurstsTick ==
  ASSUME Handshakes, Control!IInv, Bursts, NEW issue \in BOOLEAN,
         NEW waitrequest \in BOOLEAN, NEW rddatavalid \in BOOLEAN,
         Tick(issue, waitrequest, rddatavalid)
  PROVE  Bursts'
<1> DEFINE reads  == reader.avm_rd /\ ~waitrequest
           writes == writer.avm_wr /\ ~waitrequest
<1>1. /\ ReaderRegisters /\ WriterRegisters
      /\ Bus!Polite(reader.avm_rd, writer.avm_wr, waitrequest, rddatavalid)
      /\ bus \in [rd_left : Nat, rd_index : Int, wr_left : Nat, wr_index : Int]
      /\ ReadBurst /\ WriteBurst
  BY DEF Handshakes, Tick, Bursts
<1>2. bus' = [ rd_left  |-> IF reads THEN ColCount
                            ELSE IF rddatavalid THEN bus.rd_left - 1 ELSE bus.rd_left,
               rd_index |-> IF reads THEN Bus!Index(avm_add)
                            ELSE IF rddatavalid THEN bus.rd_index + 1 ELSE bus.rd_index,
               wr_left  |-> IF ~writes THEN bus.wr_left
                            ELSE IF bus.wr_left = 0 THEN ColCount - 1
                            ELSE bus.wr_left - 1,
               wr_index |-> IF writes THEN Bus!WriteIndex(avm_add) + 1 ELSE bus.wr_index ]
  BY DEF Tick, Bus!Clock
<1>3. Bus!Index(reader.avm_address) \in Int /\ Bus!Index(writer.avm_address) \in Int
  BY <1>1, IndexType DEF ReaderRegisters, Reader!TypeOK, WriterRegisters, Writer!TypeOK
<1> HIDE DEF reads, writes
<1>4. ReadBurst' /\ bus'.rd_left \in Nat /\ bus'.rd_index \in Int
  <2> USE <1>1, <1>2, <1>3 DEF ReaderRegisters, Reader!TypeOK, ReadBurst, Bus!Polite
  <2>1. ASSUME reader.state = "Idle", reader'.state = "Idle", ~reader'.avm_rd
        PROVE  ReadBurst' /\ bus'.rd_left \in Nat /\ bus'.rd_index \in Int
    BY <2>1 DEF reads
  <2>2. CASE Reader!Idle(fsm.enable_burst_reader)
    BY <2>1, <2>2 DEF Reader!Idle
  <2>3. CASE Reader!StartBurst(fsm.enable_burst_reader, fsm.dummy_read_burst_reader,
                               fsm.add_burst_reader)
    BY <2>3 DEF Reader!StartBurst, reads
  <2>4. CASE Reader!DummyRead(fsm.enable_burst_reader, fsm.dummy_read_burst_reader)
    BY <2>1, <2>4 DEF Reader!DummyRead
  <2>5. CASE Reader!ReadBeat(waitrequest, rddatavalid, Bus!ReadWord)
    <3>1. reader.state = "Read" /\ ~waitrequest /\ rddatavalid /\ ~reader.avm_rd
      BY <2>5 DEF Reader!ReadBeat, Reader!Beat
    <3>2. Reader!Next7(reader.count) = reader.count + 1
      BY <3>1 DEF Reader!Next7
    <3>3. /\ bus'.rd_left = ColCount - (reader.count + 1)
          /\ bus'.rd_index = Bus!Index(reader.avm_address) + (reader.count + 1)
      BY <3>1 DEF reads
    <3>4. /\ ~reader'.avm_rd /\ ~reader'.row_sclr /\ reader'.count = reader.count + 1
          /\ reader'.avm_address = reader.avm_address
          /\ reader'.state = IF reader.count + 1 >= ColCount THEN "Idle" ELSE "Read"
      BY <2>5, <3>2 DEF Reader!ReadBeat, Reader!LastBeat
    <3>5. QED
      BY <3>1, <3>3, <3>4
  <2>6. CASE Reader!ReadWait(waitrequest, rddatavalid)
    <3>1. reader.state = "Read" /\ ~rddatavalid
      BY <2>6 DEF Reader!ReadWait, Reader!Beat
    <3>2. /\ ~reader'.avm_rd /\ ~reader'.row_sclr /\ reader'.count = reader.count
          /\ reader'.avm_address = reader.avm_address /\ reader'.state = "Read"
      BY <2>6 DEF Reader!ReadWait
    <3>3. CASE reader.avm_rd
      <4>1. avm_add = reader.avm_address
        BY <3>1, ReaderAlone
      <4>2. bus'.rd_left = ColCount /\ bus'.rd_index = Bus!Index(reader.avm_address)
        BY <3>3, <4>1 DEF reads
      <4>3. QED
        BY <3>1, <3>2, <3>3, <4>2
    <3>4. CASE ~reader.avm_rd
      BY <3>1, <3>2, <3>4 DEF reads
    <3>5. QED
      BY <3>3, <3>4
  <2>7. QED
    BY <2>2, <2>3, <2>4, <2>5, <2>6 DEF Tick, Reader!Clock
<1>5. WriteBurst' /\ bus'.wr_left \in Nat /\ bus'.wr_index \in Int
  <2> USE <1>1, <1>2, <1>3 DEF WriterRegisters, Writer!TypeOK, WriteBurst, Bus!Polite, Taken
  <2>1. CASE Writer!Idle(fsm.enable_burst_writer)
    BY <2>1 DEF Writer!Idle, writes
  <2>2. CASE Writer!StartBurst(fsm.enable_burst_writer, Rows!Lookahead(ofifo),
                               fsm.add_burst_writer)
    BY <2>2 DEF Writer!StartBurst, writes
  <2>3. CASE Writer!HasReq
    <3>1. avm_add = writer.avm_address /\ writes
      BY <2>3, WriterAlone DEF Writer!HasReq, writes
    <3>2. Bus!WriteIndex(avm_add) = Bus!Index(writer.avm_address) + Taken
      BY <2>3, <3>1 DEF Writer!HasReq, Bus!WriteIndex
    <3>3. QED
      BY <2>3, <3>1, <3>2 DEF Writer!HasReq
  <2>4. CASE Writer!HasData(waitrequest, Rows!Lookahead(ofifo))
    <3>1. Writer!Next7(writer.count) = writer.count + 1 /\ ~writes
      BY <2>4 DEF Writer!HasData, Writer!Next7, writes
    <3>2. QED
      BY <2>4, <3>1 DEF Writer!HasData, Writer!LastBeat
  <2>5. CASE Writer!Stalled(waitrequest)
    BY <2>5 DEF Writer!Stalled, writes
  <2>6. CASE Writer!WaitDone
    <3>1. avm_add = writer.avm_address /\ writes
      BY <2>6, WriterAlone DEF Writer!WaitDone, writes
    <3>2. Bus!WriteIndex(avm_add) = Bus!Index(writer.avm_address) + Taken
      BY <2>6, <3>1 DEF Writer!WaitDone, Bus!WriteIndex
    <3>3. QED
      BY <2>6, <3>1, <3>2 DEF Writer!WaitDone
  <2>7. CASE Writer!WaitDoneNext(waitrequest)
    BY <2>7 DEF Writer!WaitDoneNext, writes
  <2>8. CASE Writer!StalledDone(waitrequest)
    BY <2>8 DEF Writer!StalledDone, writes
  <2>9. QED
    BY <2>1, <2>2, <2>3, <2>4, <2>5, <2>6, <2>7, <2>8 DEF Tick, Writer!Clock
<1>6. bus' \in [rd_left : Nat, rd_index : Int, wr_left : Nat, wr_index : Int]
  BY <1>2, <1>4, <1>5
<1>7. QED
  BY <1>4, <1>5, <1>6 DEF Bursts

LEMMA BurstsHold == Spec => []Bursts
<1>1. Bursts /\ (Call \/ LoadImage \/ UNCHANGED vars) => Bursts'
  BY DEF Call, LoadImage, vars, Bursts, ReadBurst, WriteBurst, Taken
<1>2. Handshakes /\ Control!IInv /\ Bursts /\ [Next]_vars => Bursts'
  BY <1>1, BurstsTick, BurstsReset DEF Next
<1>3. QED
  BY <1>2, BurstsInit, HandshakesHold, ControlInvariant, PTL DEF Spec

\* The bus sees one burst at a time, and every word written belongs to one.
THEOREM BurstsSeparate == Spec => []OneBurstAtATime
<1>1. Handshakes /\ Control!IInv /\ Bursts => OneBurstAtATime
  <2> SUFFICES ASSUME Handshakes, Control!IInv, Bursts PROVE OneBurstAtATime
    OBVIOUS
  <2>1. reader.avm_rd => bus.rd_left = 0 /\ bus.wr_left = 0 /\ ~writer.avm_wr
    BY ReaderAlone DEF Bursts, ReadBurst, WriteBurst
  <2>2. writer.avm_wr => bus.rd_left = 0 /\ (writer.avm_beginburst <=> bus.wr_left = 0)
    BY WriterAlone DEF Bursts, ReadBurst, WriteBurst, Taken, Handshakes, WriterRegisters
  <2>3. fsm.done => bus.rd_left = 0 /\ bus.wr_left = 0
    <3>1. fsm.done => reader.done /\ writer.done
      BY DEF Control!IInv, Control!TypeOK, Control!FsmTypeOK, Control!EnablesFollowState, Control!JobsFollowState
    <3>2. QED
      BY <3>1 DEF Bursts, ReadBurst, WriteBurst, Handshakes, ReaderRegisters, WriterRegisters
  <2>4. QED
    BY <2>1, <2>2, <2>3 DEF OneBurstAtATime
<1>2. QED
  BY <1>1, HandshakesHold, ControlInvariant, BurstsHold, PTL

-----------------------------------------------------------------------------
(***************************************************************************)
(* What the memory and the FIFOs of the accelerator hold: RowsIntact, for  *)
(* every image size and FIFO depth.                                        *)
(*                                                                         *)
(* Each component gets a lemma that says what one clock edge does to it    *)
(* (..Moves); the invariants of the parts are then preserved in every      *)
(* cycle because the parts move together.                                  *)
(***************************************************************************)

(***************************************************************************)
(* Where the program is while the accelerator runs.                        *)
(***************************************************************************)
RunFollowsHost ==
  /\ host \in {"Filling", "WriteAddress", "WriteStart", "Gap"} => fsm.state = "Idle"
  /\ slave.Start => host = "Gap"
  /\ host = "Test" /\ slave.avs_rddata # 0 => fsm.state = "Idle"
  /\ aborted \in BOOLEAN
  /\ aborted => slave.RegStartAddress = 0
  /\ ~aborted =>
       /\ host \in {"WriteStart", "Gap", "Read", "Test"} => slave.RegStartAddress = Image
       /\ host = "Gap" => slave.Start
  /\ fsm.state # "Idle" => base = IF aborted THEN 0 ELSE Image

\* The run that is going on is the one the program asked for, or an aborted one.
LEMMA RunInit == Init => RunFollowsHost
<1> SUFFICES ASSUME Init PROVE RunFollowsHost
  OBVIOUS
<1>1. fsm.state = "Idle" /\ slave.RegStartAddress = 0 /\ host = "Filling" /\ aborted = FALSE
  BY DEF Init, Host!Init, Fsm!Init, Slave!Init
<1>2. slave.Start = FALSE
  BY DEF Init, Slave!Init
<1>3. QED
  BY <1>1, <1>2 DEF RunFollowsHost

\* The state machine leaves Idle on a start only.
LEMMA IdleStays ==
  ASSUME NEW e, NEW a, NEW r, NEW w, NEW c, Fsm!FsmTypeOK, Fsm!Clock(e, a, r, w, c),
         fsm.state = "Idle"
  PROVE  IF e THEN fsm'.state = "ReadFirstRowWait" ELSE fsm'.state = "Idle"
  BY DEF Fsm!FsmTypeOK, Fsm!Registers, Fsm!Clock, Fsm!Idle, Fsm!Start, Fsm!ReadFirstRowWait, Fsm!FirstRowRead,
     Fsm!ReadSecondRowWait, Fsm!SecondRowRead, Fsm!ReadComputeWait, Fsm!RowComputed,
     Fsm!WriteWait, Fsm!RowWritten, Fsm!LastRowWritten, Fsm!Waiting

LEMMA RunTick ==
  ASSUME Handshakes, Control!IInv, RunFollowsHost, NEW issue \in BOOLEAN,
         NEW waitrequest \in BOOLEAN, NEW rddatavalid \in BOOLEAN,
         Tick(issue, waitrequest, rddatavalid)
  PROVE  RunFollowsHost'
<1> USE DEF Tick
<1>1. /\ Fsm!FsmTypeOK /\ SlaveRegisters /\ (fsm.done <=> fsm.state = "Idle")
  BY DEF Handshakes, Control!IInv, Control!EnablesFollowState
<1>2. fsm.state = "Idle" =>
        IF slave.Start THEN fsm'.state = "ReadFirstRowWait" ELSE fsm'.state = "Idle"
  BY <1>1, IdleStays
<1>3. /\ slave'.RegStartAddress = IF host = "WriteAddress" /\ issue THEN Image
                                                                    ELSE slave.RegStartAddress
      /\ slave'.Start <=> host = "WriteStart" /\ issue
      /\ slave'.avs_rddata = IF host = "Read" /\ issue THEN IF fsm.done THEN 1 ELSE 0
                                                       ELSE slave.avs_rddata
  <2> USE DEF Slave!Clock, Host!avs_wr, Host!avs_rd, Host!avs_add, Host!avs_wrdata
  <2>1. slave'.RegStartAddress = IF host = "WriteAddress" /\ issue THEN Image
                                                                    ELSE slave.RegStartAddress
    OBVIOUS
  <2>2. slave'.Start <=> host = "WriteStart" /\ issue
    <3>1. slave'.Start = Slave!Started(Host!avs_wr(issue), Host!avs_add, Host!avs_wrdata)
      OBVIOUS
    <3>2. Slave!Started(Host!avs_wr(issue), Host!avs_add, Host!avs_wrdata)
            <=> host = "WriteStart" /\ issue
      <4>1. CASE host = "WriteStart"
        BY <4>1 DEF Slave!Started
      <4>2. CASE host # "WriteStart"
        BY <4>2 DEF Slave!Started
      <4>3. QED
        BY <4>1, <4>2
    <3>3. QED
      BY <3>1, <3>2
  <2>3. slave'.avs_rddata = IF host = "Read" /\ issue THEN IF fsm.done THEN 1 ELSE 0
                                                       ELSE slave.avs_rddata
    <3>1. slave'.avs_rddata = IF issue /\ host = "Read" THEN Slave!ReadData(Host!avs_add, fsm.done)
                                                          ELSE slave.avs_rddata
      OBVIOUS
    <3>2. host = "Read" => Slave!ReadData(Host!avs_add, fsm.done) = IF fsm.done THEN 1 ELSE 0
      BY DEF Slave!ReadData, Slave!Bit
    <3>3. QED
      BY <3>1, <3>2
  <2>4. QED
    BY <2>1, <2>2, <2>3
<1>4. \/ host = "Filling" /\ host' = "Filling"
      \/ host = "WriteAddress" /\ issue /\ host' = "WriteStart"
      \/ host = "WriteStart" /\ issue /\ host' = "Gap"
      \/ host = "Gap" /\ host' = "Read"
      \/ host = "Read" /\ issue /\ host' = "Test"
      \/ host = "Test" /\ host' = IF slave.avs_rddata = 0 THEN "Read" ELSE "Filling"
      \/ host \in {"WriteAddress", "WriteStart", "Read"} /\ ~issue /\ host' = host
  BY DEF Host!Clock, Host!Filling, Host!WriteAddress, Host!WriteStart, Host!Gap, Host!Read,
     Host!Test, Host!Delay, Host!CanIssue
<1>5. aborted' = (aborted /\ ~(host = "WriteAddress" /\ issue))
  OBVIOUS
<1>6. base' = IF fsm.state = "Idle" /\ slave.Start THEN slave.RegStartAddress ELSE base
  OBVIOUS
<1> USE DEF RunFollowsHost
<1>7. host' \in {"Filling", "WriteAddress", "WriteStart", "Gap"} => fsm'.state = "Idle"
  BY <1>2, <1>4
<1>8. /\ slave'.Start => host' = "Gap"
      /\ host' = "Test" /\ slave'.avs_rddata # 0 => fsm'.state = "Idle"
  BY <1>1, <1>2, <1>3, <1>4
<1>9. /\ aborted' \in BOOLEAN
      /\ aborted' => slave'.RegStartAddress = 0
      /\ ~aborted' =>
           /\ host' \in {"WriteStart", "Gap", "Read", "Test"} => slave'.RegStartAddress = Image
           /\ host' = "Gap" => slave'.Start
  BY <1>1, <1>3, <1>4, <1>5
<1>10. fsm'.state # "Idle" => base' = IF aborted' THEN 0 ELSE Image
  BY <1>1, <1>2, <1>4, <1>5, <1>6 DEF SlaveRegisters, Host!Places
<1>11. QED
  BY <1>7, <1>8, <1>9, <1>10

LEMMA RunHolds == Spec => []RunFollowsHost
<1>1. ASSUME Handshakes, RunFollowsHost, ResetButton PROVE RunFollowsHost'
  BY <1>1 DEF Handshakes, Fsm!FsmTypeOK, Fsm!Registers, SlaveRegisters, ResetButton, Fsm!Reset, Slave!Reset, RunFollowsHost
<1>2. RunFollowsHost /\ (Call \/ LoadImage \/ UNCHANGED vars) => RunFollowsHost'
  BY DEF Call, Host!Call, LoadImage, vars, RunFollowsHost
<1>3. Handshakes /\ Control!IInv /\ RunFollowsHost /\ [Next]_vars => RunFollowsHost'
  BY <1>1, <1>2, RunTick DEF Next
<1>4. QED
  BY <1>3, RunInit, HandshakesHold, ControlInvariant, PTL DEF Spec

(***************************************************************************)
(* FIFOs.  A word of an aborted run may be anything, so the sequences have *)
(* a length and an index but no type.                                      *)
(***************************************************************************)
IsSeq(s) == /\ Len(s) \in Nat
            /\ s = [n \in 1 .. Len(s) |-> s[n]]

FifoOK(q) == q = [words |-> q.words, q |-> q.q] /\ IsSeq(q.words)

Entries(s) == {s[n] : n \in 1 .. Len(s)}

Bit(b) == IF b THEN 1 ELSE 0

\* A sequence of any words is one in the sense of the library.
LEMMA SeqOf == ASSUME NEW s, IsSeq(s) PROVE s \in Seq(Entries(s))
<1>1. s \in [1 .. Len(s) -> Entries(s)]
  BY DEF IsSeq, Entries
<1>2. QED
  BY <1>1 DEF IsSeq

LEMMA OfSeq == ASSUME NEW S, NEW s \in Seq(S) PROVE IsSeq(s)
  BY LenProperties DEF IsSeq

\* What a clear leaves.
LEMMA EmptyOK == FifoOK(Rows!EmptyFifo) /\ Len(Rows!EmptyFifo.words) = 0
<1>1. IsSeq(<<>>) /\ Len(<<>>) = 0
  BY OfSeq, EmptySeq
<1>2. QED
  BY <1>1 DEF FifoOK, Rows!EmptyFifo

\* A FIFO without a word is an empty one.
LEMMA NoWords == ASSUME NEW s, IsSeq(s) PROVE s = <<>> <=> Len(s) = 0
  BY SeqOf, EmptySeq

\* One clock edge of a FIFO that is not cleared and not overrun.
LEMMA FifoEdge ==
  ASSUME NEW q, FifoOK(q), NEW sclr, NEW wr, NEW d, NEW rd, ~sclr,
         rd => Len(q.words) > 0, wr => Len(q.words) < Depth
  PROVE  LET g == Rows!Clocked(q, sclr, wr, d, rd)
             n == Len(q.words) IN
         /\ FifoOK(g)
         /\ Len(g.words) = n - Bit(rd) + Bit(wr)
         /\ \A i \in 1 .. n - Bit(rd) : g.words[i] = q.words[i + Bit(rd)]
         /\ wr => g.words[n - Bit(rd) + 1] = d
         /\ g.q = IF rd THEN q.words[1] ELSE q.q
<1> DEFINE s == q.words
           kept == IF rd THEN Tail(s) ELSE s
           S == Entries(s) \cup {d}
           g == Rows!Clocked(q, sclr, wr, d, rd)
<1>1. s \in Seq(S) /\ Len(s) \in Nat
  BY SeqOf, SeqMonotonic DEF FifoOK, IsSeq
<1>2. rd => ~Rows!IsEmpty(q)
  BY <1>1, EmptySeq DEF Rows!IsEmpty
<1>3. wr => ~Rows!IsFull(q)
  BY <1>1, DepthAssumption DEF Rows!IsFull
<1>4. g = [words |-> IF wr THEN Append(kept, d) ELSE kept, q |-> IF rd THEN Head(s) ELSE q.q]
  BY <1>2, <1>3 DEF Rows!Clocked
<1>5. /\ kept \in Seq(S)
      /\ Len(kept) = Len(s) - Bit(rd)
      /\ \A i \in 1 .. Len(kept) : kept[i] = s[i + Bit(rd)]
  <2>1. CASE rd
    <3>1. s # <<>>
      BY <1>2, <2>1 DEF Rows!IsEmpty
    <3>2. QED
      BY <1>1, <2>1, <3>1, HeadTailProperties DEF Bit
  <2>2. CASE ~rd
    BY <1>1, <2>2 DEF Bit
  <2>3. QED
    BY <2>1, <2>2
<1>6. rd => Head(s) = s[1]
  BY <1>1, <1>2 DEF Rows!IsEmpty
<1> DEFINE t == IF wr THEN Append(kept, d) ELSE kept
<1> HIDE DEF kept, s, S
<1>7. /\ t \in Seq(S)
      /\ Len(t) = Len(kept) + Bit(wr)
      /\ \A i \in 1 .. Len(kept) : t[i] = kept[i]
      /\ wr => t[Len(kept) + 1] = d
  <2>1. CASE wr
    <3>1. d \in S
      BY DEF S
    <3>2. QED
      BY <1>5, <2>1, <3>1, AppendProperties DEF Bit
  <2>2. CASE ~wr
    BY <1>5, <2>2 DEF Bit
  <2>3. QED
    BY <2>1, <2>2
<1>8. g.words = t /\ g.q = (IF rd THEN s[1] ELSE q.q) /\ FifoOK(g)
  <2>1. g = [words |-> t, q |-> IF rd THEN Head(s) ELSE q.q]
    BY <1>4
  <2>2. IsSeq(t)
    BY <1>7, OfSeq
  <2> HIDE DEF t, g
  <2>3. g.words = t /\ g.q = IF rd THEN s[1] ELSE q.q
    BY <1>6, <2>1
  <2>4. FifoOK(g)
    BY <2>1, <2>2, <2>3 DEF FifoOK
  <2>5. QED
    BY <2>3, <2>4
<1> HIDE DEF g, t
<1>9. QED
  <2>1. Len(g.words) = Len(s) - Bit(rd) + Bit(wr)
    BY <1>5, <1>7, <1>8
  <2>2. \A i \in 1 .. Len(s) - Bit(rd) : g.words[i] = s[i + Bit(rd)]
    BY <1>5, <1>7, <1>8
  <2>3. wr => g.words[Len(s) - Bit(rd) + 1] = d
    BY <1>5, <1>7, <1>8
  <2>4. QED
    BY <1>8, <2>1, <2>2, <2>3 DEF s, g

\* Nothing is asked of it.
LEMMA FifoKept ==
  ASSUME NEW q, FifoOK(q), NEW sclr, NEW wr, NEW d, NEW rd, ~sclr, ~wr, ~rd
  PROVE  Rows!Clocked(q, sclr, wr, d, rd) = q
  BY DEF FifoOK, Rows!Clocked

\* A clear takes everything out, whatever else is asked.
LEMMA FifoCleared ==
  ASSUME NEW q, NEW sclr, NEW wr, NEW d, NEW rd, sclr
  PROVE  Rows!Clocked(q, sclr, wr, d, rd) = Rows!EmptyFifo
  BY DEF Rows!Clocked

\* The words of a row follow each other, and the first follows the last.
Wrap(n) == IF n < ColCount THEN n ELSE n - ColCount

\* s holds len words of W, from word first on; nothing is said of the words of
\* a run that is not live.
Holds(live, s, W, first, len) ==
  /\ Len(s) = len
  /\ live => \A n \in 1 .. len : s[n] = W[Wrap(first + n - 1)]

\* One clock edge of a FIFO that holds words of W.
LEMMA HoldsEdge ==
  ASSUME NEW q, FifoOK(q), NEW live, NEW W, NEW first \in 0 .. ColCount,
         NEW len \in 0 .. ColCount, NEW sclr, NEW wr, NEW d, NEW rd, ~sclr,
         rd => len > 0, wr => len < ColCount,
         Holds(live, q.words, W, first, len),
         wr /\ live => d = W[Wrap(first + len)]
  PROVE  LET g == Rows!Clocked(q, sclr, wr, d, rd) IN
         /\ FifoOK(g)
         /\ Holds(live, g.words, W, first + Bit(rd), len - Bit(rd) + Bit(wr))
         /\ rd /\ live => g.q = W[Wrap(first)]
         /\ ~rd => g.q = q.q
<1> DEFINE g == Rows!Clocked(q, sclr, wr, d, rd)
<1>1. /\ FifoOK(g)
      /\ Len(g.words) = len - Bit(rd) + Bit(wr)
      /\ \A i \in 1 .. len - Bit(rd) : g.words[i] = q.words[i + Bit(rd)]
      /\ wr => g.words[len - Bit(rd) + 1] = d
      /\ g.q = IF rd THEN q.words[1] ELSE q.q
  BY FifoEdge, DepthAssumption DEF Holds
<1> HIDE DEF g
<1>2. ASSUME live, NEW n \in 1 .. len - Bit(rd) + Bit(wr)
      PROVE  g.words[n] = W[Wrap(first + Bit(rd) + n - 1)]
  <2>1. CASE n <= len - Bit(rd)
    <3>1. g.words[n] = q.words[n + Bit(rd)] /\ n + Bit(rd) \in 1 .. len
      BY <1>1, <2>1 DEF Bit
    <3>2. q.words[n + Bit(rd)] = W[Wrap(first + (n + Bit(rd)) - 1)]
      BY <1>2, <3>1 DEF Holds
    <3>3. first + (n + Bit(rd)) - 1 = first + Bit(rd) + n - 1
      BY DEF Bit
    <3>4. QED
      BY <3>1, <3>2, <3>3
  <2>2. CASE n > len - Bit(rd)
    <3>1. wr /\ n = len - Bit(rd) + 1
      BY <2>2 DEF Bit
    <3>2. first + Bit(rd) + n - 1 = first + len
      BY <3>1 DEF Bit
    <3>3. QED
      BY <1>1, <1>2, <3>1, <3>2
  <2>3. QED
    BY <2>1, <2>2 DEF Bit
<1>3. rd /\ live => g.q = W[Wrap(first)]
  <2>1. rd /\ live => q.words[1] = W[Wrap(first + 1 - 1)] /\ first + 1 - 1 = first
    BY DEF Holds
  <2>2. QED
    BY <1>1, <2>1
<1>4. Holds(live, g.words, W, first + Bit(rd), len - Bit(rd) + Bit(wr))
  BY <1>1, <1>2 DEF Holds
<1>5. QED
  BY <1>1, <1>3, <1>4 DEF g

\* The same, in terms of the counters after the edge.
LEMMA HoldsNext ==
  ASSUME NEW q, FifoOK(q), NEW live, NEW W, NEW first \in 0 .. ColCount,
         NEW len \in 0 .. ColCount, NEW sclr, NEW wr, NEW d, NEW rd, ~sclr,
         rd => len > 0, wr => len < ColCount,
         Holds(live, q.words, W, first, len),
         wr /\ live => d = W[Wrap(first + len)],
         NEW next, next = first + Bit(rd), NEW left, left = len - Bit(rd) + Bit(wr)
  PROVE  Holds(live, Rows!Clocked(q, sclr, wr, d, rd).words, W, next, left)
  BY HoldsEdge

\* The word that is taken out is the first.
LEMMA FirstTaken ==
  ASSUME NEW q, FifoOK(q), Len(q.words) > 0, NEW wr, NEW d
  PROVE  Rows!Clocked(q, FALSE, wr, d, TRUE).q = q.words[1]
<1>1. q.words \in Seq(Entries(q.words)) /\ q.words # <<>>
  BY SeqOf, EmptySeq DEF FifoOK
<1>2. Rows!Clocked(q, FALSE, wr, d, TRUE).q = Head(q.words)
  BY <1>1 DEF Rows!Clocked, Rows!IsEmpty
<1>3. Head(q.words) = q.words[1]
  BY <1>1
<1>4. QED
  BY <1>2, <1>3

\* The whole row has been taken out and put back.
LEMMA HoldsTurn ==
  ASSUME NEW live, NEW s, NEW W, Holds(live, s, W, ColCount, ColCount)
  PROVE  Holds(live, s, W, 0, ColCount)
<1>1. \A n \in 1 .. ColCount : Wrap(ColCount + n - 1) = Wrap(0 + n - 1)
  BY DEF Wrap
<1>2. QED
  BY <1>1 DEF Holds
-----------------------------------------------------------------------------
\* How the multiplexer connects the FIFOs.
LEMMA FillClock ==
  ASSUME RowFifosClock, fsm.select_idx \in 0 .. 3
  PROVE  fifo'[fsm.select_idx] =
           Rows!Clocked(fifo[fsm.select_idx], fsm.clr_all \/ reader.row_sclr,
                        reader.row_wrreq, reader.row_data, FALSE)
<1>1. Mult!LaneOf(fsm.select_idx, fsm.select_idx) = 0
  BY DEF Mult!LaneOf
<1>2. QED
  BY <1>1 DEF RowFifosClock, Mult!Fifos, Mult!Sclr, Mult!Wrreq, Mult!Data, Mult!Rdreq

\* The FIFO of a lane sees the requests of that lane and the clear of all.
LEMMA LaneClock ==
  ASSUME RowFifosClock, NEW s \in 0 .. 3, fsm.select_idx = s, NEW i \in 1 .. 3, NEW f \in 0 .. 3,
         f = Mult!FifoOf(s, i)
  PROVE  fifo'[f] = Rows!Clocked(fifo[f], fsm.clr_all, compute.row_wrreq[i],
                                 compute.row_data[i], compute.row_rdreq[i])
<1>1. Mult!LaneOf(s, f) = i
  BY DEF Mult!LaneOf, Mult!FifoOf
<1>2. i # 0
  OBVIOUS
<1>3. fifo'[f] = Rows!Clocked(fifo[f], Mult!Sclr(s, f, reader.row_sclr, fsm.clr_all),
                              compute.row_wrreq[i], compute.row_data[i], compute.row_rdreq[i])
  BY <1>1, <1>2 DEF RowFifosClock, Mult!Fifos, Mult!Wrreq, Mult!Data, Mult!Rdreq
<1>4. Mult!Sclr(s, f, reader.row_sclr, fsm.clr_all) <=> fsm.clr_all
  BY <1>1, <1>2 DEF Mult!Sclr
<1>5. QED
  BY <1>3, <1>4 DEF Rows!Clocked

\* Every FIFO but the one the reader fills is the FIFO of a lane.
LEMMA EveryFifo ==
  ASSUME NEW s \in 0 .. 3, NEW f \in 0 .. 3
  PROVE  f = s \/ \E i \in 1 .. 3 : f = Mult!FifoOf(s, i)
  BY DEF Mult!FifoOf

\* The lanes are connected to the rows around the one that is filtered.
LEMMA LaneFifo ==
  ASSUME NEW w \in Nat, NEW i \in 1 .. 3
  PROVE  /\ Mult!FifoOf((w + 2) % 4, i) = (w - 2 + i) % 4
         /\ (w - 2 + i) % 4 \in 0 .. 3 /\ (w + 2) % 4 \in 0 .. 3
         /\ (w - 2 + i) % 4 # (w + 2) % 4
  BY DEF Mult!FifoOf

(***************************************************************************)
(* A clock edge of the state machine, as far as states and rows go.        *)
(***************************************************************************)
SameRows == fsm'.write_row = fsm.write_row /\ fsm'.read_row = fsm.read_row

\* States the state machine leaves at the next edge, and the state after each.
Passes == \/ fsm.state = "ReadFirstRowWait"  /\ fsm'.state = "ReadFirstRow"
          \/ fsm.state = "ReadSecondRowWait" /\ fsm'.state = "ReadSecondRow"
          \/ fsm.state = "ReadComputeWait"   /\ fsm'.state = "ReadCompute"
          \/ fsm.state = "WriteWait"         /\ fsm'.state = "Write"

Waits == /\ \/ fsm.state \in {"ReadFirstRow", "ReadSecondRow"} /\ ~reader.done
            \/ fsm.state = "ReadCompute" /\ ~(reader.done /\ compute.done)
            \/ fsm.state = "Write" /\ ~writer.done
         /\ fsm'.state = fsm.state

Fetched == /\ reader.done
           /\ \/ fsm.state = "ReadFirstRow"  /\ fsm'.state = "ReadSecondRowWait"
              \/ fsm.state = "ReadSecondRow" /\ fsm'.state = "ReadComputeWait"
              \/ /\ fsm.state = "ReadCompute" /\ fsm'.state = "WriteWait"
                 /\ compute.done
           /\ fsm'.write_row = fsm.write_row /\ fsm'.read_row = fsm.read_row + 1

Written == /\ fsm.state = "Write" /\ writer.done
           /\ \/ fsm'.state = "ReadComputeWait" /\ fsm.write_row + 1 < RowCount
              \/ fsm'.state = "Idle"            /\ fsm.write_row + 1 = RowCount
           /\ fsm'.write_row = fsm.write_row + 1 /\ fsm'.read_row = fsm.read_row

Starts == /\ fsm.state = "Idle" /\ slave.Start
          /\ fsm'.state = "ReadFirstRowWait"
          /\ fsm'.write_row = 0 /\ fsm'.read_row = 0

Rests == fsm.state = "Idle" /\ ~slave.Start /\ fsm'.state = "Idle"

\* Every clock edge of the state machine is one of these.
LEMMA FsmMoves ==
  ASSUME Handshakes, Control!IInv, NEW issue \in BOOLEAN,
         NEW waitrequest \in BOOLEAN, NEW rddatavalid \in BOOLEAN,
         Tick(issue, waitrequest, rddatavalid)
  PROVE  /\ \/ Rests \/ Starts \/ (Passes /\ SameRows) \/ (Waits /\ SameRows)
            \/ Fetched \/ Written
         /\ fsm'.clr_all <=> Starts
<1>1. /\ DOMAIN fsm = Fsm!Registers
      /\ fsm.write_row \in Nat /\ fsm.read_row \in Nat
      /\ fsm.state # "Idle" => fsm.write_row < RowCount
      /\ fsm.state \in {"ReadFirstRow", "ReadSecondRow", "ReadCompute"} =>
           fsm.read_row < RowCount + 2
      /\ slave.Start \in BOOLEAN
  <2>1. /\ DOMAIN fsm = Fsm!Registers /\ fsm.write_row \in Nat /\ fsm.read_row \in Nat
        /\ slave.Start \in BOOLEAN
    BY DEF Handshakes, Fsm!FsmTypeOK, SlaveRegisters
  <2>2. Control!RowsFollowState
    BY DEF Control!IInv
  <2>3. QED
    BY <2>1, <2>2, RowCountAssumption DEF Control!RowsFollowState, Control!FirstRow,
       Control!SecondRow, Control!Filtering
<1>2. \A r \in Nat : r < RowCount + 2 => Fsm!Next8(r) = r + 1
  BY RowCountAssumption DEF Fsm!Next8
<1> USE <1>1 DEF Fsm!Registers, SameRows
<1>3. CASE Fsm!Idle(slave.Start)
  BY <1>3 DEF Fsm!Idle, Rests, Starts
<1>4. CASE Fsm!Start(slave.Start, slave.RegStartAddress)
  BY <1>4 DEF Fsm!Start, Starts
<1>5. CASE Fsm!ReadFirstRowWait \/ Fsm!ReadSecondRowWait \/ Fsm!ReadComputeWait \/ Fsm!WriteWait
  BY <1>5 DEF Fsm!ReadFirstRowWait, Fsm!ReadSecondRowWait, Fsm!ReadComputeWait, Fsm!WriteWait,
     Passes, Starts
<1>6. CASE Fsm!FirstRowRead(reader.done)
  BY <1>2, <1>6 DEF Fsm!FirstRowRead, Fetched, Starts
<1>7. CASE Fsm!SecondRowRead(reader.done)
  BY <1>2, <1>7 DEF Fsm!SecondRowRead, Fetched, Starts
<1>8. CASE Fsm!RowComputed(reader.done, compute.done)
  BY <1>2, <1>8 DEF Fsm!RowComputed, Fetched, Starts
<1>9. CASE Fsm!RowWritten(writer.done)
  BY <1>2, <1>9, RowCountAssumption DEF Fsm!RowWritten, Written, Starts
<1>10. CASE Fsm!LastRowWritten(writer.done)
  BY <1>2, <1>10, RowCountAssumption DEF Fsm!LastRowWritten, Written, Starts
<1>11. CASE Fsm!Waiting(reader.done, writer.done, compute.done)
  BY <1>11 DEF Fsm!Waiting, Waits, Starts
<1>12. QED
  BY <1>3, <1>4, <1>5, <1>6, <1>7, <1>8, <1>9, <1>10, <1>11 DEF Tick, Fsm!Clock

\* Outside of Idle the program waits for the answer, and nothing else moves.
LEMMA RunGoesOn ==
  ASSUME Handshakes, RunFollowsHost, NEW issue \in BOOLEAN, NEW waitrequest \in BOOLEAN,
         NEW rddatavalid \in BOOLEAN, Tick(issue, waitrequest, rddatavalid)
  PROVE  /\ frame' = frame
         /\ fsm.state # "Idle" => aborted' = aborted
  BY DEF Tick, RunFollowsHost

(***************************************************************************)
(* What is in memory.                                                      *)
(***************************************************************************)
\* The number of words of the image that have been written back.
Progress == IF fsm.state = "Idle" THEN RowCount * ColCount
            ELSE fsm.write_row * ColCount + IF fsm.state = "Write" THEN Taken ELSE 0

\* The words the writer has taken, one edge later.
LEMMA TakenStep ==
  ASSUME Handshakes, Bursts, NEW issue \in BOOLEAN, NEW waitrequest \in BOOLEAN,
         NEW rddatavalid \in BOOLEAN, Tick(issue, waitrequest, rddatavalid)
  PROVE  /\ writer.state # "Idle" => Taken' = Taken + Bit(writer.avm_wr)
         /\ writer.state = "Idle" /\ fsm.enable_burst_writer => Taken' = 0
         /\ Taken \in 0 .. ColCount /\ Taken' \in 0 .. ColCount
         /\ writer.avm_wr => Taken < ColCount
<1>1. WriterRegisters /\ Writer!TypeOK /\ WriteBurst
  BY DEF Handshakes, WriterRegisters, Bursts
<1> USE <1>1 DEF WriterRegisters, Writer!TypeOK, WriteBurst, Taken, Bit
<1>2. CASE Writer!Idle(fsm.enable_burst_writer)
  BY <1>2 DEF Writer!Idle
<1>3. CASE Writer!StartBurst(fsm.enable_burst_writer, Rows!Lookahead(ofifo),
                             fsm.add_burst_writer)
  BY <1>3 DEF Writer!StartBurst
<1>4. CASE Writer!HasReq
  BY <1>4 DEF Writer!HasReq
<1>5. CASE Writer!HasData(waitrequest, Rows!Lookahead(ofifo))
  <2>1. Writer!Next7(writer.count) = writer.count + 1
    BY <1>5 DEF Writer!HasData, Writer!Next7
  <2>2. QED
    BY <1>5, <2>1 DEF Writer!HasData, Writer!LastBeat
<1>6. CASE Writer!Stalled(waitrequest)
  BY <1>6 DEF Writer!Stalled
<1>7. CASE Writer!WaitDone
  BY <1>7 DEF Writer!WaitDone
<1>8. CASE Writer!WaitDoneNext(waitrequest)
  BY <1>8 DEF Writer!WaitDoneNext
<1>9. CASE Writer!StalledDone(waitrequest)
  BY <1>9 DEF Writer!StalledDone
<1>10. QED
  BY <1>2, <1>3, <1>4, <1>5, <1>6, <1>7, <1>8, <1>9 DEF Tick, Writer!Clock

LEMMA NextRow ==
  ASSUME NEW w \in Nat
  PROVE  w * ColCount \in Nat /\ (w + 1) * ColCount = w * ColCount + ColCount
  OBVIOUS

\* The place in memory of a word of a row.
LEMMA RowIndex ==
  ASSUME NEW w \in Nat
  PROVE  Bus!Index(Image + Control!RowBytes * w) = w * ColCount
<1>1. \A n \in Int : (4 * n) \div 4 = n
  OBVIOUS
<1>2. (Image + Control!RowBytes * w) - Image = 4 * (w * ColCount)
  BY ImageAssumption DEF Control!RowBytes
<1>3. w * ColCount \in Int
  OBVIOUS
<1>4. (4 * (w * ColCount)) \div 4 = w * ColCount
  <2> DEFINE n == w * ColCount
  <2> HIDE DEF n
  <2>1. n \in Int
    BY <1>3 DEF n
  <2>2. (4 * n) \div 4 = n
    BY <1>1, <2>1
  <2>3. QED
    BY <2>2 DEF n
<1>5. QED
  <2>1. Bus!Index(Image + Control!RowBytes * w) = ((Image + Control!RowBytes * w) - Image) \div 4
    BY DEF Bus!Index
  <2>2. QED
    BY <1>2, <1>4, <2>1

\* Every word that is written is the next one of the image.
LEMMA ProgressStep ==
  ASSUME Handshakes, Control!IInv, Bursts, NEW issue \in BOOLEAN, NEW waitrequest \in BOOLEAN,
         NEW rddatavalid \in BOOLEAN, Tick(issue, waitrequest, rddatavalid), ~Starts
  PROVE  /\ Progress \in Nat
         /\ Progress' = Progress + Bit(writer.avm_wr)
         /\ writer.avm_wr => /\ fsm.state = "Write" /\ Progress < RowCount * ColCount
                             /\ base = Image => Bus!WriteIndex(avm_add) = Progress
<1>1. /\ Rests \/ (Passes /\ SameRows) \/ (Waits /\ SameRows) \/ Fetched \/ Written
      /\ fsm.write_row \in Nat
      /\ fsm.state # "Idle" => fsm.write_row < RowCount
  BY FsmMoves DEF Handshakes, Fsm!FsmTypeOK, Control!IInv, Control!RowsFollowState
<1>2. /\ writer.state # "Idle" => fsm.state = "Write" /\ ~writer.done
      /\ writer.done <=> writer.state = "Idle"
      /\ fsm.state = "WriteWait" => fsm.enable_burst_writer
      /\ writer.avm_wr => writer.state # "Idle"
      /\ writer.avm_wr \in BOOLEAN
  BY DEF Handshakes, WriterRegisters, Writer!TypeOK, Control!IInv, Control!JobsFollowState, Control!EnablesFollowState, Bursts, WriteBurst
<1>3. /\ writer.state # "Idle" => Taken' = Taken + Bit(writer.avm_wr)
      /\ writer.state = "Idle" /\ fsm.enable_burst_writer => Taken' = 0
      /\ Taken \in 0 .. ColCount /\ Taken' \in 0 .. ColCount
      /\ writer.avm_wr => Taken < ColCount
  BY TakenStep
<1>4. /\ fsm.write_row * ColCount \in Nat /\ RowCount * ColCount \in Nat
      /\ (fsm.write_row + 1) * ColCount = fsm.write_row * ColCount + ColCount
  BY <1>1, NextRow, RowCountAssumption
<1>5. Progress \in Nat
  BY <1>3, <1>4 DEF Progress
<1>6. writer.state = "Idle" => Taken = ColCount /\ ~writer.avm_wr
  BY <1>2 DEF Taken
<1>7. Progress' = Progress + Bit(writer.avm_wr)
  <2> USE <1>2, <1>3, <1>4, <1>6 DEF Progress, Bit
  <2>1. CASE Rests
    BY <2>1 DEF Rests
  <2>2. CASE Passes /\ SameRows
    BY <2>2 DEF Passes, SameRows
  <2>3. CASE Waits /\ SameRows
    BY <2>3 DEF Waits, SameRows
  <2>4. CASE Fetched
    BY <2>4 DEF Fetched
  <2>5. CASE Written
    BY <2>5 DEF Written
  <2>6. QED
    BY <1>1, <2>1, <2>2, <2>3, <2>4, <2>5
<1>8. ASSUME writer.avm_wr PROVE fsm.state = "Write" /\ Progress < RowCount * ColCount
  <2>1. fsm.state = "Write"
    BY <1>2, <1>8
  <2>2. fsm.write_row + 1 <= RowCount
    BY <1>1, <2>1, RowCountAssumption
  <2>3. (fsm.write_row + 1) * ColCount <= RowCount * ColCount
    BY <1>1, <2>2, RowCountAssumption
  <2>4. QED
    BY <1>3, <1>4, <1>8, <2>1, <2>3 DEF Progress
<1>9. ASSUME writer.avm_wr, base = Image PROVE Bus!WriteIndex(avm_add) = Progress
  <2>1. fsm.state = "Write" /\ writer.state # "Idle"
    BY <1>2, <1>9
  <2>2. writer.avm_address = Image + Control!RowBytes * fsm.write_row
    BY <1>9, <2>1 DEF Control!IInv, Control!LatchedAddresses, Control!AddressesFollowState,
       Control!RowAddress
  <2>3. Bus!Index(writer.avm_address) = fsm.write_row * ColCount
    BY <1>1, <2>2, RowIndex
  <2>4. avm_add = writer.avm_address
    BY <2>1, WriterAlone
  <2>5. Bus!WriteIndex(avm_add) = Bus!Index(writer.avm_address) + Taken
    BY <1>3, <1>9, <2>1, <2>3, <2>4, <1>4 DEF Bursts, WriteBurst, Bus!WriteIndex, Handshakes, WriterRegisters, Taken
  <2>6. QED
    BY <2>1, <2>3, <2>5 DEF Progress
<1>10. QED
  BY <1>5, <1>7, <1>8, <1>9

\* The program waits for a run that nothing has disturbed.
InRun == ~aborted /\ host \in {"Read", "Test"}

\* What has not been written back is the image that was loaded.
MemoryInv ==
  /\ DOMAIN mem = 0 .. MemWords - 1
  /\ host = "WriteAddress" => mem = Loaded(frame)
  /\ host \in {"WriteStart", "Gap"} /\ ~aborted => mem = Loaded(frame)
  /\ InRun => \A v \in 0 .. MemWords - 1 :
                v >= Progress => mem[v] = Filter0!OriginalWord(frame, v)

\* A clock edge writes nothing but the next word of the image.
LEMMA MemoryStep ==
  ASSUME Handshakes, Control!IInv, Bursts, MemoryInv, NEW issue \in BOOLEAN,
         NEW waitrequest \in BOOLEAN, NEW rddatavalid \in BOOLEAN,
         Tick(issue, waitrequest, rddatavalid)
  PROVE  /\ DOMAIN mem' = DOMAIN mem
         /\ ~writer.avm_wr => mem' = mem
         /\ writer.avm_wr /\ base = Image /\ ~Starts =>
              \A v \in DOMAIN mem : mem'[v] = IF v = Progress THEN writer.avm_wrdata ELSE mem[v]
<1>1. mem' = IF writer.avm_wr /\ ~waitrequest /\ Bus!WriteIndex(avm_add) \in DOMAIN mem
             THEN [mem EXCEPT ![Bus!WriteIndex(avm_add)] = writer.avm_wrdata] ELSE mem
  BY DEF Tick, Bus!Clock
<1>2. writer.avm_wr => ~waitrequest
  BY DEF Tick, Bus!Polite
<1>3. DOMAIN mem' = DOMAIN mem /\ (~writer.avm_wr => mem' = mem)
  BY <1>1
<1>4. ASSUME writer.avm_wr, base = Image, ~Starts, NEW v \in DOMAIN mem
      PROVE  mem'[v] = IF v = Progress THEN writer.avm_wrdata ELSE mem[v]
  <2>1. Bus!WriteIndex(avm_add) = Progress
    BY <1>4, ProgressStep
  <2> HIDE DEF Progress
  <2>2. QED
    BY <1>1, <1>2, <1>4, <2>1
<1>5. QED
  BY <1>3, <1>4

\* Every cycle keeps what is in memory.
LEMMA MemoryTick ==
  ASSUME Handshakes, Control!IInv, Bursts, RunFollowsHost, MemoryInv, NEW issue \in BOOLEAN,
         NEW waitrequest \in BOOLEAN, NEW rddatavalid \in BOOLEAN,
         Tick(issue, waitrequest, rddatavalid)
  PROVE  MemoryInv'
<1>1. /\ DOMAIN mem = 0 .. MemWords - 1 /\ MemWords' = MemWords
      /\ MemWords \in Nat /\ frame' = frame
  BY RowCountAssumption DEF MemoryInv, MemWords, Tick
<1>2. Handshakes /\ fsm.state = "Idle" => ~writer.avm_wr /\ mem' = mem
  BY MemoryStep DEF Control!IInv, Control!JobsFollowState, Bursts, WriteBurst, Handshakes,
     WriterRegisters
<1>3. /\ host' = "WriteAddress" => host = "WriteAddress"
      /\ host' \in {"WriteStart", "Gap"} /\ ~aborted' =>
           host = "WriteAddress" \/ (host \in {"WriteStart", "Gap"} /\ ~aborted)
      /\ InRun' => InRun \/ (host = "Gap" /\ ~aborted /\ Starts)
      /\ InRun => ~Starts
  <2>1. \/ host = "Filling" /\ host' = "Filling"
        \/ host = "WriteAddress" /\ issue /\ host' = "WriteStart"
        \/ host = "WriteStart" /\ issue /\ host' = "Gap"
        \/ host = "Gap" /\ host' = "Read"
        \/ host = "Read" /\ issue /\ host' = "Test"
        \/ host = "Test" /\ host' \in {"Read", "Filling"}
        \/ host \in {"WriteAddress", "WriteStart", "Read"} /\ ~issue /\ host' = host
    BY DEF Tick, Host!Clock, Host!Filling, Host!WriteAddress, Host!WriteStart, Host!Gap,
       Host!Read, Host!Test, Host!Delay, Host!CanIssue
  <2>2. aborted' <=> aborted /\ ~(host = "WriteAddress" /\ issue)
    BY DEF Tick
  <2>3. host = "Gap" /\ ~aborted => Starts
    BY FsmMoves DEF RunFollowsHost, Rests, Passes, Waits, Fetched, Written
  <2>4. Starts => host = "Gap"
    BY DEF Starts, RunFollowsHost
  <2>5. QED
    BY <2>1, <2>2, <2>3, <2>4 DEF InRun
<1>4. /\ host' = "WriteAddress" => mem' = Loaded(frame)
      /\ host' \in {"WriteStart", "Gap"} /\ ~aborted' => mem' = Loaded(frame)
  BY <1>2, <1>3 DEF MemoryInv, RunFollowsHost
<1>5. ASSUME InRun', NEW v \in 0 .. MemWords - 1, v >= Progress'
      PROVE  mem'[v] = Filter0!OriginalWord(frame, v)
  <2>1. CASE host = "Gap" /\ ~aborted
    <3>1. mem' = Loaded(frame)
      BY <1>2, <2>1 DEF MemoryInv, RunFollowsHost
    <3>2. QED
      BY <3>1 DEF Loaded
  <2>2. CASE InRun
    <3>1. ~Starts /\ Progress \in Nat /\ Progress' = Progress + Bit(writer.avm_wr)
      BY <1>3, <2>2, ProgressStep
    <3>2. v # Progress \/ ~writer.avm_wr
      BY <1>5, <3>1 DEF Bit
    <3>3. writer.avm_wr => base = Image
      BY <2>2, <3>1, ProgressStep DEF RunFollowsHost, InRun
    <3>4. mem'[v] = mem[v]
      BY <1>1, <3>1, <3>2, <3>3, MemoryStep
    <3>5. v >= Progress
      BY <1>5, <3>1 DEF Bit
    <3>6. QED
      BY <2>2, <3>4, <3>5 DEF MemoryInv
  <2>3. QED
    BY <1>3, <1>5, <2>1, <2>2
<1>6. DOMAIN mem' = 0 .. MemWords - 1
  BY <1>1, MemoryStep
<1>7. QED
  BY <1>1, <1>4, <1>5, <1>6 DEF MemoryInv, InRun

LEMMA MemoryHolds == Spec => []MemoryInv
<1>1. Init => MemoryInv
  BY DEF Init, Host!Init, Loaded, MemoryInv, InRun
<1>2. MemoryInv /\ Call => MemoryInv'
  BY DEF Call, Host!Call, MemoryInv, InRun, MemWords
<1>3. MemoryInv /\ LoadImage => MemoryInv'
  BY DEF LoadImage, MemoryInv, InRun, MemWords, Loaded
<1>4. MemoryInv /\ ResetButton => MemoryInv'
  BY DEF ResetButton, Bus!Reset, MemoryInv, InRun, MemWords
<1>5. MemoryInv /\ UNCHANGED vars => MemoryInv'
  BY DEF vars, MemoryInv, InRun, MemWords, Progress, Taken
<1>6. Handshakes /\ Control!IInv /\ Bursts /\ RunFollowsHost /\ MemoryInv /\ [Next]_vars
        => MemoryInv'
  BY <1>2, <1>3, <1>4, <1>5, MemoryTick DEF Next
<1>7. QED
  BY <1>1, <1>6, HandshakesHold, ControlInvariant, BurstsHold, RunHolds, PTL DEF Spec

(***************************************************************************)
(* A clock edge of the filter: where it is in the row, and what it asks of *)
(* the FIFOs.                                                              *)
(***************************************************************************)
Pos == compute.ColCounter \div 4

ReadsLanes(on)    == compute'.row_rdreq = on
WritesLanes(on)   == compute'.row_wrreq = on
Output(clear, on) == compute'.ofifo_sclr = clear /\ compute'.ofifo_wrreq = on

LaneRests == /\ compute.state = "IdleCompute" /\ compute'.state = "IdleCompute"
             /\ ~fsm.enable_compute /\ compute'.done
             /\ ReadsLanes(Thresh!None) /\ WritesLanes(Thresh!None) /\ Output(FALSE, FALSE)

LaneStarts == /\ compute.state = "IdleCompute" /\ compute'.state = "ReadDelay"
              /\ fsm.enable_compute /\ ~compute'.done
              /\ ReadsLanes(Thresh!NotEmpty(row_empty)) /\ WritesLanes(Thresh!None)
              /\ Output(TRUE, FALSE)

LaneDelays == /\ compute.state = "ReadDelay" /\ compute'.state = "FirstCompute"
              /\ ReadsLanes(compute.row_rdreq) /\ WritesLanes(compute.row_wrreq)
              /\ compute'.row_data = compute.row_data
              /\ Output(FALSE, FALSE)

FirstWord == /\ compute.state = "FirstCompute" /\ compute'.state = "Compute"
             /\ Pos' = 1
             /\ ReadsLanes(compute.row_rdreq) /\ WritesLanes(Thresh!NotEmpty(row_empty))
             /\ compute'.row_data = row_q
             /\ Output(FALSE, FALSE)

NextWords == /\ compute.state = "Compute"
             /\ compute'.state = IF Pos = ColCount - 2 THEN "LastCompute" ELSE "Compute"
             /\ Pos \in 1 .. ColCount - 2 /\ Pos' = Pos + 1
             /\ ReadsLanes(IF Pos = ColCount - 2 THEN Thresh!None ELSE compute.row_rdreq)
             /\ WritesLanes(Thresh!NotEmpty(row_empty))
             /\ compute'.row_data = row_q
             /\ Output(FALSE, TRUE)

LastWord == /\ compute.state = "LastCompute" /\ compute'.state = "LastComputeWrite"
            /\ ReadsLanes(compute.row_rdreq) /\ WritesLanes(Thresh!NotEmpty(row_empty))
            /\ compute'.row_data = row_q
            /\ Output(FALSE, TRUE)

LaneEnds == /\ compute.state = "LastComputeWrite" /\ compute'.state = "IdleCompute"
            /\ ~compute'.done
            /\ ReadsLanes(compute.row_rdreq) /\ WritesLanes(Thresh!None)
            /\ Output(FALSE, TRUE)

\* Every clock edge of the filter is one of these.
LEMMA FilterMoves ==
  ASSUME Handshakes, NEW issue \in BOOLEAN, NEW waitrequest \in BOOLEAN,
         NEW rddatavalid \in BOOLEAN, Tick(issue, waitrequest, rddatavalid)
  PROVE  \/ LaneRests \/ LaneStarts \/ LaneDelays \/ FirstWord \/ NextWords \/ LastWord
         \/ LaneEnds
<1>1. ComputeRegisters
  BY DEF Handshakes
<1> USE <1>1 DEF ComputeRegisters, ComputeFields, ReadsLanes, WritesLanes, Output
<1>2. CASE Thresh!IdleCompute(fsm.enable_compute)
  BY <1>2 DEF Thresh!IdleCompute, LaneRests
<1>3. CASE Thresh!StartRow(fsm.enable_compute, row_empty)
  BY <1>3 DEF Thresh!StartRow, LaneStarts
<1>4. CASE Thresh!ReadDelay
  BY <1>4 DEF Thresh!ReadDelay, LaneDelays
<1>5. CASE Thresh!FirstCompute(row_q, row_empty)
  <2>1. compute.ColCounter = 0 /\ compute'.ColCounter = compute.ColCounter + 4
    BY <1>5 DEF Thresh!FirstCompute
  <2>2. Pos' = 1
    BY <2>1 DEF Pos
  <2>3. QED
    BY <1>5, <2>2 DEF Thresh!FirstCompute, FirstWord
<1>6. CASE Thresh!Compute(row_q, row_empty)
  <2> DEFINE leave == Thresh!LastWordNext(compute.ColCounter + 4)
  <2>1. /\ compute.state = "Compute" /\ compute'.state = IF leave THEN "LastCompute" ELSE "Compute"
        /\ compute'.ColCounter = compute.ColCounter + 4
        /\ ReadsLanes(IF leave THEN Thresh!None ELSE compute.row_rdreq)
        /\ WritesLanes(Thresh!NotEmpty(row_empty))
        /\ compute'.row_data = row_q /\ Output(FALSE, TRUE)
    BY <1>6 DEF Thresh!Compute
  <2>2. /\ compute.ColCounter \in 4 .. 4 * ColCount - 8 /\ compute.ColCounter % 4 = 0
    BY <2>1
  <2>3. PICK p \in Nat : compute.ColCounter = 4 * p
    <3>1. compute.ColCounter = 4 * Pos /\ Pos \in Nat
      BY <2>2 DEF Pos
    <3>2. QED
      BY <3>1
  <2>4. p \in 1 .. ColCount - 2 /\ Pos = p /\ Pos' = p + 1
    BY <2>1, <2>2, <2>3 DEF Pos
  <2>5. leave <=> p = ColCount - 2
    BY <2>3, <2>4 DEF Thresh!LastWordNext
  <2> HIDE DEF leave, ReadsLanes, WritesLanes, Output
  <2>6. QED
    BY <2>1, <2>4, <2>5 DEF NextWords
<1>7. CASE Thresh!LastCompute(row_q, row_empty)
  BY <1>7 DEF Thresh!LastCompute, LastWord
<1>8. CASE Thresh!LastComputeWrite
  BY <1>8 DEF Thresh!LastComputeWrite, LaneEnds
<1>9. QED
  BY <1>2, <1>3, <1>4, <1>5, <1>6, <1>7, <1>8 DEF Tick, Thresh!Clock

(***************************************************************************)
(* The output FIFO.                                                        *)
(***************************************************************************)
\* The filtered words that are in the FIFO, one being on its way from Pushes on.
Filtered == CASE compute.state = "FirstCompute"     -> 0
              [] compute.state = "Compute"          -> IF Pos > 1 THEN Pos - 2 ELSE 0
              [] compute.state = "LastCompute"      -> ColCount - 3
              [] compute.state = "LastComputeWrite" -> ColCount - 2
              [] OTHER                              -> ColCount - 1

Pushes == \/ compute.state = "Compute" /\ Pos > 1
          \/ compute.state \in {"LastCompute", "LastComputeWrite"}
          \/ compute.state = "IdleCompute" /\ ~compute.done

\* The words of the row the writer has taken out of the FIFO.
Presented == IF writer.state = "HasReq" THEN writer.count - 1 ELSE writer.count

OutputLength ==
  LET len == Len(ofifo.words) IN
  /\ FifoOK(ofifo) /\ len <= ColCount
  /\ ~compute.done /\ compute.state # "ReadDelay" => len = Filtered
  /\ fsm.state = "WriteWait" \/ (fsm.state = "ReadCompute" /\ compute.done) => len = ColCount
  /\ writer.state \in {"HasReq", "HasData"} => len = ColCount - Presented

OutputRequests ==
  /\ compute.ofifo_sclr => compute.state = "ReadDelay" \/ fsm.state = "Idle"
  /\ compute.state = "ReadDelay" => compute.ofifo_sclr
  /\ compute.ofifo_wrreq <=> Pushes
  /\ writer.state = "HasReq" => writer.ofifo_rdreq
  /\ writer.ofifo_rdreq => writer.state = "HasReq" \/ fsm.state = "Idle"

OutputInv == OutputLength /\ OutputRequests

\* A FIFO that is not given a word gets no longer.
LEMMA FifoShrinks ==
  ASSUME NEW q, FifoOK(q), NEW sclr, NEW wr, NEW d, NEW rd, ~wr
  PROVE  LET g == Rows!Clocked(q, sclr, wr, d, rd) IN
         FifoOK(g) /\ Len(g.words) <= Len(q.words)
<1> DEFINE g == Rows!Clocked(q, sclr, wr, d, rd)
<1>1. Len(q.words) \in Nat /\ (Rows!IsEmpty(q) <=> Len(q.words) = 0)
  BY NoWords DEF FifoOK, IsSeq, Rows!IsEmpty
<1>2. CASE sclr
  <2>1. g = Rows!EmptyFifo
    BY <1>2, FifoCleared
  <2> HIDE DEF g
  <2>2. FifoOK(g) /\ Len(g.words) <= Len(q.words)
    BY <1>1, <2>1, EmptyOK
  <2>3. QED
    BY <2>2 DEF g
<1>3. CASE ~sclr /\ rd /\ Len(q.words) > 0
  <2>1. FifoOK(g) /\ Len(g.words) = Len(q.words) - Bit(rd) + Bit(wr)
    <3>1. ~sclr /\ (rd => Len(q.words) > 0) /\ (wr => Len(q.words) < Depth)
      BY <1>3
    <3>2. QED
      BY <3>1, FifoEdge
  <2> HIDE DEF g
  <2>2. FifoOK(g) /\ Len(g.words) <= Len(q.words)
    BY <1>1, <1>3, <2>1 DEF Bit
  <2>3. QED
    BY <2>2 DEF g
<1>4. CASE ~sclr /\ ~rd
  BY <1>1, <1>4, FifoKept
<1>5. CASE ~sclr /\ rd /\ Len(q.words) = 0
  BY <1>1, <1>5 DEF Rows!Clocked, FifoOK
<1>6. QED
  BY <1>1, <1>2, <1>3, <1>4, <1>5

\* A clock edge of the writer, as far as the FIFO sees it.
WriterRests == /\ writer.state = "Idle" /\ writer'.state = "Idle"
               /\ ~fsm.enable_burst_writer /\ ~writer'.ofifo_rdreq

WriterStarts == /\ writer.state = "Idle" /\ writer'.state = "HasReq"
                /\ fsm.enable_burst_writer
                /\ writer'.ofifo_rdreq /\ Presented' = 0

WordTaken == /\ writer.state = "HasReq" /\ writer'.state = "HasData"
             /\ ~writer'.ofifo_rdreq
             /\ Presented \in 0 .. ColCount - 2 /\ Presented' = Presented + 1

WordWaits == /\ writer.state = "HasData" /\ Presented' = Presented
             /\ \/ writer'.state = "HasData" /\ writer'.ofifo_rdreq = writer.ofifo_rdreq
                \/ writer'.state = "HasReq" /\ writer'.ofifo_rdreq

WriterEnds == /\ writer.state \notin {"Idle", "HasReq"}
              /\ writer'.state \in {"WaitDone", "WaitDoneNext", "Idle"}
              /\ writer'.ofifo_rdreq => writer.ofifo_rdreq

\* Every clock edge of the writer is one of these.
LEMMA WriterMoves ==
  ASSUME Handshakes, NEW issue \in BOOLEAN, NEW waitrequest \in BOOLEAN,
         NEW rddatavalid \in BOOLEAN, Tick(issue, waitrequest, rddatavalid)
  PROVE  WriterRests \/ WriterStarts \/ WordTaken \/ WordWaits \/ WriterEnds
<1>1. WriterRegisters
  BY DEF Handshakes
<1> USE <1>1 DEF WriterRegisters, Writer!TypeOK, Presented
<1>2. CASE Writer!Idle(fsm.enable_burst_writer)
  BY <1>2 DEF Writer!Idle, WriterRests
<1>3. CASE Writer!StartBurst(fsm.enable_burst_writer, Rows!Lookahead(ofifo),
                             fsm.add_burst_writer)
  BY <1>3 DEF Writer!StartBurst, WriterStarts
<1>4. CASE Writer!HasReq
  BY <1>4 DEF Writer!HasReq, WordTaken
<1>5. CASE Writer!HasData(waitrequest, Rows!Lookahead(ofifo))
  <2>1. Writer!Next7(writer.count) = writer.count + 1
    BY <1>5 DEF Writer!HasData, Writer!Next7
  <2>2. QED
    <3>1. CASE Writer!LastBeat(writer.count)
      BY <1>5, <2>1, <3>1 DEF Writer!HasData, WriterEnds
    <3>2. CASE ~Writer!LastBeat(writer.count)
      <4>1. writer'.ofifo_rdreq = ~Writer!LastBeat(writer.count)
        BY <1>5 DEF Writer!HasData
      <4>2. /\ writer.state = "HasData" /\ writer'.state = "HasReq"
            /\ writer'.count = writer.count + 1
        BY <1>5, <2>1, <3>2 DEF Writer!HasData
      <4>3. Presented' = Presented
        BY <4>2
      <4> HIDE DEF Presented
      <4>4. WordWaits
        BY <3>2, <4>1, <4>2, <4>3 DEF WordWaits
      <4>5. QED
        BY <4>4
    <3>3. QED
      BY <3>1, <3>2
<1>6. CASE Writer!Stalled(waitrequest)
  BY <1>6 DEF Writer!Stalled, WordWaits
<1>7. CASE Writer!WaitDone
  BY <1>7 DEF Writer!WaitDone, WriterEnds
<1>8. CASE Writer!WaitDoneNext(waitrequest)
  BY <1>8 DEF Writer!WaitDoneNext, WriterEnds
<1>9. CASE Writer!StalledDone(waitrequest)
  BY <1>9 DEF Writer!StalledDone, WriterEnds
<1>10. QED
  BY <1>2, <1>3, <1>4, <1>5, <1>6, <1>7, <1>8, <1>9 DEF Tick, Writer!Clock

\* Who is at work, in terms of the state machine.
LEMMA Workers ==
  ASSUME Handshakes, Control!IInv
  PROVE  /\ ~compute.done => fsm.state = "ReadCompute"
         /\ compute.done => compute.state = "IdleCompute"
         /\ compute.done \in BOOLEAN
         /\ writer.state # "Idle" => fsm.state = "Write"
         /\ writer.done <=> writer.state = "Idle"
         /\ reader.state # "Idle" => /\ fsm.state \in {"ReadFirstRow", "ReadSecondRow", "ReadCompute"}
                                     /\ ~fsm.dummy_read_burst_reader
         /\ reader.done <=> reader.state = "Idle"
         /\ fsm.enable_compute <=> fsm.state = "ReadComputeWait"
         /\ fsm.enable_burst_writer <=> fsm.state = "WriteWait"
         /\ fsm.enable_burst_reader <=>
              fsm.state \in {"ReadFirstRowWait", "ReadSecondRowWait", "ReadComputeWait"}
  BY DEF Handshakes, ReaderRegisters, Reader!TypeOK, WriterRegisters, ComputeRegisters,
     Thresh!TypeOK, Control!IInv, Control!JobsFollowState, Control!EnablesFollowState

\* The requests to the output FIFO follow the states of filter and writer.
LEMMA RequestsTick ==
  ASSUME Handshakes, Control!IInv, OutputRequests, NEW issue \in BOOLEAN,
         NEW waitrequest \in BOOLEAN, NEW rddatavalid \in BOOLEAN,
         Tick(issue, waitrequest, rddatavalid)
  PROVE  OutputRequests'
<1>1. /\ compute'.ofifo_sclr => compute'.state = "ReadDelay"
      /\ compute'.state = "ReadDelay" => compute'.ofifo_sclr
      /\ compute'.ofifo_wrreq <=> Pushes'
  <2> USE DEF Pushes, Output
  <2>1. CASE LaneRests
    BY <2>1 DEF LaneRests
  <2>2. CASE LaneStarts
    BY <2>2 DEF LaneStarts
  <2>3. CASE LaneDelays
    BY <2>3 DEF LaneDelays
  <2>4. CASE FirstWord
    BY <2>4 DEF FirstWord
  <2>5. CASE NextWords
    BY <2>5 DEF NextWords
  <2>6. CASE LastWord
    BY <2>6 DEF LastWord
  <2>7. CASE LaneEnds
    BY <2>7 DEF LaneEnds
  <2>8. QED
    BY <2>1, <2>2, <2>3, <2>4, <2>5, <2>6, <2>7, FilterMoves
<1>2. writer'.state = "HasReq" => writer'.ofifo_rdreq
  BY WriterMoves DEF WriterRests, WriterStarts, WordTaken, WordWaits, WriterEnds
<1>3. writer'.ofifo_rdreq => writer'.state = "HasReq"
  BY Workers, WriterMoves
     DEF OutputRequests, WriterRests, WriterStarts, WordTaken, WordWaits, WriterEnds
<1>4. QED
  BY <1>1, <1>2, <1>3 DEF OutputRequests

FilteredByState ==
  /\ compute.state = "FirstCompute" => Filtered = 0
  /\ compute.state = "Compute" => Filtered = IF Pos > 1 THEN Pos - 2 ELSE 0
  /\ compute.state = "LastCompute" => Filtered = ColCount - 3
  /\ compute.state = "LastComputeWrite" => Filtered = ColCount - 2
  /\ compute.state = "IdleCompute" => Filtered = ColCount - 1

\* Now and one edge later.
LEMMA FilteredCases == FilteredByState /\ FilteredByState'
  BY DEF FilteredByState, Filtered

\* While a row is filtered, the words of the output FIFO are those pushed.
LEMMA OutputFills ==
  ASSUME Handshakes, Control!IInv, OutputInv, ~compute.done, NEW issue \in BOOLEAN,
         NEW waitrequest \in BOOLEAN, NEW rddatavalid \in BOOLEAN,
         Tick(issue, waitrequest, rddatavalid)
  PROVE  /\ FifoOK(ofifo') /\ Len(ofifo'.words) <= ColCount
         /\ ~compute'.done => Len(ofifo'.words) = Filtered'
         /\ compute'.done => Len(ofifo'.words) = ColCount
<1>1. /\ fsm.state = "ReadCompute" /\ writer.state = "Idle" /\ ~fsm.enable_compute
      /\ compute.state \in {"IdleCompute", "ReadDelay", "FirstCompute", "Compute",
                            "LastCompute", "LastComputeWrite"}
      /\ compute'.done => compute'.state = "IdleCompute" /\ LaneRests
  <2>1. ComputeRegisters
    BY DEF Handshakes
  <2>2. fsm.state = "ReadCompute" /\ writer.state = "Idle" /\ ~fsm.enable_compute
    BY Workers
  <2>3. compute'.done => LaneRests
    <3>1. CASE LaneStarts \/ LaneRests \/ LaneEnds
      BY <3>1 DEF LaneStarts, LaneEnds
    <3>2. CASE LaneDelays \/ FirstWord \/ NextWords \/ LastWord
      <4>1. compute'.state # "IdleCompute"
        BY <3>2 DEF LaneDelays, FirstWord, NextWords, LastWord
      <4>2. Handshakes'
        BY HandshakesTick
      <4>3. QED
        BY <4>1, <4>2 DEF Handshakes, ComputeRegisters
    <3>3. QED
      BY <3>1, <3>2, FilterMoves
  <2>4. QED
    BY <2>1, <2>2, <2>3 DEF ComputeRegisters, Thresh!TypeOK, LaneRests
<1>2. /\ ofifo' = Rows!Clocked(ofifo, compute.ofifo_sclr, compute.ofifo_wrreq,
                               compute.ofifo_data, writer.ofifo_rdreq)
      /\ ~writer.ofifo_rdreq /\ FifoOK(ofifo)
  BY <1>1 DEF Tick, OutputFifoClock, OutputInv, OutputRequests, OutputLength
<1>3. ASSUME compute.state = "ReadDelay"
      PROVE  FifoOK(ofifo') /\ Len(ofifo'.words) = 0
  BY <1>2, <1>3, FifoCleared, EmptyOK DEF OutputInv, OutputRequests
<1>4. ASSUME compute.state # "ReadDelay"
      PROVE  FifoOK(ofifo') /\ Len(ofifo'.words) = Filtered + Bit(compute.ofifo_wrreq)
  <2>1. /\ ~compute.ofifo_sclr /\ Len(ofifo.words) = Filtered
        /\ Filtered < ColCount /\ Filtered \in Nat
    <3>1. ~compute.ofifo_sclr /\ Len(ofifo.words) = Filtered
      BY <1>1, <1>4 DEF OutputInv, OutputRequests, OutputLength
    <3>2. compute.state = "Compute" => Pos \in 1 .. ColCount - 2
      BY FilterMoves DEF LaneRests, LaneStarts, LaneDelays, FirstWord, NextWords, LastWord, LaneEnds
    <3>3. QED
      BY <1>1, <1>4, <3>1, <3>2, FilteredCases DEF FilteredByState
  <2>2. /\ writer.ofifo_rdreq => Len(ofifo.words) > 0
        /\ compute.ofifo_wrreq => Len(ofifo.words) < Depth
    BY <1>2, <2>1, DepthAssumption
  <2>3. FifoOK(ofifo') /\ Len(ofifo'.words)
                            = Len(ofifo.words) - Bit(writer.ofifo_rdreq) + Bit(compute.ofifo_wrreq)
    BY <1>2, <2>1, <2>2, FifoEdge
  <2>4. QED
    BY <1>2, <2>1, <2>3 DEF Bit
<1>5. compute.ofifo_wrreq <=> Pushes
  BY DEF OutputInv, OutputRequests
<1> USE FilteredCases DEF FilteredByState, Pushes, Bit
<1>6. CASE LaneRests
  BY <1>1, <1>4, <1>5, <1>6 DEF LaneRests
<1>7. CASE LaneStarts
  BY <1>1, <1>7 DEF LaneStarts
<1>8. CASE LaneDelays
  BY <1>1, <1>3, <1>8 DEF LaneDelays, LaneRests
<1>9. CASE FirstWord
  BY <1>1, <1>4, <1>5, <1>9 DEF FirstWord, LaneRests
<1>10. CASE NextWords
  <2>1. /\ compute.state = "Compute" /\ ~compute'.done
        /\ compute'.state = IF Pos = ColCount - 2 THEN "LastCompute" ELSE "Compute"
        /\ Pos \in 1 .. ColCount - 2 /\ Pos' = Pos + 1
    BY <1>1, <1>10 DEF NextWords, LaneRests
  <2>2. FifoOK(ofifo') /\ Len(ofifo'.words) = IF Pos > 1 THEN Pos - 1 ELSE 0
    BY <1>4, <1>5, <2>1
  <2>3. Filtered' = IF Pos > 1 THEN Pos - 1 ELSE 0
    <3>1. CASE Pos = ColCount - 2
      BY <2>1, <3>1
    <3>2. CASE Pos # ColCount - 2
      BY <2>1, <3>2
    <3>3. QED
      BY <3>1, <3>2
  <2>4. QED
    BY <2>1, <2>2, <2>3
<1>11. CASE LastWord
  BY <1>1, <1>4, <1>5, <1>11 DEF LastWord, LaneRests
<1>12. CASE LaneEnds
  BY <1>1, <1>4, <1>5, <1>12 DEF LaneEnds, LaneRests
<1>13. QED
  BY <1>6, <1>7, <1>8, <1>9, <1>10, <1>11, <1>12, FilterMoves

\* Then the writer takes them out.
LEMMA OutputDrains ==
  ASSUME Handshakes, Control!IInv, OutputInv, compute.done, NEW issue \in BOOLEAN,
         NEW waitrequest \in BOOLEAN, NEW rddatavalid \in BOOLEAN,
         Tick(issue, waitrequest, rddatavalid)
  PROVE  /\ FifoOK(ofifo') /\ Len(ofifo'.words) <= ColCount
         /\ fsm'.state = "WriteWait" \/ (fsm'.state = "ReadCompute" /\ compute'.done)
              => Len(ofifo'.words) = ColCount
         /\ writer'.state \in {"HasReq", "HasData"} => Len(ofifo'.words) = ColCount - Presented'
<1> DEFINE len == Len(ofifo.words)
<1>1. /\ compute.state = "IdleCompute" /\ ~compute.ofifo_wrreq /\ FifoOK(ofifo)
      /\ len <= ColCount /\ len \in Nat
      /\ fsm.state # "Idle" => ~compute.ofifo_sclr
      /\ fsm.state \notin {"Idle", "Write"} => ~writer.ofifo_rdreq
      /\ fsm.state = "WriteWait" \/ fsm.state = "ReadCompute" => len = ColCount
      /\ writer.state \in {"HasReq", "HasData"} => len = ColCount - Presented
  BY Workers DEF OutputInv, OutputLength, OutputRequests, FifoOK, IsSeq, Pushes
<1>2. /\ ofifo' = Rows!Clocked(ofifo, compute.ofifo_sclr, compute.ofifo_wrreq,
                               compute.ofifo_data, writer.ofifo_rdreq)
  BY DEF Tick, OutputFifoClock
<1>3. FifoOK(ofifo') /\ Len(ofifo'.words) <= len
  BY <1>1, <1>2, FifoShrinks
<1>4. ASSUME fsm.state # "Idle", ~writer.ofifo_rdreq
      PROVE  ofifo' = ofifo
  BY <1>1, <1>2, <1>4, FifoKept
<1> HIDE DEF len
<1>5. /\ \/ Rests \/ Starts \/ (Passes /\ SameRows) \/ (Waits /\ SameRows)
         \/ Fetched \/ Written
  BY FsmMoves
<1>6. fsm'.state = "WriteWait" => fsm.state = "ReadCompute"
  BY <1>5 DEF Rests, Starts, Passes, Waits, Fetched, Written
<1>7. fsm'.state = "ReadCompute" =>
        fsm.state = "ReadCompute" \/ (fsm.state = "ReadComputeWait" /\ fsm.enable_compute)
  BY <1>5, Workers DEF Rests, Starts, Passes, Waits, Fetched, Written
<1>8. compute'.done => ~fsm.enable_compute
  BY <1>1, FilterMoves DEF LaneRests, LaneStarts, LaneDelays, FirstWord, NextWords, LastWord, LaneEnds
<1>9. fsm'.state = "WriteWait" \/ (fsm'.state = "ReadCompute" /\ compute'.done)
        => Len(ofifo'.words) = ColCount
  BY <1>1, <1>4, <1>6, <1>7, <1>8 DEF len
<1>10. ASSUME writer'.state \in {"HasReq", "HasData"}
       PROVE  Len(ofifo'.words) = ColCount - Presented'
  <2>1. CASE WriterStarts
    <3>1. fsm.state = "WriteWait" /\ Presented' = 0
      BY <2>1, Workers DEF WriterStarts
    <3>2. QED
      BY <1>1, <1>4, <3>1 DEF len
  <2>2. CASE WordTaken
    <3>1. /\ writer.ofifo_rdreq /\ fsm.state # "Idle" /\ len = ColCount - Presented
          /\ Presented \in 0 .. ColCount - 2 /\ Presented' = Presented + 1
      BY <1>1, <2>2, Workers DEF WordTaken, OutputInv, OutputRequests
    <3> HIDE DEF Presented
    <3>2. /\ ~compute.ofifo_sclr
          /\ writer.ofifo_rdreq => Len(ofifo.words) > 0
          /\ compute.ofifo_wrreq => Len(ofifo.words) < Depth
      BY <1>1, <3>1 DEF len
    <3>3. Len(ofifo'.words) = len - Bit(writer.ofifo_rdreq) + Bit(compute.ofifo_wrreq)
      BY <1>1, <1>2, <3>2, FifoEdge DEF len
    <3>4. QED
      BY <1>1, <3>1, <3>3 DEF Bit
  <2>3. CASE WordWaits
    <3>1. /\ ~writer.ofifo_rdreq /\ fsm.state # "Idle" /\ len = ColCount - Presented
          /\ Presented' = Presented
      BY <1>1, <2>3, Workers DEF WordWaits, OutputInv, OutputRequests
    <3>2. QED
      BY <1>4, <3>1 DEF len
  <2>4. CASE WriterRests \/ WriterEnds
    BY <1>10, <2>4 DEF WriterRests, WriterEnds
  <2>5. QED
    BY <2>1, <2>2, <2>3, <2>4, WriterMoves
<1>11. QED
  BY <1>1, <1>3, <1>9, <1>10

\* The output FIFO holds the words of the row that are filtered and not taken.
LEMMA OutputHolds == Spec => []OutputInv
<1>1. Init => OutputInv
  <2> SUFFICES ASSUME Init PROVE OutputInv
    OBVIOUS
  <2>1. ofifo = Rows!EmptyFifo /\ fsm.state = "Idle" /\ writer.state = "Idle"
    BY DEF Init, Fsm!Init, Writer!Init
  <2>2. compute.state = "IdleCompute" /\ compute.done /\ ~compute.ofifo_wrreq
    BY DEF Init, Thresh!Init
  <2>3. OutputLength
    BY <2>1, <2>2, EmptyOK DEF OutputLength
  <2>4. OutputRequests
    BY <2>1, <2>2 DEF OutputRequests, Pushes
  <2>5. QED
    BY <2>3, <2>4 DEF OutputInv
<1>2. ASSUME Handshakes, Control!IInv, OutputInv, NEW issue \in BOOLEAN,
             NEW waitrequest \in BOOLEAN, NEW rddatavalid \in BOOLEAN,
             Tick(issue, waitrequest, rddatavalid)
      PROVE  OutputInv'
  <2> USE <1>2
  <2>1. OutputRequests'
    BY RequestsTick DEF OutputInv
  <2>2. CASE ~compute.done
    <3>1. /\ FifoOK(ofifo') /\ Len(ofifo'.words) <= ColCount
          /\ ~compute'.done => Len(ofifo'.words) = Filtered'
          /\ compute'.done => Len(ofifo'.words) = ColCount
      BY <2>2, OutputFills
    <3>2. fsm'.state = "ReadCompute" /\ writer'.state = "Idle"
      <4>1. fsm.state = "ReadCompute" /\ writer.state = "Idle" /\ ~fsm.enable_burst_writer
        BY <2>2, Workers
      <4>2. fsm'.state = "ReadCompute"
        BY <2>2, <4>1, FsmMoves DEF Rests, Starts, Passes, Waits, Fetched, Written
      <4>3. writer'.state = "Idle"
        BY <4>1, WriterMoves DEF WriterRests, WriterStarts, WordTaken, WordWaits, WriterEnds
      <4>4. QED
        BY <4>2, <4>3
    <3>3. OutputLength'
      BY <3>1, <3>2 DEF OutputLength
    <3>4. QED
      BY <2>1, <3>3 DEF OutputInv
  <2>3. CASE compute.done
    <3>1. /\ FifoOK(ofifo') /\ Len(ofifo'.words) <= ColCount
          /\ fsm'.state = "WriteWait" \/ (fsm'.state = "ReadCompute" /\ compute'.done)
               => Len(ofifo'.words) = ColCount
          /\ writer'.state \in {"HasReq", "HasData"}
               => Len(ofifo'.words) = ColCount - Presented'
      BY <2>3, OutputDrains
    <3>2. compute'.done \/ compute'.state = "ReadDelay"
      BY <2>3, Workers, FilterMoves
         DEF LaneRests, LaneStarts, LaneDelays, FirstWord, NextWords, LastWord, LaneEnds
    <3>3. OutputLength'
      BY <3>1, <3>2 DEF OutputLength
    <3>4. QED
      BY <2>1, <3>3 DEF OutputInv
  <2>4. QED
    BY <2>2, <2>3
<1>3. ASSUME Handshakes, OutputInv, ResetButton PROVE OutputInv'
  <2>1. /\ ofifo' = ofifo /\ fsm'.state = "Idle" /\ writer'.state = "Idle"
        /\ compute'.state = "IdleCompute" /\ compute'.done /\ ~compute'.ofifo_wrreq
    BY <1>3 DEF Handshakes, Fsm!FsmTypeOK, Fsm!Registers, WriterRegisters, Writer!TypeOK, ComputeRegisters, ComputeFields, ResetButton,
       Fsm!Reset, Writer!Reset, Thresh!Reset
  <2>2. OutputLength'
    BY <1>3, <2>1 DEF OutputInv, OutputLength
  <2>3. OutputRequests'
    BY <2>1 DEF OutputRequests, Pushes
  <2>4. QED
    BY <2>2, <2>3 DEF OutputInv
<1>4. OutputInv /\ (Call \/ LoadImage \/ UNCHANGED vars) => OutputInv'
  BY DEF Call, LoadImage, vars, OutputInv, OutputLength, OutputRequests, Pushes, Pos, Filtered,
     Presented
<1>5. Handshakes /\ Control!IInv /\ OutputInv /\ [Next]_vars => OutputInv'
  BY <1>2, <1>3, <1>4 DEF Next
<1>6. QED
  BY <1>1, <1>5, HandshakesHold, ControlInvariant, PTL DEF Spec

(***************************************************************************)
(* The row FIFOs.                                                          *)
(***************************************************************************)
RowWords(f, row) ==
  [k \in 0 .. ColCount - 1 |->
     IF row < 0 THEN ZeroWord ELSE Filter0!OriginalWord(f, row * ColCount + k)]

\* The row of lane i, while write_row is filtered.
LaneRow(i) == fsm.write_row - 2 + i

Popping == compute.state \in {"ReadDelay", "FirstCompute", "Compute"}
Pushing == compute.state \in {"Compute", "LastCompute", "LastComputeWrite"}

\* The words of each lane that have been taken out and put back.
Popped == IF compute.state = "FirstCompute" THEN 1
          ELSE IF compute.state = "Compute" THEN Pos + 1
          ELSE IF compute.state \in {"LastCompute", "LastComputeWrite"} THEN ColCount
          ELSE 0
Pushed == IF compute.state = "Compute" THEN Pos - 1
          ELSE IF compute.state = "LastCompute" THEN ColCount - 2
          ELSE IF compute.state = "LastComputeWrite" THEN ColCount - 1
          ELSE 0
LaneLen == ColCount - Popped + Pushed

LaneRequests ==
  \A i \in 1..3 :
    /\ compute.row_rdreq[i] <=> Popping /\ LaneRow(i) >= 0
    /\ compute.row_wrreq[i] <=> Pushing /\ LaneRow(i) >= 0

\* A lane has the words of its row from the next one to the one put back last.
LaneHeld(q, i) ==
  IF LaneRow(i) < 0 THEN q = Rows!EmptyFifo
  ELSE Holds(~aborted, q.words, RowWords(frame, LaneRow(i)), Popped, LaneLen)

LanesHeld ==
  fsm.state \in Control!Filtering \cup Control!Writing =>
    \A i \in 1..3 : LaneHeld(fifo[LaneRow(i) % 4], i)

\* The word at the output of a lane, and the word that goes back.
LaneData ==
  ~aborted => \A i \in 1..3 :
    /\ compute.row_wrreq[i] => compute.row_data[i] = RowWords(frame, LaneRow(i))[Pushed]
    /\ compute.state \in {"FirstCompute", "Compute", "LastCompute"} =>
         fifo[LaneRow(i) % 4].q = RowWords(frame, LaneRow(i))[Popped - 1]

FifoTypes ==
  /\ fifo = [f \in 0..3 |-> fifo[f]]
  /\ \A f \in 0..3 : FifoOK(fifo[f]) /\ Len(fifo[f].words) <= ColCount

LanesInv == FifoTypes /\ LaneRequests /\ LanesHeld /\ LaneData
            /\ (fsm.clr_all <=> fsm.state = "ReadFirstRowWait")

Filtering == fsm.state \in Control!Filtering

\* What lane i of the filter is connected to.
LEMMA LaneWiring ==
  ASSUME Handshakes, Control!IInv, LanesInv, Filtering, NEW i \in 1 .. 3, NEW issue \in BOOLEAN,
         NEW waitrequest \in BOOLEAN, NEW rddatavalid \in BOOLEAN,
         Tick(issue, waitrequest, rddatavalid)
  PROVE  LET q == fifo[LaneRow(i) % 4] IN
         /\ LaneRow(i) % 4 \in 0..3
         /\ row_q[i] = q.q /\ (row_empty[i] <=> q.words = <<>>)
         /\ fifo'[LaneRow(i) % 4] = Rows!Clocked(q, fsm.clr_all, compute.row_wrreq[i],
                                                 compute.row_data[i], compute.row_rdreq[i])
         /\ ~fsm.clr_all /\ FifoOK(q)
<1>1. /\ fsm.write_row \in Nat /\ fsm.select_idx = (fsm.write_row + 2) % 4
      /\ fsm.select_idx \in 0..3
  BY DEF Filtering, Control!Filtering, Control!IInv, Control!TypeOK, Control!FsmTypeOK,
     Control!RowsFollowState, Control!Select
<1> DEFINE f == (fsm.write_row - 2 + i) % 4
<1>2. f = Mult!FifoOf(fsm.select_idx, i) /\ f \in 0..3
  BY <1>1, LaneFifo
<1> HIDE DEF f
<1>3. row_q[i] = fifo[f].q /\ (row_empty[i] <=> fifo[f].words = <<>>)
  BY <1>2 DEF row_q, row_empty, Rows!IsEmpty
<1>4. fifo'[f] = Rows!Clocked(fifo[f], fsm.clr_all, compute.row_wrreq[i],
                              compute.row_data[i], compute.row_rdreq[i])
  BY <1>1, <1>2, LaneClock DEF Tick
<1>5. ~fsm.clr_all /\ FifoOK(fifo[f])
  BY <1>2 DEF LanesInv, FifoTypes, Filtering, Control!Filtering
<1>6. QED
  BY <1>2, <1>3, <1>4, <1>5 DEF f, LaneRow

\* What each state says of the lanes.
LanesByState ==
  /\ compute.state = "FirstCompute" => Popped = 1 /\ Pushed = 0
  /\ compute.state = "Compute" => Popped = Pos + 1 /\ Pushed = Pos - 1
  /\ compute.state = "LastCompute" => Popped = ColCount /\ Pushed = ColCount - 2
  /\ compute.state = "LastComputeWrite" => Popped = ColCount /\ Pushed = ColCount - 1
  /\ compute.state \in {"IdleCompute", "ReadDelay"} => Popped = 0 /\ Pushed = 0

\* Now and one edge later.
LEMMA LaneCases == LanesByState /\ LanesByState'
  BY DEF LanesByState, Popped, Pushed

\* A clock edge takes out what was asked for and puts back what was given.
LEMMA LaneCounts ==
  ASSUME Handshakes, NEW issue \in BOOLEAN, NEW waitrequest \in BOOLEAN,
         NEW rddatavalid \in BOOLEAN, Tick(issue, waitrequest, rddatavalid)
  PROVE  /\ Popped \in 0 .. ColCount /\ LaneLen \in 0 .. ColCount /\ Pushed \in 0 .. ColCount - 1
         /\ Popping => LaneLen > 0 /\ Popped < ColCount
         /\ Pushing => LaneLen < ColCount
         /\ compute.state \in {"FirstCompute", "Compute", "LastCompute"} => LaneLen > 0
         /\ compute.state # "LastComputeWrite" =>
              /\ Popped' = Popped + Bit(Popping)
              /\ Pushed' = Pushed + Bit(Pushing)
         /\ compute.state = "LastComputeWrite" => Popped' = 0 /\ Pushed' = 0
         /\ compute'.state \in {"FirstCompute", "Compute"} => Popping
         /\ compute'.state = "LastCompute" => Popping
<1>1. LanesByState /\ LanesByState'
  BY LaneCases
<1>2. compute.state \in {"IdleCompute", "ReadDelay", "FirstCompute", "Compute", "LastCompute",
                         "LastComputeWrite"}
  BY DEF Handshakes, ComputeRegisters, Thresh!TypeOK
<1>3. compute.state = "Compute" => Pos \in 1 .. ColCount - 2
  BY FilterMoves DEF LaneRests, LaneStarts, LaneDelays, FirstWord, NextWords, LastWord, LaneEnds
<1>4. /\ Popped \in 0 .. ColCount /\ LaneLen \in 0 .. ColCount /\ Pushed \in 0 .. ColCount - 1
      /\ Popping => LaneLen > 0 /\ Popped < ColCount
      /\ Pushing => LaneLen < ColCount
      /\ compute.state \in {"FirstCompute", "Compute", "LastCompute"} => LaneLen > 0
  BY <1>1, <1>2, <1>3 DEF LanesByState, LaneLen, Popping, Pushing
<1>5. /\ compute.state # "LastComputeWrite" =>
           Popped' = Popped + Bit(Popping) /\ Pushed' = Pushed + Bit(Pushing)
      /\ compute.state = "LastComputeWrite" => Popped' = 0 /\ Pushed' = 0
      /\ compute'.state \in {"FirstCompute", "Compute", "LastCompute"} => Popping
  <2> USE <1>1 DEF LanesByState, Popping, Pushing, Bit
  <2>1. CASE LaneRests
    BY <2>1 DEF LaneRests
  <2>2. CASE LaneStarts
    BY <2>2 DEF LaneStarts
  <2>3. CASE LaneDelays
    BY <2>3 DEF LaneDelays
  <2>4. CASE FirstWord
    BY <2>4 DEF FirstWord
  <2>5. CASE NextWords
    <3>1. CASE Pos = ColCount - 2
      BY <2>5, <3>1 DEF NextWords
    <3>2. CASE Pos # ColCount - 2
      BY <2>5, <3>2 DEF NextWords
    <3>3. QED
      BY <3>1, <3>2
  <2>6. CASE LastWord
    BY <2>6 DEF LastWord
  <2>7. CASE LaneEnds
    BY <2>7 DEF LaneEnds
  <2>8. QED
    BY <2>1, <2>2, <2>3, <2>4, <2>5, <2>6, <2>7, FilterMoves
<1>6. QED
  BY <1>4, <1>5

\* A clock edge of a lane while its row is filtered.
LEMMA LaneStep ==
  ASSUME Handshakes, Control!IInv, RunFollowsHost, LanesInv, Filtering, NEW i \in 1 .. 3,
         NEW issue \in BOOLEAN, NEW waitrequest \in BOOLEAN, NEW rddatavalid \in BOOLEAN,
         Tick(issue, waitrequest, rddatavalid)
  PROVE  LET row == LaneRow(i)
             q   == fifo[row % 4]
             g   == fifo'[row % 4]
             W   == RowWords(frame, row) IN
         /\ FifoOK(g) /\ Len(g.words) <= ColCount
         /\ row < 0 => g = Rows!EmptyFifo
         /\ row >= 0 => Holds(~aborted, g.words, W, Popped', LaneLen')
         /\ ~aborted /\ compute'.state \in {"FirstCompute", "Compute", "LastCompute"} =>
              g.q = W[Popped' - 1]
<1> DEFINE row == LaneRow(i)
           q   == fifo[row % 4]
           g   == fifo'[row % 4]
           W   == RowWords(frame, row)
           wr  == compute.row_wrreq[i]
           rd  == compute.row_rdreq[i]
           d   == compute.row_data[i]
<1>1. /\ g = Rows!Clocked(q, fsm.clr_all, wr, d, rd)
      /\ ~fsm.clr_all /\ FifoOK(q)
  BY LaneWiring
<1>2. /\ rd <=> Popping /\ row >= 0
      /\ wr <=> Pushing /\ row >= 0
      /\ LaneHeld(q, i)
      /\ ~aborted /\ wr => d = W[Pushed]
      /\ row \in Int
  BY DEF LanesInv, LaneRequests, LanesHeld, LaneData, Filtering, Control!IInv, Control!TypeOK,
     Control!FsmTypeOK, LaneRow
<1>3. /\ Popped \in 0 .. ColCount /\ LaneLen \in 0 .. ColCount /\ Pushed \in 0 .. ColCount - 1
      /\ Popping => LaneLen > 0 /\ Popped < ColCount
      /\ Pushing => LaneLen < ColCount
      /\ compute.state # "LastComputeWrite" =>
              /\ Popped' = Popped + Bit(Popping)
              /\ Pushed' = Pushed + Bit(Pushing)
      /\ compute.state = "LastComputeWrite" => Popped' = 0 /\ Pushed' = 0
      /\ compute'.state \in {"FirstCompute", "Compute", "LastCompute"} => Popping
  BY LaneCounts
<1> HIDE DEF g, q, W, wr, rd, d, row
<1>4. CASE row < 0
  <2>1. q = Rows!EmptyFifo /\ ~rd /\ ~wr
    BY <1>2, <1>4 DEF LaneHeld, row
  <2>2. g = Rows!EmptyFifo
    BY <1>1, <2>1, FifoKept
  <2>3. FifoOK(g) /\ Len(g.words) <= ColCount
    BY <2>2, EmptyOK
  <2>4. compute'.state \in {"FirstCompute", "Compute", "LastCompute"} => g.q = W[Popped' - 1]
    <3>1. g.q = ZeroWord
      BY <2>2 DEF Rows!EmptyFifo
    <3>2. compute'.state \in {"FirstCompute", "Compute", "LastCompute"}
            => Popped' - 1 \in 0 .. ColCount - 1
      BY <1>3, LaneCases DEF Popping, Bit
    <3>3. \A k \in 0 .. ColCount - 1 : W[k] = ZeroWord
      BY <1>4 DEF W, RowWords
    <3>4. QED
      BY <3>1, <3>2, <3>3
  <2>5. QED
    BY <1>2, <1>4, <2>2, <2>3, <2>4 DEF g, W, row
<1>5. CASE row >= 0
  <2>1. /\ rd <=> Popping
        /\ wr <=> Pushing
        /\ Holds(~aborted, q.words, W, Popped, LaneLen)
    BY <1>2, <1>5 DEF LaneHeld, W, row
  <2>2. Pushing => Popped + LaneLen = ColCount + Pushed /\ Wrap(ColCount + Pushed) = Pushed
    BY <1>3 DEF LaneLen, Wrap
  <2>3. wr /\ ~aborted => d = W[Wrap(Popped + LaneLen)]
    BY <1>2, <2>1, <2>2
  <2>4. /\ ~fsm.clr_all
        /\ rd => LaneLen > 0
        /\ wr => LaneLen < ColCount
    BY <1>1, <1>3, <2>1
  <2>5. /\ FifoOK(g)
        /\ Holds(~aborted, g.words, W, Popped + Bit(rd), LaneLen - Bit(rd) + Bit(wr))
        /\ rd /\ ~aborted => g.q = W[Wrap(Popped)]
    <3> DEFINE live  == ~aborted
               first == Popped
               len   == LaneLen
    <3>1. Holds(live, q.words, W, first, len) /\ (wr /\ live => d = W[Wrap(first + len)])
      BY <2>1, <2>3
    <3>2. first \in 0 .. ColCount /\ len \in 0 .. ColCount
      BY <1>3
    <3>3. (rd => len > 0) /\ (wr => len < ColCount)
      BY <2>4
    <3> DEFINE sclr == fsm.clr_all
    <3>7. ~sclr /\ FifoOK(q)
      BY <1>1
    <3> HIDE DEF live, first, len, sclr
    <3> DEFINE c == Rows!Clocked(q, sclr, wr, d, rd)
    <3>4. FifoOK(c)
      BY <3>1, <3>2, <3>3, <3>7, HoldsEdge
    <3>9. ASSUME rd, live
          PROVE  c.q = W[Wrap(first)]
      <4>1. c.q = Rows!Clocked(q, FALSE, wr, d, TRUE).q
        BY <3>7, <3>9 DEF Rows!Clocked
      <4>2. len > 0 /\ Len(q.words) = len /\ q.words[1] = W[Wrap(first + 1 - 1)]
        BY <3>1, <3>2, <3>3, <3>9 DEF Holds
      <4>3. c.q = q.words[1]
        BY <3>7, <4>1, <4>2, FirstTaken
      <4>4. first + 1 - 1 = first
        BY <3>2
      <4>5. QED
        BY <4>2, <4>3, <4>4
    <3> DEFINE next == first + Bit(rd)
               left == len - Bit(rd) + Bit(wr)
    <3>10. next = first + Bit(rd) /\ left = len - Bit(rd) + Bit(wr)
      OBVIOUS
    <3> HIDE DEF next, left
    <3>8. Holds(live, c.words, W, next, left)
      BY <3>1, <3>2, <3>3, <3>7, <3>10, HoldsNext
    <3> HIDE DEF c
    <3>5. g = c
      BY <1>1 DEF c, sclr
    <3>6. QED
      BY <3>4, <3>5, <3>8, <3>9, <3>10 DEF live, first, len
  <2>6. Bit(rd) = Bit(Popping) /\ Bit(wr) = Bit(Pushing) /\ Bit(rd) \in 0..1 /\ Bit(wr) \in 0..1
    BY <2>1 DEF Bit
  <2>7. Holds(~aborted, g.words, W, Popped', LaneLen') /\ LaneLen' <= ColCount
    <3>1. CASE compute.state # "LastComputeWrite"
      <4>1. LaneLen' = LaneLen - Bit(rd) + Bit(wr) /\ Popped' = Popped + Bit(rd)
        BY <1>3, <2>6, <3>1 DEF LaneLen
      <4>2. LaneLen' <= ColCount
        BY <1>3, <2>1, <2>6, <4>1 DEF Bit
      <4>3. QED
        BY <2>5, <4>1, <4>2
    <3>2. CASE compute.state = "LastComputeWrite"
      <4>1. Popped = ColCount /\ LaneLen = ColCount - 1 /\ Bit(rd) = 0 /\ Bit(wr) = 1
        BY <2>6, <3>2, LaneCases DEF LanesByState, LaneLen, Popping, Pushing, Bit
      <4>2. LaneLen' = ColCount /\ Popped' = 0
        BY <1>3, <3>2 DEF LaneLen
      <4>3. Popped + Bit(rd) = ColCount /\ LaneLen - Bit(rd) + Bit(wr) = ColCount
        BY <4>1
      <4>4. Holds(~aborted, g.words, W, ColCount, ColCount)
        BY <2>5, <4>3
      <4>5. QED
        BY <4>2, <4>4, HoldsTurn
    <3>3. QED
      BY <3>1, <3>2
  <2>8. Len(g.words) <= ColCount
    BY <2>7 DEF Holds
  <2>9. ASSUME ~aborted, compute'.state \in {"FirstCompute", "Compute", "LastCompute"}
        PROVE  g.q = W[Popped' - 1]
    <3>1. rd /\ Popped < ColCount /\ compute.state # "LastComputeWrite"
      BY <1>3, <2>1, <2>9 DEF Popping
    <3>2. Popped' - 1 = Popped /\ Wrap(Popped) = Popped
      BY <1>3, <2>1, <3>1 DEF Bit, Wrap
    <3>3. QED
      BY <2>5, <2>9, <3>1, <3>2
  <2>10. QED
    BY <1>2, <1>5, <2>5, <2>7, <2>8, <2>9 DEF g, W, row
<1>6. QED
  BY <1>2, <1>4, <1>5 DEF row

(***************************************************************************)
(* The FIFO that is being filled.                                          *)
(***************************************************************************)
Fetching == fsm.state \in {"ReadFirstRow", "ReadSecondRow", "ReadCompute"}

\* The words of the row that have come over the bus.
Arrived == IF reader.state = "Read" THEN reader.count
           ELSE IF fsm.dummy_read_burst_reader THEN 0 ELSE ColCount

FillRequests ==
  /\ reader.row_sclr /\ fsm.state # "Idle" =>
       /\ Fetching /\ ~reader.row_wrreq
       /\ reader.avm_rd \/ (reader.state = "Idle" /\ fsm.dummy_read_burst_reader)
  /\ reader.row_wrreq =>
       /\ Fetching /\ ~reader.row_sclr /\ ~fsm.dummy_read_burst_reader /\ Arrived > 0
       /\ ~aborted => reader.row_data = RowWords(frame, fsm.read_row)[Arrived - 1]

\* It has the words of its row that have arrived, and before it is cleared the
\* row that was there before.
Fills(q) ==
  /\ Fetching /\ ~reader.row_sclr =>
       Holds(~aborted, q.words, RowWords(frame, fsm.read_row), 0, Arrived - Bit(reader.row_wrreq))
  /\ fsm.state \in {"ReadSecondRowWait", "ReadComputeWait"} \/ (Fetching /\ reader.row_sclr) =>
       Holds(~aborted, q.words, RowWords(frame, fsm.read_row - 4), 0,
             IF fsm.read_row >= 4 THEN ColCount ELSE 0)

FillHeld ==
  /\ Fills(fifo[fsm.read_row % 4])
  /\ fsm.state \in Control!Writing =>
       Holds(~aborted, fifo[(fsm.write_row + 2) % 4].words, RowWords(frame, fsm.write_row + 2), 0,
             IF fsm.dummy_read_burst_reader THEN 0 ELSE ColCount)

\* Before the first row is filtered.
FirstRowsHeld ==
  /\ fsm.state = "ReadFirstRow" => \A f \in 1..3 : fifo[f] = Rows!EmptyFifo
  /\ fsm.state \in {"ReadSecondRowWait", "ReadSecondRow"} =>
       /\ Holds(~aborted, fifo[0].words, RowWords(frame, 0), 0, ColCount)
       /\ fifo[2] = Rows!EmptyFifo /\ fifo[3] = Rows!EmptyFifo

FillInv == FillRequests /\ FillHeld /\ FirstRowsHeld
-----------------------------------------------------------------------------
\* What each state of the state machine says of the rows.
RowsByState ==
  /\ fsm.write_row \in Nat /\ fsm.read_row \in Nat
  /\ fsm.state \in {"ReadFirstRowWait", "ReadFirstRow"} => fsm.write_row = 0 /\ fsm.read_row = 0
  /\ fsm.state \in {"ReadSecondRowWait", "ReadSecondRow"} => fsm.write_row = 0 /\ fsm.read_row = 1
  /\ fsm.state \in {"ReadComputeWait", "ReadCompute"} => fsm.read_row = fsm.write_row + 2
  /\ fsm.state \in {"WriteWait", "Write"} => fsm.read_row = fsm.write_row + 3
  /\ fsm.state # "Idle" =>
       /\ fsm.write_row < RowCount
       /\ fsm.select_idx = fsm.read_row % 4
       /\ fsm.dummy_read_burst_reader <=>
            /\ fsm.state \in {"ReadComputeWait", "ReadCompute", "WriteWait", "Write"}
            /\ fsm.write_row = RowCount - 1
  /\ fsm.state # "ReadCompute" => compute.done /\ compute.state = "IdleCompute"

\* This follows from the control invariant.
LEMMA RowsNow == Handshakes /\ Control!IInv => RowsByState
<1> SUFFICES ASSUME Handshakes, Control!IInv PROVE RowsByState
  OBVIOUS
<1>1. fsm.state # "ReadCompute" => compute.done /\ compute.state = "IdleCompute"
  BY Workers
<1>2. QED
  BY <1>1 DEF RowsByState, Control!IInv, Control!RowsFollowState, Control!FirstRow, Control!SecondRow,
     Control!Filtering, Control!Writing, Control!TypeOK, Control!FsmTypeOK, Control!Select

\* A clock edge of the reader.
ReaderRests == /\ reader.state = "Idle" /\ reader'.state = "Idle"
               /\ ~fsm.enable_burst_reader
               /\ ~reader'.row_sclr /\ ~reader'.row_wrreq

ReaderStarts == /\ reader.state = "Idle" /\ reader'.state = "Read"
                /\ fsm.enable_burst_reader /\ ~fsm.dummy_read_burst_reader
                /\ reader'.row_sclr /\ ~reader'.row_wrreq
                /\ reader'.avm_rd /\ reader'.count = 0

ReaderClears == /\ reader.state = "Idle" /\ reader'.state = "Idle"
                /\ fsm.enable_burst_reader /\ fsm.dummy_read_burst_reader
                /\ reader'.row_sclr /\ ~reader'.row_wrreq

ReaderTakes == /\ reader.state = "Read" /\ ~reader.avm_rd
               /\ reader'.state = IF reader.count + 1 = ColCount THEN "Idle" ELSE "Read"
               /\ ~reader'.row_sclr /\ reader'.row_wrreq /\ reader'.row_data = Bus!ReadWord
               /\ reader'.count = reader.count + 1

ReaderWaits == /\ reader.state = "Read" /\ reader'.state = "Read"
               /\ ~reader'.row_sclr /\ ~reader'.row_wrreq
               /\ reader'.count = reader.count

\* Every clock edge of the reader is one of these.
LEMMA ReaderMoves ==
  ASSUME Handshakes, Bursts, NEW issue \in BOOLEAN, NEW waitrequest \in BOOLEAN,
         NEW rddatavalid \in BOOLEAN, Tick(issue, waitrequest, rddatavalid)
  PROVE  ReaderRests \/ ReaderStarts \/ ReaderClears \/ ReaderTakes \/ ReaderWaits
<1>1. ReaderRegisters
  BY DEF Handshakes
<1> USE <1>1 DEF ReaderRegisters, Reader!TypeOK
<1>2. CASE Reader!Idle(fsm.enable_burst_reader)
  BY <1>2 DEF Reader!Idle, ReaderRests
<1>3. CASE Reader!StartBurst(fsm.enable_burst_reader, fsm.dummy_read_burst_reader,
                             fsm.add_burst_reader)
  BY <1>3 DEF Reader!StartBurst, ReaderStarts
<1>4. CASE Reader!DummyRead(fsm.enable_burst_reader, fsm.dummy_read_burst_reader)
  BY <1>4 DEF Reader!DummyRead, ReaderClears
<1>5. CASE Reader!ReadBeat(waitrequest, rddatavalid, Bus!ReadWord)
  <2>1. reader.state = "Read" /\ ~reader.avm_rd
    BY <1>5 DEF Tick, Bus!Polite, Reader!ReadBeat, Reader!Beat, Bursts, ReadBurst
  <2>2. reader.count < ColCount /\ Reader!Next7(reader.count) = reader.count + 1
    BY <2>1 DEF Reader!Next7
  <2> DEFINE last == Reader!LastBeat(reader.count)
             word == Bus!ReadWord
  <2>3. last <=> reader.count + 1 = ColCount
    BY <2>2 DEF Reader!LastBeat
  <2> HIDE DEF last, word
  <2>4. /\ reader'.state = IF last THEN "Idle" ELSE "Read"
        /\ ~reader'.row_sclr /\ reader'.row_wrreq /\ reader'.row_data = word
        /\ reader'.count = reader.count + 1
    BY <1>5, <2>2 DEF Reader!ReadBeat, last, word
  <2>5. ReaderTakes
    BY <2>1, <2>3, <2>4 DEF ReaderTakes, word
  <2>6. QED
    BY <2>5
<1>6. CASE Reader!ReadWait(waitrequest, rddatavalid)
  BY <1>6 DEF Reader!ReadWait, ReaderWaits
<1>7. QED
  BY <1>2, <1>3, <1>4, <1>5, <1>6 DEF Tick, Reader!Clock

\* What the states say, now and one edge later.
LEMMA RowsNext ==
  ASSUME Handshakes, Control!IInv, Control!IInv', NEW issue \in BOOLEAN,
         NEW waitrequest \in BOOLEAN, NEW rddatavalid \in BOOLEAN,
         Tick(issue, waitrequest, rddatavalid)
  PROVE  RowsByState /\ RowsByState'
<1>1. Handshakes'
  BY HandshakesTick
<1>2. RowsByState'
  BY <1>1, RowsNow, PTL
<1>3. QED
  BY <1>2, RowsNow

\* The word that comes over the bus is the next one of the row that is fetched.
LEMMA WordArrives ==
  ASSUME Handshakes, Control!IInv, Bursts, RunFollowsHost, MemoryInv, ~aborted,
         reader.state = "Read", ~reader.avm_rd
  PROVE  Bus!ReadWord = RowWords(frame, fsm.read_row)[reader.count]
<1> DEFINE row == fsm.read_row
           c   == reader.count
<1>1. /\ RowsByState /\ Fetching /\ ~fsm.dummy_read_burst_reader
      /\ c \in 0 .. ColCount - 1
  BY RowsNow, Workers DEF Handshakes, ReaderRegisters, Reader!TypeOK, Fetching
<1>2. row \in Nat /\ row <= RowCount /\ fsm.write_row \in Nat /\ fsm.write_row <= row
  BY <1>1, RowCountAssumption DEF RowsByState, Fetching
<1>3. InRun /\ base = Image /\ fsm.state # "Write" /\ fsm.state # "Idle"
  BY <1>1 DEF RunFollowsHost, Fetching, InRun, Handshakes, SlaveRegisters, Host!Places
<1>4. reader.avm_address = Image + Control!RowBytes * row
  <2>1. reader.avm_address = fsm.read_address
    BY <1>1 DEF Control!IInv, Control!LatchedAddresses, Fetching
  <2>2. fsm.write_address = Image + Control!RowBytes * fsm.write_row
    BY <1>3 DEF Control!IInv, Control!AddressesFollowState, Control!RowAddress
  <2>3. fsm.read_address = fsm.write_address + Control!RowBytes * (row - fsm.write_row)
    <3>1. Control!RowBytes \in Nat
      BY ControlRowBytes
    <3>2. CASE fsm.state = "ReadFirstRow"
      <4>1. row - fsm.write_row = 0 /\ fsm.read_address = fsm.write_address
        BY <1>1, <3>2 DEF RowsByState, Control!IInv, Control!AddressesFollowState, Control!FirstRow
      <4>2. fsm.write_address \in Nat
        BY DEF Control!IInv, Control!TypeOK, Control!FsmTypeOK
      <4>3. QED
        BY <3>1, <4>1, <4>2
    <3>3. CASE fsm.state = "ReadSecondRow"
      BY <1>1, <3>1, <3>3 DEF RowsByState, Control!IInv, Control!AddressesFollowState, Control!SecondRow
    <3>4. CASE fsm.state = "ReadCompute"
      <4>1. row - fsm.write_row = 2 /\ fsm.read_address = fsm.write_address + 2 * Control!RowBytes
        BY <1>1, <3>4 DEF RowsByState, Control!IInv, Control!AddressesFollowState, Control!Filtering
      <4>2. QED
        BY <3>1, <4>1
    <3>5. QED
      BY <1>1, <3>2, <3>3, <3>4 DEF Fetching
  <2>4. Control!RowBytes * fsm.write_row + Control!RowBytes * (row - fsm.write_row)
          = Control!RowBytes * row
    BY <1>2, ControlRowBytes
  <2>5. /\ Image \in Int /\ Control!RowBytes * fsm.write_row \in Int
        /\ Control!RowBytes * (row - fsm.write_row) \in Int
    BY <1>2, ControlRowBytes, ControlAddresses
  <2>6. QED
    BY <2>1, <2>2, <2>3, <2>4, <2>5
<1>5. bus.rd_index = row * ColCount + c
  BY <1>2, <1>4, RowIndex DEF Bursts, ReadBurst
<1>6. /\ row * ColCount \in Nat /\ fsm.write_row * ColCount <= row * ColCount
      /\ row * ColCount <= RowCount * ColCount /\ MemWords = RowCount * ColCount + ColCount
      /\ RowCount * ColCount \in Nat /\ fsm.write_row * ColCount \in Nat
  <2>1. ColCount \in Nat /\ RowCount \in Nat
    BY RowCountAssumption
  <2>2. fsm.write_row * ColCount <= row * ColCount /\ row * ColCount <= RowCount * ColCount
    BY <1>2, <2>1
  <2>3. MemWords = RowCount * ColCount + ColCount
    BY <2>1 DEF MemWords
  <2>4. QED
    BY <1>2, <2>1, <2>2, <2>3
<1>7. Progress = fsm.write_row * ColCount
  BY <1>3, <1>6 DEF Progress
<1>8. row * ColCount + c \in 0 .. MemWords - 1 /\ row * ColCount + c >= Progress
  BY <1>1, <1>6, <1>7
<1>9. mem[row * ColCount + c] = Filter0!OriginalWord(frame, row * ColCount + c)
  BY <1>3, <1>8 DEF MemoryInv
<1>10. Bus!ReadWord = mem[row * ColCount + c]
  BY <1>5, <1>8 DEF MemoryInv, Bus!ReadWord
<1>11. RowWords(frame, row)[c] = Filter0!OriginalWord(frame, row * ColCount + c)
  BY <1>1, <1>2 DEF RowWords
<1>12. QED
  BY <1>9, <1>10, <1>11

\* What stays and what goes on while the reader works.
LEMMA ReaderGoesOn ==
  ASSUME Handshakes, Control!IInv, Control!IInv', RunFollowsHost, NEW issue \in BOOLEAN,
         NEW waitrequest \in BOOLEAN, NEW rddatavalid \in BOOLEAN,
         Tick(issue, waitrequest, rddatavalid), reader.state = "Read"
  PROVE  /\ fsm'.state = fsm.state /\ fsm'.read_row = fsm.read_row
         /\ fsm'.dummy_read_burst_reader <=> fsm.dummy_read_burst_reader
         /\ ~fsm.dummy_read_burst_reader /\ Fetching
         /\ frame' = frame /\ aborted' = aborted
<1>1. ~reader.done /\ Fetching /\ ~fsm.dummy_read_burst_reader
  BY Workers DEF Fetching
<1>2. fsm'.state = fsm.state /\ SameRows
  BY <1>1, FsmMoves DEF Rests, Starts, Passes, Waits, Fetched, Written, Fetching
<1>3. frame' = frame /\ aborted' = aborted
  BY <1>1, RunGoesOn DEF Fetching
<1>4. RowsByState /\ RowsByState'
  BY RowsNext
<1>5. fsm'.dummy_read_burst_reader <=> fsm.dummy_read_burst_reader
  BY <1>1, <1>2, <1>4 DEF RowsByState, SameRows, Fetching
<1>6. QED
  BY <1>1, <1>2, <1>3, <1>5 DEF SameRows

\* The requests of the reader follow its state.
LEMMA FillRequestsTick ==
  ASSUME Handshakes, Control!IInv, Control!IInv', Bursts, RunFollowsHost, MemoryInv, FillRequests,
         NEW issue \in BOOLEAN, NEW waitrequest \in BOOLEAN, NEW rddatavalid \in BOOLEAN,
         Tick(issue, waitrequest, rddatavalid)
  PROVE  FillRequests'
<1>1. CASE ReaderRests
  BY <1>1 DEF ReaderRests, FillRequests
<1>2. CASE ReaderStarts \/ ReaderClears
  <2>1. /\ fsm.state \in {"ReadFirstRowWait", "ReadSecondRowWait", "ReadComputeWait"}
        /\ reader'.row_sclr /\ ~reader'.row_wrreq
        /\ reader'.avm_rd \/ (reader'.state = "Idle" /\ fsm.dummy_read_burst_reader)
    BY <1>2, Workers DEF ReaderStarts, ReaderClears
  <2>2. /\ fsm'.state \in {"ReadFirstRow", "ReadSecondRow", "ReadCompute"} /\ SameRows
        /\ fsm.state = "ReadComputeWait" => fsm'.state = "ReadCompute"
    BY <2>1, FsmMoves DEF Rests, Starts, Passes, Waits, Fetched, Written
  <2>3. RowsByState /\ RowsByState'
    BY RowsNext
  <2>4. fsm.dummy_read_burst_reader => fsm'.dummy_read_burst_reader
    BY <2>1, <2>2, <2>3 DEF RowsByState, SameRows
  <2>5. QED
    BY <2>1, <2>2, <2>4 DEF FillRequests, Fetching
<1>3. CASE ReaderTakes
  <2>1. /\ fsm'.state = fsm.state /\ fsm'.read_row = fsm.read_row
        /\ ~fsm'.dummy_read_burst_reader
        /\ Fetching /\ frame' = frame /\ aborted' = aborted
    BY <1>3, ReaderGoesOn DEF ReaderTakes
  <2>2. reader.count \in Nat
    BY DEF Handshakes, ReaderRegisters, Reader!TypeOK
  <2>3. Arrived' = reader.count + 1
    <3>1. CASE reader.count + 1 = ColCount
      BY <1>3, <2>1, <3>1 DEF ReaderTakes, Arrived
    <3>2. CASE reader.count + 1 # ColCount
      BY <1>3, <2>1, <3>2 DEF ReaderTakes, Arrived
    <3>3. QED
      BY <3>1, <3>2
  <2>4. Arrived' > 0 /\ Arrived' - 1 = reader.count
    BY <2>2, <2>3
  <2>5. ~aborted => Bus!ReadWord = RowWords(frame, fsm.read_row)[reader.count]
    BY <1>3, WordArrives DEF ReaderTakes
  <2>6. ~aborted' => reader'.row_data = RowWords(frame', fsm'.read_row)[Arrived' - 1]
    BY <1>3, <2>1, <2>4, <2>5 DEF ReaderTakes
  <2>7. Fetching' /\ ~reader'.row_sclr
    BY <1>3, <2>1 DEF ReaderTakes, Fetching
  <2> HIDE DEF Arrived
  <2>8. RowWords(frame', fsm'.read_row) = RowWords(frame, fsm.read_row)'
    BY DEF RowWords, Filter0!OriginalWord, Filter0!Pixel, Filter0!Width, Border
  <2>9. QED
    BY <2>1, <2>4, <2>6, <2>7, <2>8 DEF FillRequests
<1>4. CASE ReaderWaits
  BY <1>4 DEF ReaderWaits, FillRequests
<1>5. QED
  BY <1>1, <1>2, <1>3, <1>4, ReaderMoves

\* At most a row arrives.
LEMMA ArrivedType == ASSUME Handshakes PROVE Arrived \in 0 .. ColCount
  BY DEF Handshakes, ReaderRegisters, Reader!TypeOK, Arrived

\* A clock edge of the FIFO that is being filled.
LEMMA FillEdge ==
  ASSUME Handshakes, Control!IInv, LanesInv, fsm.state \notin {"Idle", "ReadFirstRowWait"},
         NEW issue \in BOOLEAN,
         NEW waitrequest \in BOOLEAN, NEW rddatavalid \in BOOLEAN,
         Tick(issue, waitrequest, rddatavalid)
  PROVE  LET q == fifo[fsm.read_row % 4] IN
         /\ FifoOK(q) /\ Len(q.words) <= ColCount /\ fsm.read_row % 4 \in 0..3
         /\ reader.row_sclr => fifo'[fsm.read_row % 4] = Rows!EmptyFifo
         /\ ~reader.row_sclr => fifo'[fsm.read_row % 4] =
              Rows!Clocked(q, FALSE, reader.row_wrreq, reader.row_data, FALSE)
         /\ ~reader.row_sclr /\ ~reader.row_wrreq => fifo'[fsm.read_row % 4] = q
<1>1. /\ fsm.select_idx = fsm.read_row % 4 /\ fsm.read_row \in Nat
  BY RowsNow DEF RowsByState
<1> DEFINE s == fsm.read_row % 4
           q == fifo[s]
<1>2. s \in 0..3
  BY <1>1
<1> HIDE DEF s
<1>3. ~fsm.clr_all /\ FifoOK(q) /\ Len(q.words) <= ColCount
  BY <1>2 DEF LanesInv, FifoTypes
<1>4. fifo'[s] = Rows!Clocked(q, fsm.clr_all \/ reader.row_sclr, reader.row_wrreq,
                              reader.row_data, FALSE)
  BY <1>1, <1>2, FillClock DEF s, Tick
<1> HIDE DEF q
<1>5. reader.row_sclr => fifo'[s] = Rows!EmptyFifo
  BY <1>4 DEF Rows!Clocked
<1>6. ~reader.row_sclr =>
        fifo'[s] = Rows!Clocked(q, FALSE, reader.row_wrreq, reader.row_data, FALSE)
  BY <1>3, <1>4 DEF Rows!Clocked
<1>7. ~reader.row_sclr /\ ~reader.row_wrreq => fifo'[s] = q
  BY <1>3, <1>6 DEF Rows!Clocked, FifoOK
<1>8. QED
  BY <1>2, <1>3, <1>5, <1>6, <1>7 DEF s, q

\* While a row is fetched, every word that has arrived is in the FIFO one edge later.
LEMMA FillStep ==
  ASSUME Handshakes, Control!IInv, Bursts, LanesInv, FillRequests, FillHeld, Fetching,
         NEW issue \in BOOLEAN, NEW waitrequest \in BOOLEAN, NEW rddatavalid \in BOOLEAN,
         Tick(issue, waitrequest, rddatavalid)
  PROVE  LET g == fifo'[fsm.read_row % 4] IN
         /\ FifoOK(g) /\ Len(g.words) <= ColCount
         /\ Holds(~aborted, g.words, RowWords(frame, fsm.read_row), 0, Arrived)
<1> DEFINE q    == fifo[fsm.read_row % 4]
           g    == fifo'[fsm.read_row % 4]
           W    == RowWords(frame, fsm.read_row)
           wr   == reader.row_wrreq
           d    == reader.row_data
           live == ~aborted
           len  == Arrived - Bit(reader.row_wrreq)
           all  == Arrived
<1>1. /\ FifoOK(q) /\ Len(q.words) <= ColCount
      /\ reader.row_sclr => g = Rows!EmptyFifo
      /\ ~reader.row_sclr => g = Rows!Clocked(q, FALSE, wr, d, FALSE)
      /\ ~reader.row_sclr /\ ~wr => g = q
  BY FillEdge DEF Fetching
<1>2. all \in 0 .. ColCount
  BY ArrivedType
<1>3. /\ reader.row_sclr => reader.avm_rd \/ (reader.state = "Idle" /\ fsm.dummy_read_burst_reader)
      /\ wr => all > 0 /\ (live => d = W[all - 1])
  BY DEF FillRequests, Fetching
<1>4. reader.row_sclr => all = 0
  <2>1. reader.avm_rd => reader.state = "Read" /\ reader.count = 0
    BY DEF Bursts, ReadBurst
  <2>2. QED
    BY <1>3, <2>1 DEF Arrived
<1>5. ~reader.row_sclr => Holds(live, q.words, W, 0, len)
  BY DEF FillHeld, Fills
<1>6. len = IF wr THEN all - 1 ELSE all
  BY <1>2 DEF Bit
<1> HIDE DEF q, g, W, wr, d, live, len, all
<1>7. CASE reader.row_sclr
  <2>1. g = Rows!EmptyFifo /\ all = 0
    BY <1>1, <1>4, <1>7
  <2>2. FifoOK(g) /\ Len(g.words) = 0
    BY <2>1, EmptyOK
  <2>3. Holds(live, g.words, W, 0, all)
    BY <2>1, <2>2 DEF Holds
  <2>4. QED
    BY <2>2, <2>3 DEF g, W, live, all
<1>8. CASE ~reader.row_sclr /\ ~wr
  <2>1. g = q /\ len = all
    BY <1>1, <1>6, <1>8
  <2>2. QED
    BY <1>1, <1>5, <1>8, <2>1 DEF g, W, live, all
<1>9. CASE ~reader.row_sclr /\ wr
  <2>1. len = all - 1 /\ len \in 0 .. ColCount /\ len < ColCount /\ Wrap(0 + len) = len
    BY <1>2, <1>3, <1>6, <1>9 DEF Wrap
  <2>2. live => d = W[Wrap(0 + len)]
    BY <1>3, <1>9, <2>1
  <2> DEFINE rd == FALSE
             sclr == FALSE
             first == 0
             next == 0
  <2>3. next = first + Bit(rd) /\ all = len - Bit(rd) + Bit(wr)
    BY <1>2, <1>9, <2>1 DEF Bit
  <2>4. /\ Holds(live, q.words, W, first, len) /\ FifoOK(q) /\ ~sclr
        /\ (rd => len > 0) /\ (wr => len < ColCount) /\ (wr /\ live => d = W[Wrap(first + len)])
        /\ first \in 0 .. ColCount /\ len \in 0 .. ColCount
    BY <1>1, <1>5, <1>9, <2>1, <2>2
  <2>5. g = Rows!Clocked(q, sclr, wr, d, rd)
    BY <1>1, <1>9
  <2> HIDE DEF rd, sclr, first, next
  <2> DEFINE c == Rows!Clocked(q, sclr, wr, d, rd)
  <2>6. FifoOK(c)
    BY <2>4, HoldsEdge
  <2>7. Holds(live, c.words, W, next, all)
    BY <2>3, <2>4, HoldsNext
  <2> HIDE DEF c
  <2>8. g = c /\ next = 0
    BY <2>5 DEF c, next
  <2>9. FifoOK(g) /\ Holds(live, g.words, W, 0, all)
    BY <2>6, <2>7, <2>8
  <2>10. Len(g.words) <= ColCount
    BY <1>2, <2>9 DEF Holds
  <2>11. QED
    BY <2>9, <2>10 DEF g, W, live, all
<1>10. QED
  BY <1>7, <1>8, <1>9

\* A FIFO no lane asks anything of.
LEMMA LaneQuiet ==
  ASSUME Handshakes, Control!IInv, LanesInv, fsm.state \notin {"Idle", "ReadFirstRowWait"},
         compute.state = "IdleCompute", NEW f \in 0..3, f # fsm.read_row % 4,
         NEW issue \in BOOLEAN, NEW waitrequest \in BOOLEAN, NEW rddatavalid \in BOOLEAN,
         Tick(issue, waitrequest, rddatavalid)
  PROVE  fifo'[f] = fifo[f]
<1> DEFINE s == fsm.read_row % 4
<1>1. fsm.select_idx = s /\ fsm.read_row \in Nat
  BY RowsNow DEF RowsByState
<1>2. s \in 0..3
  BY <1>1
<1> HIDE DEF s
<1>3. PICK i \in 1..3 : f = Mult!FifoOf(s, i)
  BY <1>2, EveryFifo DEF s
<1>4. fifo'[f] = Rows!Clocked(fifo[f], fsm.clr_all, compute.row_wrreq[i],
                              compute.row_data[i], compute.row_rdreq[i])
  BY <1>1, <1>2, <1>3, LaneClock DEF Tick
<1>5. ~compute.row_wrreq[i] /\ ~compute.row_rdreq[i]
  BY DEF LanesInv, LaneRequests, Popping, Pushing
<1>6. ~fsm.clr_all /\ FifoOK(fifo[f])
  BY DEF LanesInv, FifoTypes
<1>7. QED
  BY <1>4, <1>5, <1>6, FifoKept

\* When nothing is asked of any FIFO, and when all are cleared.
LEMMA AllQuiet ==
  ASSUME Handshakes, Control!IInv, LanesInv, FillRequests,
         fsm.state \in {"ReadSecondRowWait", "WriteWait", "Write"}, NEW f \in 0..3,
         NEW issue \in BOOLEAN, NEW waitrequest \in BOOLEAN, NEW rddatavalid \in BOOLEAN,
         Tick(issue, waitrequest, rddatavalid)
  PROVE  fifo'[f] = fifo[f]
<1>1. compute.state = "IdleCompute" /\ ~reader.row_sclr /\ ~reader.row_wrreq
  BY RowsNow DEF RowsByState, FillRequests, Fetching
<1>2. CASE f = fsm.read_row % 4
  BY <1>1, <1>2, FillEdge
<1>3. CASE f # fsm.read_row % 4
  BY <1>1, <1>3, LaneQuiet
<1>4. QED
  BY <1>2, <1>3

LEMMA AllCleared ==
  ASSUME LanesInv, fsm.state = "ReadFirstRowWait", NEW f \in 0..3,
         NEW issue \in BOOLEAN, NEW waitrequest \in BOOLEAN, NEW rddatavalid \in BOOLEAN,
         Tick(issue, waitrequest, rddatavalid)
  PROVE  fifo'[f] = Rows!EmptyFifo
<1>1. fsm.clr_all
  BY DEF LanesInv
<1>2. QED
  BY <1>1 DEF Tick, RowFifosClock, Mult!Fifos, Mult!Sclr, Rows!Clocked

\* Between two images the FIFOs may be given nothing.
LEMMA IdleEdge ==
  ASSUME Handshakes, Control!IInv, LanesInv, FillRequests, fsm.state = "Idle", NEW f \in 0..3,
         NEW issue \in BOOLEAN, NEW waitrequest \in BOOLEAN, NEW rddatavalid \in BOOLEAN,
         Tick(issue, waitrequest, rddatavalid)
  PROVE  FifoOK(fifo'[f]) /\ Len(fifo'[f].words) <= ColCount
<1> DEFINE s == fsm.select_idx
<1>1. s \in 0..3
  BY DEF Control!IInv, Control!TypeOK, Control!FsmTypeOK
<1>2. compute.state = "IdleCompute" /\ ~reader.row_wrreq
  BY RowsNow DEF RowsByState, FillRequests, Fetching
<1>3. FifoOK(fifo[f]) /\ Len(fifo[f].words) <= ColCount /\ Len(fifo[f].words) \in Nat
  BY DEF LanesInv, FifoTypes, FifoOK, IsSeq
<1>4. FifoOK(fifo'[f]) /\ Len(fifo'[f].words) <= Len(fifo[f].words)
  <2>1. CASE f = s
    <3>1. fifo'[f] = Rows!Clocked(fifo[f], fsm.clr_all \/ reader.row_sclr,
                                  reader.row_wrreq, reader.row_data, FALSE)
      BY <1>1, <2>1, FillClock DEF Tick
    <3>2. QED
      BY <1>2, <1>3, <3>1, FifoShrinks
  <2>2. CASE f # s
    <3>1. PICK i \in 1..3 : f = Mult!FifoOf(s, i)
      BY <1>1, <2>2, EveryFifo
    <3>2. fifo'[f] = Rows!Clocked(fifo[f], fsm.clr_all, compute.row_wrreq[i],
                                  compute.row_data[i], compute.row_rdreq[i])
      BY <1>1, <3>1, LaneClock DEF Tick
    <3>3. ~compute.row_wrreq[i]
      BY <1>2 DEF LanesInv, LaneRequests, Pushing
    <3>4. QED
      BY <1>3, <3>2, <3>3, FifoShrinks
  <2>3. QED
    BY <2>1, <2>2
<1>5. Len(fifo'[f].words) \in Nat
  BY <1>4 DEF FifoOK, IsSeq
<1>6. QED
  BY <1>3, <1>4, <1>5

\* While the filter is at work, the state machine stays with its row.
LEMMA FilterStays ==
  ASSUME Handshakes, Control!IInv, Control!IInv', RunFollowsHost, ~LaneRests,
         NEW issue \in BOOLEAN, NEW waitrequest \in BOOLEAN, NEW rddatavalid \in BOOLEAN,
         Tick(issue, waitrequest, rddatavalid)
  PROVE  /\ Filtering /\ fsm'.state = "ReadCompute" /\ fsm'.write_row = fsm.write_row
         /\ frame' = frame /\ aborted' = aborted
<1>1. CASE LaneStarts
  <2>1. fsm.state = "ReadComputeWait"
    BY <1>1, Workers DEF LaneStarts
  <2>2. fsm'.state = "ReadCompute" /\ SameRows
    BY <2>1, FsmMoves DEF Rests, Starts, Passes, Waits, Fetched, Written
  <2>3. QED
    BY <2>1, <2>2, RunGoesOn DEF SameRows, Filtering, Control!Filtering
<1>2. CASE ~LaneStarts
  <2>1. compute.state # "IdleCompute"
    BY <1>2, FilterMoves DEF LaneDelays, FirstWord, NextWords, LastWord, LaneEnds
  <2>2. fsm.state = "ReadCompute" /\ ~compute.done
    BY <2>1, Workers
  <2>3. fsm'.state = "ReadCompute" /\ SameRows
    BY <2>2, FsmMoves DEF Rests, Starts, Passes, Waits, Fetched, Written
  <2>4. QED
    BY <2>2, <2>3, RunGoesOn DEF SameRows, Filtering, Control!Filtering
<1>3. QED
  BY <1>1, <1>2

\* What a lane answers.
LEMMA LaneAnswers ==
  ASSUME Handshakes, Control!IInv, LanesInv, Filtering, NEW i \in 1..3,
         NEW issue \in BOOLEAN, NEW waitrequest \in BOOLEAN, NEW rddatavalid \in BOOLEAN,
         Tick(issue, waitrequest, rddatavalid)
  PROVE  /\ compute.state \in {"IdleCompute", "FirstCompute", "Compute", "LastCompute"} =>
              (row_empty[i] <=> LaneRow(i) < 0)
         /\ ~aborted /\ compute.state \in {"FirstCompute", "Compute", "LastCompute"} =>
              row_q[i] = RowWords(frame, LaneRow(i))[Popped - 1]
<1> DEFINE q == fifo[LaneRow(i) % 4]
<1>1. row_q[i] = q.q /\ (row_empty[i] <=> q.words = <<>>) /\ FifoOK(q)
  BY LaneWiring
<1>2. q.words = <<>> <=> Len(q.words) = 0
  BY <1>1, NoWords DEF FifoOK
<1>3. LaneHeld(q, i) /\ LaneRow(i) \in Int
  BY RowsNow DEF LanesInv, LanesHeld, Filtering, RowsByState, LaneRow
<1>4. compute.state \in {"IdleCompute", "FirstCompute", "Compute", "LastCompute"} => LaneLen > 0
  BY LaneCounts, LaneCases DEF LanesByState, LaneLen
<1>5. ~aborted /\ compute.state \in {"FirstCompute", "Compute", "LastCompute"} =>
        q.q = RowWords(frame, LaneRow(i))[Popped - 1]
  BY DEF LanesInv, LaneData
<1> HIDE DEF q
<1>6. LaneRow(i) < 0 => Len(q.words) = 0
  BY <1>3, EmptyOK DEF LaneHeld
<1>7. LaneRow(i) >= 0 => Len(q.words) = LaneLen
  BY <1>3 DEF LaneHeld, Holds
<1>8. QED
  BY <1>1, <1>2, <1>3, <1>4, <1>5, <1>6, <1>7

\* The requests of the lanes follow the state of the filter.
LEMMA LaneRequestsTick ==
  ASSUME Handshakes, Control!IInv, Control!IInv', RunFollowsHost, LanesInv,
         NEW issue \in BOOLEAN, NEW waitrequest \in BOOLEAN, NEW rddatavalid \in BOOLEAN,
         Tick(issue, waitrequest, rddatavalid)
  PROVE  LaneRequests'
<1> SUFFICES ASSUME NEW i \in 1..3
             PROVE  /\ compute'.row_rdreq[i] <=> Popping' /\ LaneRow(i)' >= 0
                    /\ compute'.row_wrreq[i] <=> Pushing' /\ LaneRow(i)' >= 0
  BY DEF LaneRequests
<1>1. CASE LaneRests
  BY <1>1 DEF LaneRests, ReadsLanes, WritesLanes, Thresh!None, Thresh!Lanes, Popping, Pushing
<1>2. CASE ~LaneRests
  <2>1. Filtering /\ LaneRow(i)' = LaneRow(i)
    BY <1>2, FilterStays DEF LaneRow
  <2>2. /\ compute.row_rdreq[i] <=> Popping /\ LaneRow(i) >= 0
        /\ compute.row_wrreq[i] <=> Pushing /\ LaneRow(i) >= 0
        /\ LaneRow(i) \in Int
    BY RowsNow DEF LanesInv, LaneRequests, RowsByState, LaneRow
  <2>3. compute.state \in {"IdleCompute", "FirstCompute", "Compute", "LastCompute"} =>
          (row_empty[i] <=> LaneRow(i) < 0)
    BY <2>1, LaneAnswers
  <2> DEFINE row   == LaneRow(i)
             empty == row_empty[i]
  <2>4. (Thresh!NotEmpty(row_empty)[i] <=> ~empty) /\ (Thresh!None[i] <=> FALSE)
    BY DEF Thresh!NotEmpty, Thresh!None, Thresh!Lanes
  <2> HIDE DEF row, empty
  <2>5. row \in Int /\ (row >= 0 <=> ~(row < 0))
    BY <2>2 DEF row
  <2> USE <2>1, <2>2, <2>3, <2>4, <2>5 DEF Popping, Pushing, ReadsLanes, WritesLanes, empty, row
  <2>6. CASE LaneStarts
    BY <2>6 DEF LaneStarts
  <2>7. CASE LaneDelays
    BY <2>7 DEF LaneDelays
  <2>8. CASE FirstWord
    BY <2>8 DEF FirstWord
  <2>9. CASE NextWords
    <3>1. CASE Pos = ColCount - 2
      BY <2>9, <3>1 DEF NextWords
    <3>2. CASE Pos # ColCount - 2
      BY <2>9, <3>2 DEF NextWords
    <3>3. QED
      BY <3>1, <3>2
  <2>10. CASE LastWord
    BY <2>10 DEF LastWord
  <2>11. CASE LaneEnds
    BY <2>11 DEF LaneEnds
  <2>12. QED
    BY <1>2, <2>6, <2>7, <2>8, <2>9, <2>10, <2>11, FilterMoves
<1>3. QED
  BY <1>1, <1>2

\* The words at the outputs of the lanes, and those going back, follow their counters.
LEMMA LaneDataTick ==
  ASSUME Handshakes, Control!IInv, Control!IInv', RunFollowsHost, LanesInv,
         NEW issue \in BOOLEAN, NEW waitrequest \in BOOLEAN, NEW rddatavalid \in BOOLEAN,
         Tick(issue, waitrequest, rddatavalid)
  PROVE  LaneData'
<1> SUFFICES ASSUME NEW i \in 1..3, ~aborted'
             PROVE  /\ compute'.row_wrreq[i] =>
                         compute'.row_data[i] = RowWords(frame', LaneRow(i)')[Pushed']
                    /\ compute'.state \in {"FirstCompute", "Compute", "LastCompute"} =>
                         fifo'[LaneRow(i)' % 4].q = RowWords(frame', LaneRow(i)')[Popped' - 1]
  BY DEF LaneData
<1>1. CASE LaneRests
  BY <1>1 DEF LaneRests, WritesLanes, Thresh!None, Thresh!Lanes
<1>2. CASE ~LaneRests
  <2>1. Filtering /\ LaneRow(i)' = LaneRow(i) /\ frame' = frame /\ ~aborted
    BY <1>2, FilterStays DEF LaneRow
  <2>2. compute'.state \in {"FirstCompute", "Compute", "LastCompute"} =>
          fifo'[LaneRow(i)' % 4].q = RowWords(frame', LaneRow(i)')[Popped' - 1]
    BY <2>1, LaneStep
  <2>3. ASSUME compute'.row_wrreq[i], FirstWord \/ NextWords \/ LastWord
        PROVE  compute'.row_data[i] = RowWords(frame, LaneRow(i))[Pushed']
    <3>1. compute'.row_data = row_q /\ compute.state \in {"FirstCompute", "Compute", "LastCompute"}
      BY <2>3 DEF FirstWord, NextWords, LastWord
    <3>2. row_q[i] = RowWords(frame, LaneRow(i))[Popped - 1]
      BY <2>1, <3>1, LaneAnswers
    <3>3. Pushed' = Popped - 1
      <4> USE LaneCases DEF LanesByState
      <4>1. CASE FirstWord
        BY <4>1 DEF FirstWord
      <4>2. CASE NextWords
        <5>1. CASE Pos = ColCount - 2
          BY <4>2, <5>1 DEF NextWords
        <5>2. CASE Pos # ColCount - 2
          BY <4>2, <5>2 DEF NextWords
        <5>3. QED
          BY <5>1, <5>2
      <4>3. CASE LastWord
        BY <4>3 DEF LastWord
      <4>4. QED
        BY <2>3, <4>1, <4>2, <4>3
    <3>4. QED
      BY <3>1, <3>2, <3>3
  <2>4. ASSUME compute'.row_wrreq[i], LaneStarts \/ LaneDelays \/ LaneEnds
        PROVE  FALSE
    <3>1. ~compute'.row_wrreq[i]
      BY <2>4 DEF LaneStarts, LaneDelays, LaneEnds, WritesLanes, Thresh!None, Thresh!Lanes, LanesInv,
         LaneRequests, Pushing
    <3>2. QED
      BY <2>4, <3>1
  <2>5. compute'.row_wrreq[i] => compute'.row_data[i] = RowWords(frame, LaneRow(i))[Pushed']
    BY <1>2, <2>3, <2>4, FilterMoves
  <2>6. QED
    BY <2>1, <2>2, <2>5
<1>3. QED
  BY <1>1, <1>2

\* The rows around write_row, one edge later.
LEMMA LaneKeeps ==
  ASSUME Handshakes, Control!IInv, Control!IInv', RunFollowsHost, LanesInv, Filtering,
         fsm'.write_row = fsm.write_row, NEW i \in 1..3,
         NEW issue \in BOOLEAN, NEW waitrequest \in BOOLEAN, NEW rddatavalid \in BOOLEAN,
         Tick(issue, waitrequest, rddatavalid)
  PROVE  LaneHeld(fifo[LaneRow(i) % 4], i)'
<1>1. LaneRow(i)' = LaneRow(i) /\ frame' = frame /\ aborted' = aborted /\ LaneRow(i) \in Int
  BY RunGoesOn, RowsNow DEF LaneRow, Filtering, Control!Filtering, RowsByState
<1> DEFINE row == LaneRow(i)
           g   == fifo'[row % 4]
<1>2. /\ row < 0 => g = Rows!EmptyFifo
      /\ row >= 0 => Holds(~aborted, g.words, RowWords(frame, row), Popped', LaneLen')
  BY LaneStep
<1>3. row < 0 \/ row >= 0
  BY <1>1
<1>4. /\ LaneRow(i)' < 0 => fifo'[LaneRow(i)' % 4] = Rows!EmptyFifo
      /\ ~(LaneRow(i)' < 0) =>
           Holds(~aborted', fifo'[LaneRow(i)' % 4].words, RowWords(frame', LaneRow(i)'), Popped', LaneLen')
  BY <1>1, <1>2, <1>3
<1>5. QED
  BY <1>4 DEF LaneHeld

\* No FIFO ever has more than a row.
LEMMA FifoTypesTick ==
  ASSUME Handshakes, Control!IInv, Bursts, RunFollowsHost, LanesInv, FillInv,
         NEW issue \in BOOLEAN, NEW waitrequest \in BOOLEAN, NEW rddatavalid \in BOOLEAN,
         Tick(issue, waitrequest, rddatavalid)
  PROVE  FifoTypes'
<1>1. fifo' = [f \in 0..3 |-> fifo'[f]]
  BY DEF Tick, RowFifosClock, Mult!Fifos
<1>2. ASSUME NEW f \in 0..3 PROVE FifoOK(fifo'[f]) /\ Len(fifo'[f].words) <= ColCount
  <2>1. FifoOK(fifo[f]) /\ Len(fifo[f].words) <= ColCount
    BY DEF LanesInv, FifoTypes
  <2>2. CASE fsm.state = "Idle"
    BY <2>2, IdleEdge DEF FillInv
  <2>3. CASE fsm.state = "ReadFirstRowWait"
    <3>1. fifo'[f] = Rows!EmptyFifo
      BY <2>3, AllCleared
    <3>2. QED
      BY <3>1, EmptyOK
  <2>4. CASE fsm.state \in {"ReadSecondRowWait", "WriteWait", "Write"}
    BY <2>1, <2>4, AllQuiet DEF FillInv
  <2>5. CASE fsm.state \in {"ReadFirstRow", "ReadSecondRow", "ReadComputeWait", "ReadCompute"}
    <3>1. CASE f = fsm.read_row % 4
      <4>1. CASE fsm.state = "ReadComputeWait"
        <5>1. ~reader.row_sclr /\ ~reader.row_wrreq
          BY <4>1 DEF FillInv, FillRequests, Fetching
        <5>2. QED
          BY <2>1, <2>5, <3>1, <5>1, FillEdge
      <4>2. CASE fsm.state # "ReadComputeWait"
        BY <2>5, <3>1, <4>2, FillStep DEF FillInv, Fetching
      <4>3. QED
        BY <4>1, <4>2
    <3>2. CASE f # fsm.read_row % 4 /\ compute.state = "IdleCompute"
      BY <2>1, <2>5, <3>2, LaneQuiet
    <3>3. CASE f # fsm.read_row % 4 /\ compute.state # "IdleCompute"
      <4>1. Filtering /\ fsm.write_row \in Nat /\ fsm.read_row = fsm.write_row + 2
        BY <3>3, RowsNow DEF RowsByState, Filtering, Control!Filtering
      <4>2. PICK i \in 1..3 : f = Mult!FifoOf((fsm.write_row + 2) % 4, i)
        BY <3>3, <4>1, EveryFifo, LaneFifo
      <4>3. f = LaneRow(i) % 4
        BY <4>1, <4>2, LaneFifo DEF LaneRow
      <4>4. QED
        BY <4>1, <4>3, LaneStep
    <3>4. QED
      BY <3>1, <3>2, <3>3
  <2>6. QED
    BY <2>2, <2>3, <2>4, <2>5 DEF Control!IInv, Control!TypeOK, Control!FsmTypeOK, Control!States
<1>3. QED
  BY <1>1, <1>2 DEF FifoTypes

\* All FIFOs are cleared in the state after Idle, and in no other.
LEMMA ClearTick ==
  ASSUME Handshakes, Control!IInv, NEW issue \in BOOLEAN, NEW waitrequest \in BOOLEAN,
         NEW rddatavalid \in BOOLEAN, Tick(issue, waitrequest, rddatavalid)
  PROVE  fsm'.clr_all <=> fsm'.state = "ReadFirstRowWait"
  BY FsmMoves DEF Rests, Starts, Passes, Waits, Fetched, Written

\* The FIFO that is being filled, one edge later.
LEMMA FillsTick ==
  ASSUME Handshakes, Control!IInv, Control!IInv', Bursts, RunFollowsHost, LanesInv, FillInv, Fetching,
         fsm'.state = fsm.state, SameRows,
         NEW issue \in BOOLEAN, NEW waitrequest \in BOOLEAN, NEW rddatavalid \in BOOLEAN,
         Tick(issue, waitrequest, rddatavalid)
  PROVE  Fills(fifo[fsm.read_row % 4])'
<1> DEFINE g == fifo'[fsm.read_row % 4]
           W == RowWords(frame, fsm.read_row)
<1>1. Holds(~aborted, g.words, W, 0, Arrived)
  BY FillStep DEF FillInv
<1>2. /\ ~reader'.row_sclr /\ fsm'.read_row = fsm.read_row /\ frame' = frame
      /\ aborted' = aborted /\ fsm'.state \notin {"ReadSecondRowWait", "ReadComputeWait"}
  <2>1. ~fsm.enable_burst_reader
    BY Workers DEF Fetching
  <2>2. QED
    BY <2>1, ReaderMoves, RunGoesOn
       DEF SameRows, Fetching, ReaderRests, ReaderStarts, ReaderClears, ReaderTakes, ReaderWaits
<1>3. fsm'.dummy_read_burst_reader <=> fsm.dummy_read_burst_reader
  BY RowsNext DEF RowsByState, SameRows, Fetching
<1>4. Arrived' - Bit(reader'.row_wrreq) = Arrived
  <2>1. ~fsm.enable_burst_reader /\ reader.count \in Nat
    BY Workers DEF Fetching, Handshakes, ReaderRegisters, Reader!TypeOK
  <2>2. CASE ReaderRests
    <3>1. Arrived' = Arrived
      BY <1>3, <2>2 DEF ReaderRests, Arrived
    <3>2. QED
      BY <2>2, <3>1, ArrivedType DEF ReaderRests, Bit
  <2>3. CASE ReaderTakes
    <3>1. ~fsm'.dummy_read_burst_reader
      BY <1>3, <2>3, Workers DEF ReaderTakes
    <3>2. Arrived' = reader.count + 1
      <4>1. CASE reader.count + 1 = ColCount
        BY <2>3, <3>1, <4>1 DEF ReaderTakes, Arrived
      <4>2. CASE reader.count + 1 # ColCount
        BY <2>3, <4>2 DEF ReaderTakes, Arrived
      <4>3. QED
        BY <4>1, <4>2
    <3>3. Arrived = reader.count /\ reader'.row_wrreq
      BY <2>3 DEF ReaderTakes, Arrived
    <3>4. QED
      BY <2>1, <3>2, <3>3 DEF Bit
  <2>4. CASE ReaderWaits
    <3>1. Arrived' = Arrived
      BY <2>4 DEF ReaderWaits, Arrived
    <3>2. QED
      BY <2>4, <3>1, ArrivedType DEF ReaderWaits, Bit
  <2>5. QED
    BY <2>1, <2>2, <2>3, <2>4, ReaderMoves DEF ReaderStarts, ReaderClears
<1> HIDE DEF g, W
<1>5. QED
  BY <1>1, <1>2, <1>4 DEF Fills, g, W

\* Before a row is fetched, its FIFO is not touched and the reader clears it.
LEMMA FillsStart ==
  ASSUME Handshakes, Control!IInv, Bursts, RunFollowsHost, LanesInv, FillInv,
         fsm.state \in {"ReadSecondRowWait", "ReadComputeWait"},
         NEW issue \in BOOLEAN, NEW waitrequest \in BOOLEAN, NEW rddatavalid \in BOOLEAN,
         Tick(issue, waitrequest, rddatavalid)
  PROVE  Fills(fifo[fsm.read_row % 4])' /\ fifo'[fsm.read_row % 4] = fifo[fsm.read_row % 4]
<1>1. /\ fsm'.read_row = fsm.read_row /\ frame' = frame /\ aborted' = aborted
      /\ fsm'.state \in {"ReadSecondRow", "ReadCompute"}
  BY FsmMoves, RunGoesOn DEF Rests, Starts, Passes, Waits, Fetched, Written, SameRows
<1>2. reader'.row_sclr
  <2>1. fsm.enable_burst_reader /\ reader.state = "Idle"
    BY Workers
  <2>2. QED
    BY <2>1, ReaderMoves DEF ReaderRests, ReaderStarts, ReaderClears, ReaderTakes, ReaderWaits
<1>3. ~reader.row_sclr /\ ~reader.row_wrreq
  BY DEF FillInv, FillRequests, Fetching
<1>4. fifo'[fsm.read_row % 4] = fifo[fsm.read_row % 4]
  BY <1>3, FillEdge
<1>5. Holds(~aborted, fifo[fsm.read_row % 4].words, RowWords(frame, fsm.read_row - 4), 0,
            IF fsm.read_row >= 4 THEN ColCount ELSE 0)
  BY DEF FillInv, FillHeld, Fills
<1>6. QED
  BY <1>1, <1>2, <1>4, <1>5 DEF Fills

\* A row that is complete.
Complete(q, row) == Holds(~aborted, q.words, RowWords(frame, row), 0, ColCount)

\* The last word of the row that has been fetched is in the FIFO when the state
\* machine moves on.
LEMMA FetchEnds ==
  ASSUME Handshakes, Control!IInv, Bursts, RunFollowsHost, LanesInv, FillInv, Fetched,
         NEW issue \in BOOLEAN, NEW waitrequest \in BOOLEAN, NEW rddatavalid \in BOOLEAN,
         Tick(issue, waitrequest, rddatavalid)
  PROVE  /\ Holds(~aborted, fifo'[fsm.read_row % 4].words, RowWords(frame, fsm.read_row), 0,
                  IF fsm.dummy_read_burst_reader THEN 0 ELSE ColCount)
         /\ frame' = frame /\ aborted' = aborted
<1>1. Fetching /\ Arrived = IF fsm.dummy_read_burst_reader THEN 0 ELSE ColCount
  BY Workers DEF Fetched, Fetching, Arrived
<1>2. QED
  BY <1>1, FillStep, RunGoesOn DEF FillInv, Fetching

\* The lanes of the first row: the row above it is black, and rows 0 and 1 have been fetched.
LEMMA FirstLanes ==
  ASSUME Handshakes, Control!IInv, Control!IInv', Bursts, RunFollowsHost, LanesInv, FillInv,
         fsm.state = "ReadSecondRow", Fetched,
         NEW issue \in BOOLEAN, NEW waitrequest \in BOOLEAN, NEW rddatavalid \in BOOLEAN,
         Tick(issue, waitrequest, rddatavalid)
  PROVE  /\ \A i \in 1..3 : LaneHeld(fifo[LaneRow(i) % 4], i)'
         /\ Fills(fifo[fsm.read_row % 4])'
<1>1. /\ fsm.write_row = 0 /\ fsm.read_row = 1 /\ fsm'.write_row = 0 /\ fsm'.read_row = 2
      /\ ~fsm.dummy_read_burst_reader /\ compute.state = "IdleCompute"
      /\ compute'.state = "IdleCompute" /\ fsm'.state = "ReadComputeWait"
  BY RowsNext DEF RowsByState, Fetched
<1>2. \A f \in {0, 2, 3} : fifo'[f] = fifo[f]
  BY <1>1, LaneQuiet
<1>3. /\ Holds(~aborted, fifo[0].words, RowWords(frame, 0), 0, ColCount)
      /\ fifo[2] = Rows!EmptyFifo /\ fifo[3] = Rows!EmptyFifo
  BY DEF FillInv, FirstRowsHeld
<1>4. /\ Holds(~aborted, fifo'[1].words, RowWords(frame, 1), 0, ColCount)
      /\ frame' = frame /\ aborted' = aborted
  BY <1>1, FetchEnds
<1>5. Popped' = 0 /\ LaneLen' = ColCount
  BY <1>1 DEF Popped, Pushed, LaneLen
<1>6. LaneRow(1)' = -1 /\ LaneRow(2)' = 0 /\ LaneRow(3)' = 1
  BY <1>1 DEF LaneRow
<1>7. /\ LaneHeld(fifo[LaneRow(1) % 4], 1)'
      /\ LaneHeld(fifo[LaneRow(2) % 4], 2)'
      /\ LaneHeld(fifo[LaneRow(3) % 4], 3)'
  BY <1>2, <1>3, <1>4, <1>5, <1>6 DEF LaneHeld
<1>8. Holds(~aborted, fifo'[2].words, RowWords(frame, -2), 0, 0)
  <2>1. Len(fifo'[2].words) = 0
    BY <1>2, <1>3, EmptyOK
  <2>2. QED
    BY <2>1 DEF Holds
<1>9. Fills(fifo[fsm.read_row % 4])'
  BY <1>1, <1>4, <1>8 DEF Fills, Fetching
<1>10. QED
  BY <1>7, <1>9

\* The next row: its lanes were one further, and the row that was fetched comes in below.
LEMMA LanesShift ==
  ASSUME Handshakes, Control!IInv, Control!IInv', Bursts, RunFollowsHost, LanesInv, FillInv,
         Written, fsm'.state = "ReadComputeWait",
         NEW issue \in BOOLEAN, NEW waitrequest \in BOOLEAN, NEW rddatavalid \in BOOLEAN,
         Tick(issue, waitrequest, rddatavalid)
  PROVE  /\ \A i \in 1..3 : LaneHeld(fifo[LaneRow(i) % 4], i)'
         /\ Fills(fifo[fsm.read_row % 4])'
<1> DEFINE w == fsm.write_row
<1>1. /\ w \in Nat /\ fsm.read_row = w + 3 /\ fsm'.write_row = w + 1 /\ fsm'.read_row = w + 3
      /\ ~fsm.dummy_read_burst_reader /\ compute.state = "IdleCompute"
      /\ compute'.state = "IdleCompute" /\ fsm.state = "Write"
  BY RowsNext, RowCountAssumption DEF RowsByState, Written
<1>2. \A f \in 0..3 : fifo'[f] = fifo[f]
  BY <1>1, AllQuiet DEF FillInv
<1>3. frame' = frame /\ aborted' = aborted
  BY <1>1, RunGoesOn
<1>4. Popped = 0 /\ LaneLen = ColCount /\ Popped' = 0 /\ LaneLen' = ColCount
  BY <1>1 DEF Popped, Pushed, LaneLen
<1>5. \A i \in 1..3 : LaneHeld(fifo[LaneRow(i) % 4], i)
  BY <1>1 DEF LanesInv, LanesHeld, Control!Writing
<1>6. /\ LaneRow(1) = w - 1 /\ LaneRow(2) = w /\ LaneRow(3) = w + 1
      /\ LaneRow(1)' = w /\ LaneRow(2)' = w + 1 /\ LaneRow(3)' = w + 2
  BY <1>1 DEF LaneRow
<1>7. /\ Complete(fifo[w % 4], w) /\ Complete(fifo[(w + 1) % 4], w + 1)
      /\ IF w = 0 THEN fifo[(w - 1) % 4] = Rows!EmptyFifo
                  ELSE Complete(fifo[(w - 1) % 4], w - 1)
  <2>1. LaneHeld(fifo[(w - 1) % 4], 1) /\ LaneHeld(fifo[w % 4], 2) /\ LaneHeld(fifo[(w + 1) % 4], 3)
    BY <1>5, <1>6
  <2>2. QED
    BY <1>1, <1>4, <1>6, <2>1 DEF LaneHeld, Complete
<1>8. Complete(fifo[(w + 2) % 4], w + 2)
  BY <1>1 DEF FillInv, FillHeld, Control!Writing, Complete
<1> HIDE DEF w
<1>9. ASSUME NEW r \in Nat, Complete(fifo[r % 4], r)
      PROVE  Holds(~aborted', fifo'[r % 4].words, RowWords(frame', r), Popped', LaneLen')
  <2>1. r % 4 \in 0..3
    BY <1>9
  <2>2. fifo'[r % 4] = fifo[r % 4]
    BY <1>2, <2>1
  <2>3. QED
    BY <1>3, <1>4, <1>9, <2>2 DEF Complete
<1>10. /\ LaneHeld(fifo[LaneRow(1) % 4], 1)'
       /\ LaneHeld(fifo[LaneRow(2) % 4], 2)'
       /\ LaneHeld(fifo[LaneRow(3) % 4], 3)'
  BY <1>1, <1>6, <1>7, <1>8, <1>9 DEF LaneHeld
<1>11. Fills(fifo[fsm.read_row % 4])'
  <2>1. (w + 3) % 4 = (w - 1) % 4 /\ (w + 3) % 4 \in 0..3 /\ (w + 3) - 4 = w - 1
    BY <1>1
  <2>2. fifo'[(w + 3) % 4] = fifo[(w - 1) % 4]
    BY <1>2, <2>1
  <2>3. Holds(~aborted', fifo'[(w + 3) % 4].words, RowWords(frame', (w + 3) - 4), 0,
              IF w + 3 >= 4 THEN ColCount ELSE 0)
    <3>1. CASE w = 0
      <4>1. Len(fifo'[(w + 3) % 4].words) = 0
        BY <1>7, <2>2, <3>1, EmptyOK
      <4>2. QED
        <5>1. ~(w + 3 >= 4)
          BY <3>1
        <5>2. Holds(~aborted', fifo'[(w + 3) % 4].words, RowWords(frame', (w + 3) - 4), 0, 0)
          BY <4>1 DEF Holds
        <5>3. QED
          BY <5>1, <5>2
    <3>2. CASE w # 0
      <4>1. w + 3 >= 4 /\ Complete(fifo[(w - 1) % 4], w - 1)
        BY <1>1, <1>7, <3>2
      <4>2. QED
        BY <1>3, <2>1, <2>2, <4>1 DEF Complete
    <3>3. QED
      BY <3>1, <3>2
  <2>4. ~Fetching'
    BY DEF Fetching
  <2>5. QED
    BY <1>1, <2>3, <2>4 DEF Fills
<1>12. QED
  BY <1>10, <1>11

FifoInv == LanesInv /\ FillInv

\* What the FIFOs hold follows the state machine from state to state.
LEMMA HeldTick ==
  ASSUME Handshakes, Control!IInv, Control!IInv', Bursts, RunFollowsHost, FifoInv,
         NEW issue \in BOOLEAN, NEW waitrequest \in BOOLEAN, NEW rddatavalid \in BOOLEAN,
         Tick(issue, waitrequest, rddatavalid)
  PROVE  LanesHeld' /\ FillHeld' /\ FirstRowsHeld'
<1> USE DEF FifoInv
<1> DEFINE lanes == \A i \in 1..3 : LaneHeld(fifo[LaneRow(i) % 4], i)
           fills == Fills(fifo[fsm.read_row % 4])
           below == Holds(~aborted, fifo[(fsm.write_row + 2) % 4].words,
                          RowWords(frame, fsm.write_row + 2), 0,
                          IF fsm.dummy_read_burst_reader THEN 0 ELSE ColCount)
<1>1. SUFFICES /\ fsm'.state \in {"ReadComputeWait", "ReadCompute", "WriteWait", "Write"} => lanes'
               /\ fsm'.state \in {"ReadFirstRow", "ReadSecondRowWait", "ReadSecondRow",
                                  "ReadComputeWait", "ReadCompute"} => fills'
               /\ fsm'.state \in {"WriteWait", "Write"} => below'
               /\ FirstRowsHeld'
  <2> HIDE DEF lanes, below
  <2>1. fsm'.state \notin {"ReadFirstRow", "ReadSecondRowWait", "ReadSecondRow",
                           "ReadComputeWait", "ReadCompute"} => fills'
    BY DEF Fills, Fetching
  <2> HIDE DEF fills
  <2>2. FillHeld' <=> fills' /\ (fsm'.state \in {"WriteWait", "Write"} => below')
    BY DEF FillHeld, Control!Writing, fills, below
  <2>3. LanesHeld' <=> (fsm'.state \in {"ReadComputeWait", "ReadCompute", "WriteWait", "Write"} => lanes')
    BY DEF LanesHeld, Control!Filtering, Control!Writing, lanes
  <2>4. QED
    BY <2>1, <2>2, <2>3
<1>2. RowsByState /\ RowsByState'
  BY RowsNext
<1> HIDE DEF lanes, fills, below
<1>3. CASE fsm'.state \in {"Idle", "ReadFirstRowWait"}
  BY <1>3 DEF FirstRowsHeld
<1>4. CASE fsm.state = "ReadFirstRowWait"
  <2>1. /\ fsm'.state = "ReadFirstRow" /\ fsm'.read_row = 0
        /\ \A f \in 0..3 : fifo'[f] = Rows!EmptyFifo
    <3>1. fsm'.state = "ReadFirstRow"
      BY <1>4, FsmMoves DEF Rests, Starts, Passes, Waits, Fetched, Written
    <3>2. QED
      BY <1>2, <1>4, <3>1, AllCleared DEF RowsByState
  <2>2. reader'.row_sclr
    <3>1. fsm.enable_burst_reader /\ reader.state = "Idle"
      BY <1>4, Workers
    <3>2. QED
      BY <3>1, ReaderMoves DEF ReaderRests, ReaderStarts, ReaderClears, ReaderTakes, ReaderWaits
  <2>3. Len(fifo'[0].words) = 0
    BY <2>1, EmptyOK
  <2>4. fills'
    BY <2>1, <2>2, <2>3 DEF fills, Fills, Holds
  <2>5. FirstRowsHeld'
    BY <2>1 DEF FirstRowsHeld
  <2>6. QED
    BY <2>1, <2>4, <2>5
<1>5. CASE fsm.state = "ReadFirstRow"
  <2>1. /\ compute.state = "IdleCompute" /\ fsm.read_row = 0
        /\ \A f \in 1..3 : fifo'[f] = Rows!EmptyFifo
    <3>1. compute.state = "IdleCompute" /\ fsm.read_row = 0
      BY <1>2, <1>5 DEF RowsByState
    <3>2. QED
      BY <1>5, <3>1, LaneQuiet DEF FillInv, FirstRowsHeld
  <2>2. CASE Fetched
    <3>1. /\ fsm'.state = "ReadSecondRowWait" /\ fsm'.read_row = 1
          /\ ~fsm.dummy_read_burst_reader
      BY <1>2, <1>5, <2>2 DEF Fetched, RowsByState
    <3>2. Holds(~aborted', fifo'[0].words, RowWords(frame', 0), 0, ColCount)
      BY <2>1, <2>2, <3>1, FetchEnds
    <3>3. Len(fifo'[1].words) = 0
      BY <2>1, EmptyOK
    <3>4. fills'
      BY <3>1, <3>3 DEF fills, Fills, Fetching, Holds
    <3>5. FirstRowsHeld'
      BY <2>1, <3>1, <3>2 DEF FirstRowsHeld
    <3>6. QED
      BY <3>1, <3>4, <3>5
  <2>3. CASE Waits /\ SameRows
    <3>1. fsm'.state = fsm.state
      BY <2>3 DEF Waits
    <3>2. fills'
      BY <1>5, <2>3, <3>1, FillsTick DEF Fetching, fills
    <3>3. QED
      BY <1>5, <2>1, <3>1, <3>2 DEF FirstRowsHeld
  <2>4. QED
    BY <1>5, <2>2, <2>3, FsmMoves DEF Rests, Starts, Passes, Written
<1>6. CASE fsm.state = "ReadSecondRowWait"
  <2>1. fsm'.state = "ReadSecondRow" /\ frame' = frame /\ aborted' = aborted
    BY <1>6, FsmMoves, RunGoesOn DEF Rests, Starts, Passes, Waits, Fetched, Written
  <2>2. fills'
    BY <1>6, FillsStart DEF fills
  <2>3. \A f \in 0..3 : fifo'[f] = fifo[f]
    BY <1>6, AllQuiet DEF FillInv
  <2>4. FirstRowsHeld'
    BY <1>6, <2>1, <2>3 DEF FillInv, FirstRowsHeld
  <2>5. QED
    BY <2>1, <2>2, <2>4
<1>7. CASE fsm.state = "ReadSecondRow"
  <2>1. CASE Fetched
    <3>1. fsm'.state = "ReadComputeWait"
      BY <1>7, <2>1 DEF Fetched
    <3>2. lanes' /\ fills'
      BY <1>7, <2>1, FirstLanes DEF lanes, fills
    <3>3. QED
      BY <3>1, <3>2 DEF FirstRowsHeld
  <2>2. CASE Waits /\ SameRows
    <3>1. fsm'.state = fsm.state /\ frame' = frame /\ aborted' = aborted
      BY <1>7, <2>2, RunGoesOn DEF Waits
    <3>2. fills'
      BY <1>7, <2>2, <3>1, FillsTick DEF Fetching, fills
    <3>3. \A f \in {0, 2, 3} : fifo'[f] = fifo[f]
      <4>1. compute.state = "IdleCompute" /\ fsm.read_row = 1
        BY <1>2, <1>7 DEF RowsByState
      <4>2. QED
        BY <1>7, <4>1, LaneQuiet
    <3>4. FirstRowsHeld'
      BY <1>7, <3>1, <3>3 DEF FillInv, FirstRowsHeld
    <3>5. QED
      BY <1>7, <3>1, <3>2, <3>4
  <2>3. QED
    BY <1>7, <2>1, <2>2, FsmMoves DEF Rests, Starts, Passes, Written
<1>8. CASE fsm.state = "ReadComputeWait"
  <2>1. fsm'.state = "ReadCompute" /\ fsm'.write_row = fsm.write_row
    BY <1>8, FsmMoves DEF Rests, Starts, Passes, Waits, Fetched, Written, SameRows
  <2>2. lanes'
    BY <1>8, <2>1, LaneKeeps DEF lanes, Filtering, Control!Filtering
  <2>3. fills'
    BY <1>8, FillsStart DEF fills
  <2>4. QED
    BY <2>1, <2>2, <2>3 DEF FirstRowsHeld
<1>9. CASE fsm.state = "ReadCompute"
  <2>1. fsm'.write_row = fsm.write_row /\ fsm'.state \in {"ReadCompute", "WriteWait"}
    BY <1>9, FsmMoves DEF Rests, Starts, Passes, Waits, Fetched, Written, SameRows
  <2>2. lanes'
    BY <1>9, <2>1, LaneKeeps DEF lanes, Filtering, Control!Filtering
  <2>3. CASE Fetched
    <3>1. fsm'.state = "WriteWait" /\ fsm.read_row = fsm.write_row + 2
      BY <1>2, <1>9, <2>3 DEF Fetched, RowsByState
    <3>2. fsm'.dummy_read_burst_reader <=> fsm.dummy_read_burst_reader
      BY <1>2, <1>9, <2>1, <3>1 DEF RowsByState
    <3>3. below'
      BY <2>1, <2>3, <3>1, <3>2, FetchEnds DEF below
    <3>4. QED
      BY <2>2, <3>1, <3>3 DEF FirstRowsHeld
  <2>4. CASE Waits /\ SameRows
    <3>1. fsm'.state = fsm.state
      BY <2>4 DEF Waits
    <3>2. fills'
      BY <1>9, <2>4, <3>1, FillsTick DEF Fetching, fills
    <3>3. QED
      BY <1>9, <2>2, <3>1, <3>2 DEF FirstRowsHeld
  <2>5. QED
    BY <1>9, <2>3, <2>4, FsmMoves DEF Rests, Starts, Passes, Written
<1>10. CASE fsm.state \in {"WriteWait", "Write"} /\ fsm'.state = "Write"
  <2>1. /\ fsm'.write_row = fsm.write_row /\ frame' = frame /\ aborted' = aborted
        /\ compute.state = "IdleCompute" /\ compute'.state = "IdleCompute"
    BY <1>2, <1>10, FsmMoves, RunGoesOn
       DEF Rests, Starts, Passes, Waits, Fetched, Written, SameRows, RowsByState
  <2>2. fsm'.dummy_read_burst_reader <=> fsm.dummy_read_burst_reader
    BY <1>2, <1>10, <2>1 DEF RowsByState
  <2>3. \A f \in 0..3 : fifo'[f] = fifo[f]
    BY <1>10, AllQuiet DEF FillInv
  <2>4. fsm.write_row \in Nat
    BY <1>2 DEF RowsByState
  <2>5. below'
    <3>1. below /\ (fsm.write_row + 2) % 4 \in 0..3
      BY <1>10, <2>4 DEF FillInv, FillHeld, Control!Writing, below
    <3>2. QED
      BY <2>1, <2>2, <2>3, <3>1 DEF below
  <2>6. ASSUME NEW i \in 1..3 PROVE LaneHeld(fifo[LaneRow(i) % 4], i)'
    <3>1. LaneRow(i)' = LaneRow(i) /\ LaneRow(i) % 4 \in 0..3
      BY <2>1, <2>4 DEF LaneRow
    <3>2. Popped' = Popped /\ LaneLen' = LaneLen
      BY <2>1 DEF Popped, Pushed, LaneLen
    <3>3. LaneHeld(fifo[LaneRow(i) % 4], i)
      BY <1>10 DEF LanesInv, LanesHeld, Control!Writing
    <3>4. fifo'[LaneRow(i) % 4] = fifo[LaneRow(i) % 4]
      BY <2>3, <3>1
    <3>5. QED
      BY <2>1, <3>1, <3>2, <3>3, <3>4 DEF LaneHeld
  <2>7. QED
    BY <1>10, <2>5, <2>6 DEF lanes, FirstRowsHeld
<1>11. CASE Written /\ fsm'.state = "ReadComputeWait"
  <2>1. lanes' /\ fills'
    BY <1>11, LanesShift DEF lanes, fills
  <2>2. QED
    BY <1>11, <2>1 DEF FirstRowsHeld
<1>12. QED
  BY <1>3, <1>4, <1>5, <1>6, <1>7, <1>8, <1>9, <1>10, <1>11, FsmMoves
     DEF Rests, Starts, Passes, Waits, Fetched, Written

\* With no reset, no start and no clock edge.
LEMMA FifoInit == Init => FifoInv
<1> SUFFICES ASSUME Init PROVE FifoInv
  OBVIOUS
<1>1. /\ fifo = [f \in 0..3 |-> Rows!EmptyFifo] /\ fsm.state = "Idle" /\ ~fsm.clr_all
      /\ reader.row_sclr = FALSE /\ reader.row_wrreq = FALSE
  BY DEF Init, Fsm!Init, Reader!Init, Mult!Fifos
<1>2. compute.state = "IdleCompute" /\ \A i \in 1..3 : ~compute.row_rdreq[i] /\ ~compute.row_wrreq[i]
  BY DEF Init, Thresh!Init, Thresh!None, Thresh!Lanes
<1>3. FifoTypes
  BY <1>1, EmptyOK DEF FifoTypes
<1>4. LaneRequests /\ LaneData
  BY <1>2 DEF LaneRequests, LaneData, Popping, Pushing
<1>5. LanesHeld /\ FillInv
  BY <1>1 DEF LanesHeld, FillInv, FillRequests, FillHeld, Fills, FirstRowsHeld, Fetching,
     Control!Filtering, Control!Writing
<1>6. QED
  BY <1>1, <1>3, <1>4, <1>5 DEF FifoInv, LanesInv

\* A reset leaves the FIFOs as they are, and an aborted run.
LEMMA FifoReset == Handshakes /\ FifoInv /\ ResetButton => FifoInv'
<1> SUFFICES ASSUME Handshakes, FifoInv, ResetButton PROVE FifoInv'
  OBVIOUS
<1>1. /\ fifo' = fifo /\ fsm'.state = "Idle" /\ ~fsm'.clr_all
      /\ ~reader'.row_wrreq /\ aborted' = TRUE
  BY DEF Handshakes, Fsm!FsmTypeOK, Fsm!Registers, ReaderRegisters, Reader!TypeOK, ResetButton,
     Fsm!Reset, Reader!Reset
<1>2. compute'.state = "IdleCompute" /\ \A i \in 1..3 : ~compute'.row_rdreq[i] /\ ~compute'.row_wrreq[i]
  BY DEF Handshakes, ComputeRegisters, ComputeFields, ResetButton, Thresh!Reset, Thresh!None, Thresh!Lanes
<1>3. FifoTypes'
  BY <1>1 DEF FifoInv, LanesInv, FifoTypes
<1>4. LaneRequests' /\ LaneData'
  BY <1>1, <1>2 DEF LaneRequests, LaneData, Popping, Pushing
<1>5. LanesHeld' /\ FillInv'
  BY <1>1 DEF LanesHeld, FillInv, FillRequests, FillHeld, Fills, FirstRowsHeld, Fetching,
     Control!Filtering, Control!Writing
<1>6. QED
  BY <1>1, <1>3, <1>4, <1>5 DEF FifoInv, LanesInv

LEMMA FifoOther == FifoInv /\ (Call \/ UNCHANGED vars) => FifoInv'
  BY SMTT(30) DEF Call, vars, FifoInv, LanesInv, FifoTypes, LaneRequests, LanesHeld, LaneData, LaneHeld,
     LaneRow, LaneLen, Popped, Pushed, Pos, Popping, Pushing,
     FillInv, FillRequests, FillHeld, Fills, FirstRowsHeld, Fetching, Arrived

LEMMA FifoLoad == RunFollowsHost /\ Handshakes /\ Control!IInv /\ FifoInv /\ LoadImage => FifoInv'
<1> SUFFICES ASSUME RunFollowsHost, Handshakes, Control!IInv, FifoInv, LoadImage PROVE FifoInv'
  OBVIOUS
<1>1. /\ fsm.state = "Idle" /\ fsm' = fsm /\ fifo' = fifo /\ reader' = reader
      /\ compute' = compute /\ aborted' = aborted
  BY DEF LoadImage, RunFollowsHost
<1>2. compute.state = "IdleCompute" /\ ~reader.row_wrreq
  BY <1>1, RowsNow DEF RowsByState, FifoInv, FillInv, FillRequests, Fetching
<1>3. FifoTypes'
  BY <1>1 DEF FifoInv, LanesInv, FifoTypes
<1>4. LaneRequests' /\ LaneData'
  BY <1>1, <1>2 DEF FifoInv, LanesInv, LaneRequests, LaneData, Popping, Pushing, LaneRow
<1>5. LanesHeld' /\ FillInv'
  BY <1>1, <1>2 DEF LanesHeld, FillInv, FillRequests, FillHeld, Fills, FirstRowsHeld, Fetching,
     Control!Filtering, Control!Writing
<1>6. QED
  BY <1>1, <1>3, <1>4, <1>5 DEF FifoInv, LanesInv

\* Every cycle keeps what is said of the row FIFOs.
LEMMA FifoTick ==
  ASSUME Handshakes, Control!IInv, Control!IInv', Bursts, RunFollowsHost, MemoryInv, FifoInv,
         NEW issue \in BOOLEAN, NEW waitrequest \in BOOLEAN, NEW rddatavalid \in BOOLEAN,
         Tick(issue, waitrequest, rddatavalid)
  PROVE  FifoInv'
<1>1. LanesInv /\ FillInv /\ FillRequests
  BY DEF FifoInv, FillInv
<1>2. LaneRequests' /\ LaneData'
  BY <1>1, LaneRequestsTick, LaneDataTick
<1>3. FifoTypes' /\ FillRequests'
  BY <1>1, FifoTypesTick, FillRequestsTick
<1>4. LanesHeld' /\ FillHeld' /\ FirstRowsHeld'
  BY HeldTick
<1>5. fsm'.clr_all <=> fsm'.state = "ReadFirstRowWait"
  BY ClearTick
<1>6. QED
  BY <1>2, <1>3, <1>4, <1>5 DEF FifoInv, LanesInv, FillInv

LEMMA FifosHold == Spec => []FifoInv
<1>1. Handshakes /\ Control!IInv /\ Control!IInv' /\ Bursts /\ RunFollowsHost /\ MemoryInv /\ FifoInv
        /\ [Next]_vars => FifoInv'
  BY FifoTick, FifoReset, FifoOther, FifoLoad DEF Next
<1>2. QED
  BY <1>1, FifoInit, HandshakesHold, ControlInvariant, BurstsHold, RunHolds, MemoryHolds, PTL DEF Spec

(***************************************************************************)
(* RowsIntact follows.                                                     *)
(***************************************************************************)
LEMMA PosType ==
  ASSUME Handshakes, compute.state = "Compute"
  PROVE  Pos \in 1 .. ColCount - 2
<1>1. compute.ColCounter \in 4 .. 4 * ColCount - 8
  BY DEF Handshakes, ComputeRegisters
<1>2. QED
  BY <1>1 DEF Pos

\* A lane that is asked for a word has one, one that is given a word has room.
LEMMA LaneBounds ==
  ASSUME Handshakes
  PROVE  /\ Popped \in 0 .. ColCount /\ LaneLen \in 0 .. ColCount
         /\ Popping => LaneLen > 0
         /\ Pushing => LaneLen < ColCount
<1>1. LanesByState
  BY LaneCases
<1>2. compute.state \in {"IdleCompute", "ReadDelay", "FirstCompute", "Compute", "LastCompute",
                         "LastComputeWrite"}
  BY DEF Handshakes, ComputeRegisters, Thresh!TypeOK
<1>3. QED
  BY <1>1, <1>2, PosType DEF LanesByState, LaneLen, Popping, Pushing

LEMMA WrapIsMod == ASSUME NEW m \in 0 .. 2 * ColCount - 1 PROVE m % ColCount = Wrap(m)
<1>1. CASE m < ColCount
  BY <1>1 DEF Wrap
<1>2. CASE m >= ColCount
  BY <1>2 DEF Wrap
<1>3. QED
  BY <1>1, <1>2

Unmixed(f) ==
  \E row \in 0..RowCount, k \in 0..ColCount-1 :
    /\ row % 4 = f
    /\ \A n \in 1..Len(fifo[f].words) :
         fifo[f].words[n] = RowWord(row, (k + n - 1) % ColCount)

\* Words that are held are consecutive words of one row.
LEMMA HeldUnmixed ==
  ASSUME NEW row \in 0..RowCount, NEW first \in 0..ColCount, NEW len \in 0..ColCount, ~aborted,
         Holds(~aborted, fifo[row % 4].words, RowWords(frame, row), first, len)
  PROVE  Unmixed(row % 4)
<1> DEFINE k == IF first = ColCount THEN 0 ELSE first
           s == fifo[row % 4].words
<1>1. k \in 0 .. ColCount - 1 /\ row \in Nat
  BY RowCountAssumption
<1>2. Len(s) = len /\ \A n \in 1 .. len : s[n] = RowWords(frame, row)[Wrap(first + n - 1)]
  BY DEF Holds
<1> HIDE DEF s
<1>3. ASSUME NEW n \in 1 .. len PROVE s[n] = RowWord(row, (k + n - 1) % ColCount)
  <2>1. (k + n - 1) % ColCount = Wrap(k + n - 1)
    BY <1>1, WrapIsMod
  <2>2. Wrap(k + n - 1) = Wrap(first + n - 1) /\ Wrap(k + n - 1) \in 0 .. ColCount - 1
    BY <1>1 DEF Wrap
  <2>3. RowWords(frame, row)[Wrap(k + n - 1)] = RowWord(row, Wrap(k + n - 1))
    BY <1>1, <2>2 DEF RowWords, RowWord
  <2>4. QED
    BY <1>2, <2>1, <2>2, <2>3
<1> HIDE DEF k
<1>4. QED
  BY <1>1, <1>2, <1>3 DEF Unmixed, s

LEMMA NoneHeld ==
  ASSUME NEW q, Len(q.words) = 0, FifoOK(q)
  PROVE  Rows!IsEmpty(q)
  BY NoWords DEF FifoOK, Rows!IsEmpty

\* Every FIFO while a run is going on.
LEMMA RowsUnmixedHolds ==
  ASSUME Handshakes, Control!IInv, FifoInv, Running, NEW f \in 0..3
  PROVE  Rows!IsEmpty(fifo[f]) \/ Unmixed(f)
<1> USE RowCountAssumption DEF FifoInv
<1>1. RowsByState /\ ~aborted /\ FifoOK(fifo[f]) /\ Arrived \in 0 .. ColCount
  BY RowsNow, ArrivedType DEF LanesInv, FifoTypes, Running
<1>2. ASSUME NEW row \in Int, f = row % 4, NEW first \in 0..ColCount, NEW len \in 0..ColCount,
             Holds(~aborted, fifo[row % 4].words, RowWords(frame, row), first, len),
             len > 0 => row >= 0 /\ row <= RowCount
      PROVE  Rows!IsEmpty(fifo[f]) \/ Unmixed(f)
  <2>1. CASE len = 0
    BY <1>1, <1>2, <2>1, NoneHeld DEF Holds
  <2>2. CASE len > 0
    <3>1. row \in 0..RowCount
      BY <1>2, <2>2
    <3>2. QED
      BY <1>1, <1>2, <3>1, HeldUnmixed
  <2>3. QED
    BY <1>2, <2>1, <2>2
<1>3. fifo[f] = Rows!EmptyFifo => Rows!IsEmpty(fifo[f])
  BY DEF Rows!EmptyFifo, Rows!IsEmpty
<1>4. ASSUME NEW i \in 1..3, f = LaneRow(i) % 4, Filtering \/ fsm.state \in Control!Writing
      PROVE  Rows!IsEmpty(fifo[f]) \/ Unmixed(f)
  <2>1. LaneHeld(fifo[LaneRow(i) % 4], i) /\ LaneRow(i) \in Int /\ LaneRow(i) <= RowCount
    BY <1>1, <1>4 DEF LanesInv, LanesHeld, LaneRow, Filtering, RowsByState, Control!Filtering, Control!Writing
  <2>2. CASE LaneRow(i) < 0
    BY <1>3, <1>4, <2>1, <2>2 DEF LaneHeld
  <2>3. CASE LaneRow(i) >= 0
    <3>1. Holds(~aborted, fifo[LaneRow(i) % 4].words, RowWords(frame, LaneRow(i)), Popped, LaneLen)
      BY <2>1, <2>3 DEF LaneHeld
    <3>2. QED
      BY <1>2, <1>4, <2>1, <2>3, <3>1, LaneBounds
  <2>4. QED
    BY <2>1, <2>2, <2>3
<1>5. ASSUME f = fsm.read_row % 4, Fetching \/ fsm.state \in {"ReadSecondRowWait", "ReadComputeWait"}
      PROVE  Rows!IsEmpty(fifo[f]) \/ Unmixed(f)
  <2> DEFINE len == Arrived - Bit(reader.row_wrreq)
  <2>1. /\ fsm.read_row \in Nat /\ len \in 0 .. ColCount
        /\ len > 0 => fsm.read_row <= RowCount
        /\ fsm.read_row <= RowCount + 1
    <3>1. reader.row_wrreq => Arrived > 0
      BY DEF FillInv, FillRequests
    <3>2. len \in 0 .. ColCount /\ len <= Arrived
      BY <1>1, <3>1 DEF Bit
    <3>3. Arrived > 0 => ~fsm.dummy_read_burst_reader
      <4>1. reader.state = "Read" => ~fsm.dummy_read_burst_reader
        BY Workers
      <4>2. QED
        BY <4>1 DEF Arrived, Handshakes, ReaderRegisters, Reader!TypeOK
    <3> HIDE DEF len
    <3>4. QED
      BY <1>1, <1>5, <3>2, <3>3 DEF RowsByState, Fetching
  <2>2. CASE Fetching /\ ~reader.row_sclr
    <3>1. Holds(~aborted, fifo[fsm.read_row % 4].words, RowWords(frame, fsm.read_row), 0, len)
      BY <2>2 DEF FillInv, FillHeld, Fills
    <3> HIDE DEF len
    <3>2. QED
      BY <1>2, <1>5, <2>1, <3>1
  <2>3. CASE ~(Fetching /\ ~reader.row_sclr)
    <3> DEFINE row == fsm.read_row - 4
               old == IF fsm.read_row >= 4 THEN ColCount ELSE 0
    <3>1. Holds(~aborted, fifo[fsm.read_row % 4].words, RowWords(frame, row), 0, old)
      BY <1>5, <2>3 DEF FillInv, FillHeld, Fills
    <3>2. row \in Int /\ row % 4 = fsm.read_row % 4 /\ row <= RowCount
      BY <2>1
    <3>3. old \in 0 .. ColCount /\ (old > 0 => row >= 0)
      BY <2>1
    <3> HIDE DEF row, old
    <3>4. QED
      BY <1>2, <1>5, <3>1, <3>2, <3>3
  <2>4. QED
    BY <2>2, <2>3
<1>6. CASE Filtering
  <2>1. /\ fsm.write_row \in Nat /\ fsm.read_row = fsm.write_row + 2
        /\ Fetching \/ fsm.state = "ReadComputeWait"
    BY <1>1, <1>6 DEF RowsByState, Filtering, Control!Filtering, Fetching
  <2>2. CASE f = fsm.read_row % 4
    BY <1>5, <2>1, <2>2
  <2>3. CASE f # fsm.read_row % 4
    <3>1. PICK i \in 1..3 : f = Mult!FifoOf((fsm.write_row + 2) % 4, i)
      BY <2>1, <2>3, EveryFifo, LaneFifo
    <3>2. f = LaneRow(i) % 4
      BY <2>1, <3>1, LaneFifo DEF LaneRow
    <3>3. QED
      BY <1>4, <1>6, <3>2
  <2>4. QED
    BY <2>2, <2>3
<1>7. CASE fsm.state \in Control!Writing
  <2>1. fsm.write_row \in Nat
    BY <1>1 DEF RowsByState
  <2>2. CASE f = (fsm.write_row + 2) % 4
    <3> DEFINE row == fsm.write_row + 2
               len == IF fsm.dummy_read_burst_reader THEN 0 ELSE ColCount
    <3>1. Holds(~aborted, fifo[row % 4].words, RowWords(frame, row), 0, len)
      BY <1>7 DEF FillInv, FillHeld
    <3>2. row \in Int /\ row >= 0 /\ len \in 0 .. ColCount /\ (len > 0 => row <= RowCount)
      BY <1>1, <1>7, <2>1 DEF RowsByState, Control!Writing
    <3> HIDE DEF len
    <3>3. QED
      BY <1>2, <2>2, <3>1, <3>2
  <2>3. CASE f # (fsm.write_row + 2) % 4
    <3>1. PICK i \in 1..3 : f = Mult!FifoOf((fsm.write_row + 2) % 4, i)
      BY <2>1, <2>3, EveryFifo, LaneFifo
    <3>2. f = LaneRow(i) % 4
      BY <2>1, <3>1, LaneFifo DEF LaneRow
    <3>3. QED
      BY <1>4, <1>7, <3>2
  <2>4. QED
    BY <2>2, <2>3
<1>8. CASE fsm.state = "ReadFirstRow"
  <2>1. fsm.read_row = 0 /\ \A g \in 1..3 : fifo[g] = Rows!EmptyFifo
    BY <1>1, <1>8 DEF RowsByState, FillInv, FirstRowsHeld
  <2>2. CASE f = 0
    BY <1>5, <1>8, <2>1, <2>2 DEF Fetching
  <2>3. CASE f # 0
    BY <1>3, <2>1, <2>3
  <2>4. QED
    BY <2>2, <2>3
<1>9. CASE fsm.state \in {"ReadSecondRowWait", "ReadSecondRow"}
  <2>1. /\ fsm.read_row = 1 /\ fifo[2] = Rows!EmptyFifo /\ fifo[3] = Rows!EmptyFifo
        /\ Holds(~aborted, fifo[0].words, RowWords(frame, 0), 0, ColCount)
    BY <1>1, <1>9 DEF RowsByState, FillInv, FirstRowsHeld
  <2>2. CASE f = 0
    BY <1>2, <2>1, <2>2
  <2>3. CASE f = 1
    BY <1>5, <1>9, <2>1, <2>3 DEF Fetching
  <2>4. CASE f \in {2, 3}
    BY <1>3, <2>1, <2>4
  <2>5. QED
    BY <2>2, <2>3, <2>4
<1>10. QED
  BY <1>6, <1>7, <1>8, <1>9 DEF Running, Filtering, Control!Filtering, Control!Writing,
     Control!IInv, Control!TypeOK, Control!FsmTypeOK, Control!States

\* The rest of the type invariant.
Bounded ==
  /\ frame \in 1..MaxFrames /\ resets \in 0..MaxResets
  /\ base \in {0, Image} /\ aborted \in BOOLEAN

\* Images and resets are counted up to their bounds, and not by a clock edge; a clock edge
\* takes the base of a run from the start address, and ends what the reset button has aborted.
LEMMA CountersMove ==
  ASSUME Handshakes, [Next]_vars
  PROVE  /\ frame' = frame \/ (frame < MaxFrames /\ frame' = frame + 1)
         /\ resets' = resets \/ (resets < MaxResets /\ resets' = resets + 1)
         /\ base' = base \/ base' \in {0, Image}
         /\ aborted' = aborted \/ aborted' \in BOOLEAN
<1>1. CASE LoadImage \/ ResetButton
  BY <1>1 DEF LoadImage, ResetButton
<1>2. CASE Call \/ UNCHANGED vars
  BY <1>2 DEF Call, vars
<1>3. ASSUME NEW issue, NEW waitrequest, NEW rddatavalid, Tick(issue, waitrequest, rddatavalid)
      PROVE  /\ frame' = frame /\ resets' = resets
             /\ base' = base \/ base' \in {0, Image}
             /\ aborted' = aborted \/ aborted' \in BOOLEAN
  BY <1>3 DEF Tick, Handshakes, SlaveRegisters
<1>4. QED
  BY <1>1, <1>2, <1>3 DEF Next

\* The counters stay within their bounds.
LEMMA BoundsHold == Spec => []Bounded
<1>1. ASSUME Init PROVE Bounded
  <2>1. 1 \in 1..MaxFrames /\ 0 \in 0..MaxResets
    BY BoundsAssumption
  <2>2. QED
    BY <1>1, <2>1 DEF Init, Bounded
<1>2. ASSUME Bounded, Handshakes, [Next]_vars PROVE Bounded'
  <2>1. frame' \in 1..MaxFrames /\ resets' \in 0..MaxResets
    BY <1>2, CountersMove, BoundsAssumption DEF Bounded
  <2>2. base' \in {0, Image} /\ aborted' \in BOOLEAN
    BY <1>2, CountersMove DEF Bounded
  <2>3. QED
    BY <2>1, <2>2 DEF Bounded
<1>3. QED
  BY HandshakesHold, <1>1, <1>2, PTL DEF Spec

\* The type invariant, from the invariants of the parts.
LEMMA TypesHold ==
  ASSUME Handshakes, Bursts, MemoryInv, OutputInv, FifoInv, Bounded
  PROVE  TypeOK
<1>1. Fsm!FsmTypeOK /\ Reader!TypeOK /\ Writer!TypeOK /\ Thresh!TypeOK
  BY DEF Handshakes, ReaderRegisters, WriterRegisters, ComputeRegisters
<1>2. Bus!BusTypeOK
  BY DEF Bursts, Bus!BusTypeOK
<1>3. /\ slave.RegStartAddress \in {0, Image} /\ slave.Start \in BOOLEAN
      /\ slave.avs_rddata \in {0, 1, Image} /\ host \in Host!Places
  BY DEF Handshakes, SlaveRegisters
<1>4. \A f \in Mult!Fifos : Len(fifo[f].words) <= Depth
  <2> SUFFICES ASSUME NEW f \in 0..3 PROVE Len(fifo[f].words) <= Depth
    BY DEF Mult!Fifos
  <2>1. Len(fifo[f].words) \in Nat /\ Len(fifo[f].words) <= ColCount
    BY DEF FifoInv, LanesInv, FifoTypes, FifoOK, IsSeq
  <2>2. QED
    BY <2>1, DepthAssumption
<1>5. Len(ofifo.words) <= Depth
  <2>1. Len(ofifo.words) \in Nat /\ Len(ofifo.words) <= ColCount
    BY DEF OutputInv, OutputLength, FifoOK, IsSeq
  <2>2. QED
    BY <2>1, DepthAssumption
<1>6. DOMAIN mem = 0 .. MemWords - 1
  BY DEF MemoryInv
<1>7. QED
  BY <1>1, <1>2, <1>3, <1>4, <1>5, <1>6 DEF TypeOK, Bounded

\* The lane of a request of adaptive_threshold.
LEMMA LaneHolds ==
  ASSUME Handshakes, Control!IInv, FifoInv, NEW i \in 1..3, Popping \/ Pushing, LaneRow(i) >= 0
  PROVE  /\ IsSeq(fifo[Mult!FifoOf(fsm.select_idx, i)].words)
         /\ Len(fifo[Mult!FifoOf(fsm.select_idx, i)].words) = LaneLen
<1>1. compute.state # "IdleCompute" /\ RowsByState
  BY RowsNow DEF Popping, Pushing
<1>2. /\ fsm.state = "ReadCompute" /\ fsm.write_row \in Nat
      /\ fsm.select_idx = (fsm.write_row + 2) % 4
  BY <1>1 DEF RowsByState
<1>3. /\ Mult!FifoOf(fsm.select_idx, i) = LaneRow(i) % 4
      /\ LaneRow(i) % 4 \in 0..3 /\ ~(LaneRow(i) < 0)
  BY <1>2, LaneFifo DEF LaneRow
<1>4. LaneHeld(fifo[LaneRow(i) % 4], i) /\ FifoOK(fifo[LaneRow(i) % 4])
  BY <1>2, <1>3 DEF FifoInv, LanesInv, LanesHeld, FifoTypes, Control!Filtering
<1>5. QED
  BY <1>3, <1>4 DEF LaneHeld, Holds, FifoOK

\* No FIFO is overrun, from what each of them holds.
LEMMA NeverOverrun ==
  ASSUME Handshakes, Control!IInv, Bursts, OutputInv, FifoInv
  PROVE  FifosNeverOverrun
<1> USE DepthAssumption
<1>1. RowsByState /\ FilteredByState
  BY RowsNow, FilteredCases
<1>2. ASSUME NEW i \in 1..3, compute.row_rdreq[i] PROVE ~row_empty[i]
  <2>1. Popping /\ LaneRow(i) >= 0
    BY <1>2 DEF FifoInv, LanesInv, LaneRequests
  <2>2. fifo[Mult!FifoOf(fsm.select_idx, i)].words # <<>>
    BY <2>1, LaneHolds, LaneBounds, NoWords
  <2>3. QED
    BY <2>2 DEF row_empty, Rows!IsEmpty
<1>3. ASSUME NEW i \in 1..3, compute.row_wrreq[i]
      PROVE  ~Rows!IsFull(fifo[Mult!FifoOf(fsm.select_idx, i)])
  <2>1. Pushing /\ LaneRow(i) >= 0
    BY <1>3 DEF FifoInv, LanesInv, LaneRequests
  <2>2. /\ Len(fifo[Mult!FifoOf(fsm.select_idx, i)].words) = LaneLen
        /\ LaneLen \in Int /\ LaneLen < ColCount
    BY <2>1, LaneHolds, LaneBounds
  <2>3. QED
    BY <2>2 DEF Rows!IsFull
<1>4. reader.row_wrreq => ~Rows!IsFull(fifo[fsm.select_idx])
  <2> SUFFICES ASSUME reader.row_wrreq PROVE ~Rows!IsFull(fifo[fsm.select_idx])
    OBVIOUS
  <2>1. Fetching /\ ~reader.row_sclr /\ fsm.select_idx = fsm.read_row % 4
    BY <1>1 DEF FifoInv, FillInv, FillRequests, RowsByState, Fetching
  <2>2. Holds(~aborted, fifo[fsm.read_row % 4].words, RowWords(frame, fsm.read_row), 0,
              Arrived - Bit(reader.row_wrreq))
    BY <2>1 DEF FifoInv, FillInv, FillHeld, Fills
  <2>3. Len(fifo[fsm.read_row % 4].words) = Arrived - 1 /\ Arrived \in 0 .. ColCount
    BY <2>2, ArrivedType DEF Holds, Bit
  <2>4. QED
    BY <2>1, <2>3 DEF Rows!IsFull
<1>5. compute.ofifo_wrreq => ~Rows!IsFull(ofifo)
  <2> SUFFICES ASSUME compute.ofifo_wrreq PROVE ~Rows!IsFull(ofifo)
    OBVIOUS
  <2>1. Pushes
    BY DEF OutputInv, OutputRequests
  <2>2. ~compute.done /\ compute.state # "ReadDelay"
    BY <2>1, Workers DEF Pushes
  <2>3. Len(ofifo.words) = Filtered
    BY <2>2 DEF OutputInv, OutputLength
  <2>4. Filtered \in Int /\ Filtered < ColCount
    BY <1>1, <2>1, PosType DEF Pushes, FilteredByState
  <2>5. QED
    BY <2>3, <2>4 DEF Rows!IsFull
<1>6. fsm.enable_burst_writer \/ writer.state = "HasData" => ~Rows!IsEmpty(ofifo)
  <2>1. Rows!IsEmpty(ofifo) <=> Len(ofifo.words) = 0
    <3>1. IsSeq(ofifo.words)
      BY DEF OutputInv, OutputLength, FifoOK
    <3>2. ofifo.words = <<>> <=> Len(ofifo.words) = 0
      BY <3>1, NoWords
    <3>3. QED
      BY <3>2 DEF Rows!IsEmpty
  <2>2. CASE fsm.enable_burst_writer
    <3>1. fsm.state = "WriteWait"
      BY <2>2 DEF Control!IInv, Control!EnablesFollowState
    <3>2. Len(ofifo.words) = ColCount
      BY <3>1 DEF OutputInv, OutputLength
    <3>3. QED
      BY <2>1, <3>2
  <2>3. CASE writer.state = "HasData"
    <3>1. Len(ofifo.words) = ColCount - writer.count
      BY <2>3 DEF OutputInv, OutputLength, Presented
    <3>2. writer.count \in 1 .. ColCount - 1
      BY <2>3 DEF Handshakes, WriterRegisters
    <3>3. QED
      BY <2>1, <3>1, <3>2
  <2>4. QED
    BY <2>2, <2>3
<1>7. QED
  BY <1>2, <1>3, <1>4, <1>5, <1>6 DEF FifosNeverOverrun

\* The FIFOs hold one row each, are never overrun, and all registers keep their types,
\* for every image size and FIFO depth.
THEOREM RowsStayIntact == Spec => []RowsIntact
<1>1. ASSUME Handshakes, Control!IInv, FifoInv PROVE RowsUnmixed
  <2>1. ASSUME Running, NEW f \in 0..3, ~Rows!IsEmpty(fifo[f]) PROVE Unmixed(f)
    BY <1>1, <2>1, RowsUnmixedHolds
  <2>2. QED
    BY <2>1 DEF RowsUnmixed, Unmixed, Mult!Fifos
<1>2. Handshakes /\ Control!IInv /\ Bursts /\ MemoryInv /\ OutputInv /\ FifoInv /\ Bounded
        => RowsIntact
  BY <1>1, TypesHold, NeverOverrun DEF RowsIntact
<1>3. QED
  BY <1>2, HandshakesHold, ControlInvariant, BurstsHold, MemoryHolds, OutputHolds, FifosHold,
     BoundsHold, PTL

-----------------------------------------------------------------------------
(***************************************************************************)
(* The accelerator implements ImageFilter, for every image size, FIFO      *)
(* depth and timing: what the filter makes of the rows in its FIFOs, what  *)
(* the output FIFO holds of it, what is written back, and how the clock    *)
(* edges map to the steps of the abstract filter.                          *)
(***************************************************************************)

(***************************************************************************)
(* The pixels of a word, and the windows around them.                      *)
(***************************************************************************)
\* The words of a filtered row.
FilteredWords(f, row) ==
  [k \in 0 .. ColCount - 1 |-> Filter0!FilteredWord(f, row * ColCount + k)]

\* The place of a word of a row tells the row and the word.
LEMMA PlaceOf ==
  ASSUME NEW row \in Nat, NEW k \in 0 .. ColCount - 1
  PROVE  (row * ColCount + k) \div ColCount = row /\ (row * ColCount + k) % ColCount = k
<1>1. (row * ColCount + k) \div ColCount = row
  OBVIOUS
<1>2. (row * ColCount + k) % ColCount = k
  OBVIOUS
<1>3. QED
  BY <1>1, <1>2

\* The pixels of a word of a row, the black one above the image included.
LEMMA WordPixel ==
  ASSUME NEW f, NEW row \in Int, NEW k \in 0 .. ColCount - 1, NEW p \in 1 .. 4
  PROVE  RowWords(f, row)[k][p] = Filter0!Pixel(f, row, 4 * k + p - 1)
<1>1. CASE row < 0
  BY <1>1 DEF RowWords, ZeroWord, Border, Filter0!Pixel, Filter0!Border
<1>2. CASE row >= 0
  <2>1. RowWords(f, row)[k] = Filter0!OriginalWord(f, row * ColCount + k)
    BY <1>2 DEF RowWords
  <2> DEFINE v == row * ColCount + k
  <2>2. v \div ColCount = row /\ v % ColCount = k
    BY <1>2, PlaceOf
  <2> HIDE DEF v
  <2>3. Filter0!OriginalWord(f, v)[p] = Filter0!Pixel(f, row, 4 * k + p - 1)
    BY <2>2 DEF Filter0!OriginalWord
  <2>4. QED
    BY <2>1, <2>3 DEF v
<1>3. QED
  BY <1>1, <1>2

\* What adaptive_threshold makes of the words of a lane for pixel p of word k: the pixel
\* and its neighbours in the row.
LaneSlice(W, k, p) ==
  CASE p = 1 /\ k = 0            -> Thresh!LeftEdge(W[k])
    [] p = 1 /\ k > 0            -> Thresh!FirstPixel(<<W[k - 1][3], W[k - 1][4]>>, W[k])
    [] p = 2                     -> Thresh!SecondPixel(W[k])
    [] p = 3                     -> Thresh!ThirdPixel(W[k])
    [] p = 4 /\ k < ColCount - 1 -> Thresh!LastPixel(<<W[k][3], W[k][4]>>, W[k + 1])
    [] p = 4 /\ k = ColCount - 1 -> Thresh!RightEdge(W[k])

\* The slices, pixel by pixel.
LEMMA SlicesByPixel ==
  ASSUME NEW W, NEW k \in 0 .. ColCount - 1
  PROVE  /\ LaneSlice(W, k, 1) = IF k = 0 THEN <<Border, W[k][1], W[k][2]>>
                                          ELSE <<W[k - 1][3], W[k][1], W[k][2]>>
         /\ LaneSlice(W, k, 2) = <<W[k][1], W[k][2], W[k][3]>>
         /\ LaneSlice(W, k, 3) = <<W[k][2], W[k][3], W[k][4]>>
         /\ LaneSlice(W, k, 4) = IF k = ColCount - 1 THEN <<W[k][3], W[k][4], Border>>
                                                     ELSE <<W[k][3], W[k][4], W[k + 1][1]>>
<1> USE DEF LaneSlice, Thresh!LeftEdge, Thresh!FirstPixel, Thresh!SecondPixel, Thresh!ThirdPixel,
        Thresh!LastPixel, Thresh!RightEdge
<1>1. LaneSlice(W, k, 1) = IF k = 0 THEN <<Border, W[k][1], W[k][2]>>
                                    ELSE <<W[k - 1][3], W[k][1], W[k][2]>>
  OBVIOUS
<1>2. LaneSlice(W, k, 2) = <<W[k][1], W[k][2], W[k][3]>>
  OBVIOUS
<1>3. LaneSlice(W, k, 3) = <<W[k][2], W[k][3], W[k][4]>>
  OBVIOUS
<1>4. LaneSlice(W, k, 4) = IF k = ColCount - 1 THEN <<W[k][3], W[k][4], Border>>
                                               ELSE <<W[k][3], W[k][4], W[k + 1][1]>>
  OBVIOUS
<1>5. QED
  BY <1>1, <1>2, <1>3, <1>4

\* The window of a filtered pixel is made of the slices of the three rows.
LEMMA LaneSlices ==
  ASSUME NEW f, NEW row \in Int, NEW k \in 0 .. ColCount - 1, NEW p \in 1 .. 4
  PROVE  LaneSlice(RowWords(f, row), k, p) =
           <<Filter0!Pixel(f, row, Filter0!LeftOf(4 * k + p - 1)),
             Filter0!Pixel(f, row, 4 * k + p - 1), Filter0!Pixel(f, row, 4 * k + p - 1 + 1)>>
<1> DEFINE W == RowWords(f, row)
           P(col) == Filter0!Pixel(f, row, col)
<1>1. \A m \in 0 .. ColCount - 1 :
        /\ W[m][1] = P(4 * m) /\ W[m][2] = P(4 * m + 1)
        /\ W[m][3] = P(4 * m + 2) /\ W[m][4] = P(4 * m + 3)
  <2> SUFFICES ASSUME NEW m \in 0 .. ColCount - 1
               PROVE  /\ W[m][1] = P(4 * m) /\ W[m][2] = P(4 * m + 1)
                      /\ W[m][3] = P(4 * m + 2) /\ W[m][4] = P(4 * m + 3)
    OBVIOUS
  <2>1. /\ W[m][1] = P(4 * m + 1 - 1) /\ W[m][2] = P(4 * m + 2 - 1)
        /\ W[m][3] = P(4 * m + 3 - 1) /\ W[m][4] = P(4 * m + 4 - 1)
    BY WordPixel
  <2>2. 4 * m + 1 - 1 = 4 * m /\ 4 * m + 2 - 1 = 4 * m + 1 /\ 4 * m + 3 - 1 = 4 * m + 2
          /\ 4 * m + 4 - 1 = 4 * m + 3
    OBVIOUS
  <2>3. QED
    BY <2>1, <2>2
<1>2. P(-1) = Border /\ P(4 * ColCount) = Border
  BY DEF Filter0!Pixel, Filter0!Width, Filter0!Border, Border
<1> HIDE DEF W, P
<1>3. CASE p = 1
  <2>1. CASE k = 0
    <3>1. LaneSlice(W, k, 1) = <<Border, W[k][1], W[k][2]>>
      BY <2>1, SlicesByPixel
    <3>2. LaneSlice(W, k, 1) = <<P(-1), P(0), P(1)>>
      BY <1>1, <1>2, <2>1, <3>1
    <3>3. Filter0!LeftOf(4 * k + p - 1) = -1 /\ 4 * k + p - 1 = 0
      BY <1>3, <2>1 DEF Filter0!LeftOf
    <3>4. QED
      BY <1>3, <3>2, <3>3 DEF W, P
  <2>2. CASE k > 0
    <3>1. LaneSlice(W, k, 1) = <<W[k - 1][3], W[k][1], W[k][2]>>
      BY <2>2, SlicesByPixel
    <3>2. W[k - 1][3] = P(4 * (k - 1) + 2) /\ 4 * (k - 1) + 2 = 4 * k - 2
      BY <1>1, <2>2
    <3>3. LaneSlice(W, k, 1) = <<P(4 * k - 2), P(4 * k), P(4 * k + 1)>>
      BY <1>1, <3>1, <3>2
    <3>4. Filter0!LeftOf(4 * k + p - 1) = 4 * k - 2 /\ 4 * k + p - 1 = 4 * k
      BY <1>3, <2>2 DEF Filter0!LeftOf
    <3>5. QED
      BY <1>3, <3>3, <3>4 DEF W, P
  <2>3. QED
    BY <2>1, <2>2
<1>4. CASE p = 2
  <2>1. LaneSlice(W, k, 2) = <<P(4 * k), P(4 * k + 1), P(4 * k + 2)>>
    BY <1>1, SlicesByPixel
  <2>2. Filter0!LeftOf(4 * k + p - 1) = 4 * k /\ 4 * k + p - 1 = 4 * k + 1
    BY <1>4 DEF Filter0!LeftOf
  <2>3. QED
    BY <1>4, <2>1, <2>2 DEF W, P
<1>5. CASE p = 3
  <2>1. LaneSlice(W, k, 3) = <<P(4 * k + 1), P(4 * k + 2), P(4 * k + 3)>>
    BY <1>1, SlicesByPixel
  <2>2. Filter0!LeftOf(4 * k + p - 1) = 4 * k + 1 /\ 4 * k + p - 1 = 4 * k + 2
    BY <1>5 DEF Filter0!LeftOf
  <2>3. QED
    BY <1>5, <2>1, <2>2 DEF W, P
<1>6. CASE p = 4
  <2>1. LaneSlice(W, k, 4) = <<P(4 * k + 2), P(4 * k + 3), P(4 * k + 4)>>
    <3>1. CASE k = ColCount - 1
      <4>1. LaneSlice(W, k, 4) = <<W[k][3], W[k][4], Border>> /\ 4 * k + 4 = 4 * ColCount
        BY <3>1, SlicesByPixel
      <4>2. QED
        BY <1>1, <1>2, <4>1
    <3>2. CASE k < ColCount - 1
      <4>1. LaneSlice(W, k, 4) = <<W[k][3], W[k][4], W[k + 1][1]>>
        BY <3>2, SlicesByPixel
      <4>2. W[k + 1][1] = P(4 * (k + 1)) /\ 4 * (k + 1) = 4 * k + 4
        BY <1>1, <3>2
      <4>3. QED
        BY <1>1, <4>1, <4>2
    <3>3. QED
      BY <3>1, <3>2
  <2>2. Filter0!LeftOf(4 * k + p - 1) = 4 * k + 2 /\ 4 * k + p - 1 = 4 * k + 3
    BY <1>6 DEF Filter0!LeftOf
  <2>3. QED
    BY <1>6, <2>1, <2>2 DEF W, P
<1>7. QED
  BY <1>3, <1>4, <1>5, <1>6

\* A pixel of the filtered image is made of the slices of the rows around it.
LEMMA FilteredPixel ==
  ASSUME NEW f, NEW row \in Nat, NEW k \in 0 .. ColCount - 1, NEW p \in 1 .. 4
  PROVE  FilteredWords(f, row)[k][p] =
           <<LaneSlice(RowWords(f, row - 1), k, p), LaneSlice(RowWords(f, row), k, p),
             LaneSlice(RowWords(f, row + 1), k, p)>>
<1> DEFINE v == row * ColCount + k
           w == 4 * k + p - 1
<1>1. v \div ColCount = row /\ v % ColCount = k
  BY PlaceOf
<1>2. FilteredWords(f, row)[k] = Filter0!FilteredWord(f, v)
  BY DEF FilteredWords
<1> HIDE DEF v
<1>3. Filter0!FilteredWord(f, v)[p] = Filter0!Window(f, row, w)
  BY <1>1 DEF Filter0!FilteredWord
<1> HIDE DEF w
<1>4. Filter0!Window(f, row, w) =
        <<<<Filter0!Pixel(f, row - 1, Filter0!LeftOf(w)), Filter0!Pixel(f, row - 1, w),
            Filter0!Pixel(f, row - 1, w + 1)>>,
          <<Filter0!Pixel(f, row, Filter0!LeftOf(w)), Filter0!Pixel(f, row, w),
            Filter0!Pixel(f, row, w + 1)>>,
          <<Filter0!Pixel(f, row + 1, Filter0!LeftOf(w)), Filter0!Pixel(f, row + 1, w),
            Filter0!Pixel(f, row + 1, w + 1)>>>>
  BY DEF Filter0!Window
<1>5. ASSUME NEW r \in Int
      PROVE  LaneSlice(RowWords(f, r), k, p) =
               <<Filter0!Pixel(f, r, Filter0!LeftOf(w)), Filter0!Pixel(f, r, w),
                 Filter0!Pixel(f, r, w + 1)>>
  BY LaneSlices DEF w
<1>6. row \in Int /\ row - 1 \in Int /\ row + 1 \in Int
  OBVIOUS
<1>7. QED
  BY <1>2, <1>3, <1>4, <1>5, <1>6 DEF v

(***************************************************************************)
(* The registers of the filter.                                            *)
(***************************************************************************)
\* q are the words k of the rows around row, last the upper halves of the words before:
\* the pixels made of them.
PixelsMade(f, row, k, q, last) ==
  LET F == FilteredWords(f, row) IN
  /\ k = 0 => Thresh!DoComputation([i \in Thresh!Lanes |-> Thresh!LeftEdge(q[i])]) = F[k][1]
  /\ k > 0 =>
       /\ Thresh!DoComputation([i \in Thresh!Lanes |-> Thresh!FirstPixel(last[i], q[i])]) = F[k][1]
       /\ Thresh!DoComputation([i \in Thresh!Lanes |-> Thresh!LastPixel(last[i], q[i])])
            = F[k - 1][4]
  /\ Thresh!DoComputation([i \in Thresh!Lanes |-> Thresh!SecondPixel(q[i])]) = F[k][2]
  /\ Thresh!DoComputation([i \in Thresh!Lanes |-> Thresh!ThirdPixel(q[i])]) = F[k][3]
  /\ k = ColCount - 1 =>
       Thresh!DoComputation([i \in Thresh!Lanes |-> Thresh!RightEdge(q[i])]) = F[k][4]

\* The pixels it makes of the words at the outputs of the lanes.
LEMMA PixelsOf ==
  ASSUME NEW f, NEW row \in Nat, NEW k \in 0 .. ColCount - 1, NEW q, NEW last,
         \A i \in 1..3 : q[i] = RowWords(f, row - 2 + i)[k],
         k > 0 => \A i \in 1..3 : last[i] = <<RowWords(f, row - 2 + i)[k - 1][3],
                                              RowWords(f, row - 2 + i)[k - 1][4]>>
  PROVE  PixelsMade(f, row, k, q, last)
<1> DEFINE F == FilteredWords(f, row)
           A == RowWords(f, row - 1)
           B == RowWords(f, row)
           C == RowWords(f, row + 1)
<1>1. q[1] = A[k] /\ q[2] = B[k] /\ q[3] = C[k]
  BY row - 2 + 1 = row - 1, row - 2 + 2 = row, row - 2 + 3 = row + 1
<1>2. k > 0 => /\ last[1] = <<A[k - 1][3], A[k - 1][4]>> /\ last[2] = <<B[k - 1][3], B[k - 1][4]>>
               /\ last[3] = <<C[k - 1][3], C[k - 1][4]>>
  BY row - 2 + 1 = row - 1, row - 2 + 2 = row, row - 2 + 3 = row + 1
<1>3. ASSUME NEW m \in 0 .. ColCount - 1, NEW p \in 1..4
      PROVE  F[m][p] = <<LaneSlice(A, m, p), LaneSlice(B, m, p), LaneSlice(C, m, p)>>
  BY FilteredPixel
<1> HIDE DEF A, B, C, F
<1>4. k = 0 => Thresh!DoComputation([i \in Thresh!Lanes |-> Thresh!LeftEdge(q[i])]) = F[k][1]
  <2>1. Thresh!DoComputation([i \in Thresh!Lanes |-> Thresh!LeftEdge(q[i])])
          = <<Thresh!LeftEdge(q[1]), Thresh!LeftEdge(q[2]), Thresh!LeftEdge(q[3])>>
    BY DEF Thresh!DoComputation, Thresh!Lanes
  <2>2. k = 0 => \A W : LaneSlice(W, k, 1) = Thresh!LeftEdge(W[k])
    BY DEF LaneSlice
  <2>3. QED
    BY <1>1, <1>3, <2>1, <2>2
<1>5. k > 0 => Thresh!DoComputation([i \in Thresh!Lanes |-> Thresh!FirstPixel(last[i], q[i])]) = F[k][1]
  <2>1. Thresh!DoComputation([i \in Thresh!Lanes |-> Thresh!FirstPixel(last[i], q[i])])
          = <<Thresh!FirstPixel(last[1], q[1]), Thresh!FirstPixel(last[2], q[2]),
              Thresh!FirstPixel(last[3], q[3])>>
    BY DEF Thresh!DoComputation, Thresh!Lanes
  <2> SUFFICES ASSUME k > 0
               PROVE  <<Thresh!FirstPixel(last[1], q[1]), Thresh!FirstPixel(last[2], q[2]),
                        Thresh!FirstPixel(last[3], q[3])>> = F[k][1]
    BY <2>1
  <2>2. ASSUME NEW W PROVE LaneSlice(W, k, 1) = Thresh!FirstPixel(<<W[k - 1][3], W[k - 1][4]>>, W[k])
    BY DEF LaneSlice
  <2>3. /\ LaneSlice(A, k, 1) = Thresh!FirstPixel(last[1], q[1])
        /\ LaneSlice(B, k, 1) = Thresh!FirstPixel(last[2], q[2])
        /\ LaneSlice(C, k, 1) = Thresh!FirstPixel(last[3], q[3])
    BY <1>1, <1>2, <2>2
  <2>4. QED
    BY <1>3, <2>3
<1>6. k > 0 => Thresh!DoComputation([i \in Thresh!Lanes |-> Thresh!LastPixel(last[i], q[i])])
                 = F[k - 1][4]
  <2>1. Thresh!DoComputation([i \in Thresh!Lanes |-> Thresh!LastPixel(last[i], q[i])])
          = <<Thresh!LastPixel(last[1], q[1]), Thresh!LastPixel(last[2], q[2]),
              Thresh!LastPixel(last[3], q[3])>>
    BY DEF Thresh!DoComputation, Thresh!Lanes
  <2> SUFFICES ASSUME k > 0
               PROVE  <<Thresh!LastPixel(last[1], q[1]), Thresh!LastPixel(last[2], q[2]),
                        Thresh!LastPixel(last[3], q[3])>> = F[k - 1][4]
    BY <2>1
  <2>2. k - 1 + 1 = k /\ k - 1 \in 0 .. ColCount - 1 /\ k - 1 < ColCount - 1
    OBVIOUS
  <2>3. ASSUME NEW W
        PROVE  LaneSlice(W, k - 1, 4) = Thresh!LastPixel(<<W[k - 1][3], W[k - 1][4]>>, W[k])
    BY <2>2 DEF LaneSlice
  <2>4. /\ LaneSlice(A, k - 1, 4) = Thresh!LastPixel(last[1], q[1])
        /\ LaneSlice(B, k - 1, 4) = Thresh!LastPixel(last[2], q[2])
        /\ LaneSlice(C, k - 1, 4) = Thresh!LastPixel(last[3], q[3])
    BY <1>1, <1>2, <2>3
  <2>5. QED
    BY <1>3, <2>2, <2>4
<1>7. Thresh!DoComputation([i \in Thresh!Lanes |-> Thresh!SecondPixel(q[i])]) = F[k][2]
  <2>1. Thresh!DoComputation([i \in Thresh!Lanes |-> Thresh!SecondPixel(q[i])])
          = <<Thresh!SecondPixel(q[1]), Thresh!SecondPixel(q[2]), Thresh!SecondPixel(q[3])>>
    BY DEF Thresh!DoComputation, Thresh!Lanes
  <2>2. \A W : LaneSlice(W, k, 2) = Thresh!SecondPixel(W[k])
    BY DEF LaneSlice
  <2>3. QED
    BY <1>1, <1>3, <2>1, <2>2
<1>8. Thresh!DoComputation([i \in Thresh!Lanes |-> Thresh!ThirdPixel(q[i])]) = F[k][3]
  <2>1. Thresh!DoComputation([i \in Thresh!Lanes |-> Thresh!ThirdPixel(q[i])])
          = <<Thresh!ThirdPixel(q[1]), Thresh!ThirdPixel(q[2]), Thresh!ThirdPixel(q[3])>>
    BY DEF Thresh!DoComputation, Thresh!Lanes
  <2>2. \A W : LaneSlice(W, k, 3) = Thresh!ThirdPixel(W[k])
    BY DEF LaneSlice
  <2>3. QED
    BY <1>1, <1>3, <2>1, <2>2
<1>9. k = ColCount - 1 =>
         Thresh!DoComputation([i \in Thresh!Lanes |-> Thresh!RightEdge(q[i])]) = F[k][4]
  <2>1. Thresh!DoComputation([i \in Thresh!Lanes |-> Thresh!RightEdge(q[i])])
          = <<Thresh!RightEdge(q[1]), Thresh!RightEdge(q[2]), Thresh!RightEdge(q[3])>>
    BY DEF Thresh!DoComputation, Thresh!Lanes
  <2>2. k = ColCount - 1 => \A W : LaneSlice(W, k, 4) = Thresh!RightEdge(W[k])
    BY DEF LaneSlice
  <2>3. QED
    BY <1>1, <1>3, <2>1, <2>2
<1>10. QED
  BY <1>4, <1>5, <1>6, <1>7, <1>8, <1>9 DEF F, PixelsMade
-----------------------------------------------------------------------------
\* Before the last word, the first three pixels of a word are ready and the halves of
\* its lanes' words are kept; every word that is pushed is complete.
FilterData ==
  ~aborted =>
    LET F == FilteredWords(frame, fsm.write_row) IN
    /\ compute.state \in {"Compute", "LastCompute"} =>
         /\ compute.last_result = <<F[Pos - 1][1], F[Pos - 1][2], F[Pos - 1][3]>>
         /\ \A i \in 1..3 : compute.last_q[i] = <<RowWords(frame, LaneRow(i))[Pos - 1][3],
                                                  RowWords(frame, LaneRow(i))[Pos - 1][4]>>
    /\ compute.state = "LastComputeWrite" =>
         /\ compute.current_result = <<compute.current_result[1], F[ColCount - 1][1],
                                       F[ColCount - 1][2], F[ColCount - 1][3]>>
         /\ compute.next_result = F[ColCount - 1][4]
    /\ compute.ofifo_wrreq => compute.ofifo_data = F[Filtered]

\* What a clock edge writes into the registers that hold pixels.
LEMMA PixelMoves ==
  ASSUME Handshakes, NEW issue \in BOOLEAN, NEW waitrequest \in BOOLEAN,
         NEW rddatavalid \in BOOLEAN, Tick(issue, waitrequest, rddatavalid)
  PROVE  LET results == Thresh!ResultsOf(compute.last_q, row_q) IN
         /\ compute.state = "FirstCompute" =>
              /\ compute'.last_result =
                   <<Thresh!DoComputation([i \in Thresh!Lanes |-> Thresh!LeftEdge(row_q[i])]),
                     Thresh!DoComputation([i \in Thresh!Lanes |-> Thresh!SecondPixel(row_q[i])]),
                     Thresh!DoComputation([i \in Thresh!Lanes |-> Thresh!ThirdPixel(row_q[i])])>>
              /\ compute'.last_q = Thresh!UpperHalves(row_q)
         /\ compute.state = "Compute" =>
              /\ compute'.last_result = SubSeq(results, 2, 4)
              /\ compute'.last_q = Thresh!UpperHalves(row_q)
         /\ compute.state \in {"Compute", "LastCompute"} =>
              compute'.ofifo_data = Append(compute.last_result, results[1])
         /\ compute.state = "LastCompute" =>
              /\ compute'.current_result = results
              /\ compute'.next_result
                   = Thresh!DoComputation([i \in Thresh!Lanes |-> Thresh!RightEdge(row_q[i])])
         /\ compute.state = "LastComputeWrite" =>
              compute'.ofifo_data = Append(SubSeq(compute.current_result, 2, 4), compute.next_result)
<1> DEFINE results == Thresh!ResultsOf(compute.last_q, row_q)
           left    == Thresh!DoComputation([i \in Thresh!Lanes |-> Thresh!LeftEdge(row_q[i])])
           second  == Thresh!DoComputation([i \in Thresh!Lanes |-> Thresh!SecondPixel(row_q[i])])
           third   == Thresh!DoComputation([i \in Thresh!Lanes |-> Thresh!ThirdPixel(row_q[i])])
           right   == Thresh!DoComputation([i \in Thresh!Lanes |-> Thresh!RightEdge(row_q[i])])
<1>1. DOMAIN compute = ComputeFields
  BY DEF Handshakes, ComputeRegisters
<1> USE <1>1 DEF ComputeFields
<1>2. compute.state = "FirstCompute" =>
        /\ compute'.last_result = <<left, second, third>>
        /\ compute'.last_q = Thresh!UpperHalves(row_q)
  <2> SUFFICES ASSUME Thresh!FirstCompute(row_q, row_empty)
               PROVE  /\ compute'.last_result = <<left, second, third>>
                      /\ compute'.last_q = Thresh!UpperHalves(row_q)
    BY DEF Tick, Thresh!Clock, Thresh!IdleCompute, Thresh!StartRow, Thresh!ReadDelay,
       Thresh!Compute, Thresh!LastCompute, Thresh!LastComputeWrite
  <2> HIDE DEF left, second, third
  <2>1. QED
    BY DEF Thresh!FirstCompute, left, second, third
<1>3. compute.state = "Compute" =>
        /\ compute'.last_result = SubSeq(results, 2, 4)
        /\ compute'.last_q = Thresh!UpperHalves(row_q)
        /\ compute'.ofifo_data = Append(compute.last_result, results[1])
  <2> SUFFICES ASSUME Thresh!Compute(row_q, row_empty)
               PROVE  /\ compute'.last_result = SubSeq(results, 2, 4)
                      /\ compute'.last_q = Thresh!UpperHalves(row_q)
                      /\ compute'.ofifo_data = Append(compute.last_result, results[1])
    BY DEF Tick, Thresh!Clock, Thresh!IdleCompute, Thresh!StartRow, Thresh!ReadDelay,
       Thresh!FirstCompute, Thresh!LastCompute, Thresh!LastComputeWrite
  <2>1. QED
    BY DEF Thresh!Compute
<1>4. compute.state = "LastCompute" =>
        /\ compute'.current_result = results /\ compute'.next_result = right
        /\ compute'.ofifo_data = Append(compute.last_result, results[1])
  <2> SUFFICES ASSUME Thresh!LastCompute(row_q, row_empty)
               PROVE  /\ compute'.current_result = results /\ compute'.next_result = right
                      /\ compute'.ofifo_data = Append(compute.last_result, results[1])
    BY DEF Tick, Thresh!Clock, Thresh!IdleCompute, Thresh!StartRow, Thresh!ReadDelay,
       Thresh!FirstCompute, Thresh!Compute, Thresh!LastComputeWrite
  <2>1. QED
    BY DEF Thresh!LastCompute
<1>5. compute.state = "LastComputeWrite" =>
        compute'.ofifo_data = Append(SubSeq(compute.current_result, 2, 4), compute.next_result)
  BY DEF Tick, Thresh!Clock, Thresh!IdleCompute, Thresh!StartRow, Thresh!ReadDelay,
     Thresh!FirstCompute, Thresh!Compute, Thresh!LastCompute, Thresh!LastComputeWrite
<1>6. QED
  BY <1>2, <1>3, <1>4, <1>5

\* A filtered word is its four pixels.
LEMMA FourPixels ==
  ASSUME NEW f, NEW row, NEW k \in 0 .. ColCount - 1
  PROVE  LET w == FilteredWords(f, row)[k] IN w = <<w[1], w[2], w[3], w[4]>>
<1> DEFINE w == FilteredWords(f, row)[k]
           v == row * ColCount + k
<1>1. w = Filter0!FilteredWord(f, v)
  BY DEF FilteredWords
<1> HIDE DEF w, v
<1>2. w = [p \in 1..4 |-> w[p]]
  BY <1>1 DEF Filter0!FilteredWord
<1>3. w = <<w[1], w[2], w[3], w[4]>>
  BY <1>2
<1>4. QED
  BY <1>3 DEF w

\* How the registers that hold parts of words are shifted.
LEMMA TupleParts ==
  ASSUME NEW a, NEW b, NEW c, NEW d
  PROVE  /\ SubSeq(<<a, b, c, d>>, 2, 4) = <<b, c, d>>
         /\ Append(<<a, b, c>>, d) = <<a, b, c, d>>
<1> DEFINE S == {a, b, c, d}
           s == <<a, b, c, d>>
           t == <<a, b, c>>
           u == <<b, c, d>>
<1>1. SubSeq(s, 2, 4) = u
  <2>1. \A i \in 2..4 : s[i] \in S
    OBVIOUS
  <2>2. s[2] = b /\ s[3] = c /\ s[4] = d
    OBVIOUS
  <2>3. u \in Seq(S) /\ Len(u) = 3 /\ u[1] = b /\ u[2] = c /\ u[3] = d
    OBVIOUS
  <2> HIDE DEF S, s, u
  <2>4. /\ SubSeq(s, 2, 4) \in Seq(S) /\ Len(SubSeq(s, 2, 4)) = 3
        /\ \A i \in 1..3 : SubSeq(s, 2, 4)[i] = s[2 + i - 1]
    <3>1. /\ SubSeq(s, 2, 4) \in Seq(S) /\ Len(SubSeq(s, 2, 4)) = IF 2 <= 4 THEN 4 - 2 + 1 ELSE 0
          /\ \A i \in 1 .. 4 - 2 + 1 : SubSeq(s, 2, 4)[i] = s[2 + i - 1]
      BY <2>1, SubSeqProperties
    <3>2. QED
      BY <3>1
  <2>5. SubSeq(s, 2, 4)[1] = u[1] /\ SubSeq(s, 2, 4)[2] = u[2] /\ SubSeq(s, 2, 4)[3] = u[3]
    BY <2>2, <2>3, <2>4
  <2>6. \A i \in 1 .. Len(SubSeq(s, 2, 4)) : SubSeq(s, 2, 4)[i] = u[i]
    BY <2>4, <2>5
  <2>7. QED
    BY <2>3, <2>4, <2>6, SeqEqual
<1>2. Append(t, d) = s
  <2>1. t \in Seq(S) /\ d \in S /\ Len(t) = 3 /\ t[1] = a /\ t[2] = b /\ t[3] = c
    OBVIOUS
  <2>2. s \in Seq(S) /\ Len(s) = 4 /\ s[1] = a /\ s[2] = b /\ s[3] = c /\ s[4] = d
    OBVIOUS
  <2> HIDE DEF S, s, t
  <2>3. /\ Append(t, d) \in Seq(S) /\ Len(Append(t, d)) = 4
        /\ \A i \in 1..3 : Append(t, d)[i] = t[i]
        /\ Append(t, d)[4] = d
    <3>1. ASSUME NEW r \in Seq(S), NEW e \in S
          PROVE  /\ Append(r, e) \in Seq(S) /\ Len(Append(r, e)) = Len(r) + 1
                 /\ \A i \in 1 .. Len(r) : Append(r, e)[i] = r[i]
                 /\ Append(r, e)[Len(r) + 1] = e
      BY AppendProperties
    <3>2. /\ Append(t, d) \in Seq(S) /\ Len(Append(t, d)) = Len(t) + 1
          /\ \A i \in 1 .. Len(t) : Append(t, d)[i] = t[i]
          /\ Append(t, d)[Len(t) + 1] = d
      BY <2>1, <3>1
    <3>3. QED
      BY <2>1, <3>2
  <2>4. \A i \in 1 .. Len(Append(t, d)) : Append(t, d)[i] = s[i]
    BY <2>1, <2>2, <2>3
  <2>5. QED
    BY <2>2, <2>3, <2>4, SeqEqual
<1>3. QED
  BY <1>1, <1>2

\* The pixels made of the words at the outputs of the lanes are those of the filtered row.
LEMMA PixelsNow ==
  ASSUME NEW k \in 0 .. ColCount - 1, fsm.write_row \in Nat,
         \A i \in 1..3 : row_q[i] = RowWords(frame, fsm.write_row - 2 + i)[k],
         k > 0 => \A i \in 1..3 :
                    compute.last_q[i] = <<RowWords(frame, fsm.write_row - 2 + i)[k - 1][3],
                                          RowWords(frame, fsm.write_row - 2 + i)[k - 1][4]>>
  PROVE  LET F == FilteredWords(frame, fsm.write_row)
             results == Thresh!ResultsOf(compute.last_q, row_q) IN
         /\ k = 0 =>
              Thresh!DoComputation([i \in Thresh!Lanes |-> Thresh!LeftEdge(row_q[i])]) = F[k][1]
         /\ k > 0 => results[1] = F[k - 1][4] /\ results[2] = F[k][1]
         /\ results[3] = F[k][2] /\ results[4] = F[k][3]
         /\ Thresh!DoComputation([i \in Thresh!Lanes |-> Thresh!SecondPixel(row_q[i])]) = F[k][2]
         /\ Thresh!DoComputation([i \in Thresh!Lanes |-> Thresh!ThirdPixel(row_q[i])]) = F[k][3]
         /\ k = ColCount - 1 =>
              Thresh!DoComputation([i \in Thresh!Lanes |-> Thresh!RightEdge(row_q[i])]) = F[k][4]
<1> DEFINE q == row_q
           l == compute.last_q
           row == fsm.write_row
           F == FilteredWords(frame, row)
<1>1. row \in Nat /\ \A i \in 1..3 : q[i] = RowWords(frame, row - 2 + i)[k]
  OBVIOUS
<1>2. k > 0 => \A i \in 1..3 : l[i] = <<RowWords(frame, row - 2 + i)[k - 1][3],
                                        RowWords(frame, row - 2 + i)[k - 1][4]>>
  OBVIOUS
<1> HIDE DEF q, l, row
<1>3. PixelsMade(frame, row, k, q, l)
  BY <1>1, <1>2, PixelsOf
<1> DEFINE first == Thresh!DoComputation([i \in Thresh!Lanes |-> Thresh!FirstPixel(l[i], q[i])])
           last == Thresh!DoComputation([i \in Thresh!Lanes |-> Thresh!LastPixel(l[i], q[i])])
           second == Thresh!DoComputation([i \in Thresh!Lanes |-> Thresh!SecondPixel(q[i])])
           third == Thresh!DoComputation([i \in Thresh!Lanes |-> Thresh!ThirdPixel(q[i])])
           results == Thresh!ResultsOf(l, q)
<1>4. results = <<last, first, second, third>>
  BY DEF Thresh!ResultsOf
<1> HIDE DEF F, first, last, second, third, results
<1>5. results[1] = last /\ results[2] = first /\ results[3] = second /\ results[4] = third
  BY <1>4
<1>6. /\ k > 0 => results[1] = F[k - 1][4] /\ results[2] = F[k][1]
      /\ results[3] = F[k][2] /\ results[4] = F[k][3]
  BY <1>3, <1>5 DEF first, last, second, third, F, PixelsMade
<1>7. QED
  BY <1>3, <1>6 DEF F, results, q, l, row, PixelsMade

\* Every cycle keeps what is said of the registers of the filter.
LEMMA FilterDataTick ==
  ASSUME Handshakes, Control!IInv, Control!IInv', RunFollowsHost, LanesInv, FilterData,
         NEW issue \in BOOLEAN, NEW waitrequest \in BOOLEAN, NEW rddatavalid \in BOOLEAN,
         Tick(issue, waitrequest, rddatavalid)
  PROVE  FilterData'
<1> DEFINE F       == FilteredWords(frame, fsm.write_row)
           results == Thresh!ResultsOf(compute.last_q, row_q)
           left    == Thresh!DoComputation([i \in Thresh!Lanes |-> Thresh!LeftEdge(row_q[i])])
           second  == Thresh!DoComputation([i \in Thresh!Lanes |-> Thresh!SecondPixel(row_q[i])])
           third   == Thresh!DoComputation([i \in Thresh!Lanes |-> Thresh!ThirdPixel(row_q[i])])
           right   == Thresh!DoComputation([i \in Thresh!Lanes |-> Thresh!RightEdge(row_q[i])])
<1> SUFFICES ASSUME ~aborted' PROVE FilterData'
  BY DEF FilterData
<1>1. CASE LaneRests \/ LaneStarts \/ LaneDelays
  BY <1>1 DEF LaneRests, LaneStarts, LaneDelays, Output, FilterData
<1>2. CASE FirstWord \/ NextWords \/ LastWord \/ LaneEnds
  <2>1. ~LaneRests
    BY <1>2 DEF LaneRests, FirstWord, NextWords, LastWord, LaneEnds
  <2>2. /\ Filtering /\ fsm'.write_row = fsm.write_row /\ frame' = frame /\ ~aborted
        /\ fsm.write_row \in Nat
    BY <2>1, FilterStays, RowsNow DEF RowsByState
  <2>3. ASSUME compute.state \in {"FirstCompute", "Compute", "LastCompute"}
        PROVE  \A i \in 1..3 : row_q[i] = RowWords(frame, fsm.write_row - 2 + i)[Popped - 1]
    BY <2>2, <2>3, LaneAnswers DEF LaneRow
  <2>4. compute.state \in {"Compute", "LastCompute"} =>
          /\ compute.last_result = <<F[Pos - 1][1], F[Pos - 1][2], F[Pos - 1][3]>>
          /\ \A i \in 1..3 : compute.last_q[i] = <<RowWords(frame, fsm.write_row - 2 + i)[Pos - 1][3],
                                                   RowWords(frame, fsm.write_row - 2 + i)[Pos - 1][4]>>
    BY <2>2 DEF FilterData, LaneRow
  <2>5. results = <<results[1], results[2], results[3], results[4]>>
    BY DEF Thresh!ResultsOf
  <2>6. \A i \in 1..3 : Thresh!UpperHalves(row_q)[i] = <<row_q[i][3], row_q[i][4]>>
    BY DEF Thresh!UpperHalves, Thresh!Lanes
  <2>7. /\ compute.state = "FirstCompute" =>
             compute'.last_result = <<left, second, third>> /\ compute'.last_q = Thresh!UpperHalves(row_q)
        /\ compute.state = "Compute" =>
             /\ compute'.last_result = SubSeq(results, 2, 4)
             /\ compute'.last_q = Thresh!UpperHalves(row_q)
        /\ compute.state \in {"Compute", "LastCompute"} =>
             compute'.ofifo_data = Append(compute.last_result, results[1])
        /\ compute.state = "LastCompute" =>
             compute'.current_result = results /\ compute'.next_result = right
        /\ compute.state = "LastComputeWrite" =>
             compute'.ofifo_data = Append(SubSeq(compute.current_result, 2, 4), compute.next_result)
    BY PixelMoves
  <2>8. ASSUME NEW k \in 0 .. ColCount - 1,
                \A i \in 1..3 : row_q[i] = RowWords(frame, fsm.write_row - 2 + i)[k],
                k > 0 => \A i \in 1..3 :
                           compute.last_q[i] = <<RowWords(frame, fsm.write_row - 2 + i)[k - 1][3],
                                                 RowWords(frame, fsm.write_row - 2 + i)[k - 1][4]>>
         PROVE  /\ k = 0 => left = F[k][1]
                /\ k > 0 => results[1] = F[k - 1][4] /\ results[2] = F[k][1]
                /\ results[3] = F[k][2] /\ results[4] = F[k][3]
                /\ second = F[k][2] /\ third = F[k][3]
                /\ k = ColCount - 1 => right = F[k][4]
    BY <2>2, <2>8, PixelsNow
  <2> HIDE DEF left, second, third, right, results
  <2>9. CASE FirstWord
    <3>1. compute.state = "FirstCompute" /\ compute'.state = "Compute" /\ ~compute'.ofifo_wrreq
            /\ Pos' = 1 /\ Popped = 1
      BY <2>9, LaneCases DEF FirstWord, Output, LanesByState
    <3>2. \A i \in 1..3 : row_q[i] = RowWords(frame, fsm.write_row - 2 + i)[0]
      BY <2>3, <3>1
    <3>3. left = F[0][1] /\ second = F[0][2] /\ third = F[0][3]
      <4>1. 0 \in 0 .. ColCount - 1
        OBVIOUS
      <4> HIDE DEF F
      <4>2. QED
        BY <3>2, <4>1, <2>8
    <3>4. compute'.last_result = <<F[Pos' - 1][1], F[Pos' - 1][2], F[Pos' - 1][3]>>
      BY <2>7, <3>1, <3>3
    <3>5. \A i \in 1..3 : compute'.last_q[i] = <<RowWords(frame, fsm.write_row - 2 + i)[Pos' - 1][3],
                                                 RowWords(frame, fsm.write_row - 2 + i)[Pos' - 1][4]>>
      BY <2>6, <2>7, <3>1, <3>2
    <3>6. QED
      BY <2>2, <3>1, <3>4, <3>5 DEF FilterData, LaneRow
  <2>10. CASE NextWords
    <3>1. /\ compute.state = "Compute" /\ compute'.state \in {"Compute", "LastCompute"}
          /\ Pos \in 1 .. ColCount - 2 /\ Pos' = Pos + 1 /\ Popped = Pos + 1
          /\ Filtered' = Pos - 1
      <4> USE LaneCases, FilteredCases DEF LanesByState, FilteredByState
      <4>1. CASE Pos = ColCount - 2
        BY <2>10, <4>1 DEF NextWords
      <4>2. CASE Pos # ColCount - 2
        BY <2>10, <4>2 DEF NextWords
      <4>3. QED
        BY <4>1, <4>2
    <3> DEFINE k == Pos
    <3>2. k \in 0 .. ColCount - 1 /\ k > 0 /\ k - 1 \in 0 .. ColCount - 1 /\ Pos' - 1 = k
            /\ Popped - 1 = k
      BY <3>1
    <3>3. /\ \A i \in 1..3 : row_q[i] = RowWords(frame, fsm.write_row - 2 + i)[k]
          /\ \A i \in 1..3 : compute.last_q[i] = <<RowWords(frame, fsm.write_row - 2 + i)[k - 1][3],
                                                   RowWords(frame, fsm.write_row - 2 + i)[k - 1][4]>>
      BY <2>3, <2>4, <3>1, <3>2
    <3> HIDE DEF k, F
    <3>4. results[1] = F[k - 1][4] /\ results[2] = F[k][1] /\ results[3] = F[k][2]
            /\ results[4] = F[k][3]
      BY <3>2, <3>3, <2>8
    <3>5. compute'.last_result = <<F[k][1], F[k][2], F[k][3]>>
      BY <2>5, <2>7, <3>1, <3>4, TupleParts
    <3>6. \A i \in 1..3 : compute'.last_q[i] = <<RowWords(frame, fsm.write_row - 2 + i)[k][3],
                                                 RowWords(frame, fsm.write_row - 2 + i)[k][4]>>
      BY <2>6, <2>7, <3>1, <3>3
    <3>7. compute'.ofifo_data = F[k - 1]
      <4>1. compute.last_result = <<F[k - 1][1], F[k - 1][2], F[k - 1][3]>> /\ results[1] = F[k - 1][4]
        BY <2>4, <2>5, <3>1, <3>4 DEF k
      <4>2. compute'.ofifo_data = <<F[k - 1][1], F[k - 1][2], F[k - 1][3], F[k - 1][4]>>
        BY <2>7, <3>1, <4>1, TupleParts
      <4>3. QED
        BY <3>2, <4>2, FourPixels DEF F
    <3>8. FilteredWords(frame', fsm'.write_row) = F /\ Filtered' = k - 1
      BY <2>2, <3>1 DEF F, k
    <3>9. QED
      BY <2>2, <3>1, <3>2, <3>5, <3>6, <3>7, <3>8 DEF FilterData, LaneRow
  <2>11. CASE LastWord
    <3>1. /\ compute.state = "LastCompute" /\ compute'.state = "LastComputeWrite"
          /\ Pos = ColCount - 1 /\ Popped - 1 = ColCount - 1 /\ Filtered' = ColCount - 2
      BY <2>11, LaneCases, FilteredCases
         DEF LastWord, LanesByState, FilteredByState, Handshakes, ComputeRegisters, Pos
    <3> DEFINE k == ColCount - 1
    <3>2. k \in 0 .. ColCount - 1 /\ k > 0 /\ k - 1 \in 0 .. ColCount - 1
      OBVIOUS
    <3>3. /\ \A i \in 1..3 : row_q[i] = RowWords(frame, fsm.write_row - 2 + i)[k]
          /\ \A i \in 1..3 : compute.last_q[i] = <<RowWords(frame, fsm.write_row - 2 + i)[k - 1][3],
                                                   RowWords(frame, fsm.write_row - 2 + i)[k - 1][4]>>
      BY <2>3, <2>4, <3>1, <3>2
    <3>4. compute.last_result = <<F[k - 1][1], F[k - 1][2], F[k - 1][3]>>
      BY <2>4, <3>1
    <3>5. k = ColCount - 1 /\ Filtered' = k - 1
      BY <3>1
    <3> HIDE DEF k, F
    <3>6. results[1] = F[k - 1][4] /\ results[2] = F[k][1] /\ results[3] = F[k][2]
            /\ results[4] = F[k][3] /\ right = F[k][4]
      BY <3>2, <3>3, <3>5, <2>8
    <3>7. compute'.ofifo_data = F[k - 1]
      <4>1. compute'.ofifo_data = <<F[k - 1][1], F[k - 1][2], F[k - 1][3], F[k - 1][4]>>
        BY <2>5, <2>7, <3>1, <3>4, <3>6, TupleParts
      <4>2. QED
        BY <3>2, <4>1, FourPixels DEF F
    <3>8. /\ compute'.current_result = <<compute'.current_result[1], F[k][1], F[k][2], F[k][3]>>
          /\ compute'.next_result = F[k][4]
      BY <2>5, <2>7, <3>1, <3>6
    <3>9. FilteredWords(frame', fsm'.write_row) = F
      BY <2>2 DEF F
    <3>10. QED
      BY <3>1, <3>5, <3>7, <3>8, <3>9 DEF FilterData
  <2>12. CASE LaneEnds
    <3>1. /\ compute.state = "LastComputeWrite" /\ compute'.state = "IdleCompute"
          /\ Filtered' = ColCount - 1
      BY <2>12, FilteredCases DEF LaneEnds, FilteredByState
    <3> DEFINE k == ColCount - 1
    <3>2. /\ compute.current_result = <<compute.current_result[1], F[k][1], F[k][2], F[k][3]>>
          /\ compute.next_result = F[k][4]
      BY <2>2, <3>1 DEF FilterData
    <3>3. k \in 0 .. ColCount - 1 /\ Filtered' = k
      BY <3>1
    <3> HIDE DEF k, F
    <3>4. compute'.ofifo_data = <<F[k][1], F[k][2], F[k][3], F[k][4]>>
      BY <2>7, <3>1, <3>2, TupleParts
    <3>5. compute'.ofifo_data = F[k]
      BY <3>3, <3>4, FourPixels DEF F
    <3>6. FilteredWords(frame', fsm'.write_row) = F
      BY <2>2 DEF F
    <3>7. QED
      BY <3>1, <3>3, <3>5, <3>6 DEF FilterData
  <2>13. QED
    BY <1>2, <2>9, <2>10, <2>11, <2>12
<1>3. QED
  BY <1>1, <1>2, FilterMoves

\* The registers of the filter hold pixels of the row that is filtered.
LEMMA FilterDataHolds == Spec => []FilterData
<1>1. Init => FilterData
  <2> SUFFICES ASSUME Init PROVE FilterData
    OBVIOUS
  <2>1. compute.state = "IdleCompute" /\ ~compute.ofifo_wrreq
    BY DEF Init, Thresh!Init
  <2>2. QED
    BY <2>1 DEF FilterData
<1>2. ResetButton => FilterData'
  BY DEF ResetButton, FilterData
<1>3. FilterData /\ (Call \/ UNCHANGED vars) => FilterData'
  BY DEF Call, vars, FilterData, Pos, Filtered, LaneRow
<1>4. Handshakes /\ Control!IInv /\ RunFollowsHost /\ OutputInv /\ LoadImage => FilterData'
  <2> SUFFICES ASSUME Handshakes, Control!IInv, RunFollowsHost, OutputInv, LoadImage
               PROVE  FilterData'
    OBVIOUS
  <2>1. fsm.state = "Idle" /\ compute' = compute
    BY DEF LoadImage, RunFollowsHost
  <2>2. compute.done /\ compute.state = "IdleCompute"
    BY <2>1, Workers
  <2>3. ~compute.ofifo_wrreq
    BY <2>2 DEF OutputInv, OutputRequests, Pushes
  <2>4. QED
    BY <2>1, <2>2, <2>3 DEF FilterData
<1>5. Handshakes /\ Control!IInv /\ Control!IInv' /\ RunFollowsHost /\ FifoInv /\ OutputInv
        /\ FilterData /\ [Next]_vars => FilterData'
  BY <1>2, <1>3, <1>4, FilterDataTick DEF Next, FifoInv
<1>6. QED
  BY <1>1, <1>5, HandshakesHold, ControlInvariant, RunHolds, FifosHold, OutputHolds, PTL DEF Spec
-----------------------------------------------------------------------------
(***************************************************************************)
(* The output FIFO.                                                        *)
(***************************************************************************)
\* It holds the words of the filtered row, of which the first are taken by the writer,
\* and the word that is written is the next one.
OutputData ==
  LET F == FilteredWords(frame, fsm.write_row) IN
  /\ ~compute.done /\ compute.state # "ReadDelay" =>
       Holds(~aborted, ofifo.words, F, 0, Filtered)
  /\ fsm.state = "WriteWait" \/ (fsm.state = "ReadCompute" /\ compute.done) =>
       Holds(~aborted, ofifo.words, F, 0, ColCount)
  /\ writer.state \in {"HasReq", "HasData"} =>
       Holds(~aborted, ofifo.words, F, Presented, ColCount - Presented)
  /\ writer.avm_wr /\ ~aborted => writer.avm_wrdata = F[Taken]

\* While a row is filtered, its words follow each other into the FIFO.
LEMMA OutputDataFills ==
  ASSUME Handshakes, Control!IInv, OutputInv, FilterData, OutputData, RunFollowsHost,
         ~compute.done, NEW issue \in BOOLEAN,
         NEW waitrequest \in BOOLEAN, NEW rddatavalid \in BOOLEAN,
         Tick(issue, waitrequest, rddatavalid)
  PROVE  LET F == FilteredWords(frame, fsm.write_row) IN
         /\ ~compute'.done /\ compute'.state # "ReadDelay" =>
              Holds(~aborted, ofifo'.words, F, 0, Filtered')
         /\ compute'.done => Holds(~aborted, ofifo'.words, F, 0, ColCount)
<1> DEFINE F == FilteredWords(frame, fsm.write_row)
<1>1. /\ fsm.state = "ReadCompute" /\ writer.state = "Idle"
      /\ compute.state \in {"IdleCompute", "ReadDelay", "FirstCompute", "Compute",
                            "LastCompute", "LastComputeWrite"}
  BY Workers DEF Handshakes, ComputeRegisters, Thresh!TypeOK
<1>2. /\ ofifo' = Rows!Clocked(ofifo, compute.ofifo_sclr, compute.ofifo_wrreq,
                               compute.ofifo_data, writer.ofifo_rdreq)
      /\ ~writer.ofifo_rdreq /\ FifoOK(ofifo)
  BY <1>1 DEF Tick, OutputFifoClock, OutputInv, OutputRequests, OutputLength
<1>3. /\ ~compute'.done => Len(ofifo'.words) = Filtered'
      /\ compute'.done => Len(ofifo'.words) = ColCount
  BY OutputFills
<1>4. CASE compute.state = "ReadDelay"
  <2>1. Len(ofifo'.words) = 0
    BY <1>2, <1>4, FifoCleared, EmptyOK DEF OutputInv, OutputRequests
  <2>2. ~compute'.done
    BY <1>3, <2>1
  <2> HIDE DEF F
  <2>3. Filtered' = 0
    BY <1>3, <2>1, <2>2
  <2>4. QED
    BY <2>1, <2>2, <2>3 DEF Holds, F
<1>5. CASE compute.state # "ReadDelay"
  <2>1. /\ ~compute.ofifo_sclr /\ Filtered < ColCount /\ Filtered \in 0 .. ColCount
        /\ Holds(~aborted, ofifo.words, F, 0, Filtered)
    <3>1. ~compute.ofifo_sclr
      BY <1>1, <1>5 DEF OutputInv, OutputRequests
    <3>2. compute.state = "Compute" => Pos \in 1 .. ColCount - 2
      BY FilterMoves DEF LaneRests, LaneStarts, LaneDelays, FirstWord, NextWords, LastWord, LaneEnds
    <3>3. Filtered < ColCount /\ Filtered \in 0 .. ColCount
      BY <1>1, <1>5, <3>2, FilteredCases DEF FilteredByState
    <3>4. QED
      BY <1>5, <3>1, <3>3 DEF OutputData
  <2>2. compute.ofifo_wrreq /\ ~aborted => compute.ofifo_data = F[Filtered]
    BY DEF FilterData
  <2> DEFINE first == 0
             len == Filtered
             next == 0
             left == Filtered + Bit(compute.ofifo_wrreq)
             live == ~aborted
  <2>3. /\ first \in 0 .. ColCount /\ len \in 0 .. ColCount /\ len < ColCount
        /\ next = first + Bit(writer.ofifo_rdreq)
        /\ left = len - Bit(writer.ofifo_rdreq) + Bit(compute.ofifo_wrreq)
    BY <1>2, <2>1 DEF Bit
  <2>4. Wrap(first + len) = len
    BY <2>3 DEF Wrap
  <2>5. /\ Holds(live, ofifo.words, F, first, len)
        /\ compute.ofifo_wrreq /\ live => compute.ofifo_data = F[Wrap(first + len)]
    BY <2>1, <2>2, <2>4
  <2>6. left \in Int /\ next = 0
    BY <2>1 DEF Bit
  <2> HIDE DEF F, first, len, next, left, live
  <2>7. Holds(live, Rows!Clocked(ofifo, compute.ofifo_sclr, compute.ofifo_wrreq,
                                 compute.ofifo_data, writer.ofifo_rdreq).words, F, next, left)
    BY <1>2, <2>1, <2>3, <2>5, HoldsNext
  <2>8. Holds(live, ofifo'.words, F, 0, left)
    BY <1>2, <2>6, <2>7
  <2>9. Len(ofifo'.words) = left
    BY <2>8 DEF Holds
  <2>10. QED
    BY <1>3, <2>8, <2>9 DEF F, live
<1>6. QED
  BY <1>4, <1>5

\* A word is written in the cycle after the writer has seen it at the output of the FIFO.
LEMMA WriterData ==
  ASSUME Handshakes, Bursts, NEW issue \in BOOLEAN, NEW waitrequest \in BOOLEAN,
         NEW rddatavalid \in BOOLEAN, Tick(issue, waitrequest, rddatavalid), writer'.avm_wr
  PROVE  /\ writer'.avm_wrdata = Rows!Lookahead(ofifo)
         /\ \/ writer.state = "Idle" /\ fsm.enable_burst_writer /\ Taken' = 0
            \/ writer.state = "HasData" /\ Taken' = Presented
<1>1. WriterRegisters /\ WriteBurst
  BY DEF Handshakes, Bursts
<1> USE <1>1 DEF WriterRegisters, Writer!TypeOK, WriteBurst
<1>2. CASE Writer!Idle(fsm.enable_burst_writer)
  BY <1>2 DEF Writer!Idle
<1>3. CASE Writer!StartBurst(fsm.enable_burst_writer, Rows!Lookahead(ofifo),
                             fsm.add_burst_writer)
  BY <1>3 DEF Writer!StartBurst, Taken
<1>4. CASE Writer!HasReq
  BY <1>4 DEF Writer!HasReq
<1>5. CASE Writer!HasData(waitrequest, Rows!Lookahead(ofifo))
  <2>1. /\ Writer!Next7(writer.count) = writer.count + 1 /\ Presented = writer.count
        /\ writer.count \in 1 .. ColCount - 1
    BY <1>5 DEF Writer!HasData, Writer!Next7, Presented
  <2>2. CASE Writer!LastBeat(writer.count)
    <3>1. writer'.state = "WaitDone" /\ writer.count = ColCount - 1
      BY <1>5, <2>1, <2>2 DEF Writer!HasData, Writer!LastBeat
    <3>2. QED
      BY <1>5, <2>1, <3>1 DEF Writer!HasData, Taken
  <2>3. CASE ~Writer!LastBeat(writer.count)
    <3>1. writer'.state = "HasReq" /\ writer'.count = writer.count + 1
      BY <1>5, <2>1, <2>3 DEF Writer!HasData
    <3>2. QED
      BY <1>5, <2>1, <3>1 DEF Writer!HasData, Taken
  <2>4. QED
    BY <2>2, <2>3
<1>6. CASE Writer!Stalled(waitrequest)
  BY <1>6 DEF Writer!Stalled
<1>7. CASE Writer!WaitDone
  BY <1>7 DEF Writer!WaitDone
<1>8. CASE Writer!WaitDoneNext(waitrequest)
  BY <1>8 DEF Writer!WaitDoneNext
<1>9. CASE Writer!StalledDone(waitrequest)
  BY <1>9 DEF Writer!StalledDone
<1>10. QED
  BY <1>2, <1>3, <1>4, <1>5, <1>6, <1>7, <1>8, <1>9 DEF Tick, Writer!Clock

\* What the lookahead output shows.
LEMMA OldestWord ==
  ASSUME NEW q, FifoOK(q), Len(q.words) > 0
  PROVE  Rows!Lookahead(q) = q.words[1]
<1>1. q.words \in Seq(Entries(q.words)) /\ q.words # <<>>
  BY SeqOf, EmptySeq DEF FifoOK
<1>2. Rows!Lookahead(q) = Head(q.words)
  BY <1>1 DEF Rows!Lookahead, Rows!IsEmpty
<1>3. Head(q.words) = q.words[1]
  BY <1>1
<1>4. QED
  BY <1>2, <1>3

\* Then they are taken out in the same order, and written.
LEMMA OutputDataDrains ==
  ASSUME Handshakes, Control!IInv, Bursts, OutputInv, OutputData, RunFollowsHost,
         compute.done, NEW issue \in BOOLEAN,
         NEW waitrequest \in BOOLEAN, NEW rddatavalid \in BOOLEAN,
         Tick(issue, waitrequest, rddatavalid)
  PROVE  LET F == FilteredWords(frame, fsm.write_row) IN
         /\ fsm'.state = "WriteWait" \/ (fsm'.state = "ReadCompute" /\ compute'.done) =>
              Holds(~aborted, ofifo'.words, F, 0, ColCount)
         /\ writer'.state \in {"HasReq", "HasData"} =>
              Holds(~aborted, ofifo'.words, F, Presented', ColCount - Presented')
         /\ writer'.avm_wr /\ ~aborted => writer'.avm_wrdata = F[Taken']
<1> DEFINE F == FilteredWords(frame, fsm.write_row)
           words == ofifo.words
<1>1. /\ compute.state = "IdleCompute" /\ ~compute.ofifo_wrreq /\ FifoOK(ofifo)
      /\ fsm.state # "Idle" => ~compute.ofifo_sclr
      /\ fsm.state \notin {"Idle", "Write"} => ~writer.ofifo_rdreq
  BY Workers DEF OutputInv, OutputLength, OutputRequests, Pushes
<1>2. /\ fsm.state = "WriteWait" \/ fsm.state = "ReadCompute" =>
           Holds(~aborted, words, F, 0, ColCount)
      /\ writer.state \in {"HasReq", "HasData"} =>
           Holds(~aborted, words, F, Presented, ColCount - Presented)
  BY DEF OutputData
<1>3. ofifo' = Rows!Clocked(ofifo, compute.ofifo_sclr, compute.ofifo_wrreq,
                            compute.ofifo_data, writer.ofifo_rdreq)
  BY DEF Tick, OutputFifoClock
<1>4. ASSUME fsm.state # "Idle", ~writer.ofifo_rdreq
      PROVE  ofifo' = ofifo
  BY <1>1, <1>3, <1>4, FifoKept
<1>5. /\ Rests \/ Starts \/ (Passes /\ SameRows) \/ (Waits /\ SameRows) \/ Fetched \/ Written
  BY FsmMoves
<1>6. fsm'.state = "WriteWait" => fsm.state = "ReadCompute"
  BY <1>5 DEF Rests, Starts, Passes, Waits, Fetched, Written
<1>7. fsm'.state = "ReadCompute" =>
        fsm.state = "ReadCompute" \/ (fsm.state = "ReadComputeWait" /\ fsm.enable_compute)
  BY <1>5, Workers DEF Rests, Starts, Passes, Waits, Fetched, Written
<1>8. compute'.done => ~fsm.enable_compute
  BY <1>1, FilterMoves DEF LaneRests, LaneStarts, LaneDelays, FirstWord, NextWords, LastWord, LaneEnds
<1> HIDE DEF F
<1>9. fsm'.state = "WriteWait" \/ (fsm'.state = "ReadCompute" /\ compute'.done)
        => Holds(~aborted, ofifo'.words, F, 0, ColCount)
  BY <1>1, <1>2, <1>4, <1>6, <1>7, <1>8
<1>10. ASSUME writer'.state \in {"HasReq", "HasData"}
       PROVE  Holds(~aborted, ofifo'.words, F, Presented', ColCount - Presented')
  <2>1. CASE WriterStarts
    <3>1. fsm.state = "WriteWait" /\ Presented' = 0 /\ ColCount - 0 = ColCount
      BY <2>1, Workers DEF WriterStarts
    <3>2. QED
      BY <1>1, <1>2, <1>4, <3>1
  <2>2. CASE WordTaken
    <3>1. /\ writer.ofifo_rdreq /\ ~compute.ofifo_sclr
          /\ Presented \in 0 .. ColCount - 2 /\ Presented' = Presented + 1
          /\ writer.state = "HasReq"
      BY <1>1, <2>2, Workers DEF WordTaken, OutputInv, OutputRequests
    <3> DEFINE first == Presented
               len == ColCount - first
               next == first + 1
               left == ColCount - next
               live == ~aborted
    <3>2. Holds(live, words, F, first, len)
      BY <1>2, <3>1
    <3>3. first \in 0 .. ColCount - 2
      BY <3>1
    <3> HIDE DEF first
    <3>4. /\ first \in 0 .. ColCount /\ len \in 0 .. ColCount /\ len > 0
          /\ next = first + Bit(writer.ofifo_rdreq)
          /\ left = len - Bit(writer.ofifo_rdreq) + Bit(compute.ofifo_wrreq)
      BY <1>1, <3>1, <3>3 DEF Bit
    <3> HIDE DEF F, len, next, left, live
    <3>5. Holds(live, Rows!Clocked(ofifo, compute.ofifo_sclr, compute.ofifo_wrreq,
                                   compute.ofifo_data, writer.ofifo_rdreq).words, F, next, left)
      BY <1>1, <3>1, <3>2, <3>4, HoldsNext DEF words
    <3>6. Presented' = next /\ ColCount - Presented' = left
      BY <3>1 DEF first, next, left
    <3>7. QED
      BY <1>3, <3>5, <3>6 DEF live
  <2>3. CASE WordWaits
    <3>1. /\ ~writer.ofifo_rdreq /\ fsm.state # "Idle" /\ writer.state = "HasData"
          /\ Presented' = Presented
      BY <1>1, <2>3, Workers DEF WordWaits, OutputInv, OutputRequests
    <3>2. QED
      BY <1>2, <1>4, <3>1
  <2>4. CASE WriterRests \/ WriterEnds
    BY <1>10, <2>4 DEF WriterRests, WriterEnds
  <2>5. QED
    BY <2>1, <2>2, <2>3, <2>4, WriterMoves
<1>11. ASSUME writer'.avm_wr, ~aborted PROVE writer'.avm_wrdata = F[Taken']
  <2>1. /\ writer'.avm_wrdata = Rows!Lookahead(ofifo)
        /\ \/ fsm.state = "WriteWait" /\ Taken' = 0
           \/ writer.state = "HasData" /\ Taken' = Presented
    BY <1>11, WriterData, Workers
  <2>2. ASSUME NEW first \in 0 .. ColCount - 1, Holds(~aborted, words, F, first, ColCount - first)
        PROVE  Rows!Lookahead(ofifo) = F[first]
    <3>1. ColCount - first > 0 /\ Wrap(first + 1 - 1) = first /\ 1 \in 1 .. ColCount - first
      BY DEF Wrap
    <3>2. Len(words) > 0 /\ words[1] = F[first]
      BY <1>11, <2>2, <3>1 DEF Holds
    <3>3. QED
      BY <1>1, <3>2, OldestWord
  <2>3. CASE fsm.state = "WriteWait" /\ Taken' = 0
    <3>1. 0 \in 0 .. ColCount - 1 /\ ColCount - 0 = ColCount
      OBVIOUS
    <3>2. Rows!Lookahead(ofifo) = F[0]
      BY <1>2, <2>2, <2>3, <3>1
    <3>3. QED
      BY <2>1, <2>3, <3>2
  <2>4. CASE writer.state = "HasData" /\ Taken' = Presented
    <3>1. Presented \in 0 .. ColCount - 1
      BY <2>4 DEF Handshakes, WriterRegisters, Presented
    <3>2. Rows!Lookahead(ofifo) = F[Presented]
      BY <1>2, <2>2, <2>4, <3>1
    <3>3. QED
      BY <2>1, <2>4, <3>2
  <2>5. QED
    BY <2>1, <2>3, <2>4
<1>12. QED
  BY <1>9, <1>10, <1>11 DEF F

\* Every cycle keeps what is said of the output FIFO.
LEMMA OutputDataTick ==
  ASSUME Handshakes, Control!IInv, Control!IInv', Bursts, RunFollowsHost, OutputInv, FilterData,
         OutputData, NEW issue \in BOOLEAN, NEW waitrequest \in BOOLEAN,
         NEW rddatavalid \in BOOLEAN, Tick(issue, waitrequest, rddatavalid)
  PROVE  OutputData'
<1> DEFINE F == FilteredWords(frame, fsm.write_row)
           filling == Holds(~aborted, ofifo'.words, F, 0, Filtered')
           filled == Holds(~aborted, ofifo'.words, F, 0, ColCount)
           drained == Holds(~aborted, ofifo'.words, F, Presented', ColCount - Presented')
           written == writer'.avm_wrdata = F[Taken']
<1>1. /\ ~compute'.done => fsm'.state = "ReadCompute"
      /\ compute'.done => compute'.state = "IdleCompute"
      /\ writer'.state # "Idle" => fsm'.state = "Write"
      /\ writer'.avm_wr => writer'.state # "Idle"
  <2>1. Handshakes' /\ Bursts'
    BY HandshakesTick, BurstsTick
  <2>2. (Handshakes /\ Control!IInv =>
           /\ ~compute.done => fsm.state = "ReadCompute"
           /\ compute.done => compute.state = "IdleCompute"
           /\ writer.state # "Idle" => fsm.state = "Write")'
    BY Workers, PTL
  <2>3. writer'.avm_wr => writer'.state # "Idle"
    BY <2>1 DEF Bursts, WriteBurst
  <2>4. QED
    BY <2>1, <2>2, <2>3
<1>2. ASSUME fsm'.state \in {"ReadCompute", "WriteWait", "Write"}
      PROVE  F' = F /\ aborted' = aborted
  <2>1. fsm.state # "Idle" /\ fsm'.write_row = fsm.write_row
    BY <1>2, FsmMoves DEF Rests, Starts, Passes, Waits, Fetched, Written, SameRows
  <2>2. QED
    BY <2>1, RunGoesOn
<1>3. /\ ~compute'.done /\ compute'.state # "ReadDelay" => filling
      /\ fsm'.state = "WriteWait" \/ (fsm'.state = "ReadCompute" /\ compute'.done) => filled
      /\ writer'.state \in {"HasReq", "HasData"} => drained
      /\ writer'.avm_wr /\ ~aborted => written
  <2>1. CASE ~compute.done
    <3>1. fsm.state = "ReadCompute" /\ writer.state = "Idle" /\ ~fsm.enable_burst_writer
      BY <2>1, Workers
    <3>2. fsm'.state = "ReadCompute"
      BY <2>1, <3>1, FsmMoves DEF Rests, Starts, Passes, Waits, Fetched, Written
    <3>3. writer'.state = "Idle"
      BY <3>1, WriterMoves DEF WriterRests, WriterStarts, WordTaken, WordWaits, WriterEnds
    <3>4. /\ ~compute'.done /\ compute'.state # "ReadDelay" => filling
          /\ compute'.done => filled
      BY <2>1, OutputDataFills
    <3>5. QED
      BY <1>1, <3>2, <3>3, <3>4
  <2>2. CASE compute.done
    <3>1. /\ fsm'.state = "WriteWait" \/ (fsm'.state = "ReadCompute" /\ compute'.done) => filled
          /\ writer'.state \in {"HasReq", "HasData"} => drained
          /\ writer'.avm_wr /\ ~aborted => written
      BY <2>2, OutputDataDrains
    <3>2. compute'.done \/ compute'.state = "ReadDelay"
      BY <2>2, Workers, FilterMoves
         DEF LaneRests, LaneStarts, LaneDelays, FirstWord, NextWords, LastWord, LaneEnds
    <3>3. QED
      BY <3>1, <3>2
  <2>3. QED
    BY <2>1, <2>2
<1> DEFINE G == F'
<1>4. OutputData' <=>
        /\ ~compute'.done /\ compute'.state # "ReadDelay" =>
             Holds(~aborted', ofifo'.words, G, 0, Filtered')
        /\ fsm'.state = "WriteWait" \/ (fsm'.state = "ReadCompute" /\ compute'.done) =>
             Holds(~aborted', ofifo'.words, G, 0, ColCount)
        /\ writer'.state \in {"HasReq", "HasData"} =>
             Holds(~aborted', ofifo'.words, G, Presented', ColCount - Presented')
        /\ writer'.avm_wr /\ ~aborted' => writer'.avm_wrdata = G[Taken']
  BY DEF OutputData
<1>5. fsm'.state \in {"ReadCompute", "WriteWait", "Write"} => G = F /\ aborted' = aborted
  BY <1>2
<1> HIDE DEF F, G
<1>6. QED
  BY <1>1, <1>3, <1>4, <1>5

\* The output FIFO holds the words of the filtered row.
LEMMA OutputDataHolds == Spec => []OutputData
<1>1. Init => OutputData
  <2> SUFFICES ASSUME Init PROVE OutputData
    OBVIOUS
  <2>1. compute.done /\ fsm.state = "Idle" /\ writer.state = "Idle" /\ ~writer.avm_wr
    BY DEF Init, Thresh!Init, Fsm!Init, Writer!Init
  <2>2. QED
    BY <2>1 DEF OutputData
<1>2. Handshakes /\ ResetButton => OutputData'
  <2> SUFFICES ASSUME Handshakes, ResetButton PROVE OutputData'
    OBVIOUS
  <2>1. compute'.done /\ fsm'.state = "Idle" /\ writer'.state = "Idle" /\ ~writer'.avm_wr
    BY DEF Handshakes, Fsm!FsmTypeOK, Fsm!Registers, WriterRegisters, Writer!TypeOK, ComputeRegisters,
       ComputeFields, ResetButton, Fsm!Reset, Writer!Reset, Thresh!Reset
  <2>2. QED
    BY <2>1 DEF OutputData
<1>3. OutputData /\ (Call \/ UNCHANGED vars) => OutputData'
  BY DEF Call, vars, OutputData, Filtered, Pos, Presented, Taken
<1>4. Handshakes /\ Control!IInv /\ Bursts /\ RunFollowsHost /\ LoadImage => OutputData'
  <2> SUFFICES ASSUME Handshakes, Control!IInv, Bursts, RunFollowsHost, LoadImage PROVE OutputData'
    OBVIOUS
  <2>1. /\ fsm.state = "Idle" /\ fsm' = fsm /\ compute' = compute /\ writer' = writer
    BY DEF LoadImage, RunFollowsHost
  <2>2. compute.done /\ writer.state = "Idle" /\ ~writer.avm_wr
    BY <2>1, Workers DEF Bursts, WriteBurst
  <2>3. QED
    BY <2>1, <2>2 DEF OutputData
<1>5. Handshakes /\ Control!IInv /\ Control!IInv' /\ Bursts /\ RunFollowsHost /\ OutputInv
        /\ FilterData /\ OutputData /\ [Next]_vars => OutputData'
  BY <1>2, <1>3, <1>4, OutputDataTick DEF Next
<1>6. QED
  BY <1>1, <1>5, HandshakesHold, ControlInvariant, BurstsHold, RunHolds, OutputHolds,
     FilterDataHolds, PTL DEF Spec
-----------------------------------------------------------------------------
(***************************************************************************)
(* The words that have been written back.                                  *)
(***************************************************************************)
MemoryData ==
  InRun => \A v \in 0 .. RowCount * ColCount - 1 :
             v < Progress => mem[v] = Filter0!FilteredWord(frame, v)

\* The image is a part of the memory.
LEMMA ImageWords ==
  /\ RowCount * ColCount \in Nat /\ MemWords = RowCount * ColCount + ColCount
  /\ \A v \in 0 .. RowCount * ColCount - 1 : v \in 0 .. MemWords - 1
<1>1. RowCount * ColCount \in Nat /\ MemWords = RowCount * ColCount + ColCount
  BY RowCountAssumption DEF MemWords
<1> HIDE DEF MemWords
<1>2. QED
  BY <1>1

\* The word that is written is the one the row of the filter calls for.
LEMMA WrittenWord ==
  ASSUME Handshakes, Control!IInv, Bursts, RunFollowsHost, OutputData, ~aborted, writer.avm_wr
  PROVE  /\ fsm.state = "Write" /\ base = Image
         /\ writer.avm_wrdata = Filter0!FilteredWord(frame, Progress)
<1>1. writer.state # "Idle" /\ fsm.state = "Write" /\ base = Image
  BY Workers DEF Bursts, WriteBurst, RunFollowsHost
<1>2. Taken \in 0 .. ColCount - 1
  BY DEF Bursts, WriteBurst, Handshakes, WriterRegisters, Taken
<1>3. writer.avm_wrdata = FilteredWords(frame, fsm.write_row)[Taken]
  BY DEF OutputData
<1>4. FilteredWords(frame, fsm.write_row)[Taken]
        = Filter0!FilteredWord(frame, fsm.write_row * ColCount + Taken)
  BY <1>2 DEF FilteredWords
<1>5. Progress = fsm.write_row * ColCount + Taken
  BY <1>1 DEF Progress
<1>6. QED
  BY <1>1, <1>3, <1>4, <1>5

\* A clock edge, as far as the program goes.
LEMMA HostMoves ==
  ASSUME RunFollowsHost, Handshakes, NEW issue \in BOOLEAN, NEW waitrequest \in BOOLEAN,
         NEW rddatavalid \in BOOLEAN, Tick(issue, waitrequest, rddatavalid)
  PROVE  /\ \/ host = "Filling" /\ host' = "Filling"
            \/ host = "WriteAddress" /\ issue /\ host' = "WriteStart"
            \/ host = "WriteStart" /\ issue /\ host' = "Gap"
            \/ host = "Gap" /\ host' = "Read"
            \/ host = "Read" /\ issue /\ host' = "Test"
            \/ host = "Test" /\ host' = "Read"
            \/ host = "Test" /\ host' = "Filling" /\ fsm.state = "Idle"
            \/ host \in {"WriteAddress", "WriteStart", "Read"} /\ ~issue /\ host' = host
         /\ aborted' = (aborted /\ ~(host = "WriteAddress" /\ issue))
         /\ frame' = frame
<1>1. \/ host = "Filling" /\ host' = "Filling"
      \/ host = "WriteAddress" /\ issue /\ host' = "WriteStart"
      \/ host = "WriteStart" /\ issue /\ host' = "Gap"
      \/ host = "Gap" /\ host' = "Read"
      \/ host = "Read" /\ issue /\ host' = "Test"
      \/ host = "Test" /\ host' = IF slave.avs_rddata = 0 THEN "Read" ELSE "Filling"
      \/ host \in {"WriteAddress", "WriteStart", "Read"} /\ ~issue /\ host' = host
  BY DEF Tick, Host!Clock, Host!Filling, Host!WriteAddress, Host!WriteStart, Host!Gap,
     Host!Read, Host!Test, Host!Delay, Host!CanIssue
<1>2. host = "Test" /\ slave.avs_rddata # 0 => fsm.state = "Idle"
  BY DEF RunFollowsHost
<1>3. aborted' = (aborted /\ ~(host = "WriteAddress" /\ issue)) /\ frame' = frame
  BY DEF Tick
<1>4. QED
  BY <1>1, <1>2, <1>3

\* Every cycle keeps what is said of the words written back.
LEMMA MemoryDataTick ==
  ASSUME Handshakes, Control!IInv, Bursts, RunFollowsHost, MemoryInv, OutputData, MemoryData,
         NEW issue \in BOOLEAN, NEW waitrequest \in BOOLEAN,
         NEW rddatavalid \in BOOLEAN, Tick(issue, waitrequest, rddatavalid)
  PROVE  MemoryData'
<1> SUFFICES ASSUME InRun', NEW v \in 0 .. RowCount * ColCount - 1, v < Progress'
             PROVE  mem'[v] = Filter0!FilteredWord(frame', v)
  BY DEF MemoryData
<1>1. frame' = frame /\ ~aborted
  BY HostMoves DEF InRun
<1>2. host = "Gap" \/ InRun
  BY <1>1, HostMoves DEF InRun
<1>3. ~Starts
  <2> SUFFICES ASSUME Starts PROVE FALSE
    OBVIOUS
  <2>1. Progress' = 0 * ColCount + 0
    BY DEF Starts, Progress
  <2>2. QED
    BY <2>1
<1>4. InRun
  <2>1. host = "Gap" => fsm.state = "Idle" /\ slave.Start
    BY <1>1 DEF RunFollowsHost
  <2>2. host = "Gap" => Starts
    BY <2>1, FsmMoves DEF Rests, Passes, Waits, Fetched, Written
  <2>3. QED
    BY <1>2, <1>3, <2>2
<1>5. Progress \in Nat /\ Progress' = Progress + Bit(writer.avm_wr)
  BY <1>3, ProgressStep
<1>6. v \in DOMAIN mem
  BY ImageWords DEF MemoryInv
<1>7. writer.avm_wr => /\ writer.avm_wrdata = Filter0!FilteredWord(frame, Progress)
                       /\ mem'[v] = IF v = Progress THEN writer.avm_wrdata ELSE mem[v]
  BY <1>1, <1>3, <1>6, WrittenWord, MemoryStep
<1>8. ~writer.avm_wr => mem'[v] = mem[v]
  BY MemoryStep
<1>9. v < Progress => mem[v] = Filter0!FilteredWord(frame, v)
  BY <1>4 DEF MemoryData
<1> HIDE DEF Progress
<1>10. v < Progress \/ (writer.avm_wr /\ v = Progress)
  BY <1>5 DEF Bit
<1>11. CASE writer.avm_wr /\ v = Progress
  BY <1>1, <1>7, <1>11
<1>12. CASE v < Progress
  <2>1. v # Progress
    BY <1>5, <1>12
  <2>2. mem'[v] = mem[v]
    BY <1>7, <1>8, <2>1
  <2>3. QED
    BY <1>1, <1>9, <1>12, <2>2
<1>13. QED
  BY <1>10, <1>11, <1>12

\* What has been written back in an undisturbed run is the filtered image.
LEMMA MemoryDataHolds == Spec => []MemoryData
<1>1. Init => MemoryData
  BY DEF Init, Host!Init, MemoryData, InRun
<1>2. (Call \/ LoadImage \/ ResetButton) => MemoryData'
  BY DEF Call, Host!Call, LoadImage, ResetButton, MemoryData, InRun
<1>3. MemoryData /\ UNCHANGED vars => MemoryData'
  BY DEF vars, MemoryData, InRun, Progress, Taken
<1>4. Handshakes /\ Control!IInv /\ Bursts /\ RunFollowsHost /\ MemoryInv /\ OutputData
        /\ MemoryData /\ [Next]_vars => MemoryData'
  BY <1>2, <1>3, MemoryDataTick DEF Next
<1>5. QED
  BY <1>1, <1>4, HandshakesHold, ControlInvariant, BurstsHold, RunHolds, MemoryHolds,
     OutputDataHolds, PTL DEF Spec

(***************************************************************************)
(* A run that was started with no address writes below the image.          *)
(***************************************************************************)
LEMMA BelowImage ==
  ASSUME NEW row \in 0 .. RowCount - 1, NEW taken \in 0 .. ColCount - 1
  PROVE  Bus!Index(0 + Control!RowBytes * row) + taken < 0
<1>1. PICK m \in Nat : Image = 4 * m
  <2>1. Image \in Nat /\ Image % 4 = 0
    BY ImageAssumption
  <2>2. Image \div 4 \in Nat /\ Image = 4 * (Image \div 4)
    BY <2>1
  <2>3. QED
    BY <2>2
<1>2. RowCount * ColCount <= m
  <2>1. 4 * (RowCount * ColCount) <= 4 * m /\ RowCount * ColCount \in Int
    BY <1>1, ImageAssumption, RowCountAssumption
  <2> DEFINE n == RowCount * ColCount
  <2> HIDE DEF n
  <2>2. n \in Int /\ 4 * n <= 4 * m
    BY <2>1 DEF n
  <2>3. QED
    BY <2>2 DEF n
<1>3. row * ColCount + ColCount <= RowCount * ColCount /\ row * ColCount \in Int
  <2>1. row + 1 <= RowCount /\ row \in Nat
    BY RowCountAssumption
  <2>2. (row + 1) * ColCount <= RowCount * ColCount
    BY <2>1, RowCountAssumption
  <2>3. (row + 1) * ColCount = row * ColCount + ColCount /\ row * ColCount \in Int
    BY <2>1, NextRow
  <2>4. QED
    BY <2>2, <2>3
<1>4. Bus!Index(0 + Control!RowBytes * row) = row * ColCount - m
  <2> DEFINE n == row * ColCount
  <2>1. (0 + Control!RowBytes * row) - Image = 4 * n - 4 * m
    BY <1>1 DEF Control!RowBytes
  <2>2. n \in Int
    BY <1>3
  <2> HIDE DEF n
  <2>3. 4 * n - 4 * m = 4 * (n - m) /\ (4 * (n - m)) \div 4 = n - m
    BY <2>2
  <2>4. Bus!Index(0 + Control!RowBytes * row) = ((0 + Control!RowBytes * row) - Image) \div 4
    BY DEF Bus!Index
  <2>5. QED
    BY <2>1, <2>3, <2>4 DEF n
<1> DEFINE n == row * ColCount
           i == Bus!Index(0 + Control!RowBytes * row)
<1>5. n + ColCount <= m /\ n \in Int /\ i = n - m
  <2>1. RowCount * ColCount \in Int
    BY RowCountAssumption
  <2>2. QED
    BY <1>2, <1>3, <1>4, <2>1
<1> HIDE DEF n, i
<1>6. i + taken < 0
  BY <1>5
<1>7. QED
  BY <1>6 DEF i

\* The writes of an aborted run change nothing.
LEMMA AbortedWrites ==
  ASSUME Handshakes, Control!IInv, Bursts, RunFollowsHost, MemoryInv, aborted,
         NEW issue \in BOOLEAN, NEW waitrequest \in BOOLEAN, NEW rddatavalid \in BOOLEAN,
         Tick(issue, waitrequest, rddatavalid)
  PROVE  mem' = mem
<1>1. mem' = IF writer.avm_wr /\ ~waitrequest /\ Bus!WriteIndex(avm_add) \in DOMAIN mem
             THEN [mem EXCEPT ![Bus!WriteIndex(avm_add)] = writer.avm_wrdata] ELSE mem
  BY DEF Tick, Bus!Clock
<1>2. DOMAIN mem = 0 .. MemWords - 1 /\ MemWords \in Nat
  BY RowCountAssumption DEF MemoryInv, MemWords
<1>3. ASSUME writer.avm_wr PROVE Bus!WriteIndex(avm_add) < 0
  <2>1. fsm.state = "Write" /\ writer.state # "Idle" /\ base = 0 /\ ~writer.done
    BY <1>3, Workers DEF Bursts, WriteBurst, RunFollowsHost
  <2>2. fsm.write_row \in 0 .. RowCount - 1
    BY <2>1, RowCountAssumption DEF Handshakes, Fsm!FsmTypeOK, Control!IInv, Control!RowsFollowState
  <2>3. writer.avm_address = 0 + Control!RowBytes * fsm.write_row
    BY <2>1 DEF Control!IInv, Control!LatchedAddresses, Control!AddressesFollowState,
       Control!RowAddress
  <2>4. avm_add = writer.avm_address
    BY <2>1, WriterAlone
  <2>5. Taken \in 0 .. ColCount - 1
    BY <1>3 DEF Bursts, WriteBurst, Handshakes, WriterRegisters, Taken
  <2>6. Bus!Index(writer.avm_address) \in Int
    <3>1. writer.avm_address \in Nat
      BY DEF Handshakes, WriterRegisters, Writer!TypeOK
    <3>2. QED
      BY <3>1, IndexType
  <2>7. Bus!WriteIndex(avm_add) = Bus!Index(writer.avm_address) + Taken
    BY <1>3, <2>1, <2>4, <2>6 DEF Bursts, WriteBurst, Bus!WriteIndex, Handshakes, WriterRegisters, Taken
  <2>8. Bus!Index(writer.avm_address) + Taken < 0
    BY <2>2, <2>3, <2>5, BelowImage
  <2>9. QED
    BY <2>7, <2>8
<1>4. QED
  BY <1>1, <1>2, <1>3

(***************************************************************************)
(* The refinement.                                                         *)
(***************************************************************************)
Words == 0 .. RowCount * ColCount - 1
InMemory == [w \in Words |-> mem[w]]
Requested == host \in {"WriteStart", "Gap", "Read", "Test"}

\* The words of the abstract filter are those of the accelerator.
LEMMA SameWords ==
  ASSUME NEW f, NEW w
  PROVE  /\ Filter!OriginalWord(f, w) = Filter0!OriginalWord(f, w)
         /\ Filter!FilteredWord(f, w) = Filter0!FilteredWord(f, w)
<1>1. \A g, row, col : Filter!Pixel(g, row, col) = Filter0!Pixel(g, row, col)
  BY DEF Filter!Pixel, Filter0!Pixel, Filter!Border, Filter0!Border, Filter!Width, Filter0!Width
<1>2. Filter!OriginalWord(f, w) = Filter0!OriginalWord(f, w)
  BY <1>1 DEF Filter!OriginalWord, Filter0!OriginalWord
<1>3. \A row, col : Filter!Window(f, row, col) = Filter0!Window(f, row, col)
  BY <1>1 DEF Filter!Window, Filter0!Window, Filter!LeftOf, Filter0!LeftOf
<1>4. Filter!FilteredWord(f, w) = Filter0!FilteredWord(f, w)
  BY <1>3 DEF Filter!FilteredWord, Filter0!FilteredWord
<1>5. QED
  BY <1>2, <1>4

\* What the program has loaded is the original image.
LEMMA LoadedImage ==
  ASSUME NEW f, NEW w \in Words
  PROVE  Loaded(f)[w] = Filter!OriginalWord(f, w)
  BY SameWords, ImageWords DEF Loaded, Words

\* A clock edge that does not write into the image and does not pass a word to the program.
LEMMA FilterStutters ==
  ASSUME mem' = mem, frame' = frame, aborted' = aborted, Requested' = Requested
  PROVE  UNCHANGED Filter!vars
  BY DEF Filter!vars, Requested, MemWords

\* The first access of the program is the request.
LEMMA RequestStep ==
  ASSUME MemoryInv, host = "WriteAddress", host' = "WriteStart", mem' = mem, frame' = frame,
         aborted' = FALSE
  PROVE  Filter!Request
<1>1. mem = Loaded(frame)
  BY DEF MemoryInv
<1>2. \A w \in Words : InMemory[w] = Filter!OriginalWord(frame, w)
  BY <1>1, LoadedImage DEF InMemory
<1>3. InMemory' = InMemory
  BY DEF InMemory, Words
<1>4. QED
  BY <1>2, <1>3 DEF Filter!Request, Filter!Words, InMemory, Words

\* The answer is given when the whole image is filtered.
LEMMA FinishStep ==
  ASSUME MemoryData, host = "Test", host' = "Filling", fsm.state = "Idle", mem' = mem,
         frame' = frame, aborted' = aborted, aborted \in BOOLEAN
  PROVE  Filter!Finish
<1>1. ASSUME ~aborted, NEW w \in Words PROVE InMemory[w] = Filter!FilteredWord(frame, w)
  <2>1. Progress = RowCount * ColCount /\ RowCount * ColCount \in Nat
    BY ImageWords DEF Progress
  <2>2. mem[w] = Filter0!FilteredWord(frame, w)
    BY <1>1, <2>1 DEF MemoryData, InRun, Words
  <2>3. QED
    BY <2>2, SameWords DEF InMemory
<1>2. InMemory' = InMemory
  BY DEF InMemory, Words
<1>3. QED
  BY <1>1, <1>2 DEF Filter!Finish, Filter!Words, InMemory, Words

\* The word that is written back is the next one of the image.
LEMMA WordStep ==
  ASSUME Handshakes, Control!IInv, Bursts, RunFollowsHost, MemoryInv, MemoryData, OutputData,
         ~aborted, writer.avm_wr, NEW issue \in BOOLEAN, NEW waitrequest \in BOOLEAN,
         NEW rddatavalid \in BOOLEAN, Tick(issue, waitrequest, rddatavalid),
         Requested' = Requested, aborted' = aborted, frame' = frame
  PROVE  \E w \in Filter!Words : Filter!FilterWord(w)
<1>1. /\ fsm.state = "Write" /\ base = Image
      /\ writer.avm_wrdata = Filter!FilteredWord(frame, Progress)
  BY WrittenWord, SameWords
<1>2. InRun /\ Requested
  <2>1. host \in {"Read", "Test"}
    BY <1>1 DEF RunFollowsHost, Handshakes, SlaveRegisters, Host!Places
  <2>2. QED
    BY <2>1 DEF InRun, Requested
<1>3. ~Starts
  BY <1>1 DEF Starts
<1>4. Progress \in Words
  <2>1. Progress \in Nat /\ Progress < RowCount * ColCount /\ RowCount * ColCount \in Nat
    BY <1>3, ProgressStep, ImageWords
  <2> HIDE DEF Progress
  <2>2. QED
    BY <2>1 DEF Words
<1>5. \A v \in DOMAIN mem : mem'[v] = IF v = Progress THEN writer.avm_wrdata ELSE mem[v]
  BY <1>1, <1>3, MemoryStep
<1>6. /\ DOMAIN mem = 0 .. MemWords - 1
      /\ \A v \in 0 .. MemWords - 1 : v >= Progress => mem[v] = Filter0!OriginalWord(frame, v)
  BY <1>2 DEF MemoryInv
<1>7. \A v \in Words : v < Progress => mem[v] = Filter0!FilteredWord(frame, v)
  BY <1>2 DEF MemoryData, Words
<1>8. RowCount * ColCount \in Nat /\ \A v \in Words : v \in 0 .. MemWords - 1
  BY ImageWords DEF Words
<1> HIDE DEF Progress, Words
<1> PICK w \in Words : w = Progress
  BY <1>4
<1>9. w \in Int /\ w \in Words /\ w = Progress
  BY <1>8 DEF Words
<1>10. InMemory' = [InMemory EXCEPT ![w] = Filter!FilteredWord(frame, w)]
  <2>1. Words' = Words
    BY DEF Words
  <2>2. ASSUME NEW v \in Words
        PROVE  mem'[v] = IF v = w THEN Filter!FilteredWord(frame, w) ELSE mem[v]
    BY <1>1, <1>5, <1>6, <1>8, <1>9
  <2>3. QED
    BY <2>1, <2>2 DEF InMemory
<1>11. InMemory[w] = Filter!OriginalWord(frame, w)
  BY <1>6, <1>8, <1>9, SameWords DEF InMemory
<1>12. \A v \in 0 .. w - 1 : InMemory[v] = Filter!FilteredWord(frame, v)
  <2> SUFFICES ASSUME NEW v \in 0 .. w - 1 PROVE InMemory[v] = Filter!FilteredWord(frame, v)
    OBVIOUS
  <2>1. v \in Words /\ v < w
    BY <1>8, <1>9 DEF Words
  <2>2. QED
    BY <1>7, <1>9, <2>1, SameWords DEF InMemory
<1>13. Filter!FilterWord(w)
  BY <1>2, <1>10, <1>11, <1>12 DEF Filter!FilterWord, InMemory, Words, Requested
<1>14. QED
  BY <1>9, <1>13 DEF Filter!Words, Words

\* Every clock edge is a step of the abstract filter, or none.
LEMMA TickRefines ==
  ASSUME Handshakes, Control!IInv, Bursts, RunFollowsHost, MemoryInv, MemoryData, OutputData,
         NEW issue \in BOOLEAN, NEW waitrequest \in BOOLEAN,
         NEW rddatavalid \in BOOLEAN, Tick(issue, waitrequest, rddatavalid)
  PROVE  [Filter!Next]_Filter!vars
<1>1. frame' = frame /\ aborted' = (aborted /\ ~(host = "WriteAddress" /\ issue))
        /\ aborted \in BOOLEAN
  BY HostMoves DEF RunFollowsHost
<1>2. fsm.state = "Idle" => mem' = mem
  BY Workers, MemoryStep DEF Bursts, WriteBurst
<1>3. CASE host = "WriteAddress" /\ issue
  <2>1. host' = "WriteStart" /\ fsm.state = "Idle" /\ aborted' = FALSE
    BY <1>1, <1>3, HostMoves DEF RunFollowsHost
  <2>2. Filter!Request
    BY <1>1, <1>2, <1>3, <2>1, RequestStep
  <2>3. QED
    BY <2>2 DEF Filter!Next
<1>4. CASE host = "Test" /\ host' = "Filling"
  <2>1. fsm.state = "Idle" /\ aborted' = aborted
    BY <1>1, <1>4, HostMoves
  <2>2. Filter!Finish
    BY <1>1, <1>2, <1>4, <2>1, FinishStep
  <2>3. QED
    BY <2>2 DEF Filter!Next
<1>5. CASE ~(host = "WriteAddress" /\ issue) /\ ~(host = "Test" /\ host' = "Filling")
  <2>1. Requested' = Requested /\ aborted' = aborted
    BY <1>1, <1>5, HostMoves DEF Requested
  <2>2. CASE ~aborted /\ writer.avm_wr
    <3>1. \E w \in Filter!Words : Filter!FilterWord(w)
      BY <1>1, <2>1, <2>2, WordStep
    <3>2. QED
      BY <3>1 DEF Filter!Next
  <2>3. CASE aborted \/ ~writer.avm_wr
    <3>1. mem' = mem
      BY <2>3, AbortedWrites, MemoryStep
    <3>2. QED
      BY <1>1, <2>1, <3>1, FilterStutters
  <2>4. QED
    BY <2>2, <2>3
<1>6. QED
  BY <1>3, <1>4, <1>5

\* The accelerator is an in-place filter of the original image, and tells the program that
\* it is done when the whole image is filtered.
THEOREM ImageFiltered == Spec => ImplementsImageFilter
<1>1. Init => Filter!Init
  <2> SUFFICES ASSUME Init PROVE Filter!Init
    OBVIOUS
  <2>1. mem = Loaded(1) /\ frame = 1 /\ host = "Filling" /\ aborted = FALSE
    BY DEF Init, Host!Init
  <2>2. \A w \in Words : mem[w] = Filter!OriginalWord(1, w)
    BY <2>1, LoadedImage
  <2>3. QED
    BY <2>1, <2>2 DEF Filter!Init, Filter!Words, Words
<1>2. RunFollowsHost /\ LoadImage => Filter!Load
  <2> SUFFICES ASSUME RunFollowsHost, LoadImage PROVE Filter!Load
    OBVIOUS
  <2>1. /\ mem' = Loaded(frame + 1) /\ frame' = frame + 1 /\ host = "Filling" /\ host' = host
        /\ aborted' = aborted
    BY DEF LoadImage
  <2>2. \A w \in Words : mem'[w] = Filter!OriginalWord(frame + 1, w)
    BY <2>1, LoadedImage
  <2>3. QED
    BY <2>1, <2>2 DEF Filter!Load, Filter!Words, Words
<1>3. ResetButton => Filter!Abort
  BY DEF ResetButton, Bus!Reset, Filter!Abort
<1>4. Call => UNCHANGED Filter!vars
  <2> SUFFICES ASSUME Call PROVE UNCHANGED Filter!vars
    OBVIOUS
  <2>1. mem' = mem /\ frame' = frame /\ aborted' = aborted /\ Requested' = Requested
    BY DEF Call, Host!Call, Requested
  <2>2. QED
    BY <2>1, FilterStutters
<1>5. UNCHANGED vars => UNCHANGED Filter!vars
  <2> SUFFICES ASSUME UNCHANGED vars PROVE UNCHANGED Filter!vars
    OBVIOUS
  <2>1. mem' = mem /\ frame' = frame /\ aborted' = aborted /\ Requested' = Requested
    BY DEF vars, Requested
  <2>2. QED
    BY <2>1, FilterStutters
<1>6. Handshakes /\ Control!IInv /\ Bursts /\ RunFollowsHost /\ MemoryInv /\ MemoryData
        /\ OutputData /\ [Next]_vars => [Filter!Next]_Filter!vars
  BY <1>2, <1>3, <1>4, <1>5, TickRefines DEF Next, Filter!Next
<1>7. QED
  BY <1>1, <1>6, HandshakesHold, ControlInvariant, BurstsHold, RunHolds, MemoryHolds,
     MemoryDataHolds, OutputDataHolds, PTL DEF Spec, ImplementsImageFilter, Filter!Spec
=============================================================================
