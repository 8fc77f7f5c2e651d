---------------------------- MODULE BurstReader -----------------------------
(***************************************************************************)
(* burst_reader.vhd: on `enable' it requests one burst of BurstCount words *)
(* from the Avalon bus and pushes the words that come back into the row    *)
(* FIFO selected by the multiplexer, which it has cleared first.  A dummy  *)
(* read only clears the FIFO.                                              *)
(*                                                                         *)
(* Every action is one rising clock edge; its parameters are the inputs    *)
(* sampled at that edge.                                                   *)
(***************************************************************************)
EXTENDS Naturals

CONSTANT BurstCount    \* the burst_count input, constant in the accelerator, in 1..127

VARIABLE reader        \* the registers of the component

\* row_data, row_sclr and avm_address have no reset: they power up as 0.
Init(none) ==
  reader = [ state |-> "Idle", count |-> 0, done |-> TRUE,
             avm_rd |-> FALSE, avm_beginburst |-> FALSE, avm_address |-> 0,
             row_wrreq |-> FALSE, row_data |-> none, row_sclr |-> FALSE ]

TypeOK ==
  /\ DOMAIN reader = { "state", "count", "done", "avm_rd", "avm_beginburst",
                       "avm_address", "row_wrreq", "row_data", "row_sclr" }
  /\ reader.state \in {"Idle", "Read"}
  /\ reader.count \in 0..BurstCount
  /\ reader.done \in BOOLEAN /\ reader.avm_rd \in BOOLEAN
  /\ reader.avm_beginburst \in BOOLEAN /\ reader.avm_address \in Nat
  /\ reader.row_wrreq \in BOOLEAN /\ reader.row_sclr \in BOOLEAN

Reset ==
  reader' = [reader EXCEPT !.state = "Idle", !.done = TRUE, !.row_wrreq = FALSE,
                           !.avm_rd = FALSE, !.avm_beginburst = FALSE]
-----------------------------------------------------------------------------
Idle(enable) ==
  /\ reader.state = "Idle"
  /\ ~enable
  /\ reader' = [reader EXCEPT !.row_sclr = FALSE, !.row_wrreq = FALSE, !.count = 0]

StartBurstFifoKept(enable, dummy_read, burst_address) ==
  /\ reader.state = "Idle"
  /\ enable /\ ~dummy_read
  /\ reader' = [reader EXCEPT !.state = "Read", !.row_wrreq = FALSE, !.count = 0, !.done = FALSE,
                              !.avm_rd = TRUE, !.avm_beginburst = TRUE,
                              !.avm_address = burst_address]
StartBurstDoneKept(enable, dummy_read, burst_address) ==
  /\ reader.state = "Idle"
  /\ enable /\ ~dummy_read
  /\ reader' = [reader EXCEPT !.state = "Read", !.row_sclr = TRUE, !.row_wrreq = FALSE, !.count = 0,
                              !.avm_rd = TRUE, !.avm_beginburst = TRUE,
                              !.avm_address = burst_address]

StartBurst(enable, dummy_read, burst_address) ==
  /\ reader.state = "Idle"
  /\ enable /\ ~dummy_read
  /\ reader' = [reader EXCEPT !.state = "Read", !.row_sclr = TRUE,
                              !.row_wrreq = FALSE, !.count = 0, !.done = FALSE,
                              !.avm_rd = TRUE, !.avm_beginburst = TRUE,
                              !.avm_address = burst_address]

DummyRead(enable, dummy_read) ==
  /\ reader.state = "Idle"
  /\ enable /\ dummy_read
  /\ reader' = [reader EXCEPT !.row_sclr = TRUE, !.row_wrreq = FALSE,
                              !.count = 0, !.done = TRUE]

\* A word is on the bus for the reader at this edge.
Beat(waitrequest, rddatavalid) == ~waitrequest /\ rddatavalid

\* count is unsigned(6 downto 0).
Next7(count) == (count + 1) % 128

\* Mutants of LastBeat: one word too early, one too late.
LastBeatEarly(count) == Next7(count) + 1 >= BurstCount
LastBeatLate(count)  == Next7(count) > BurstCount

LastBeat(count) == Next7(count) >= BurstCount

ReadBeat(waitrequest, rddatavalid, rddata) ==
  /\ reader.state = "Read"
  /\ Beat(waitrequest, rddatavalid)
  /\ reader' = [reader EXCEPT !.avm_rd = FALSE, !.avm_beginburst = FALSE,
                              !.row_sclr = FALSE,
                              !.row_wrreq = TRUE, !.row_data = rddata,
                              !.count = Next7(@),
                              !.done = IF LastBeat(reader.count) THEN TRUE ELSE @,
                              !.state = IF LastBeat(reader.count) THEN "Idle" ELSE "Read"]

ReadWait(waitrequest, rddatavalid) ==
  /\ reader.state = "Read"
  /\ ~Beat(waitrequest, rddatavalid)
  /\ reader' = [reader EXCEPT !.avm_rd = FALSE, !.avm_beginburst = FALSE,
                              !.row_sclr = FALSE, !.row_wrreq = FALSE]

Clock(enable, dummy_read, burst_address, waitrequest, rddatavalid, rddata) ==
  \/ Idle(enable)
  \/ StartBurst(enable, dummy_read, burst_address)
  \/ DummyRead(enable, dummy_read)
  \/ ReadBeat(waitrequest, rddatavalid, rddata)
  \/ ReadWait(waitrequest, rddatavalid)
=============================================================================
