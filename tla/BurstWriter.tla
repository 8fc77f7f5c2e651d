---------------------------- MODULE BurstWriter -----------------------------
(***************************************************************************)
(* burst_writer.vhd: on `enable' it drains BurstCount words of the output  *)
(* FIFO, which shows its head word in advance (lookahead), to the Avalon   *)
(* bus.  A word is presented for one cycle, then the FIFO is popped, then  *)
(* the next word is presented if the bus does not ask to wait.             *)
(*                                                                         *)
(* Every action is one rising clock edge; its parameters are the inputs    *)
(* sampled at that edge.                                                   *)
(***************************************************************************)
EXTENDS Naturals

CONSTANT BurstCount    \* the burst_count input, constant in the accelerator, in 2..127

VARIABLE writer        \* the registers of the component

\* Without a reset: ofifo_rdreq, avm_wrdata, avm_address; they power up as 0.
Init(none) ==
  writer = [ state |-> "Idle", count |-> 0, done |-> TRUE,
             avm_wr |-> FALSE, avm_beginburst |-> FALSE, avm_address |-> 0,
             avm_wrdata |-> none, ofifo_rdreq |-> FALSE ]

TypeOK ==
  /\ DOMAIN writer = { "state", "count", "done", "avm_wr", "avm_beginburst",
                       "avm_address", "avm_wrdata", "ofifo_rdreq" }
  /\ writer.state \in {"Idle", "HasReq", "HasData", "WaitDone", "WaitDoneNext"}
  /\ writer.count \in 0..BurstCount
  /\ writer.done \in BOOLEAN /\ writer.avm_wr \in BOOLEAN
  /\ writer.avm_beginburst \in BOOLEAN /\ writer.avm_address \in Nat
  /\ writer.ofifo_rdreq \in BOOLEAN

Reset ==
  writer' = [writer EXCEPT !.state = "Idle", !.done = TRUE,
                           !.avm_wr = FALSE, !.avm_beginburst = FALSE]
-----------------------------------------------------------------------------
Idle(enable) ==
  /\ writer.state = "Idle"
  /\ ~enable
  /\ writer' = [writer EXCEPT !.avm_wr = FALSE, !.ofifo_rdreq = FALSE, !.count = 0]

\* The first word is presented without a look at the wait request.
StartBurst(enable, ofifo_q, burst_address) ==
  /\ writer.state = "Idle"
  /\ enable
  /\ writer' = [writer EXCEPT !.state = "HasReq", !.done = FALSE, !.count = 1,
                              !.avm_wr = TRUE, !.avm_wrdata = ofifo_q,
                              !.avm_beginburst = TRUE, !.avm_address = burst_address,
                              !.ofifo_rdreq = TRUE]

HasReq ==
  /\ writer.state = "HasReq"
  /\ writer' = [writer EXCEPT !.state = "HasData", !.avm_beginburst = FALSE,
                              !.avm_wr = FALSE, !.ofifo_rdreq = FALSE]

\* count is unsigned(6 downto 0).
Next7(count) == (count + 1) % 128

\* The test is an equality: a count beyond BurstCount would not stop the burst.
LastBeat(count) == Next7(count) = BurstCount

\* The last word is presented but not popped: adaptive_threshold clears the
\* output FIFO before it fills it again.
HasData(waitrequest, ofifo_q) ==
  /\ writer.state = "HasData"
  /\ ~waitrequest
  /\ writer' = [writer EXCEPT !.state = IF LastBeat(writer.count) THEN "WaitDone"
                                                                   ELSE "HasReq",
                              !.count = Next7(@),
                              !.avm_wr = TRUE, !.avm_wrdata = ofifo_q,
                              !.ofifo_rdreq = ~LastBeat(writer.count)]

Stalled(waitrequest) ==
  /\ writer.state = "HasData"
  /\ waitrequest
  /\ writer' = [writer EXCEPT !.avm_wr = FALSE]

WaitDone ==
  /\ writer.state = "WaitDone"
  /\ writer' = [writer EXCEPT !.state = "WaitDoneNext", !.avm_wr = FALSE]

WaitDoneNext(waitrequest) ==
  /\ writer.state = "WaitDoneNext"
  /\ ~waitrequest
  /\ writer' = [writer EXCEPT !.state = "Idle", !.done = TRUE]

StalledDone(waitrequest) ==
  /\ writer.state = "WaitDoneNext"
  /\ waitrequest
  /\ UNCHANGED writer

Clock(enable, burst_address, waitrequest, ofifo_q) ==
  \/ Idle(enable)
  \/ StartBurst(enable, ofifo_q, burst_address)
  \/ HasReq
  \/ HasData(waitrequest, ofifo_q)
  \/ Stalled(waitrequest)
  \/ WaitDone
  \/ WaitDoneNext(waitrequest)
  \/ StalledDone(waitrequest)
=============================================================================
