----------------------------- MODULE WritePath ------------------------------
(***************************************************************************)
(* burst_writer.vhd with the lookahead FIFO it drains, on a bus that asks  *)
(* to wait whenever it likes, except in the one cycle in which a word is   *)
(* presented (a word refused then would be lost: the writer does not look).*)
(*                                                                         *)
(* Before every burst the FIFO is cleared and filled again, as             *)
(* adaptive_threshold does; a row is the words 1, 2 ... BurstCount.        *)
(***************************************************************************)
EXTENDS BurstWriter, Sequences

CONSTANTS BurstAddress,   \* the addresses the state machine asks for
          Depth           \* words the FIFO holds

VARIABLES ofifo,       \* the output FIFO
          filling,     \* next word of the row to be pushed, 0: the clear before
          taken        \* the words the bus has taken since the last order

vars == <<writer, ofifo, filling, taken>>

Row == INSTANCE Scfifo WITH ZeroWord <- 0

\* The whole row is in the FIFO.
Filled == BurstCount + 1

WPInit ==
  /\ Init(0)
  /\ ofifo = Row!EmptyFifo
  /\ filling = 0
  /\ taken = <<>>

\* One clock edge.  The row is complete when the writer is enabled, and the next
\* row is begun when the writer is done.
Tick(enable, burst_address, waitrequest, fill) ==
  /\ enable => writer.done /\ filling = Filled
  /\ fill => writer.done /\ ~enable /\ filling # Filled
  /\ writer.avm_wr => ~waitrequest
  /\ Clock(enable, burst_address, waitrequest, Row!Lookahead(ofifo))
  /\ ofifo' = Row!Clocked(ofifo, fill /\ filling = 0, fill /\ filling > 0,
                          filling, writer.ofifo_rdreq)
  /\ filling' = IF enable THEN 0 ELSE IF fill THEN filling + 1 ELSE filling
  /\ taken' = IF enable THEN <<>>
              ELSE IF writer.avm_wr THEN Append(taken, writer.avm_wrdata) ELSE taken

\* The bus is reset as well, and adaptive_threshold begins a new row.
ResetWriter ==
  /\ Reset
  /\ filling' = 0
  /\ taken' = <<>>
  /\ UNCHANGED ofifo

Next ==
  \/ \E enable, waitrequest, fill \in BOOLEAN, burst_address \in BurstAddress :
       Tick(enable, burst_address, waitrequest, fill)
  \/ ResetWriter

\* The clock ticks, and the bus does not ask to wait for ever.
Answer ==
  \E enable, fill \in BOOLEAN, burst_address \in BurstAddress :
    Tick(enable, burst_address, FALSE, fill)
-----------------------------------------------------------------------------
\* The bus takes the words of the row first word first, each of them once: none
\* is skipped or repeated by the pop that lags one cycle behind the presentation.
\* The writer reports done when the bus has taken the whole row, and not before.
RowTaken ==
  /\ taken = [n \in 1 .. Len(taken) |-> n]
  /\ Len(taken) <= BurstCount
  /\ writer.done => Len(taken) \in {0, BurstCount}

\* The writer keeps the handshake the state machine relies on.
Handshake == INSTANCE Worker WITH Address <- BurstAddress, done <- writer.done,
                                  address <- writer.avm_address
ImplementsWorker == Handshake!Spec

\* A job ends, however often the bus asks to wait.
JobEnds == ~writer.done ~> writer.done
=============================================================================
