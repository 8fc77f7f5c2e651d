------------------------------ MODULE FifoMult ------------------------------
(***************************************************************************)
(* fifo_mult.vhd: connects the four row FIFOs (numbered 0..3 here, fifo1   *)
(* to fifo4 in the code) to the burst reader and to the three lanes of     *)
(* adaptive_threshold.  The FIFO select_idx is being filled; going round   *)
(* from it, the other three are lanes 1, 2 and 3.                          *)
(***************************************************************************)
EXTENDS Integers

Fifos == 0..3

\* The lane FIFO f is connected to; 0 is the burst reader.
LaneOf(select_idx, f) == (f - select_idx) % 4

\* The FIFO that lane i is connected to.
FifoOf(select_idx, i) == (select_idx + i) % 4

\* Mutant of Sclr: clr_all is not connected.
SclrNotAll(select_idx, f, row_sclr, clr_all) == LaneOf(select_idx, f) = 0 /\ row_sclr

\* fifo<f>_sclr: only the FIFO being filled listens to the reader.
Sclr(select_idx, f, row_sclr, clr_all) ==
  clr_all \/ (LaneOf(select_idx, f) = 0 /\ row_sclr)

Wrreq(select_idx, f, row_wrreq, lane_wrreq) ==
  IF LaneOf(select_idx, f) = 0 THEN row_wrreq ELSE lane_wrreq[LaneOf(select_idx, f)]

Data(select_idx, f, row_data, lane_data) ==
  IF LaneOf(select_idx, f) = 0 THEN row_data ELSE lane_data[LaneOf(select_idx, f)]

Rdreq(select_idx, f, lane_rdreq) ==
  IF LaneOf(select_idx, f) = 0 THEN FALSE ELSE lane_rdreq[LaneOf(select_idx, f)]
=============================================================================
