------------------------- MODULE AdaptiveThreshold --------------------------
(***************************************************************************)
(* adaptive_threshold.vhd: filters one row.  It pops the three row FIFOs   *)
(* in lock step, writes every word back into the FIFO it came from (the    *)
(* row is needed for the next two rows as well) and pushes the filtered    *)
(* row, one word behind, into the output FIFO.                             *)
(*                                                                         *)
(* A word is the sequence of its four pixels, the byte of bits 7 downto 0  *)
(* first.  What do_computation makes of a 3x3 window of pixels is kept as  *)
(* the window itself, so that a filtered pixel tells which pixels it was   *)
(* computed from; ThresholdOperator has the arithmetic.                    *)
(*                                                                         *)
(* Every action is one rising clock edge; its parameters are the inputs    *)
(* sampled at that edge: row_q and row_empty are functions on 1..3.        *)
(***************************************************************************)
EXTENDS Naturals, Sequences

CONSTANTS ColSize,     \* the col_size input: pixels in a row, three words at least
          Border       \* the pixel x"00" used outside of the image

VARIABLE compute       \* the registers of the component

Lanes == 1..3          \* the rows above, at and below the one being filtered

ZeroWord == <<Border, Border, Border, Border>>

Init ==
  compute = [ state |-> "IdleCompute", ColCounter |-> 0, done |-> TRUE,
              row_rdreq |-> [i \in Lanes |-> FALSE],
              row_wrreq |-> [i \in Lanes |-> FALSE],
              row_data  |-> [i \in Lanes |-> ZeroWord],
              last_q    |-> [i \in Lanes |-> <<Border, Border>>],
              last_result    |-> <<Border, Border, Border>>,
              current_result |-> ZeroWord,
              next_result    |-> Border,
              ofifo_data |-> ZeroWord, ofifo_wrreq |-> FALSE, ofifo_sclr |-> TRUE ]

TypeOK ==
  /\ compute.state \in { "IdleCompute", "ReadDelay", "FirstCompute", "Compute",
                         "LastCompute", "LastComputeWrite" }
  /\ compute.ColCounter \in 0 .. ColSize
  /\ compute.row_rdreq \in [Lanes -> BOOLEAN] /\ compute.row_wrreq \in [Lanes -> BOOLEAN]
  /\ compute.done \in BOOLEAN
  /\ compute.ofifo_wrreq \in BOOLEAN /\ compute.ofifo_sclr \in BOOLEAN

Reset ==
  compute' = [compute EXCEPT !.state = "IdleCompute", !.ColCounter = 0, !.done = TRUE,
                             !.ofifo_wrreq = FALSE, !.ofifo_sclr = TRUE,
                             !.row_rdreq = [i \in Lanes |-> FALSE],
                             !.row_wrreq = [i \in Lanes |-> FALSE]]
-----------------------------------------------------------------------------
\* do_computation(row1, row2, row3), each row a left, a centre and a right pixel.
DoComputation(rows) == <<rows[1], rows[2], rows[3]>>

\* The 24-bit slices of the current word q and of last, the upper half of the
\* word before it, that the process passes to do_computation.
LeftEdge(q)    == <<Border, q[1], q[2]>>     \* row_q(15 downto 0) & x"00"
SecondPixel(q) == <<q[1], q[2], q[3]>>       \* row_q(23 downto 0)
ThirdPixel(q)  == <<q[2], q[3], q[4]>>       \* row_q(31 downto 8)
RightEdge(q)   == <<q[3], q[4], Border>>     \* x"00" & row_q(31 downto 16)
LastPixel(last, q)  == <<last[1], last[2], q[1]>>  \* row_q(7 downto 0) & last_q(15 downto 0)
FirstPixel(last, q) == <<last[1], q[1], q[2]>>     \* row_q(15 downto 0) & last_q(7 downto 0)

\* The filtered last pixel of the word before and the first three of this one.
ResultsOf(last, row_q) ==
  << DoComputation([i \in Lanes |-> LastPixel(last[i], row_q[i])]),
     DoComputation([i \in Lanes |-> FirstPixel(last[i], row_q[i])]),
     DoComputation([i \in Lanes |-> SecondPixel(row_q[i])]),
     DoComputation([i \in Lanes |-> ThirdPixel(row_q[i])]) >>

UpperHalves(row_q) == [i \in Lanes |-> <<row_q[i][3], row_q[i][4]>>]

NotEmpty(row_empty) == [i \in Lanes |-> ~row_empty[i]]
None == [i \in Lanes |-> FALSE]

IdleCompute(enable) ==
  /\ compute.state = "IdleCompute"
  /\ ~enable
  /\ compute' = [compute EXCEPT !.done = TRUE, !.ColCounter = 0,
                                !.row_rdreq = None, !.row_wrreq = None,
                                !.ofifo_sclr = FALSE, !.ofifo_wrreq = FALSE]

\* Mutant of StartRow: the output FIFO is not cleared.
StartRowOfifoKept(enable, row_empty) ==
  /\ compute.state = "IdleCompute"
  /\ enable
  /\ compute' = [compute EXCEPT !.state = "ReadDelay", !.done = FALSE, !.ColCounter = 0,
                                !.row_rdreq = NotEmpty(row_empty), !.row_wrreq = None,
                                !.ofifo_sclr = FALSE, !.ofifo_wrreq = FALSE]

StartRow(enable, row_empty) ==
  /\ compute.state = "IdleCompute"
  /\ enable
  /\ compute' = [compute EXCEPT !.state = "ReadDelay", !.done = FALSE, !.ColCounter = 0,
                                !.row_rdreq = NotEmpty(row_empty), !.row_wrreq = None,
                                !.ofifo_sclr = TRUE, !.ofifo_wrreq = FALSE]

\* The FIFOs show a word one cycle after it was requested.
ReadDelay ==
  /\ compute.state = "ReadDelay"
  /\ compute' = [compute EXCEPT !.state = "FirstCompute",
                                !.ofifo_sclr = FALSE, !.ofifo_wrreq = FALSE]

FirstCompute(row_q, row_empty) ==
  /\ compute.state = "FirstCompute"
  /\ compute' = [compute EXCEPT !.state = "Compute",
                                !.last_result =
                                   << DoComputation([i \in Lanes |-> LeftEdge(row_q[i])]),
                                      DoComputation([i \in Lanes |-> SecondPixel(row_q[i])]),
                                      DoComputation([i \in Lanes |-> ThirdPixel(row_q[i])]) >>,
                                !.last_q = UpperHalves(row_q),
                                !.ColCounter = @ + 4,
                                !.row_wrreq = NotEmpty(row_empty), !.row_data = row_q,
                                !.ofifo_sclr = FALSE, !.ofifo_wrreq = FALSE]

\* After this word only the last one is left, which has already been requested.
LastWordNext(ColCounter) == ColCounter >= ColSize - 4

Compute(row_q, row_empty) ==
  LET results == ResultsOf(compute.last_q, row_q)
      leave   == LastWordNext(compute.ColCounter + 4) IN
  /\ compute.state = "Compute"
  /\ compute' = [compute EXCEPT !.state = IF leave THEN "LastCompute" ELSE "Compute",
                                !.current_result = results,
                                !.last_result = SubSeq(results, 2, 4),
                                !.last_q = UpperHalves(row_q),
                                !.ColCounter = @ + 4,
                                !.row_rdreq = IF leave THEN None ELSE @,
                                !.row_wrreq = NotEmpty(row_empty), !.row_data = row_q,
                                !.ofifo_data = Append(compute.last_result, results[1]),
                                !.ofifo_sclr = FALSE, !.ofifo_wrreq = TRUE]

LastCompute(row_q, row_empty) ==
  LET results == ResultsOf(compute.last_q, row_q) IN
  /\ compute.state = "LastCompute"
  /\ compute' = [compute EXCEPT !.state = "LastComputeWrite",
                                !.current_result = results,
                                !.next_result =
                                   DoComputation([i \in Lanes |-> RightEdge(row_q[i])]),
                                !.row_wrreq = NotEmpty(row_empty), !.row_data = row_q,
                                !.ofifo_data = Append(compute.last_result, results[1]),
                                !.ofifo_sclr = FALSE, !.ofifo_wrreq = TRUE]

LastComputeWrite ==
  /\ compute.state = "LastComputeWrite"
  /\ compute' = [compute EXCEPT !.state = "IdleCompute", !.row_wrreq = None,
                                !.ofifo_data = Append(SubSeq(compute.current_result, 2, 4),
                                                      compute.next_result),
                                !.ofifo_sclr = FALSE, !.ofifo_wrreq = TRUE]

Clock(enable, row_q, row_empty) ==
  \/ IdleCompute(enable)
  \/ StartRow(enable, row_empty)
  \/ ReadDelay
  \/ FirstCompute(row_q, row_empty)
  \/ Compute(row_q, row_empty)
  \/ LastCompute(row_q, row_empty)
  \/ LastComputeWrite
=============================================================================
