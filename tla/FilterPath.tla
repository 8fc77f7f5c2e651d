----------------------------- MODULE FilterPath -----------------------------
(***************************************************************************)
(* adaptive_threshold.vhd with its three row FIFOs and the output FIFO:    *)
(* one row is filtered, then the next, which may find any of the FIFOs     *)
(* empty (the one above the first row of the image, and the one below the  *)
(* last after a dummy read).                                               *)
(*                                                                         *)
(* Pixel p of lane i is <<i, p>>.                                          *)
(***************************************************************************)
EXTENDS AdaptiveThreshold

CONSTANT Depth         \* words a FIFO holds

VARIABLES fifo,        \* the row FIFOs, by lane
          ofifo,       \* the output FIFO
          filled,      \* the lanes that hold a row, the others are empty
          fresh        \* no row was filtered since the FIFOs were filled

vars == <<compute, fifo, ofifo, filled, fresh>>

Row == INSTANCE Scfifo

RowWords == ColSize \div 4

Pixel(i, p) == IF p \in 0 .. ColSize - 1 THEN <<i, p>> ELSE Border

RowOf(i) == [k \in 1..RowWords |-> [p \in 1..4 |-> Pixel(i, 4 * (k - 1) + p - 1)]]

Contents(i, lanes) == IF i \in lanes THEN RowOf(i) ELSE <<>>

FPInit ==
  /\ Init
  /\ filled \in SUBSET Lanes
  /\ fifo = [i \in Lanes |-> [Row!EmptyFifo EXCEPT !.words = Contents(i, filled)]]
  /\ ofifo = Row!EmptyFifo
  /\ fresh = TRUE

row_q     == [i \in Lanes |-> fifo[i].q]
row_empty == [i \in Lanes |-> Row!IsEmpty(fifo[i])]

\* One clock edge; the state machine waits for done, and nobody else touches the
\* FIFOs while a row is filtered.
Tick(enable) ==
  /\ enable => compute.done
  /\ Clock(enable, row_q, row_empty)
  /\ fifo' = [i \in Lanes |->
                Row!Clocked(fifo[i], FALSE, compute.row_wrreq[i], compute.row_data[i],
                            compute.row_rdreq[i])]
  /\ ofifo' = Row!Clocked(ofifo, compute.ofifo_sclr, compute.ofifo_wrreq,
                          compute.ofifo_data, FALSE)
  /\ fresh' = (fresh /\ ~enable)
  /\ UNCHANGED filled

\* The FIFOs are cleared and some of them filled again.
Refill ==
  /\ compute.done
  /\ \E lanes \in SUBSET Lanes :
       /\ filled' = lanes
       /\ fifo' = [i \in Lanes |-> [Row!EmptyFifo EXCEPT !.words = Contents(i, lanes)]]
  /\ fresh' = TRUE
  /\ UNCHANGED <<compute, ofifo>>

Next ==
  \/ \E enable \in BOOLEAN : Tick(enable)
  \/ Refill

-----------------------------------------------------------------------------
Settled == compute.done /\ ~fresh

\* Every row FIFO is as it was: the same words, the oldest first; an empty one is
\* empty.
RowsRestored == \A i \in Lanes : fifo[i].words = Contents(i, filled)

\* The left neighbour the component uses, see Accelerator!LeftNeighbourAdjacent.
LeftOf(p) == IF p % 4 = 0 /\ p > 0 THEN p - 2 ELSE p - 1

Slice(i, p) == IF i \in filled THEN <<Pixel(i, LeftOf(p)), Pixel(i, p), Pixel(i, p + 1)>>
                               ELSE <<Border, Border, Border>>

\* A row that has been filtered is left in the row FIFOs, for the next two rows of
\* the image.  The output FIFO holds exactly one word for each word of the row, and
\* each pixel of it comes from the three rows around it, with black pixels to the
\* left and to the right of the row and in the place of an empty FIFO.  Nothing is
\* left of the row before.
RowFiltered ==
  Settled =>
    /\ RowsRestored
    /\ ofifo.words = [k \in 1..RowWords |-> [p \in 1..4 |->
                       [i \in Lanes |-> Slice(i, 4 * (k - 1) + p - 1)]]]

\* A row is filtered without anybody's help.
RowEnds == ~compute.done ~> compute.done
=============================================================================
