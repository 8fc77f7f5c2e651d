------------------------------- MODULE Scfifo -------------------------------
(***************************************************************************)
(* The single-clock FIFO of Intel's library, as fifo.vhd and               *)
(* fifolookahead.vhd configure it: Depth words, overflow and underflow     *)
(* checking on (a request that cannot be met is ignored), a synchronous    *)
(* clear that also clears the output register.  Without lookahead the      *)
(* output q holds the word popped last.                                    *)
(***************************************************************************)
EXTENDS Naturals, Sequences

CONSTANTS Depth,       \* lpm_numwords
          ZeroWord     \* the output after a clear

EmptyFifo == [words |-> <<>>, q |-> ZeroWord]

IsEmpty(fifo) == fifo.words = <<>>
IsFull(fifo)  == Len(fifo.words) = Depth

\* The output in lookahead mode: the oldest word, without a request.
Lookahead(fifo) == IF IsEmpty(fifo) THEN ZeroWord ELSE Head(fifo.words)

\* The FIFO after a clock edge with these inputs.
Clocked(fifo, sclr, wrreq, data, rdreq) ==
  LET pop  == rdreq /\ ~IsEmpty(fifo)
      push == wrreq /\ ~IsFull(fifo)
      kept == IF pop THEN Tail(fifo.words) ELSE fifo.words
  IN  IF sclr THEN EmptyFifo
      ELSE [ words |-> IF push THEN Append(kept, data) ELSE kept,
             q     |-> IF pop THEN Head(fifo.words) ELSE fifo.q ]
=============================================================================
