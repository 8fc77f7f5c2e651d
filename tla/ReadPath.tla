------------------------------ MODULE ReadPath ------------------------------
(***************************************************************************)
(* burst_reader.vhd with the row FIFO it fills, on a bus that answers      *)
(* when it likes: it takes the command in the one cycle in which avm_rd is *)
(* high, may ask to wait in any other, also in one in which it presents a  *)
(* word, and then presents that word again.  The last is less than         *)
(* AvalonBus!Polite assumes for the whole accelerator.                     *)
(*                                                                         *)
(* The words of a burst are numbered: word n of the burst is n.            *)
(***************************************************************************)
EXTENDS BurstReader, Sequences

CONSTANTS BurstAddress,   \* the addresses the state machine asks for
          Depth           \* words the FIFO holds

VARIABLES fifo,        \* the row FIFO
          sent,        \* words of the burst the bus has handed over
          ordered,     \* the last order was for a burst, not for a dummy read
          lost         \* reset since the last job was ordered

vars == <<reader, fifo, sent, ordered, lost>>

Row == INSTANCE Scfifo WITH ZeroWord <- 0

RPInit ==
  /\ Init(0)
  /\ fifo = Row!EmptyFifo
  /\ sent = BurstCount
  /\ ordered = FALSE /\ lost = FALSE

\* One clock edge; the bus presents the next word of the burst, or not.
Tick(enable, dummy_read, burst_address, waitrequest, rddatavalid) ==
  /\ enable => reader.done                 \* the state machine waits for done
  /\ reader.avm_rd => ~waitrequest
  /\ rddatavalid => sent < BurstCount /\ ~reader.avm_rd
  /\ Clock(enable, dummy_read, burst_address, waitrequest, rddatavalid, sent + 1)
  /\ fifo' = Row!Clocked(fifo, reader.row_sclr, reader.row_wrreq, reader.row_data, FALSE)
  /\ sent' = IF reader.avm_rd THEN 0
             ELSE IF Beat(waitrequest, rddatavalid) THEN sent + 1 ELSE sent
  /\ ordered' = IF enable THEN ~dummy_read ELSE ordered
  /\ lost' = (lost /\ ~enable)

ResetReader ==
  /\ Reset
  /\ sent' = BurstCount                    \* the bus is reset as well
  /\ lost' = TRUE
  /\ UNCHANGED <<fifo, ordered>>

Next ==
  \/ \E enable, dummy_read, waitrequest, rddatavalid \in BOOLEAN,
        burst_address \in BurstAddress :
       Tick(enable, dummy_read, burst_address, waitrequest, rddatavalid)
  \/ ResetReader

\* The clock ticks, and while a burst is under way the bus hands over its words.
Answer ==
  \E enable, dummy_read \in BOOLEAN, burst_address \in BurstAddress :
    Tick(enable, dummy_read, burst_address, FALSE, sent < BurstCount /\ ~reader.avm_rd)
-----------------------------------------------------------------------------
\* A job that has ended leaves in the FIFO exactly the words of its burst, first
\* word first; a dummy read leaves it empty.  Whatever was in the FIFO before is
\* gone, also when the first word comes while the FIFO is being cleared.  When
\* done rises one word may still be on its way, and it is the last one: the state
\* machine moves on to the next FIFO one edge later, which must not be too soon.
RowComplete ==
  reader.done /\ ~lost /\ ~reader.row_sclr =>
    fifo.words \o (IF reader.row_wrreq THEN <<reader.row_data>> ELSE <<>>)
      = IF ordered THEN [n \in 1..BurstCount |-> n] ELSE <<>>

\* The reader keeps the handshake the state machine relies on.
Handshake == INSTANCE Worker WITH Address <- BurstAddress, done <- reader.done,
                                  address <- reader.avm_address
ImplementsWorker == Handshake!Spec

\* A job ends, whatever the bus does in the cycles in which it asks to wait.
JobEnds == ~reader.done ~> reader.done
=============================================================================
