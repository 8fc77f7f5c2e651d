------------------------------ MODULE RowPaths -------------------------------
(***************************************************************************)
(* The way of a row through the accelerator, each of its parts on its own, *)
(* in the surroundings that are hardest for it: a burst is read into a row *)
(* FIFO (ReadPath), a row is filtered (FilterPath) with the arithmetic of  *)
(* ThresholdOperator, and the result is written back (WritePath).  part is *)
(* the one that is looked at, the others rest; Accelerator composes them.  *)
(***************************************************************************)
EXTENDS ThresholdOperator, Sequences

CONSTANTS BurstCount,     \* words of a burst
          BurstAddress,   \* the addresses the state machine asks for
          ColSize,        \* pixels of a row
          Border,         \* the pixel outside of the image
          Depth           \* words a FIFO holds

\* A burst of one word would not end in the writer, a row of two words not in the filter.
ASSUME BurstAssumption   == BurstCount \in 2..127
ASSUME AddressAssumption == BurstAddress \subseteq Nat /\ 0 \in BurstAddress
ASSUME ColSizeAssumption == ColSize \in Nat /\ ColSize % 4 = 0 /\ ColSize >= 12
\* A FIFO holds a row and a burst.
ASSUME DepthAssumption   == Depth \in Nat /\ BurstCount <= Depth /\ ColSize \div 4 <= Depth

VARIABLES part,
          reader, rfifo, sent, ordered, lost,
          writer, wfifo, filling, taken,
          compute, lanefifo, outfifo, filled, fresh

Read   == INSTANCE ReadPath WITH fifo <- rfifo
Write  == INSTANCE WritePath WITH ofifo <- wfifo
Filter == INSTANCE FilterPath WITH fifo <- lanefifo, ofifo <- outfifo

PathsInit ==
  /\ part \in {"read", "write", "filter", "arithmetic"}
  /\ Read!RPInit /\ Write!WPInit /\ Filter!FPInit /\ Init
  /\ part # "filter" => filled = {}

readVars   == <<reader, rfifo, sent, ordered, lost>>
writeVars  == <<writer, wfifo, filling, taken>>
filterVars == <<compute, lanefifo, outfifo, filled, fresh>>

vars == <<part, readVars, writeVars, filterVars, window>>

\* A step of one part.
Reading   == part = "read" /\ UNCHANGED <<part, writeVars, filterVars, window>>
Writing   == part = "write" /\ UNCHANGED <<part, readVars, filterVars, window>>
Filtering == part = "filter" /\ UNCHANGED <<part, readVars, writeVars, window>>
Computing == part = "arithmetic" /\ UNCHANGED <<part, readVars, writeVars, filterVars>>

PathsNext ==
  \/ Reading /\ Read!Next
  \/ Writing /\ Write!Next
  \/ Filtering /\ Filter!Next
  \/ Computing /\ Next

\* The clock ticks, and the bus does not refuse for ever.
PathsSpec ==
  /\ PathsInit /\ [][PathsNext]_vars
  /\ WF_vars(Reading /\ Read!Answer)
  /\ WF_vars(Writing /\ Write!Answer)
  /\ WF_vars(Filtering /\ \E enable \in BOOLEAN : Filter!Tick(enable))
-----------------------------------------------------------------------------
\* Every word of a burst gets to the other end once and in order: one that is read leaves
\* exactly its words in the FIFO (ReadPath!RowComplete), of one that is written the bus
\* takes every word (WritePath!RowTaken).
BurstIntact == Read!RowComplete /\ Write!RowTaken

\* A row is filtered into one row, and kept (FilterPath!RowFiltered).
RowFiltered == Filter!RowFiltered

\* Reader and writer keep the handshake the state machine relies on.
ImplementsWorker == Read!ImplementsWorker /\ Write!ImplementsWorker

\* Every job ends, whatever the bus does in between.
JobEnds == Read!JobEnds /\ Write!JobEnds /\ Filter!RowEnds
=============================================================================
