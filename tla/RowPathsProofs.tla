---------------------------- MODULE RowPathsProofs ----------------------------
(***************************************************************************)
(* The parts of the way of a row, for every burst length, row length, FIFO *)
(* depth and set of pixels: what the filter decides of a window, that no   *)
(* word of a burst is lost, doubled or swapped on its way in or out, and   *)
(* that a row is filtered into exactly one row.                            *)
(***************************************************************************)
EXTENDS RowPaths, Integers, TLAPS, SequenceTheorems

(***************************************************************************)
(* The arithmetic of one window.                                           *)
(***************************************************************************)
Window == [1..3 -> [1..3 -> Pixels]]

\* The ranges of a pixel, of the sums of one row, of two and of three.
Byte == 0..255
RowTotal == 0..765
TwoRows == 0..1530
WindowTotal == 0..2295

LEMMA RowPixels ==
  ASSUME NEW row \in [1..3 -> Pixels]
  PROVE  row[1] \in Byte /\ row[2] \in Byte /\ row[3] \in Byte
<1>1. row[1] \in Pixels /\ row[2] \in Pixels /\ row[3] \in Pixels
  OBVIOUS
<1> QED
  BY <1>1, PixelsAssumption DEF Byte

\* Three pixels added to the sum of at most six others: no register wraps.
LEMMA ThreePixels ==
  ASSUME NEW sum \in TwoRows, NEW a \in Byte, NEW b \in Byte, NEW c \in Byte
  PROVE  /\ Add12(Add12(Add12(sum, c), b), a) = sum + (a + b + c)
         /\ Add16(Add16(Add16(sum, a), b), c) = sum + (a + b + c)
         /\ a + b + c \in RowTotal
<1>1. Add12(Add12(Add12(sum, c), b), a) = sum + (a + b + c)
  BY DEF Add12, Byte, TwoRows
<1>2. Add16(Add16(Add16(sum, a), b), c) = sum + (a + b + c)
  BY DEF Add16, Byte, TwoRows
<1>3. a + b + c \in RowTotal
  BY DEF Byte, RowTotal
<1> QED
  BY <1>1, <1>2, <1>3, Zenon

LEMMA AddRowExact ==
  ASSUME NEW row \in [1..3 -> Pixels], NEW sum \in TwoRows
  PROVE  /\ AddRow(sum, row) = sum + RowSum(row)
         /\ AddRow16(sum, row) = sum + RowSum(row)
         /\ RowSum(row) \in RowTotal
<1>1. row[1] \in Byte /\ row[2] \in Byte /\ row[3] \in Byte
  BY RowPixels, Zenon
<1>2. /\ Add12(Add12(Add12(sum, row[3]), row[2]), row[1])
           = sum + (row[1] + row[2] + row[3])
      /\ Add16(Add16(Add16(sum, row[1]), row[2]), row[3])
           = sum + (row[1] + row[2] + row[3])
      /\ row[1] + row[2] + row[3] \in RowTotal
  BY <1>1, ThreePixels, Zenon
<1> QED
  BY <1>2, Zenon DEF AddRow, AddRow16, RowSum

LEMMA ThreeRows ==
  ASSUME NEW a \in RowTotal, NEW b \in RowTotal, NEW c \in RowTotal
  PROVE  a \in TwoRows /\ 0 + a = a /\ a + b \in TwoRows /\ a + b + c \in WindowTotal
<1>1. a \in TwoRows /\ 0 + a = a
  BY DEF RowTotal, TwoRows
<1>2. a + b \in TwoRows
  BY DEF RowTotal, TwoRows
<1>3. a + b + c \in WindowTotal
  BY DEF RowTotal, WindowTotal
<1> QED
  BY <1>1, <1>2, <1>3, Zenon

\* Neither of the two sums of the window wraps.
LEMMA RegionSumExact ==
  ASSUME NEW w \in Window
  PROVE  /\ RegionSum(w) = Sum(w)
         /\ AddRow16(AddRow16(AddRow16(0, w[1]), w[2]), w[3]) = Sum(w)
         /\ Sum(w) \in WindowTotal
         /\ w[2][2] \in Byte
<1>1. /\ w[1] \in [1..3 -> Pixels] /\ w[2] \in [1..3 -> Pixels]
      /\ w[3] \in [1..3 -> Pixels]
  BY DEF Window
<1>2. 0 \in TwoRows
  BY DEF TwoRows
<1>3. /\ RowSum(w[1]) \in RowTotal /\ RowSum(w[2]) \in RowTotal
      /\ RowSum(w[3]) \in RowTotal
  BY <1>1, <1>2, AddRowExact, Zenon
<1>4. /\ RowSum(w[1]) \in TwoRows
      /\ RowSum(w[1]) + RowSum(w[2]) \in TwoRows
      /\ 0 + RowSum(w[1]) = RowSum(w[1])
      /\ RowSum(w[1]) + RowSum(w[2]) + RowSum(w[3]) \in WindowTotal
  BY <1>3, ThreeRows, Zenon
<1>5. /\ AddRow(0, w[1]) = 0 + RowSum(w[1])
      /\ AddRow16(0, w[1]) = 0 + RowSum(w[1])
  BY <1>1, <1>2, AddRowExact, Zenon
<1>6. /\ AddRow(RowSum(w[1]), w[2]) = RowSum(w[1]) + RowSum(w[2])
      /\ AddRow16(RowSum(w[1]), w[2]) = RowSum(w[1]) + RowSum(w[2])
  BY <1>1, <1>4, AddRowExact, Zenon
<1>7. /\ AddRow(RowSum(w[1]) + RowSum(w[2]), w[3])
            = RowSum(w[1]) + RowSum(w[2]) + RowSum(w[3])
      /\ AddRow16(RowSum(w[1]) + RowSum(w[2]), w[3])
            = RowSum(w[1]) + RowSum(w[2]) + RowSum(w[3])
  BY <1>1, <1>4, AddRowExact, Zenon
<1>8. w[2][2] \in Byte
  BY <1>1, RowPixels, Zenon
<1>9. RegionSum(w) = Sum(w)
  BY <1>4, <1>5, <1>6, <1>7, Zenon DEF RegionSum, Sum
<1>10. AddRow16(AddRow16(AddRow16(0, w[1]), w[2]), w[3]) = Sum(w)
  BY <1>4, <1>5, <1>6, <1>7, Zenon DEF Sum
<1>11. Sum(w) \in WindowTotal
  BY <1>4, Zenon DEF Sum
<1> QED
  BY <1>8, <1>9, <1>10, <1>11, Zenon

\* A pixel comes out white exactly when it is brighter than the mean of the nine
\* pixels around it: neither the 12-bit sum nor the 16-bit product wraps.
THEOREM WhiteIffBrighter ==
  ASSUME NEW w \in Window
  PROVE  DoComputation(w) = 255 <=> 9 * w[2][2] > Sum(w)
<1>1. NineTimes(w[2][2]) = 9 * w[2][2]
  BY RegionSumExact DEF NineTimes, Byte
<1> QED
  BY <1>1, RegionSumExact DEF DoComputation, Byte, WindowTotal

\* Hardware and software filter disagree exactly on the pixels that equal the mean.
THEOREM SoftwareAgrees ==
  ASSUME NEW w \in Window
  PROVE  DoComputation(w) = Software(w) <=> Sum(w) # 9 * w[2][2]
<1>1. Software(w) = IF Sum(w) > 9 * w[2][2] THEN 0 ELSE 255
  BY RegionSumExact DEF Software
<1>2. DoComputation(w) = IF 9 * w[2][2] > Sum(w) THEN 255 ELSE 0
  BY WhiteIffBrighter DEF DoComputation
<1>3. Sum(w) \in Int /\ w[2][2] \in Int
  <2>1. Sum(w) \in WindowTotal /\ w[2][2] \in Byte
    BY RegionSumExact, Zenon
  <2>2. Byte \subseteq Int /\ WindowTotal \subseteq Int
    BY DEF Byte, WindowTotal
  <2> QED
    BY <2>1, <2>2, Zenon
<1>4. CASE Sum(w) > 9 * w[2][2]
  <2>1. DoComputation(w) = 0 /\ Software(w) = 0
    BY <1>1, <1>2, <1>3, <1>4
  <2> QED
    BY <1>3, <1>4, <2>1
<1>5. CASE Sum(w) < 9 * w[2][2]
  <2>1. DoComputation(w) = 255 /\ Software(w) = 255
    BY <1>1, <1>2, <1>3, <1>5
  <2> QED
    BY <1>3, <1>5, <2>1
<1>6. CASE Sum(w) = 9 * w[2][2]
  <2>1. DoComputation(w) = 0 /\ Software(w) = 255
    BY <1>1, <1>2, <1>3, <1>6
  <2> QED
    BY <1>6, <2>1
<1> QED
  BY <1>3, <1>4, <1>5, <1>6

\* Whichever part moves, the window slides as the arithmetic's module says or rests.
LEMMA WindowMoves == PathsSpec => Spec
<1>1. [PathsNext]_vars => [Next]_window
  BY DEF PathsNext, Reading, Writing, Filtering, Computing, vars
<1>2. PathsInit => Init
  BY DEF PathsInit
<1>3. QED
  BY <1>1, <1>2, PTL DEF PathsSpec, Spec

\* The window always holds pixels.
THEOREM WindowTyped == Spec => []TypeOK
<1>1. Init => TypeOK
  BY PixelsAssumption DEF Init, TypeOK
<1>2. TypeOK /\ [Next]_window => TypeOK'
  BY DEF TypeOK, Next, Slide
<1> QED
  BY <1>1, <1>2, PTL DEF Spec

\* Every window the filter sees is decided by the mean.
THEOREM AlwaysBrighterThanMean == PathsSpec => []BrighterThanMean
<1>1. TypeOK => BrighterThanMean
  BY WhiteIffBrighter DEF TypeOK, Window, BrighterThanMean
<1> QED
  BY <1>1, WindowTyped, WindowMoves, PTL

\* Every window the filter sees is decided as in software, ties apart.
THEOREM AlwaysAsSoftware == PathsSpec => []DiffersOnTiesOnly
<1>1. TypeOK => DiffersOnTiesOnly
  BY SoftwareAgrees DEF TypeOK, Window, DiffersOnTiesOnly
<1> QED
  BY <1>1, WindowTyped, WindowMoves, PTL

(***************************************************************************)
(* Words of a burst: n of them, the first first.                           *)
(***************************************************************************)
UpTo(n) == [k \in 1..n |-> k]

LEMMA UpToSeq ==
  ASSUME NEW n \in Nat
  PROVE  UpTo(n) \in Seq(Nat) /\ Len(UpTo(n)) = n
<1>1. UpTo(n) \in [1..n -> Nat]
  BY DEF UpTo
<1>2. QED
  BY <1>1

LEMMA UpToZero == UpTo(0) = <<>>
<1>1. UpTo(0) \in Seq(Nat) /\ Len(UpTo(0)) = 0
  BY UpToSeq
<1>2. QED
  BY <1>1, EmptySeq

LEMMA UpToNext ==
  ASSUME NEW n \in Nat
  PROVE  Append(UpTo(n), n + 1) = UpTo(n + 1)
<1> DEFINE s == Append(UpTo(n), n + 1)
           t == UpTo(n + 1)
<1>1. s \in Seq(Nat) /\ Len(s) = n + 1
  BY UpToSeq, AppendProperties
<1>2. t \in Seq(Nat) /\ Len(t) = n + 1
  BY UpToSeq
<1>3. ASSUME NEW k \in 1 .. n + 1 PROVE s[k] = t[k]
  <2>1. CASE k <= n
    <3>1. s[k] = UpTo(n)[k]
      BY <2>1, UpToSeq, AppendProperties
    <3>2. QED
      BY <2>1, <3>1 DEF UpTo
  <2>2. CASE k = n + 1
    <3>1. s[n + 1] = n + 1
      BY UpToSeq, AppendProperties
    <3>2. t[n + 1] = n + 1
      BY DEF UpTo
    <3>3. QED
      BY <2>2, <3>1, <3>2
  <2> HIDE DEF s, t
  <2>3. QED
    BY <2>1, <2>2
<1> HIDE DEF s, t
<1>4. s = t
  BY <1>1, <1>2, <1>3, SeqEqual
<1>5. QED
  BY <1>4 DEF s, t

LEMMA UpToConcat ==
  ASSUME NEW n \in Nat
  PROVE  UpTo(n) \o <<>> = UpTo(n) /\ UpTo(n) \o <<n + 1>> = UpTo(n + 1)
<1>1. UpTo(n) \in Seq(Nat)
  BY UpToSeq
<1>2. UpTo(n) \o <<>> = UpTo(n)
  BY <1>1, ConcatEmptySeq
<1>3. Append(UpTo(n), n + 1) = UpTo(n) \o <<n + 1>>
  BY <1>1, AppendIsConcat
<1>4. QED
  BY <1>2, <1>3, UpToNext

(***************************************************************************)
(* The reader.                                                             *)
(***************************************************************************)
ReaderFollows ==
  /\ reader.avm_address \in BurstAddress
  /\ reader.done <=> reader.state = "Idle"
  /\ reader.state = "Idle" => ~reader.avm_rd
  /\ reader.state = "Read" /\ ~reader.avm_rd => reader.count < BurstCount
  /\ reader.avm_rd => reader.count = 0

ReaderRegisters == Read!TypeOK /\ ReaderFollows

\* The FIFO and the word on its way to it are the first n words of the burst.
ReadSoFar(n) ==
  IF reader.row_wrreq THEN n > 0 /\ rfifo.words = UpTo(n - 1) /\ reader.row_data = n
                      ELSE rfifo.words = UpTo(n)

ReadInv ==
  /\ ReaderRegisters
  /\ sent \in 0..BurstCount
  /\ reader.state = "Read" =>
       /\ ordered /\ ~lost
       /\ reader.row_sclr <=> reader.avm_rd
       /\ reader.avm_rd => ~reader.row_wrreq
       /\ ~reader.avm_rd => reader.count = sent /\ ReadSoFar(sent)
  /\ reader.state = "Idle" =>
       /\ sent = BurstCount
       /\ ~lost /\ reader.row_sclr => ~ordered /\ ~reader.row_wrreq
       /\ ~lost /\ ~reader.row_sclr /\ ordered => ReadSoFar(BurstCount)
       /\ ~lost /\ ~reader.row_sclr /\ ~ordered => ReadSoFar(0)

LEMMA ReadInit == PathsInit => ReadInv
<1> SUFFICES ASSUME PathsInit PROVE ReadInv
  OBVIOUS
<1>1. /\ Read!Init(0) /\ rfifo = Read!Row!EmptyFifo /\ sent = BurstCount
      /\ ordered = FALSE /\ lost = FALSE
  BY DEF PathsInit, Read!RPInit
<1>2. ReaderRegisters
  BY <1>1, AddressAssumption, BurstAssumption DEF Read!Init, Read!TypeOK, ReaderRegisters, ReaderFollows
<1>3. rfifo = [words |-> <<>>, q |-> 0]
  BY <1>1 DEF Read!Row!EmptyFifo
<1>4. rfifo.words = UpTo(0)
  BY <1>3, UpToZero
<1>5. /\ reader.state = "Idle" /\ ~reader.row_wrreq /\ ~reader.row_sclr
  BY <1>1 DEF Read!Init
<1>6. sent \in 0..BurstCount
  BY <1>1, BurstAssumption
<1>7. ReadSoFar(0)
  BY <1>4, <1>5 DEF ReadSoFar
<1>8. QED
  BY <1>1, <1>2, <1>5, <1>6, <1>7 DEF ReadInv

\* One clock edge of the FIFO behind the reader.
LEMMA ReadFifoEdge ==
  ASSUME ReadInv, NEW n \in 0..BurstCount,
         reader.row_sclr \/ ReadSoFar(n)
  PROVE  Read!Row!Clocked(rfifo, reader.row_sclr, reader.row_wrreq, reader.row_data, FALSE).words
           = UpTo(IF reader.row_sclr THEN 0 ELSE n)
<1>1. CASE reader.row_sclr
  BY <1>1, UpToZero DEF Read!Row!Clocked, Read!Row!EmptyFifo
<1>2. CASE ~reader.row_sclr /\ ~reader.row_wrreq
  BY <1>2 DEF Read!Row!Clocked, ReadSoFar
<1>3. CASE ~reader.row_sclr /\ reader.row_wrreq
  <2>1. n - 1 \in Nat /\ rfifo.words = UpTo(n - 1) /\ reader.row_data = (n - 1) + 1
    BY <1>3 DEF ReadSoFar
  <2>2. Len(rfifo.words) = n - 1
    BY <2>1, UpToSeq
  <2>3. ~Read!Row!IsFull(rfifo)
    BY <2>1, <2>2, BurstAssumption, DepthAssumption DEF Read!Row!IsFull
  <2>4. Append(rfifo.words, reader.row_data) = UpTo(n)
    <3>1. Append(UpTo(n - 1), (n - 1) + 1) = UpTo((n - 1) + 1)
      BY <2>1, UpToNext, Zenon
    <3>2. (n - 1) + 1 = n
      OBVIOUS
    <3>3. QED
      BY <2>1, <3>1, <3>2
  <2>5. QED
    BY <1>3, <2>3, <2>4 DEF Read!Row!Clocked
<1>4. QED
  BY <1>1, <1>2, <1>3

\* A clock edge of the reader.
ReaderKeeps == reader'.avm_address = reader.avm_address
ReaderPushes(sclr, wrreq) == reader'.row_sclr = sclr /\ reader'.row_wrreq = wrreq

ReaderRests(enable) ==
  /\ reader.state = "Idle" /\ reader'.state = "Idle" /\ ~enable
  /\ ReaderPushes(FALSE, FALSE) /\ ReaderKeeps

ReaderStarts(enable, dummy_read, burst_address) ==
  /\ reader.state = "Idle" /\ reader'.state = "Read" /\ enable /\ ~dummy_read
  /\ reader'.avm_rd /\ ReaderPushes(TRUE, FALSE)
  /\ reader'.avm_address = burst_address

ReaderClears(enable, dummy_read) ==
  /\ reader.state = "Idle" /\ reader'.state = "Idle" /\ enable /\ dummy_read
  /\ ReaderPushes(TRUE, FALSE) /\ ReaderKeeps

ReaderTakes(beat, rddata) ==
  /\ reader.state = "Read" /\ beat /\ ~reader'.avm_rd
  /\ reader'.count = reader.count + 1
  /\ reader'.state = IF reader.count + 1 = BurstCount THEN "Idle" ELSE "Read"
  /\ ReaderPushes(FALSE, TRUE) /\ reader'.row_data = rddata /\ ReaderKeeps

ReaderWaits(beat) ==
  /\ reader.state = "Read" /\ reader'.state = "Read" /\ ~beat /\ ~reader'.avm_rd
  /\ reader'.count = reader.count
  /\ ReaderPushes(FALSE, FALSE) /\ ReaderKeeps

LEMMA ReaderMoves ==
  ASSUME ReaderRegisters, NEW enable \in BOOLEAN, NEW dummy_read \in BOOLEAN,
         NEW waitrequest \in BOOLEAN, NEW rddatavalid \in BOOLEAN,
         NEW burst_address \in BurstAddress, NEW rddata,
         rddatavalid => ~reader.avm_rd,
         Read!Clock(enable, dummy_read, burst_address, waitrequest, rddatavalid, rddata)
  PROVE  /\ ReaderRegisters'
         /\ \/ ReaderRests(enable)
            \/ ReaderStarts(enable, dummy_read, burst_address)
            \/ ReaderClears(enable, dummy_read)
            \/ ReaderTakes(Read!Beat(waitrequest, rddatavalid), rddata)
            \/ ReaderWaits(Read!Beat(waitrequest, rddatavalid))
<1> USE BurstAssumption, AddressAssumption
        DEF ReaderRegisters, ReaderFollows, Read!TypeOK, ReaderKeeps, ReaderPushes
<1>1. CASE Read!Idle(enable)
  BY <1>1 DEF Read!Idle, ReaderRests
<1>2. CASE Read!StartBurst(enable, dummy_read, burst_address)
  <2>1. reader.state = "Idle" /\ enable /\ ~dummy_read /\ reader.row_data = reader'.row_data
        /\ reader'.state = "Read" /\ reader'.count = 0 /\ reader'.done = FALSE
        /\ reader'.avm_rd = TRUE /\ reader'.avm_beginburst = TRUE
        /\ reader'.avm_address = burst_address
        /\ reader'.row_wrreq = FALSE /\ reader'.row_sclr = TRUE
    BY <1>2 DEF Read!StartBurst
  <2>2. Read!TypeOK'
    BY <1>2 DEF Read!StartBurst
  <2>3. ReaderFollows'
    BY <2>1
  <2>4. QED
    BY <2>1, <2>2, <2>3 DEF ReaderStarts
<1>3. CASE Read!DummyRead(enable, dummy_read)
  <2>1. reader.state = "Idle" /\ enable /\ dummy_read
        /\ reader'.state = "Idle" /\ reader'.count = 0 /\ reader'.done = TRUE
        /\ reader'.avm_rd = reader.avm_rd /\ reader'.avm_beginburst = reader.avm_beginburst
        /\ reader'.avm_address = reader.avm_address
        /\ reader'.row_wrreq = FALSE /\ reader'.row_sclr = TRUE
    BY <1>3 DEF Read!DummyRead
  <2>2. Read!TypeOK'
    BY <1>3 DEF Read!DummyRead
  <2>3. ReaderFollows'
    BY <2>1
  <2>4. QED
    BY <2>1, <2>2, <2>3 DEF ReaderClears
<1>4. CASE Read!ReadBeat(waitrequest, rddatavalid, rddata)
  <2>1. Read!Beat(waitrequest, rddatavalid) /\ ~reader.avm_rd
    BY <1>4 DEF Read!ReadBeat, Read!Beat
  <2>2. /\ Read!Next7(reader.count) = reader.count + 1
        /\ Read!LastBeat(reader.count) <=> reader.count + 1 = BurstCount
    BY <1>4, <2>1 DEF Read!ReadBeat, Read!Next7, Read!LastBeat
  <2>3. ReaderTakes(Read!Beat(waitrequest, rddatavalid), rddata)
    BY <1>4, <2>1, <2>2 DEF Read!ReadBeat, ReaderTakes
  <2>4. ReaderRegisters'
    <3>1. /\ reader.state = "Read" /\ ~reader.done
          /\ reader'.state = IF reader.count + 1 = BurstCount THEN "Idle" ELSE "Read"
          /\ reader'.count = reader.count + 1
          /\ reader'.done = IF reader.count + 1 = BurstCount THEN TRUE ELSE reader.done
          /\ reader'.avm_rd = FALSE /\ reader'.avm_beginburst = FALSE
          /\ reader'.avm_address = reader.avm_address
          /\ reader'.row_wrreq = TRUE /\ reader'.row_sclr = FALSE
      BY <1>4, <2>1, <2>2 DEF Read!ReadBeat
    <3>2. Read!TypeOK'
      <4>1. CASE Read!LastBeat(reader.count)
        BY <1>4, <2>1, <2>2, <4>1 DEF Read!ReadBeat
      <4>2. CASE ~Read!LastBeat(reader.count)
        BY <1>4, <2>1, <2>2, <4>2 DEF Read!ReadBeat
      <4>3. QED
        BY <4>1, <4>2
    <3>3. ReaderFollows'
      BY <2>1, <3>1
    <3>4. QED
      BY <3>2, <3>3
  <2>5. QED
    BY <2>3, <2>4
<1>5. CASE Read!ReadWait(waitrequest, rddatavalid)
  BY <1>5 DEF Read!ReadWait, ReaderWaits
<1>6. QED
  BY <1>1, <1>2, <1>3, <1>4, <1>5 DEF Read!Clock

\* One clock edge of the reader's part keeps the invariant, and the handshake.
LEMMA ReadTick ==
  ASSUME ReadInv, NEW enable \in BOOLEAN, NEW dummy_read \in BOOLEAN,
         NEW waitrequest \in BOOLEAN, NEW rddatavalid \in BOOLEAN,
         NEW burst_address \in BurstAddress,
         Read!Tick(enable, dummy_read, burst_address, waitrequest, rddatavalid)
  PROVE  /\ ReadInv'
         /\ Read!Handshake!Clock(enable, dummy_read, burst_address)
<1> DEFINE beat == Read!Beat(waitrequest, rddatavalid)
           g == Read!Row!Clocked(rfifo, reader.row_sclr, reader.row_wrreq, reader.row_data, FALSE)
<1>1. /\ enable => reader.done
      /\ rddatavalid => sent < BurstCount /\ ~reader.avm_rd
      /\ beat => rddatavalid
      /\ rfifo' = g
      /\ sent' = IF reader.avm_rd THEN 0 ELSE IF beat THEN sent + 1 ELSE sent
      /\ ordered' = (IF enable THEN ~dummy_read ELSE ordered)
      /\ lost' = (lost /\ ~enable)
  BY DEF Read!Tick, Read!Beat
<1> HIDE DEF beat, g
<1>2. ReaderRegisters /\ ReaderRegisters'
      /\ \/ ReaderRests(enable)
         \/ ReaderStarts(enable, dummy_read, burst_address)
         \/ ReaderClears(enable, dummy_read)
         \/ ReaderTakes(beat, sent + 1)
         \/ ReaderWaits(beat)
  BY <1>1, ReaderMoves DEF ReadInv, Read!Tick, beat
<1>3. /\ reader.done <=> reader.state = "Idle"
      /\ reader'.done <=> reader'.state = "Idle"
      /\ reader.done \in BOOLEAN /\ reader'.done \in BOOLEAN
      /\ reader.state \in {"Idle", "Read"} /\ reader.state = "Idle" => ~reader.avm_rd
      /\ BurstCount \in 2..127
  BY <1>2, BurstAssumption DEF ReaderRegisters, ReaderFollows, Read!TypeOK
<1>4. /\ ReaderRegisters' /\ sent \in 0..BurstCount
      /\ reader.row_sclr \in BOOLEAN /\ reader.row_wrreq \in BOOLEAN
  BY <1>2 DEF ReadInv, ReaderRegisters, Read!TypeOK
<1>5. \A n \in 0..BurstCount :
        reader.row_sclr \/ ReadSoFar(n) => rfifo'.words = UpTo(IF reader.row_sclr THEN 0 ELSE n)
  BY <1>1, ReadFifoEdge DEF g
<1>6. CASE ReaderRests(enable)
  <2>1. /\ reader.state = "Idle" /\ reader'.state = "Idle" /\ ~enable
        /\ sent = BurstCount /\ ~reader.avm_rd /\ ~beat
        /\ ~reader'.row_sclr /\ ~reader'.row_wrreq /\ reader'.avm_address = reader.avm_address
    BY <1>1, <1>3, <1>6 DEF ReaderRests, ReaderPushes, ReaderKeeps, ReadInv
  <2>2. sent' = BurstCount /\ ordered' = ordered /\ (lost' <=> lost)
    BY <1>1, <2>1
  <2>3. ASSUME ~lost, ordered PROVE rfifo'.words = UpTo(BurstCount)
    <3>1. ~reader.row_sclr /\ ReadSoFar(BurstCount)
      BY <2>1, <2>3 DEF ReadInv
    <3>2. QED
      BY <1>3, <1>5, <3>1
  <2>4. ASSUME ~lost, ~ordered PROVE rfifo'.words = UpTo(0)
    <3>1. reader.row_sclr \/ ReadSoFar(0)
      BY <2>1, <2>4 DEF ReadInv
    <3>2. QED
      BY <1>3, <1>5, <3>1
  <2>5. ReadInv'
    BY <1>3, <1>4, <2>1, <2>2, <2>3, <2>4 DEF ReadInv, ReadSoFar
  <2>6. Read!Handshake!Clock(enable, dummy_read, burst_address)
    BY <1>3, <2>1 DEF Read!Handshake!Clock, Read!Handshake!Rest, Read!Handshake!vars
  <2>7. QED
    BY <2>5, <2>6
<1>7. CASE ReaderStarts(enable, dummy_read, burst_address)
  <2>1. /\ reader.state = "Idle" /\ reader'.state = "Read" /\ enable /\ ~dummy_read
        /\ reader'.avm_rd /\ reader'.row_sclr /\ ~reader'.row_wrreq
        /\ reader'.avm_address = burst_address
        /\ sent = BurstCount /\ ~reader.avm_rd /\ ~beat
    BY <1>1, <1>3, <1>7 DEF ReaderStarts, ReaderPushes, ReadInv
  <2>2. sent' = BurstCount /\ ordered' /\ ~lost'
    BY <1>1, <2>1
  <2>3. ReadInv'
    BY <1>3, <1>4, <2>1, <2>2 DEF ReadInv
  <2>4. Read!Handshake!Clock(enable, dummy_read, burst_address)
    BY <1>3, <2>1 DEF Read!Handshake!Clock, Read!Handshake!Accept
  <2>5. QED
    BY <2>3, <2>4
<1>8. CASE ReaderClears(enable, dummy_read)
  <2>1. /\ reader.state = "Idle" /\ reader'.state = "Idle" /\ enable /\ dummy_read
        /\ reader'.row_sclr /\ ~reader'.row_wrreq /\ reader'.avm_address = reader.avm_address
        /\ sent = BurstCount /\ ~reader.avm_rd /\ ~beat
    BY <1>1, <1>3, <1>8 DEF ReaderClears, ReaderPushes, ReaderKeeps, ReadInv
  <2>2. sent' = BurstCount /\ ~ordered' /\ ~lost'
    BY <1>1, <2>1
  <2>3. ReadInv'
    BY <1>3, <1>4, <2>1, <2>2 DEF ReadInv
  <2>4. Read!Handshake!Clock(enable, dummy_read, burst_address)
    BY <1>3, <2>1 DEF Read!Handshake!Clock, Read!Handshake!Rest, Read!Handshake!vars
  <2>5. QED
    BY <2>3, <2>4
<1>9. CASE ReaderTakes(beat, sent + 1)
  <2>1. /\ reader.state = "Read" /\ beat /\ ~reader.avm_rd /\ ~enable
        /\ reader.count = sent /\ ReadSoFar(sent) /\ ordered /\ ~lost /\ ~reader.row_sclr
        /\ ~reader'.avm_rd /\ reader'.count = sent + 1
        /\ reader'.state = IF sent + 1 = BurstCount THEN "Idle" ELSE "Read"
        /\ ~reader'.row_sclr /\ reader'.row_wrreq /\ reader'.row_data = sent + 1
        /\ reader'.avm_address = reader.avm_address
    BY <1>1, <1>3, <1>4, <1>9 DEF ReaderTakes, ReaderPushes, ReaderKeeps, ReadInv
  <2>2. sent' = sent + 1 /\ ordered' /\ ~lost' /\ sent < BurstCount
    BY <1>1, <2>1
  <2>3. rfifo'.words = UpTo(sent)
    BY <1>4, <1>5, <2>1
  <2>4. ReadSoFar(sent)' /\ sent' \in 0..BurstCount
    <3>1. (sent + 1) - 1 = sent /\ sent + 1 > 0 /\ sent + 1 \in 0..BurstCount
      BY <1>3, <1>4, <2>2
    <3>2. QED
      BY <2>1, <2>2, <2>3, <3>1 DEF ReadSoFar
  <2>5. ReadInv'
    <3>1. CASE sent + 1 = BurstCount
      BY <1>3, <1>4, <2>1, <2>2, <2>4, <3>1 DEF ReadInv
    <3>2. CASE sent + 1 # BurstCount
      BY <1>3, <1>4, <2>1, <2>2, <2>4, <3>2 DEF ReadInv
    <3>3. QED
      BY <3>1, <3>2
  <2>6. Read!Handshake!Clock(enable, dummy_read, burst_address)
    BY <1>3, <2>1 DEF Read!Handshake!Clock, Read!Handshake!Work
  <2>7. QED
    BY <2>5, <2>6
<1>10. CASE ReaderWaits(beat)
  <2>1. /\ reader.state = "Read" /\ reader'.state = "Read" /\ ~beat /\ ~enable
        /\ ordered /\ ~lost /\ reader'.count = reader.count
        /\ ~reader'.avm_rd /\ ~reader'.row_sclr /\ ~reader'.row_wrreq
        /\ reader'.avm_address = reader.avm_address
    BY <1>1, <1>3, <1>10 DEF ReaderWaits, ReaderPushes, ReaderKeeps, ReadInv
  <2>2. ordered' /\ ~lost'
    BY <1>1, <2>1
  <2>3. sent' \in 0..BurstCount /\ reader.count = sent' /\ rfifo'.words = UpTo(sent')
    <3>1. CASE reader.avm_rd
      <4>1. reader.row_sclr /\ sent' = 0 /\ reader.count = 0
        BY <1>1, <1>2, <2>1, <3>1 DEF ReadInv, ReaderRegisters, ReaderFollows
      <4>2. QED
        BY <1>3, <1>5, <4>1
    <3>2. CASE ~reader.avm_rd
      <4>1. ~reader.row_sclr /\ sent' = sent /\ reader.count = sent /\ ReadSoFar(sent)
        BY <1>1, <1>4, <2>1, <3>2 DEF ReadInv
      <4>2. QED
        BY <1>4, <1>5, <4>1
    <3>3. QED
      BY <3>1, <3>2
  <2>4. ReadSoFar(sent)'
    BY <2>1, <2>3 DEF ReadSoFar
  <2>5. ReadInv'
    BY <1>4, <2>1, <2>2, <2>3, <2>4 DEF ReadInv
  <2>6. Read!Handshake!Clock(enable, dummy_read, burst_address)
    BY <1>3, <2>1 DEF Read!Handshake!Clock, Read!Handshake!Work
  <2>7. QED
    BY <2>5, <2>6
<1>11. QED
  BY <1>2, <1>6, <1>7, <1>8, <1>9, <1>10

\* A reset.
LEMMA ReadReset == ASSUME ReadInv, Read!ResetReader PROVE ReadInv' /\ Read!Handshake!Reset
<1>1. /\ reader'.state = "Idle" /\ ~reader'.avm_rd /\ reader'.done
      /\ reader'.avm_address = reader.avm_address
      /\ sent' = BurstCount /\ lost'
  BY DEF Read!ResetReader, Read!Reset, ReadInv, ReaderRegisters, Read!TypeOK
<1>2. Read!TypeOK'
  BY DEF Read!ResetReader, Read!Reset, ReadInv, ReaderRegisters, Read!TypeOK
<1>3. ReaderFollows'
  BY <1>1 DEF ReadInv, ReaderRegisters, ReaderFollows
<1>4. ReadInv'
  BY <1>1, <1>2, <1>3, BurstAssumption DEF ReadInv, ReaderRegisters
<1>5. Read!Handshake!Reset
  BY <1>1 DEF Read!ResetReader, Read!Reset, ReadInv, ReaderRegisters, Read!TypeOK, Read!Handshake!Reset
<1>6. QED
  BY <1>4, <1>5

\* The reader's part, whichever part moves.
LEMMA ReadStep ==
  ASSUME ReadInv, [PathsNext]_vars
  PROVE  ReadInv' /\ [Read!Handshake!Next]_(Read!Handshake!vars)
<1>1. CASE Reading /\ Read!Next
  <2>1. CASE Read!ResetReader
    BY <2>1, ReadReset DEF Read!Handshake!Next
  <2>2. CASE \E enable, dummy_read, waitrequest, rddatavalid \in BOOLEAN,
                burst_address \in BurstAddress :
               Read!Tick(enable, dummy_read, burst_address, waitrequest, rddatavalid)
    BY <2>2, ReadTick DEF Read!Handshake!Next
  <2>3. QED
    BY <1>1, <2>1, <2>2 DEF Read!Next
<1>2. CASE UNCHANGED readVars
  BY <1>2 DEF readVars, ReadInv, ReaderRegisters, ReaderFollows, Read!TypeOK, ReadSoFar,
     Read!Handshake!vars
<1>3. QED
  BY <1>1, <1>2 DEF PathsNext, Writing, Filtering, Computing, vars

LEMMA ReadHolds == PathsSpec => []ReadInv
<1>1. ReadInv /\ [PathsNext]_vars => ReadInv'
  BY ReadStep
<1>2. QED
  BY <1>1, ReadInit, PTL DEF PathsSpec

\* A burst that has been read is in the FIFO.
LEMMA BurstRead == ReadInv => Read!RowComplete
<1> SUFFICES ASSUME ReadInv, reader.done, ~lost, ~reader.row_sclr
             PROVE  rfifo.words \o (IF reader.row_wrreq THEN <<reader.row_data>> ELSE <<>>)
                      = IF ordered THEN UpTo(BurstCount) ELSE <<>>
  BY DEF Read!RowComplete, UpTo
<1> DEFINE n == IF ordered THEN BurstCount ELSE 0
<1>1. n \in Nat /\ ReadSoFar(n)
  BY BurstAssumption DEF ReadInv, ReaderRegisters, ReaderFollows
<1>2. UpTo(n) = IF ordered THEN UpTo(BurstCount) ELSE <<>>
  BY UpToZero
<1> HIDE DEF n
<1>3. CASE ~reader.row_wrreq
  BY <1>1, <1>2, <1>3, UpToConcat DEF ReadSoFar
<1>4. CASE reader.row_wrreq
  <2>1. n - 1 \in Nat /\ rfifo.words = UpTo(n - 1) /\ reader.row_data = (n - 1) + 1
    BY <1>1, <1>4 DEF ReadSoFar
  <2>2. UpTo(n - 1) \o <<(n - 1) + 1>> = UpTo((n - 1) + 1)
    BY <2>1, UpToConcat
  <2>3. (n - 1) + 1 = n
    BY <1>1
  <2>4. QED
    BY <1>2, <1>4, <2>1, <2>2, <2>3
<1>5. QED
  BY <1>3, <1>4

LEMMA ReaderImplements == PathsSpec => Read!ImplementsWorker
<1>1. PathsInit => Read!Handshake!Init
  BY AddressAssumption DEF PathsInit, Read!RPInit, Read!Init, Read!Handshake!Init
<1>2. ReadInv /\ [PathsNext]_vars => [Read!Handshake!Next]_(Read!Handshake!vars)
  BY ReadStep
<1>3. QED
  BY <1>1, <1>2, ReadHolds, PTL DEF PathsSpec, Read!ImplementsWorker, Read!Handshake!Spec

(***************************************************************************)
(* The writer.                                                             *)
(***************************************************************************)
\* The words of the row from word c on.
From(c) == [k \in 1 .. BurstCount + 1 - c |-> c + k - 1]

LEMMA FromWhole == From(1) = UpTo(BurstCount)
<1>1. BurstCount \in Nat /\ BurstCount + 1 - 1 = BurstCount
  BY BurstAssumption
<1>2. From(1) = [k \in 1..BurstCount |-> 1 + k - 1]
  BY <1>1 DEF From
<1>3. \A k \in 1..BurstCount : 1 + k - 1 = k
  OBVIOUS
<1>4. QED
  BY <1>2, <1>3 DEF UpTo

LEMMA FromHead ==
  ASSUME NEW c \in 1..BurstCount
  PROVE  /\ From(c) # <<>>
         /\ Head(From(c)) = c
         /\ Tail(From(c)) = From(c + 1)
<1> DEFINE s == From(c)
           t == From(c + 1)
<1>1. BurstCount \in Nat /\ BurstCount + 1 - c \in Nat /\ BurstCount + 1 - (c + 1) \in Nat
  BY BurstAssumption
<1>2. s \in [1 .. BurstCount + 1 - c -> Nat] /\ t \in [1 .. BurstCount + 1 - (c + 1) -> Nat]
  BY <1>1 DEF From
<1>3. s \in Seq(Nat) /\ Len(s) = BurstCount + 1 - c
  BY <1>1, <1>2
<1>4. t \in Seq(Nat) /\ Len(t) = BurstCount + 1 - (c + 1)
  BY <1>1, <1>2
<1>5. Len(s) > 0 /\ Len(t) = Len(s) - 1
  <2>1. BurstCount + 1 - c > 0 /\ BurstCount + 1 - (c + 1) = (BurstCount + 1 - c) - 1
    BY <1>1
  <2>2. QED
    BY <1>3, <1>4, <2>1
<1>6. s[1] = c
  <2>1. 1 \in 1 .. BurstCount + 1 - c /\ c + 1 - 1 = c
    BY <1>1
  <2>2. QED
    BY <2>1 DEF From
<1>7. \A k \in 1 .. Len(t) : t[k] = s[k + 1]
  <2>1. TAKE k \in 1 .. Len(t)
  <2>2. k \in 1 .. BurstCount + 1 - (c + 1) /\ k + 1 \in 1 .. BurstCount + 1 - c
    BY <1>1, <1>4
  <2>3. t[k] = (c + 1) + k - 1 /\ s[k + 1] = c + (k + 1) - 1
    BY <2>2 DEF From
  <2>4. QED
    BY <2>2, <2>3
<1> HIDE DEF s, t
<1>8. s # <<>>
  BY <1>3, <1>5, EmptySeq
<1>9. Head(s) = c
  BY <1>3, <1>6, <1>8, HeadTailProperties
<1>10. Tail(s) \in Seq(Nat) /\ Len(Tail(s)) = Len(s) - 1
       /\ \A k \in 1 .. Len(Tail(s)) : Tail(s)[k] = s[k + 1]
  BY <1>3, <1>8, HeadTailProperties
<1>11. Tail(s) = t
  BY <1>4, <1>5, <1>7, <1>10, SeqEqual
<1>12. QED
  BY <1>8, <1>9, <1>11 DEF s, t

WriterFollows ==
  /\ writer.avm_address \in BurstAddress
  /\ writer.done <=> writer.state = "Idle"
  /\ writer.state \in {"HasReq", "HasData"} => writer.count \in 1 .. BurstCount - 1
  /\ writer.avm_wr <=> writer.state \in {"HasReq", "WaitDone"}

WriterRegisters == Write!TypeOK /\ WriterFollows

\* What the bus has taken, what it is shown, and what is left in the FIFO.
RowSoFar ==
  CASE writer.state = "HasReq"   -> /\ taken = UpTo(writer.count - 1)
                                    /\ writer.avm_wrdata = writer.count
                                    /\ wfifo.words = From(writer.count)
    [] writer.state = "HasData"  -> /\ taken = UpTo(writer.count)
                                    /\ wfifo.words = From(writer.count + 1)
    [] writer.state = "WaitDone" -> /\ taken = UpTo(BurstCount - 1)
                                    /\ writer.avm_wrdata = BurstCount
    [] writer.state = "WaitDoneNext" -> taken = UpTo(BurstCount)
    [] OTHER                     -> taken = UpTo(0) \/ taken = UpTo(BurstCount)

WriteInv ==
  /\ WriterRegisters
  /\ writer.state = "HasReq" => writer.ofifo_rdreq
  /\ writer.ofifo_rdreq => writer.state = "HasReq" \/ (writer.state = "Idle" /\ filling = 0)
  /\ filling \in 0 .. BurstCount + 1
  /\ filling > 0 => writer.state = "Idle" /\ wfifo.words = UpTo(filling - 1)
  /\ RowSoFar

LEMMA WriteInit == PathsInit => WriteInv
<1> SUFFICES ASSUME PathsInit PROVE WriteInv
  OBVIOUS
<1>1. Write!Init(0) /\ filling = 0 /\ taken = <<>>
  BY DEF PathsInit, Write!WPInit
<1>2. WriterRegisters
  BY <1>1, AddressAssumption, BurstAssumption
     DEF Write!Init, Write!TypeOK, WriterRegisters, WriterFollows
<1>3. writer.state = "Idle" /\ ~writer.ofifo_rdreq
  BY <1>1 DEF Write!Init
<1>4. RowSoFar
  BY <1>1, <1>3, UpToZero DEF RowSoFar
<1>5. filling \in 0 .. BurstCount + 1 /\ ~(filling > 0)
  BY <1>1, BurstAssumption
<1>6. QED
  BY <1>2, <1>3, <1>4, <1>5 DEF WriteInv

\* A clock edge of the writer.
WriterKeeps == writer'.avm_address = writer.avm_address

WriterRests(enable) ==
  /\ writer.state = "Idle" /\ writer'.state = "Idle" /\ ~enable
  /\ ~writer'.ofifo_rdreq /\ WriterKeeps

WriterStarts(enable, ofifo_q, burst_address) ==
  /\ writer.state = "Idle" /\ writer'.state = "HasReq" /\ enable
  /\ writer'.count = 1 /\ writer'.avm_wrdata = ofifo_q /\ writer'.ofifo_rdreq
  /\ writer'.avm_address = burst_address

WordTaken ==
  /\ writer.state = "HasReq" /\ writer'.state = "HasData"
  /\ writer'.count = writer.count /\ ~writer'.ofifo_rdreq /\ WriterKeeps

WordWaits ==
  /\ writer.state = "HasData" /\ writer'.state = "HasData"
  /\ writer'.count = writer.count /\ writer'.ofifo_rdreq = writer.ofifo_rdreq /\ WriterKeeps

WordShown(ofifo_q) ==
  /\ writer.state = "HasData" /\ writer.count + 1 # BurstCount /\ writer'.state = "HasReq"
  /\ writer'.count = writer.count + 1 /\ writer'.avm_wrdata = ofifo_q
  /\ writer'.ofifo_rdreq /\ WriterKeeps

LastShown(ofifo_q) ==
  /\ writer.state = "HasData" /\ writer.count + 1 = BurstCount /\ writer'.state = "WaitDone"
  /\ writer'.avm_wrdata = ofifo_q /\ ~writer'.ofifo_rdreq /\ WriterKeeps

LastTaken ==
  /\ writer.state = "WaitDone" /\ writer'.state = "WaitDoneNext"
  /\ writer'.ofifo_rdreq = writer.ofifo_rdreq /\ WriterKeeps

WriterEnds ==
  /\ writer.state = "WaitDoneNext" /\ writer'.state \in {"WaitDoneNext", "Idle"}
  /\ writer'.ofifo_rdreq = writer.ofifo_rdreq /\ WriterKeeps

LEMMA WriterMoves ==
  ASSUME WriterRegisters, NEW enable \in BOOLEAN, NEW waitrequest \in BOOLEAN,
         NEW burst_address \in BurstAddress, NEW ofifo_q,
         Write!Clock(enable, burst_address, waitrequest, ofifo_q)
  PROVE  /\ WriterRegisters'
         /\ \/ WriterRests(enable) \/ WriterStarts(enable, ofifo_q, burst_address)
            \/ WordTaken \/ WordWaits \/ WordShown(ofifo_q) \/ LastShown(ofifo_q)
            \/ LastTaken \/ WriterEnds
<1> USE BurstAssumption, AddressAssumption
        DEF WriterRegisters, WriterFollows, Write!TypeOK, WriterKeeps
<1>1. CASE Write!Idle(enable)
  <2>1. WriterRests(enable)
    BY <1>1 DEF Write!Idle, WriterRests
  <2>2. WriterRegisters'
    BY <1>1 DEF Write!Idle
  <2>3. QED
    BY <2>1, <2>2
<1>2. CASE Write!StartBurst(enable, ofifo_q, burst_address)
  <2>1. WriterStarts(enable, ofifo_q, burst_address)
    BY <1>2 DEF Write!StartBurst, WriterStarts
  <2>2. WriterRegisters'
    BY <1>2 DEF Write!StartBurst
  <2>3. QED
    BY <2>1, <2>2
<1>3. CASE Write!HasReq
  <2>1. WordTaken
    BY <1>3 DEF Write!HasReq, WordTaken
  <2>2. WriterRegisters'
    BY <1>3 DEF Write!HasReq
  <2>3. QED
    BY <2>1, <2>2
<1>4. CASE Write!HasData(waitrequest, ofifo_q)
  <2>1. /\ writer.state = "HasData" /\ writer.count \in 1 .. BurstCount - 1
        /\ Write!Next7(writer.count) = writer.count + 1
        /\ Write!LastBeat(writer.count) <=> writer.count + 1 = BurstCount
    BY <1>4 DEF Write!HasData, Write!Next7, Write!LastBeat
  <2>2. CASE Write!LastBeat(writer.count)
    <3>1. LastShown(ofifo_q)
      BY <1>4, <2>1, <2>2 DEF Write!HasData, LastShown
    <3>2. WriterRegisters'
      BY <1>4, <2>1, <2>2 DEF Write!HasData
    <3>3. QED
      BY <3>1, <3>2
  <2>3. CASE ~Write!LastBeat(writer.count)
    <3>1. WordShown(ofifo_q)
      BY <1>4, <2>1, <2>3 DEF Write!HasData, WordShown
    <3>2. WriterRegisters'
      BY <1>4, <2>1, <2>3 DEF Write!HasData
    <3>3. QED
      BY <3>1, <3>2
  <2>4. QED
    BY <2>2, <2>3
<1>5. CASE Write!Stalled(waitrequest)
  <2>1. WordWaits
    BY <1>5 DEF Write!Stalled, WordWaits
  <2>2. WriterRegisters'
    BY <1>5 DEF Write!Stalled
  <2>3. QED
    BY <2>1, <2>2
<1>6. CASE Write!WaitDone
  <2>1. LastTaken
    BY <1>6 DEF Write!WaitDone, LastTaken
  <2>2. WriterRegisters'
    BY <1>6 DEF Write!WaitDone
  <2>3. QED
    BY <2>1, <2>2
<1>7. CASE Write!WaitDoneNext(waitrequest)
  <2>1. WriterEnds
    BY <1>7 DEF Write!WaitDoneNext, WriterEnds
  <2>2. WriterRegisters'
    BY <1>7 DEF Write!WaitDoneNext
  <2>3. QED
    BY <2>1, <2>2
<1>8. CASE Write!StalledDone(waitrequest)
  BY <1>8 DEF Write!StalledDone, WriterEnds
<1>9. QED
  BY <1>1, <1>2, <1>3, <1>4, <1>5, <1>6, <1>7, <1>8 DEF Write!Clock

\* One clock edge of the writer's part keeps the invariant, and the handshake.
LEMMA WriteTick ==
  ASSUME WriteInv, NEW enable \in BOOLEAN, NEW waitrequest \in BOOLEAN,
         NEW fill \in BOOLEAN, NEW burst_address \in BurstAddress,
         Write!Tick(enable, burst_address, waitrequest, fill)
  PROVE  /\ WriteInv'
         /\ Write!Handshake!Clock(enable, FALSE, burst_address)
<1> DEFINE q == Write!Row!Lookahead(wfifo)
           B == BurstCount
<1>1. /\ enable => writer.done /\ filling = B + 1
      /\ fill => writer.done /\ ~enable /\ filling # B + 1
      /\ wfifo' = Write!Row!Clocked(wfifo, fill /\ filling = 0, fill /\ filling > 0,
                                    filling, writer.ofifo_rdreq)
      /\ filling' = IF enable THEN 0 ELSE IF fill THEN filling + 1 ELSE filling
      /\ taken' = IF enable THEN <<>>
                  ELSE IF writer.avm_wr THEN Append(taken, writer.avm_wrdata) ELSE taken
  BY DEF Write!Tick, Write!Filled
<1>2. /\ WriterRegisters /\ WriterRegisters'
      /\ \/ WriterRests(enable) \/ WriterStarts(enable, q, burst_address)
         \/ WordTaken \/ WordWaits \/ WordShown(q) \/ LastShown(q)
         \/ LastTaken \/ WriterEnds
  BY WriterMoves DEF WriteInv, Write!Tick
<1> HIDE DEF q
<1>3. /\ writer.done <=> writer.state = "Idle"
      /\ writer'.done <=> writer'.state = "Idle"
      /\ writer.done \in BOOLEAN /\ writer'.done \in BOOLEAN
      /\ writer.avm_wr \in BOOLEAN /\ writer.ofifo_rdreq \in BOOLEAN
      /\ writer'.ofifo_rdreq \in BOOLEAN
      /\ writer.avm_wr <=> writer.state \in {"HasReq", "WaitDone"}
      /\ writer.state \in {"HasReq", "HasData"} => writer.count \in 1 .. B - 1
      /\ B \in 2..127
  BY <1>2, BurstAssumption DEF WriterRegisters, WriterFollows, Write!TypeOK
<1>4. /\ writer.state = "HasReq" => writer.ofifo_rdreq
      /\ writer.ofifo_rdreq => writer.state = "HasReq" \/ (writer.state = "Idle" /\ filling = 0)
      /\ filling \in 0 .. B + 1
      /\ filling > 0 => writer.state = "Idle" /\ wfifo.words = UpTo(filling - 1)
      /\ RowSoFar
  BY DEF WriteInv
\* While a burst goes on the FIFO is not filled.
<1>5. writer.state # "Idle" =>
        /\ ~enable /\ ~fill /\ filling = 0 /\ filling' = 0
        /\ taken' = IF writer.avm_wr THEN Append(taken, writer.avm_wrdata) ELSE taken
  BY <1>1, <1>3, <1>4
<1>6. writer.state # "Idle" =>
        wfifo'.words = IF writer.ofifo_rdreq /\ wfifo.words # <<>> THEN Tail(wfifo.words)
                                                                   ELSE wfifo.words
  BY <1>1, <1>3, <1>5 DEF Write!Row!Clocked, Write!Row!IsEmpty
<1>7. CASE WriterRests(enable)
  <2>1. /\ writer.state = "Idle" /\ writer'.state = "Idle" /\ ~enable /\ ~writer'.ofifo_rdreq
        /\ writer'.avm_address = writer.avm_address /\ ~writer.avm_wr
    BY <1>3, <1>7 DEF WriterRests, WriterKeeps
  <2>2. taken' = taken /\ RowSoFar'
    <3>1. taken' = taken
      BY <1>1, <2>1
    <3>2. QED
      BY <1>4, <2>1, <3>1 DEF RowSoFar
  <2>3. filling' \in 0 .. B + 1
    BY <1>1, <1>3, <1>4, <2>1
  <2>4. ASSUME filling' > 0 PROVE wfifo'.words = UpTo(filling' - 1)
    <3>1. CASE fill /\ filling = 0
      <4>1. wfifo'.words = <<>> /\ filling' = 1
        BY <1>1, <2>1, <3>1 DEF Write!Row!Clocked, Write!Row!EmptyFifo
      <4>2. QED
        BY <4>1, UpToZero
    <3>2. CASE fill /\ filling > 0
      <4>1. /\ filling' = filling + 1 /\ filling \in 1..B /\ ~writer.ofifo_rdreq
            /\ wfifo.words = UpTo(filling - 1) /\ filling - 1 \in Nat
        BY <1>1, <1>3, <1>4, <2>1, <3>2
      <4>2. Len(wfifo.words) = filling - 1
        BY <4>1, UpToSeq
      <4>3. ~Write!Row!IsFull(wfifo)
        BY <1>3, <4>1, <4>2, DepthAssumption DEF Write!Row!IsFull
      <4>4. wfifo'.words = Append(wfifo.words, filling)
        BY <1>1, <3>2, <4>1, <4>3 DEF Write!Row!Clocked
      <4>5. Append(UpTo(filling - 1), (filling - 1) + 1) = UpTo((filling - 1) + 1)
        BY <4>1, UpToNext, Zenon
      <4>6. (filling - 1) + 1 = filling /\ filling' - 1 = filling
        BY <4>1
      <4>7. QED
        BY <4>1, <4>4, <4>5, <4>6
    <3>3. CASE ~fill
      <4>1. filling' = filling /\ filling > 0 /\ ~writer.ofifo_rdreq
        BY <1>1, <1>4, <2>1, <2>4, <3>3
      <4>2. wfifo'.words = wfifo.words
        BY <1>1, <3>3, <4>1 DEF Write!Row!Clocked
      <4>3. QED
        BY <1>4, <4>1, <4>2
    <3>4. QED
      BY <1>4, <3>1, <3>2, <3>3
  <2>5. WriteInv'
    BY <1>2, <2>1, <2>2, <2>3, <2>4 DEF WriteInv
  <2>6. Write!Handshake!Clock(enable, FALSE, burst_address)
    BY <1>3, <2>1 DEF Write!Handshake!Clock, Write!Handshake!Rest, Write!Handshake!vars
  <2>7. QED
    BY <2>5, <2>6
<1>8. CASE WriterStarts(enable, q, burst_address)
  <2>1. /\ writer.state = "Idle" /\ writer'.state = "HasReq" /\ enable /\ ~fill
        /\ writer'.count = 1 /\ writer'.avm_wrdata = q /\ writer'.ofifo_rdreq
        /\ writer'.avm_address = burst_address
    BY <1>1, <1>8 DEF WriterStarts
  <2>2. /\ filling = B + 1 /\ filling' = 0 /\ taken' = <<>> /\ ~writer.ofifo_rdreq
    BY <1>1, <1>3, <1>4, <2>1
  <2>3. wfifo.words = From(1)
    <3>1. filling - 1 = B /\ filling > 0
      BY <1>3, <2>2
    <3>2. QED
      BY <1>4, <3>1, FromWhole
  <2>4. wfifo'.words = From(1)
    BY <1>1, <2>1, <2>2, <2>3 DEF Write!Row!Clocked
  <2>5. q = 1
    <3>1. 1 \in 1..B
      BY <1>3
    <3>2. From(1) # <<>> /\ Head(From(1)) = 1
      BY <3>1, FromHead
    <3>3. QED
      BY <2>3, <3>2 DEF q, Write!Row!Lookahead, Write!Row!IsEmpty
  <2>6. RowSoFar'
    <3>1. writer'.count - 1 = 0
      BY <2>1
    <3>2. QED
      BY <2>1, <2>2, <2>4, <2>5, <3>1, UpToZero DEF RowSoFar
  <2>7. WriteInv'
    BY <1>2, <1>3, <2>1, <2>2, <2>6 DEF WriteInv
  <2>8. Write!Handshake!Clock(enable, FALSE, burst_address)
    BY <1>3, <2>1 DEF Write!Handshake!Clock, Write!Handshake!Accept
  <2>9. QED
    BY <2>7, <2>8
<1>9. CASE WordTaken
  <2>1. /\ writer.state = "HasReq" /\ writer'.state = "HasData" /\ writer.avm_wr
        /\ writer'.count = writer.count /\ ~writer'.ofifo_rdreq
        /\ writer'.avm_address = writer.avm_address /\ writer.count \in 1 .. B - 1
    BY <1>3, <1>9 DEF WordTaken, WriterKeeps
  <2>2. /\ taken = UpTo(writer.count - 1) /\ writer.avm_wrdata = writer.count
        /\ wfifo.words = From(writer.count)
    BY <1>4, <2>1 DEF RowSoFar
  <2> DEFINE c == writer.count
  <2> HIDE DEF c
  <2>3. c \in 1..B /\ c - 1 \in Nat /\ (c - 1) + 1 = c
    BY <1>3, <2>1 DEF c
  <2>4. taken' = UpTo(c)
    <3>1. taken' = Append(UpTo(c - 1), c)
      BY <1>5, <2>1, <2>2 DEF c
    <3>2. Append(UpTo(c - 1), (c - 1) + 1) = UpTo((c - 1) + 1)
      BY <2>3, UpToNext
    <3>3. QED
      BY <2>3, <3>1, <3>2
  <2>5. wfifo'.words = From(c + 1)
    <3>1. wfifo.words # <<>> /\ Tail(wfifo.words) = From(c + 1)
      BY <2>2, <2>3, FromHead DEF c
    <3>2. wfifo'.words = Tail(wfifo.words)
      BY <1>4, <1>6, <2>1, <3>1
    <3>3. QED
      BY <3>1, <3>2
  <2>6. RowSoFar'
    BY <2>1, <2>4, <2>5 DEF RowSoFar, c
  <2>7. WriteInv'
    BY <1>2, <1>3, <1>5, <2>1, <2>6 DEF WriteInv
  <2>8. Write!Handshake!Clock(enable, FALSE, burst_address)
    BY <1>3, <1>5, <2>1 DEF Write!Handshake!Clock, Write!Handshake!Work
  <2>9. QED
    BY <2>7, <2>8
<1>10. CASE WordWaits
  <2>1. /\ writer.state = "HasData" /\ writer'.state = "HasData" /\ ~writer.avm_wr
        /\ writer'.count = writer.count /\ ~writer.ofifo_rdreq /\ ~writer'.ofifo_rdreq
        /\ writer'.avm_address = writer.avm_address
    BY <1>3, <1>4, <1>10 DEF WordWaits, WriterKeeps
  <2>2. taken' = taken /\ wfifo'.words = wfifo.words
    BY <1>5, <1>6, <2>1
  <2>3. RowSoFar'
    BY <1>4, <2>1, <2>2 DEF RowSoFar
  <2>4. WriteInv'
    BY <1>2, <1>3, <1>5, <2>1, <2>3 DEF WriteInv
  <2>5. Write!Handshake!Clock(enable, FALSE, burst_address)
    BY <1>3, <1>5, <2>1 DEF Write!Handshake!Clock, Write!Handshake!Work
  <2>6. QED
    BY <2>4, <2>5
\* The next word is the head of what is left.
<1>11. ASSUME writer.state = "HasData"
       PROVE  /\ taken' = UpTo(writer.count) /\ wfifo'.words = From(writer.count + 1)
              /\ q = writer.count + 1 /\ (writer.count + 1) - 1 = writer.count
  <2>1. /\ taken = UpTo(writer.count) /\ wfifo.words = From(writer.count + 1)
        /\ ~writer.avm_wr /\ ~writer.ofifo_rdreq /\ writer.count + 1 \in 1..B
        /\ (writer.count + 1) - 1 = writer.count
    BY <1>3, <1>4, <1>11 DEF RowSoFar
  <2>2. taken' = taken /\ wfifo'.words = wfifo.words
    BY <1>5, <1>6, <1>11, <2>1
  <2>3. wfifo.words # <<>> /\ Head(wfifo.words) = writer.count + 1
    BY <2>1, FromHead
  <2>4. QED
    BY <2>1, <2>2, <2>3 DEF q, Write!Row!Lookahead, Write!Row!IsEmpty
<1>12. CASE WordShown(q)
  <2>1. /\ writer.state = "HasData" /\ writer'.state = "HasReq"
        /\ writer'.count = writer.count + 1 /\ writer'.avm_wrdata = q
        /\ writer'.ofifo_rdreq /\ writer'.avm_address = writer.avm_address
    BY <1>12 DEF WordShown, WriterKeeps
  <2>2. RowSoFar'
    BY <1>11, <2>1 DEF RowSoFar
  <2>3. WriteInv'
    BY <1>2, <1>3, <1>5, <2>1, <2>2 DEF WriteInv
  <2>4. Write!Handshake!Clock(enable, FALSE, burst_address)
    BY <1>3, <1>5, <2>1 DEF Write!Handshake!Clock, Write!Handshake!Work
  <2>5. QED
    BY <2>3, <2>4
<1>13. CASE LastShown(q)
  <2>1. /\ writer.state = "HasData" /\ writer'.state = "WaitDone"
        /\ writer.count + 1 = B /\ writer'.avm_wrdata = q
        /\ ~writer'.ofifo_rdreq /\ writer'.avm_address = writer.avm_address
    BY <1>13 DEF LastShown, WriterKeeps
  <2>2. RowSoFar'
    BY <1>11, <2>1 DEF RowSoFar
  <2>3. WriteInv'
    BY <1>2, <1>3, <1>5, <2>1, <2>2 DEF WriteInv
  <2>4. Write!Handshake!Clock(enable, FALSE, burst_address)
    BY <1>3, <1>5, <2>1 DEF Write!Handshake!Clock, Write!Handshake!Work
  <2>5. QED
    BY <2>3, <2>4
<1>14. CASE LastTaken
  <2>1. /\ writer.state = "WaitDone" /\ writer'.state = "WaitDoneNext" /\ writer.avm_wr
        /\ ~writer'.ofifo_rdreq /\ writer'.avm_address = writer.avm_address
    BY <1>3, <1>4, <1>14 DEF LastTaken, WriterKeeps
  <2>2. taken' = UpTo(B)
    <3>1. taken' = Append(UpTo(B - 1), B)
      BY <1>4, <1>5, <2>1 DEF RowSoFar
    <3>2. B - 1 \in Nat /\ (B - 1) + 1 = B
      BY <1>3
    <3>3. Append(UpTo(B - 1), (B - 1) + 1) = UpTo((B - 1) + 1)
      BY <3>2, UpToNext
    <3>4. QED
      BY <3>1, <3>2, <3>3
  <2>3. RowSoFar'
    BY <2>1, <2>2 DEF RowSoFar
  <2>4. WriteInv'
    BY <1>2, <1>3, <1>5, <2>1, <2>3 DEF WriteInv
  <2>5. Write!Handshake!Clock(enable, FALSE, burst_address)
    BY <1>3, <1>5, <2>1 DEF Write!Handshake!Clock, Write!Handshake!Work
  <2>6. QED
    BY <2>4, <2>5
<1>15. CASE WriterEnds
  <2>1. /\ writer.state = "WaitDoneNext" /\ writer'.state \in {"WaitDoneNext", "Idle"}
        /\ ~writer.avm_wr
        /\ ~writer'.ofifo_rdreq /\ writer'.avm_address = writer.avm_address
    BY <1>3, <1>4, <1>15 DEF WriterEnds, WriterKeeps
  <2>2. taken' = UpTo(B)
    BY <1>4, <1>5, <2>1 DEF RowSoFar
  <2>3. RowSoFar'
    BY <2>1, <2>2 DEF RowSoFar
  <2>4. WriteInv'
    BY <1>2, <1>3, <1>5, <2>1, <2>3 DEF WriteInv
  <2>5. Write!Handshake!Clock(enable, FALSE, burst_address)
    BY <1>3, <1>5, <2>1 DEF Write!Handshake!Clock, Write!Handshake!Work
  <2>6. QED
    BY <2>4, <2>5
<1>16. QED
  BY <1>2, <1>7, <1>8, <1>9, <1>10, <1>12, <1>13, <1>14, <1>15

\* A reset.
LEMMA WriteReset == ASSUME WriteInv, Write!ResetWriter PROVE WriteInv' /\ Write!Handshake!Reset
<1>1. /\ writer'.state = "Idle" /\ writer'.done /\ ~writer'.avm_wr
      /\ writer'.avm_address = writer.avm_address
      /\ filling' = 0 /\ taken' = <<>>
  BY DEF Write!ResetWriter, Write!Reset, WriteInv, WriterRegisters, Write!TypeOK
<1>2. Write!TypeOK'
  BY DEF Write!ResetWriter, Write!Reset, WriteInv, WriterRegisters, Write!TypeOK
<1>3. WriterFollows'
  BY <1>1 DEF WriteInv, WriterRegisters, WriterFollows
<1>4. RowSoFar'
  BY <1>1, UpToZero DEF RowSoFar
<1>5. WriteInv'
  BY <1>1, <1>2, <1>3, <1>4, BurstAssumption DEF WriteInv, WriterRegisters
<1>6. Write!Handshake!Reset
  BY <1>1 DEF Write!ResetWriter, Write!Reset, WriteInv, WriterRegisters, Write!TypeOK,
     Write!Handshake!Reset
<1>7. QED
  BY <1>5, <1>6

\* The writer's part, whichever part moves.
LEMMA WriteStep ==
  ASSUME WriteInv, [PathsNext]_vars
  PROVE  WriteInv' /\ [Write!Handshake!Next]_(Write!Handshake!vars)
<1>1. CASE Writing /\ Write!Next
  <2>1. CASE Write!ResetWriter
    BY <2>1, WriteReset DEF Write!Handshake!Next
  <2>2. CASE \E enable, waitrequest, fill \in BOOLEAN, burst_address \in BurstAddress :
               Write!Tick(enable, burst_address, waitrequest, fill)
    BY <2>2, WriteTick DEF Write!Handshake!Next
  <2>3. QED
    BY <1>1, <2>1, <2>2 DEF Write!Next
<1>2. CASE UNCHANGED writeVars
  BY <1>2 DEF writeVars, WriteInv, WriterRegisters, WriterFollows, Write!TypeOK, RowSoFar,
     Write!Handshake!vars
<1>3. QED
  BY <1>1, <1>2 DEF PathsNext, Reading, Filtering, Computing, vars

LEMMA WriteHolds == PathsSpec => []WriteInv
<1>1. WriteInv /\ [PathsNext]_vars => WriteInv'
  BY WriteStep
<1>2. QED
  BY <1>1, WriteInit, PTL DEF PathsSpec

\* The bus has taken the first words of the row, all of them when the job has ended.
LEMMA BurstWritten == WriteInv => Write!RowTaken
<1> SUFFICES ASSUME WriteInv PROVE Write!RowTaken
  OBVIOUS
<1>1. PICK n \in 0..BurstCount : /\ taken = UpTo(n)
                                 /\ writer.state = "Idle" => n \in {0, BurstCount}
  <2>1. /\ writer.state \in {"Idle", "HasReq", "HasData", "WaitDone", "WaitDoneNext"}
        /\ writer.state \in {"HasReq", "HasData"} => writer.count \in 1 .. BurstCount - 1
        /\ BurstCount \in 2..127
    BY BurstAssumption DEF WriteInv, WriterRegisters, WriterFollows, Write!TypeOK
  <2>2. QED
    BY <2>1 DEF WriteInv, RowSoFar
<1>2. Len(taken) = n
  BY <1>1, UpToSeq
<1>3. writer.done <=> writer.state = "Idle"
  BY DEF WriteInv, WriterRegisters, WriterFollows
<1>4. QED
  BY <1>1, <1>2, <1>3 DEF Write!RowTaken, UpTo

LEMMA WriterImplements == PathsSpec => Write!ImplementsWorker
<1>1. PathsInit => Write!Handshake!Init
  BY AddressAssumption DEF PathsInit, Write!WPInit, Write!Init, Write!Handshake!Init
<1>2. WriteInv /\ [PathsNext]_vars => [Write!Handshake!Next]_(Write!Handshake!vars)
  BY WriteStep
<1>3. QED
  BY <1>1, <1>2, WriteHolds, PTL DEF PathsSpec, Write!ImplementsWorker, Write!Handshake!Spec

(***************************************************************************)
(* Both directions.                                                        *)
(***************************************************************************)
\* Every word of a burst gets to the other end once and in order (burst_reader.vhd,
\* burst_writer.vhd): whatever the bus refuses or delays, and also when the fifo is cleared
\* or a reset comes in between, a finished read leaves exactly its words in the row FIFO,
\* and of a finished write the bus has taken every word.
THEOREM BurstsIntact == PathsSpec => []BurstIntact
<1>1. ReadInv /\ WriteInv => BurstIntact
  BY BurstRead, BurstWritten DEF BurstIntact
<1>2. QED
  BY <1>1, ReadHolds, WriteHolds, PTL

\* Reader and writer implement the worker that finite_state_machine.vhd relies on: a job is
\* taken only when done, its address is latched and done falls in that edge; a dummy job
\* leaves done high, and while a job goes on the address stands (Worker).
THEOREM WorkersImplemented == PathsSpec => ImplementsWorker
  BY ReaderImplements, WriterImplements DEF ImplementsWorker

(***************************************************************************)
(* The filter.  A row FIFO that is filtered holds words of its row, the    *)
(* first ones again behind the last: it is turned once.                    *)
(***************************************************************************)
\* Words of a row.
W == Filter!RowWords

LEMMA RowSize == W \in Nat /\ W >= 3 /\ W <= Depth /\ ColSize = 4 * W
<1>1. ColSize \in Nat /\ ColSize % 4 = 0 /\ ColSize >= 12
  BY ColSizeAssumption
<1>2. ColSize = 4 * (ColSize \div 4) /\ ColSize \div 4 \in Nat
  BY <1>1
<1>3. W = ColSize \div 4 /\ W <= Depth
  BY DepthAssumption DEF W, Filter!RowWords
<1>4. QED
  BY <1>1, <1>2, <1>3

\* The first word follows the last.
Turn(n) == IF n <= W THEN n ELSE n - W

\* len words of row, of which the first have been taken out.
Held(row, first, len) == [k \in 1..len |-> row[Turn(first + k)]]

WordsOf(row) == {row[k] : k \in Int}

Bit(b) == IF b THEN 1 ELSE 0

LEMMA HeldSeq ==
  ASSUME NEW row, NEW first \in Nat, NEW len \in Nat
  PROVE  /\ Held(row, first, len) \in Seq(WordsOf(row))
         /\ Len(Held(row, first, len)) = len
<1>1. \A k \in 1..len : Turn(first + k) \in Int
  BY RowSize DEF Turn
<1>2. Held(row, first, len) \in [1..len -> WordsOf(row)]
  BY <1>1 DEF Held, WordsOf
<1>3. QED
  BY <1>2

LEMMA HeldNone == ASSUME NEW row PROVE Held(row, 0, 0) = <<>>
<1>1. Held(row, 0, 0) \in Seq(WordsOf(row)) /\ Len(Held(row, 0, 0)) = 0
  BY HeldSeq
<1>2. QED
  BY <1>1, EmptySeq

LEMMA HeldHead ==
  ASSUME NEW row, NEW first \in 0 .. W - 1, NEW len \in 1 .. W
  PROVE  /\ Held(row, first, len) # <<>>
         /\ Head(Held(row, first, len)) = row[first + 1]
         /\ Tail(Held(row, first, len)) = Held(row, first + 1, len - 1)
<1> DEFINE s == Held(row, first, len)
           t == Held(row, first + 1, len - 1)
           S == WordsOf(row)
<1>1. first \in Nat /\ first + 1 \in Nat /\ len \in Nat /\ len - 1 \in Nat
  BY RowSize
<1>2. s \in Seq(S) /\ Len(s) = len
  BY <1>1, HeldSeq
<1>3. t \in Seq(S) /\ Len(t) = len - 1
  BY <1>1, HeldSeq
<1>4. s[1] = row[first + 1]
  <2>1. 1 \in 1..len /\ Turn(first + 1) = first + 1
    BY RowSize DEF Turn
  <2>2. QED
    BY <2>1 DEF Held
<1>5. \A k \in 1 .. len - 1 : t[k] = s[k + 1]
  <2>1. TAKE k \in 1 .. len - 1
  <2>2. k + 1 \in 1..len /\ (first + 1) + k = first + (k + 1)
    BY <1>1
  <2>3. t[k] = row[Turn((first + 1) + k)] /\ s[k + 1] = row[Turn(first + (k + 1))]
    BY <2>2 DEF Held
  <2>4. QED
    BY <2>2, <2>3
<1> HIDE DEF s, t, S
<1>6. s # <<>>
  BY <1>1, <1>2, EmptySeq
<1>7. Head(s) = row[first + 1]
  BY <1>2, <1>4, <1>6, HeadTailProperties
<1>8. Tail(s) \in Seq(S) /\ Len(Tail(s)) = len - 1 /\ \A k \in 1 .. len - 1 : Tail(s)[k] = s[k + 1]
  BY <1>2, <1>6, HeadTailProperties
<1>9. Tail(s) = t
  BY <1>3, <1>5, <1>8, SeqEqual
<1>10. QED
  BY <1>6, <1>7, <1>9 DEF s, t

LEMMA HeldAppend ==
  ASSUME NEW row, NEW first \in Nat, NEW len \in Nat
  PROVE  Append(Held(row, first, len), row[Turn(first + (len + 1))]) = Held(row, first, len + 1)
<1> DEFINE d == row[Turn(first + (len + 1))]
           s == Append(Held(row, first, len), d)
           t == Held(row, first, len + 1)
           S == WordsOf(row)
<1>1. Held(row, first, len) \in Seq(S) /\ Len(Held(row, first, len)) = len
  BY HeldSeq
<1>2. t \in Seq(S) /\ Len(t) = len + 1
  BY HeldSeq
<1>3. d \in S
  <2>1. Turn(first + (len + 1)) \in Int
    BY RowSize DEF Turn
  <2>2. QED
    BY <2>1 DEF WordsOf
<1>4. t[len + 1] = d
  BY DEF Held
<1>5. \A k \in 1..len : t[k] = Held(row, first, len)[k]
  BY DEF Held
<1> DEFINE u == Held(row, first, len)
<1> HIDE DEF u, d, t, S
<1>6. /\ s \in Seq(S) /\ Len(s) = len + 1
      /\ \A k \in 1..len : s[k] = u[k]
      /\ s[len + 1] = d
  BY <1>1, <1>3, AppendProperties DEF u
<1> HIDE DEF s
<1>7. \A k \in 1 .. len + 1 : s[k] = t[k]
  BY <1>4, <1>5, <1>6 DEF u
<1>8. s = t
  BY <1>2, <1>6, <1>7, SeqEqual
<1>9. QED
  BY <1>8 DEF s, t, d

\* The row has been taken out and put back.
LEMMA HeldTurned == ASSUME NEW row PROVE Held(row, W, W) = Held(row, 0, W)
<1>1. \A k \in 1..W : Turn(W + k) = Turn(0 + k)
  BY RowSize DEF Turn
<1>2. QED
  BY <1>1 DEF Held

LEMMA HeldWhole ==
  ASSUME NEW row, row = [k \in 1..W |-> row[k]]
  PROVE  Held(row, 0, W) = row
<1>1. \A k \in 1..W : Turn(0 + k) = k
  BY RowSize DEF Turn
<1>2. Held(row, 0, W) = [k \in 1..W |-> row[k]]
  BY <1>1 DEF Held
<1>3. QED
  BY <1>2

\* One clock edge of a FIFO that holds words of a row.
LEMMA HeldEdge ==
  ASSUME NEW row, NEW first \in 0..W, NEW len \in 0..W, NEW q, q.words = Held(row, first, len),
         NEW sclr, NEW wr, NEW d, NEW rd, ~sclr,
         rd => len > 0 /\ first < W,
         wr => len < W /\ d = row[Turn(first + (len + 1))]
  PROVE  LET g == Filter!Row!Clocked(q, sclr, wr, d, rd) IN
         /\ g.words = Held(row, first + Bit(rd), (len + Bit(wr)) - Bit(rd))
         /\ g.q = IF rd THEN row[first + 1] ELSE q.q
<1> DEFINE g == Filter!Row!Clocked(q, sclr, wr, d, rd)
<1>1. first \in Nat /\ len \in Nat /\ first \in Int /\ len \in Int
  BY RowSize
<1>2. Len(q.words) = len
  <2>1. Len(Held(row, first, len)) = len
    BY <1>1, HeldSeq, Zenon
  <2>2. QED
    BY <2>1
<1>3. wr => ~Filter!Row!IsFull(q)
  BY <1>2, RowSize, DepthAssumption DEF Filter!Row!IsFull
<1>4. rd => /\ ~Filter!Row!IsEmpty(q) /\ Head(q.words) = row[first + 1]
            /\ Tail(q.words) = Held(row, first + 1, len - 1)
            /\ first + 1 \in Nat /\ len - 1 \in Nat
  <2> SUFFICES ASSUME rd
               PROVE  /\ ~Filter!Row!IsEmpty(q) /\ Head(q.words) = row[first + 1]
                      /\ Tail(q.words) = Held(row, first + 1, len - 1)
                      /\ first + 1 \in Nat /\ len - 1 \in Nat
    OBVIOUS
  <2>1. first \in 0 .. W - 1 /\ len \in 1 .. W /\ first + 1 \in Nat /\ len - 1 \in Nat
    BY <1>1, RowSize
  <2>2. QED
    BY <2>1, HeldHead DEF Filter!Row!IsEmpty
<1>5. g.q = IF rd THEN row[first + 1] ELSE q.q
  BY <1>4 DEF Filter!Row!Clocked
<1>6. CASE rd /\ wr
  <2>1. g.words = Append(Tail(q.words), d)
    BY <1>3, <1>4, <1>6 DEF Filter!Row!Clocked
  <2>2. Append(Held(row, first + 1, len - 1), row[Turn((first + 1) + ((len - 1) + 1))])
          = Held(row, first + 1, (len - 1) + 1)
    BY <1>4, <1>6, HeldAppend, Zenon
  <2>3. /\ (first + 1) + ((len - 1) + 1) = first + (len + 1) /\ (len - 1) + 1 = len
        /\ Bit(rd) = 1 /\ (len + Bit(wr)) - Bit(rd) = len
    BY <1>1, <1>6 DEF Bit
  <2> HIDE DEF g
  <2>4. QED
    BY <1>4, <1>5, <1>6, <2>1, <2>2, <2>3 DEF g
<1>7. CASE rd /\ ~wr
  <2>1. g.words = Tail(q.words)
    BY <1>4, <1>7 DEF Filter!Row!Clocked
  <2>2. Bit(rd) = 1 /\ (len + Bit(wr)) - Bit(rd) = len - 1
    BY <1>1, <1>7 DEF Bit
  <2> HIDE DEF g
  <2>3. QED
    BY <1>4, <1>5, <1>7, <2>1, <2>2 DEF g
<1>8. CASE ~rd /\ wr
  <2>1. g.words = Append(q.words, d)
    BY <1>3, <1>8 DEF Filter!Row!Clocked
  <2>2. Append(Held(row, first, len), row[Turn(first + (len + 1))]) = Held(row, first, len + 1)
    BY <1>1, HeldAppend, Zenon
  <2>3. first + Bit(rd) = first /\ (len + Bit(wr)) - Bit(rd) = len + 1
    BY <1>1, <1>8 DEF Bit
  <2> HIDE DEF g
  <2>4. QED
    BY <1>5, <1>8, <2>1, <2>2, <2>3 DEF g
<1>9. CASE ~rd /\ ~wr
  <2>1. g.words = q.words
    BY <1>9 DEF Filter!Row!Clocked
  <2>2. first + Bit(rd) = first /\ (len + Bit(wr)) - Bit(rd) = len
    BY <1>1, <1>9 DEF Bit
  <2> HIDE DEF g
  <2>3. QED
    BY <1>5, <1>9, <2>1, <2>2 DEF g
<1>10. QED
  BY <1>6, <1>7, <1>8, <1>9

(***************************************************************************)
(* The pixels of a word, and the windows around them.                      *)
(***************************************************************************)
\* Word k of the row of lane i; without one the filter sees black.
LaneWord(i, k) == IF i \in filled THEN Filter!RowOf(i)[k] ELSE Filter!ZeroWord

\* The filtered row.
FilteredRow == [k \in 1..W |-> [p \in 1..4 |->
                  [i \in Filter!Lanes |-> Filter!Slice(i, 4 * (k - 1) + p - 1)]]]

LEMMA LanePixel ==
  ASSUME NEW i, NEW k \in 1..W, NEW p \in 1..4
  PROVE  LaneWord(i, k)[p] = IF i \in filled THEN Filter!Pixel(i, 4 * (k - 1) + p - 1) ELSE Border
<1>1. CASE i \in filled
  <2>1. Filter!RowOf(i)[k] = [n \in 1..4 |-> Filter!Pixel(i, 4 * (k - 1) + n - 1)]
    BY DEF Filter!RowOf, W
  <2>2. QED
    BY <1>1, <2>1 DEF LaneWord
<1>2. CASE i \notin filled
  BY <1>2 DEF LaneWord, Filter!ZeroWord
<1>3. QED
  BY <1>1, <1>2

\* What the filter makes of the words of a lane for pixel p of word k.
LaneSlice(i, k, p) ==
  CASE p = 1 /\ k = 1 -> Filter!LeftEdge(LaneWord(i, k))
    [] p = 1 /\ k > 1 -> Filter!FirstPixel(<<LaneWord(i, k - 1)[3], LaneWord(i, k - 1)[4]>>, LaneWord(i, k))
    [] p = 2          -> Filter!SecondPixel(LaneWord(i, k))
    [] p = 3          -> Filter!ThirdPixel(LaneWord(i, k))
    [] p = 4 /\ k < W -> Filter!LastPixel(<<LaneWord(i, k)[3], LaneWord(i, k)[4]>>, LaneWord(i, k + 1))
    [] p = 4 /\ k = W -> Filter!RightEdge(LaneWord(i, k))

LEMMA SlicesByPixel ==
  ASSUME NEW i, NEW k \in 1..W
  PROVE  /\ LaneSlice(i, k, 1) =
              IF k = 1 THEN <<Border, LaneWord(i, k)[1], LaneWord(i, k)[2]>>
                       ELSE <<LaneWord(i, k - 1)[3], LaneWord(i, k)[1], LaneWord(i, k)[2]>>
         /\ LaneSlice(i, k, 2) = <<LaneWord(i, k)[1], LaneWord(i, k)[2], LaneWord(i, k)[3]>>
         /\ LaneSlice(i, k, 3) = <<LaneWord(i, k)[2], LaneWord(i, k)[3], LaneWord(i, k)[4]>>
         /\ LaneSlice(i, k, 4) =
              IF k = W THEN <<LaneWord(i, k)[3], LaneWord(i, k)[4], Border>>
                       ELSE <<LaneWord(i, k)[3], LaneWord(i, k)[4], LaneWord(i, k + 1)[1]>>
<1> USE RowSize DEF LaneSlice, Filter!LeftEdge, Filter!FirstPixel, Filter!SecondPixel,
        Filter!ThirdPixel, Filter!LastPixel, Filter!RightEdge
<1>1. LaneSlice(i, k, 1) =
        IF k = 1 THEN <<Border, LaneWord(i, k)[1], LaneWord(i, k)[2]>>
                 ELSE <<LaneWord(i, k - 1)[3], LaneWord(i, k)[1], LaneWord(i, k)[2]>>
  OBVIOUS
<1>2. LaneSlice(i, k, 2) = <<LaneWord(i, k)[1], LaneWord(i, k)[2], LaneWord(i, k)[3]>>
  OBVIOUS
<1>3. LaneSlice(i, k, 3) = <<LaneWord(i, k)[2], LaneWord(i, k)[3], LaneWord(i, k)[4]>>
  OBVIOUS
<1>4. LaneSlice(i, k, 4) =
        IF k = W THEN <<LaneWord(i, k)[3], LaneWord(i, k)[4], Border>>
                 ELSE <<LaneWord(i, k)[3], LaneWord(i, k)[4], LaneWord(i, k + 1)[1]>>
  OBVIOUS
<1>5. QED
  BY <1>1, <1>2, <1>3, <1>4

\* It is the pixel and its neighbours in the row.
LEMMA LaneSlices ==
  ASSUME NEW i, NEW k \in 1..W, NEW p \in 1..4
  PROVE  LaneSlice(i, k, p) = Filter!Slice(i, 4 * (k - 1) + p - 1)
<1> DEFINE P(c) == IF i \in filled THEN Filter!Pixel(i, c) ELSE Border
           c == 4 * (k - 1)
<1>0. W \in Nat /\ W >= 3 /\ k \in Nat /\ c \in Nat /\ c % 4 = 0
  BY RowSize
<1>1. \A m \in 1..W : LET a == 4 * (m - 1) IN
        /\ LaneWord(i, m)[1] = P(a) /\ LaneWord(i, m)[2] = P(a + 1)
        /\ LaneWord(i, m)[3] = P(a + 2) /\ LaneWord(i, m)[4] = P(a + 3)
  <2> SUFFICES ASSUME NEW m \in 1..W
               PROVE  LET a == 4 * (m - 1) IN
                      /\ LaneWord(i, m)[1] = P(a) /\ LaneWord(i, m)[2] = P(a + 1)
                      /\ LaneWord(i, m)[3] = P(a + 2) /\ LaneWord(i, m)[4] = P(a + 3)
    OBVIOUS
  <2> DEFINE a == 4 * (m - 1)
  <2>1. /\ LaneWord(i, m)[1] = P(a + 1 - 1) /\ LaneWord(i, m)[2] = P(a + 2 - 1)
        /\ LaneWord(i, m)[3] = P(a + 3 - 1) /\ LaneWord(i, m)[4] = P(a + 4 - 1)
    BY LanePixel
  <2>2. a + 1 - 1 = a /\ a + 2 - 1 = a + 1 /\ a + 3 - 1 = a + 2 /\ a + 4 - 1 = a + 3
    BY <1>0
  <2> HIDE DEF P
  <2>3. QED
    BY <2>1, <2>2
<1>2. P(-1) = Border /\ P(4 * W) = Border
  BY RowSize DEF Filter!Pixel
<1>3. \A n \in Nat : Filter!Slice(i, n) = <<P(Filter!LeftOf(n)), P(n), P(n + 1)>>
  BY DEF Filter!Slice
<1>4. /\ LaneWord(i, k)[1] = P(c) /\ LaneWord(i, k)[2] = P(c + 1)
      /\ LaneWord(i, k)[3] = P(c + 2) /\ LaneWord(i, k)[4] = P(c + 3)
  BY <1>1
<1> HIDE DEF P
<1>5. CASE p = 1
  <2>1. c + p - 1 = c
    BY <1>0, <1>5
  <2>2. CASE k = 1
    <3>1. c = 0 /\ Filter!LeftOf(0) = -1
      BY <2>2 DEF Filter!LeftOf
    <3>2. LaneSlice(i, k, 1) = <<Border, LaneWord(i, k)[1], LaneWord(i, k)[2]>>
      BY <2>2, SlicesByPixel
    <3>3. LaneSlice(i, k, 1) = <<P(-1), P(0), P(0 + 1)>>
      BY <1>2, <1>4, <3>1, <3>2
    <3>4. Filter!Slice(i, 0) = <<P(-1), P(0), P(0 + 1)>>
      BY <1>3, <3>1
    <3>5. QED
      BY <1>5, <2>1, <3>1, <3>3, <3>4
  <2>3. CASE k > 1
    <3>1. LaneSlice(i, k, 1) = <<LaneWord(i, k - 1)[3], LaneWord(i, k)[1], LaneWord(i, k)[2]>>
      BY <2>3, SlicesByPixel
    <3>2. LaneWord(i, k - 1)[3] = P(4 * ((k - 1) - 1) + 2) /\ 4 * ((k - 1) - 1) + 2 = c - 2
      BY <1>0, <1>1, <2>3
    <3>3. LaneSlice(i, k, 1) = <<P(c - 2), P(c), P(c + 1)>>
      BY <1>4, <3>1, <3>2
    <3>4. Filter!LeftOf(c) = c - 2
      BY <1>0, <2>3 DEF Filter!LeftOf
    <3> HIDE DEF c
    <3>5. Filter!Slice(i, c) = <<P(c - 2), P(c), P(c + 1)>>
      BY <1>0, <1>3, <3>4
    <3>6. QED
      BY <1>5, <2>1, <3>3, <3>5 DEF c
  <2>4. QED
    BY <1>0, <2>2, <2>3
<1>6. CASE p = 2
  <2>1. LaneSlice(i, k, 2) = <<P(c), P(c + 1), P(c + 2)>>
    BY <1>4, SlicesByPixel
  <2>2. Filter!LeftOf(c + 1) = c /\ c + p - 1 = c + 1 /\ (c + 1) + 1 = c + 2 /\ c + 1 \in Nat
    BY <1>0, <1>6 DEF Filter!LeftOf
  <2> HIDE DEF c
  <2>3. QED
    BY <1>3, <1>6, <2>1, <2>2 DEF c
<1>7. CASE p = 3
  <2>1. LaneSlice(i, k, 3) = <<P(c + 1), P(c + 2), P(c + 3)>>
    BY <1>4, SlicesByPixel
  <2>2. Filter!LeftOf(c + 2) = c + 1 /\ c + p - 1 = c + 2 /\ (c + 2) + 1 = c + 3 /\ c + 2 \in Nat
    BY <1>0, <1>7 DEF Filter!LeftOf
  <2> HIDE DEF c
  <2>3. QED
    BY <1>3, <1>7, <2>1, <2>2 DEF c
<1>8. CASE p = 4
  <2>1. LaneSlice(i, k, 4) = <<P(c + 2), P(c + 3), P(c + 4)>>
    <3>1. CASE k = W
      <4>1. LaneSlice(i, k, 4) = <<LaneWord(i, k)[3], LaneWord(i, k)[4], Border>> /\ c + 4 = 4 * W
        BY <1>0, <3>1, SlicesByPixel
      <4>2. QED
        BY <1>2, <1>4, <4>1
    <3>2. CASE k < W
      <4>1. LaneSlice(i, k, 4) = <<LaneWord(i, k)[3], LaneWord(i, k)[4], LaneWord(i, k + 1)[1]>>
        BY <3>2, SlicesByPixel
      <4>2. LaneWord(i, k + 1)[1] = P(4 * ((k + 1) - 1)) /\ 4 * ((k + 1) - 1) = c + 4
        BY <1>0, <1>1, <3>2
      <4>3. QED
        BY <1>4, <4>1, <4>2
    <3>3. QED
      BY <1>0, <3>1, <3>2
  <2>2. Filter!LeftOf(c + 3) = c + 2 /\ c + p - 1 = c + 3 /\ (c + 3) + 1 = c + 4 /\ c + 3 \in Nat
    BY <1>0, <1>8 DEF Filter!LeftOf
  <2> HIDE DEF c
  <2>3. QED
    BY <1>3, <1>8, <2>1, <2>2 DEF c
<1>9. QED
  BY <1>5, <1>6, <1>7, <1>8

\* A pixel of the filtered row is made of the slices of the three lanes.
LEMMA FilteredPixel ==
  ASSUME NEW k \in 1..W, NEW p \in 1..4
  PROVE  FilteredRow[k][p] = <<LaneSlice(1, k, p), LaneSlice(2, k, p), LaneSlice(3, k, p)>>
<1> DEFINE S(i) == Filter!Slice(i, 4 * (k - 1) + p - 1)
<1>1. FilteredRow[k][p] = [i \in 1..3 |-> S(i)]
  BY DEF FilteredRow, Filter!Lanes
<1>2. S(1) = LaneSlice(1, k, p) /\ S(2) = LaneSlice(2, k, p) /\ S(3) = LaneSlice(3, k, p)
  BY LaneSlices
<1> HIDE DEF S
<1>3. [i \in 1..3 |-> S(i)] = <<S(1), S(2), S(3)>>
  OBVIOUS
<1>4. QED
  BY <1>1, <1>2, <1>3

\* A filtered word is its four pixels.
LEMMA FourPixels ==
  ASSUME NEW k \in 1..W
  PROVE  LET w == FilteredRow[k] IN w = <<w[1], w[2], w[3], w[4]>>
<1> DEFINE w == FilteredRow[k]
<1>1. w = [p \in 1..4 |-> w[p]]
  BY DEF FilteredRow
<1> HIDE DEF w
<1>2. w = <<w[1], w[2], w[3], w[4]>>
  BY <1>1
<1>3. QED
  BY <1>2 DEF w

\* q are the words k of the lanes, last the upper halves of the words before: the pixels
\* made of them.
PixelsMade(k, q, last) ==
  LET F == FilteredRow IN
  /\ k = 1 => Filter!DoComputation([i \in Filter!Lanes |-> Filter!LeftEdge(q[i])]) = F[k][1]
  /\ k > 1 =>
       /\ Filter!DoComputation([i \in Filter!Lanes |-> Filter!FirstPixel(last[i], q[i])]) = F[k][1]
       /\ Filter!DoComputation([i \in Filter!Lanes |-> Filter!LastPixel(last[i], q[i])])
            = F[k - 1][4]
  /\ Filter!DoComputation([i \in Filter!Lanes |-> Filter!SecondPixel(q[i])]) = F[k][2]
  /\ Filter!DoComputation([i \in Filter!Lanes |-> Filter!ThirdPixel(q[i])]) = F[k][3]
  /\ k = W => Filter!DoComputation([i \in Filter!Lanes |-> Filter!RightEdge(q[i])]) = F[k][4]

LEMMA PixelsOf ==
  ASSUME NEW k \in 1..W, NEW q, NEW last,
         \A i \in 1..3 : q[i] = LaneWord(i, k),
         k > 1 => \A i \in 1..3 : last[i] = <<LaneWord(i, k - 1)[3], LaneWord(i, k - 1)[4]>>
  PROVE  PixelsMade(k, q, last)
<1> DEFINE F == FilteredRow
<1>1. q[1] = LaneWord(1, k) /\ q[2] = LaneWord(2, k) /\ q[3] = LaneWord(3, k)
  OBVIOUS
<1>2. k > 1 => /\ last[1] = <<LaneWord(1, k - 1)[3], LaneWord(1, k - 1)[4]>>
               /\ last[2] = <<LaneWord(2, k - 1)[3], LaneWord(2, k - 1)[4]>>
               /\ last[3] = <<LaneWord(3, k - 1)[3], LaneWord(3, k - 1)[4]>>
  OBVIOUS
<1>3. ASSUME NEW m \in 1..W, NEW p \in 1..4
      PROVE  F[m][p] = <<LaneSlice(1, m, p), LaneSlice(2, m, p), LaneSlice(3, m, p)>>
  BY FilteredPixel
<1> HIDE DEF F
<1>4. W \in Nat /\ k \in Nat
  BY RowSize
<1>5. k = 1 => Filter!DoComputation([i \in Filter!Lanes |-> Filter!LeftEdge(q[i])]) = F[k][1]
  <2>1. Filter!DoComputation([i \in Filter!Lanes |-> Filter!LeftEdge(q[i])])
          = <<Filter!LeftEdge(q[1]), Filter!LeftEdge(q[2]), Filter!LeftEdge(q[3])>>
    BY DEF Filter!DoComputation, Filter!Lanes
  <2>2. k = 1 => \A i : LaneSlice(i, k, 1) = Filter!LeftEdge(LaneWord(i, k))
    BY DEF LaneSlice
  <2>3. QED
    BY <1>1, <1>3, <2>1, <2>2
<1>6. k > 1 => Filter!DoComputation([i \in Filter!Lanes |-> Filter!FirstPixel(last[i], q[i])]) = F[k][1]
  <2>1. Filter!DoComputation([i \in Filter!Lanes |-> Filter!FirstPixel(last[i], q[i])])
          = <<Filter!FirstPixel(last[1], q[1]), Filter!FirstPixel(last[2], q[2]),
              Filter!FirstPixel(last[3], q[3])>>
    BY DEF Filter!DoComputation, Filter!Lanes
  <2> SUFFICES ASSUME k > 1
               PROVE  <<Filter!FirstPixel(last[1], q[1]), Filter!FirstPixel(last[2], q[2]),
                        Filter!FirstPixel(last[3], q[3])>> = F[k][1]
    BY <2>1
  <2>2. ASSUME NEW i
        PROVE  LaneSlice(i, k, 1) =
                 Filter!FirstPixel(<<LaneWord(i, k - 1)[3], LaneWord(i, k - 1)[4]>>, LaneWord(i, k))
    BY <1>4 DEF LaneSlice
  <2>3. /\ LaneSlice(1, k, 1) = Filter!FirstPixel(last[1], q[1])
        /\ LaneSlice(2, k, 1) = Filter!FirstPixel(last[2], q[2])
        /\ LaneSlice(3, k, 1) = Filter!FirstPixel(last[3], q[3])
    BY <1>1, <1>2, <2>2
  <2>4. QED
    BY <1>3, <2>3
<1>7. k > 1 => Filter!DoComputation([i \in Filter!Lanes |-> Filter!LastPixel(last[i], q[i])])
                 = F[k - 1][4]
  <2>1. Filter!DoComputation([i \in Filter!Lanes |-> Filter!LastPixel(last[i], q[i])])
          = <<Filter!LastPixel(last[1], q[1]), Filter!LastPixel(last[2], q[2]),
              Filter!LastPixel(last[3], q[3])>>
    BY DEF Filter!DoComputation, Filter!Lanes
  <2> SUFFICES ASSUME k > 1
               PROVE  <<Filter!LastPixel(last[1], q[1]), Filter!LastPixel(last[2], q[2]),
                        Filter!LastPixel(last[3], q[3])>> = F[k - 1][4]
    BY <2>1
  <2>2. k - 1 + 1 = k /\ k - 1 \in 1..W /\ k - 1 < W
    BY <1>4
  <2>3. ASSUME NEW i
        PROVE  LaneSlice(i, k - 1, 4) =
                 Filter!LastPixel(<<LaneWord(i, k - 1)[3], LaneWord(i, k - 1)[4]>>, LaneWord(i, k))
    BY <2>2 DEF LaneSlice
  <2>4. /\ LaneSlice(1, k - 1, 4) = Filter!LastPixel(last[1], q[1])
        /\ LaneSlice(2, k - 1, 4) = Filter!LastPixel(last[2], q[2])
        /\ LaneSlice(3, k - 1, 4) = Filter!LastPixel(last[3], q[3])
    BY <1>1, <1>2, <2>3
  <2>5. QED
    BY <1>3, <2>2, <2>4
<1>8. Filter!DoComputation([i \in Filter!Lanes |-> Filter!SecondPixel(q[i])]) = F[k][2]
  <2>1. Filter!DoComputation([i \in Filter!Lanes |-> Filter!SecondPixel(q[i])])
          = <<Filter!SecondPixel(q[1]), Filter!SecondPixel(q[2]), Filter!SecondPixel(q[3])>>
    BY DEF Filter!DoComputation, Filter!Lanes
  <2>2. \A i : LaneSlice(i, k, 2) = Filter!SecondPixel(LaneWord(i, k))
    BY DEF LaneSlice
  <2>3. QED
    BY <1>1, <1>3, <2>1, <2>2
<1>9. Filter!DoComputation([i \in Filter!Lanes |-> Filter!ThirdPixel(q[i])]) = F[k][3]
  <2>1. Filter!DoComputation([i \in Filter!Lanes |-> Filter!ThirdPixel(q[i])])
          = <<Filter!ThirdPixel(q[1]), Filter!ThirdPixel(q[2]), Filter!ThirdPixel(q[3])>>
    BY DEF Filter!DoComputation, Filter!Lanes
  <2>2. \A i : LaneSlice(i, k, 3) = Filter!ThirdPixel(LaneWord(i, k))
    BY DEF LaneSlice
  <2>3. QED
    BY <1>1, <1>3, <2>1, <2>2
<1>10. k = W => Filter!DoComputation([i \in Filter!Lanes |-> Filter!RightEdge(q[i])]) = F[k][4]
  <2>1. Filter!DoComputation([i \in Filter!Lanes |-> Filter!RightEdge(q[i])])
          = <<Filter!RightEdge(q[1]), Filter!RightEdge(q[2]), Filter!RightEdge(q[3])>>
    BY DEF Filter!DoComputation, Filter!Lanes
  <2>2. k = W => \A i : LaneSlice(i, k, 4) = Filter!RightEdge(LaneWord(i, k))
    BY <1>4 DEF LaneSlice
  <2>3. QED
    BY <1>1, <1>3, <2>1, <2>2
<1>11. QED
  BY <1>5, <1>6, <1>7, <1>8, <1>9, <1>10 DEF F, PixelsMade

(***************************************************************************)
(* A clock edge of the filter: where it is in the row, and what it asks of *)
(* the FIFOs.                                                              *)
(***************************************************************************)
ComputeFields ==
  { "state", "ColCounter", "done", "row_rdreq", "row_wrreq", "row_data", "last_q",
    "last_result", "current_result", "next_result", "ofifo_data", "ofifo_wrreq",
    "ofifo_sclr" }

FilterRegisters ==
  /\ DOMAIN compute = ComputeFields /\ Filter!TypeOK
  /\ compute.done => compute.state = "IdleCompute"
  /\ compute.state \in {"ReadDelay", "FirstCompute"} => compute.ColCounter = 0
  /\ compute.state = "Compute" =>
       compute.ColCounter % 4 = 0 /\ compute.ColCounter \in 4 .. 4 * W - 8
  /\ compute.state \in {"LastCompute", "LastComputeWrite"} =>
       compute.ColCounter = 4 * W - 4

\* The words that have been filtered.
Pos == compute.ColCounter \div 4

ReadsLanes(on)    == compute'.row_rdreq = on
WritesLanes(on)   == compute'.row_wrreq = on
Output(clear, on) == compute'.ofifo_sclr = clear /\ compute'.ofifo_wrreq = on

LaneRests(enable) ==
  /\ compute.state = "IdleCompute" /\ compute'.state = "IdleCompute"
  /\ ~enable /\ compute'.done
  /\ ReadsLanes(Filter!None) /\ WritesLanes(Filter!None) /\ Output(FALSE, FALSE)

LaneStarts(enable) ==
  /\ compute.state = "IdleCompute" /\ compute'.state = "ReadDelay"
  /\ enable /\ ~compute'.done
  /\ ReadsLanes(Filter!NotEmpty(Filter!row_empty)) /\ WritesLanes(Filter!None)
  /\ Output(TRUE, FALSE)

LaneDelays ==
  /\ compute.state = "ReadDelay" /\ compute'.state = "FirstCompute"
  /\ compute'.done = compute.done
  /\ ReadsLanes(compute.row_rdreq) /\ WritesLanes(compute.row_wrreq)
  /\ Output(FALSE, FALSE)

FirstWord ==
  /\ compute.state = "FirstCompute" /\ compute'.state = "Compute"
  /\ compute'.done = compute.done /\ Pos' = 1
  /\ ReadsLanes(compute.row_rdreq) /\ WritesLanes(Filter!NotEmpty(Filter!row_empty))
  /\ compute'.row_data = Filter!row_q
  /\ Output(FALSE, FALSE)

NextWords ==
  /\ compute.state = "Compute" /\ compute'.done = compute.done
  /\ compute'.state = IF Pos = W - 2 THEN "LastCompute" ELSE "Compute"
  /\ Pos \in 1 .. W - 2 /\ Pos' = Pos + 1
  /\ ReadsLanes(IF Pos = W - 2 THEN Filter!None ELSE compute.row_rdreq)
  /\ WritesLanes(Filter!NotEmpty(Filter!row_empty))
  /\ compute'.row_data = Filter!row_q
  /\ Output(FALSE, TRUE)

LastWord ==
  /\ compute.state = "LastCompute" /\ compute'.state = "LastComputeWrite"
  /\ compute'.done = compute.done /\ Pos = W - 1
  /\ ReadsLanes(compute.row_rdreq) /\ WritesLanes(Filter!NotEmpty(Filter!row_empty))
  /\ compute'.row_data = Filter!row_q
  /\ Output(FALSE, TRUE)

LaneEnds ==
  /\ compute.state = "LastComputeWrite" /\ compute'.state = "IdleCompute"
  /\ compute'.done = compute.done
  /\ ReadsLanes(compute.row_rdreq) /\ WritesLanes(Filter!None)
  /\ Output(FALSE, TRUE)

\* The column counter counts words, four pixels each.
LEMMA NextColumn == ASSUME NEW n \in Nat, n % 4 = 0 PROVE (n + 4) % 4 = 0
  OBVIOUS

LEMMA FilterMoves ==
  ASSUME FilterRegisters, NEW enable \in BOOLEAN,
         Filter!Clock(enable, Filter!row_q, Filter!row_empty)
  PROVE  /\ FilterRegisters'
         /\ \/ LaneRests(enable) \/ LaneStarts(enable) \/ LaneDelays \/ FirstWord
            \/ NextWords \/ LastWord \/ LaneEnds
<1> DEFINE empty == Filter!row_empty
           q == Filter!row_q
<1>0. /\ Filter!None \in [1..3 -> BOOLEAN] /\ Filter!NotEmpty(empty) \in [1..3 -> BOOLEAN]
      /\ W \in Nat /\ W >= 3 /\ ColSize = 4 * W
  BY RowSize DEF Filter!None, Filter!NotEmpty, Filter!row_empty, Filter!Lanes, Filter!Row!IsEmpty
<1> HIDE DEF empty, q
<1> USE <1>0 DEF FilterRegisters, ComputeFields, Filter!TypeOK, Filter!Lanes,
                 ReadsLanes, WritesLanes, Output
<1>1. CASE Filter!IdleCompute(enable)
  <2>1. LaneRests(enable)
    BY <1>1 DEF Filter!IdleCompute, LaneRests
  <2>2. FilterRegisters'
    BY <1>1 DEF Filter!IdleCompute
  <2>3. QED
    BY <2>1, <2>2
<1>2. CASE Filter!StartRow(enable, empty)
  <2>1. LaneStarts(enable)
    BY <1>2 DEF Filter!StartRow, LaneStarts, empty
  <2>2. FilterRegisters'
    BY <1>2 DEF Filter!StartRow
  <2>3. QED
    BY <2>1, <2>2
<1>3. CASE Filter!ReadDelay
  <2>1. LaneDelays
    BY <1>3 DEF Filter!ReadDelay, LaneDelays
  <2>2. FilterRegisters'
    BY <1>3 DEF Filter!ReadDelay
  <2>3. QED
    BY <2>1, <2>2
<1>4. CASE Filter!FirstCompute(q, empty)
  <2>1. /\ DOMAIN compute' = ComputeFields /\ compute.state = "FirstCompute"
        /\ compute'.state = "Compute" /\ compute'.done = compute.done
        /\ compute'.ColCounter = 4
        /\ compute'.row_rdreq = compute.row_rdreq
        /\ compute'.row_wrreq = Filter!NotEmpty(empty) /\ compute'.row_data = q
        /\ compute'.ofifo_sclr = FALSE /\ compute'.ofifo_wrreq = FALSE
    BY <1>4 DEF Filter!FirstCompute
  <2>2. Pos' = 1
    BY <2>1 DEF Pos
  <2>3. FirstWord
    BY <2>1, <2>2 DEF FirstWord, empty, q
  <2>4. 4 % 4 = 0 /\ 4 \in 4 .. 4 * W - 8 /\ 4 \in 0 .. 4 * W /\ ~compute.done
    BY <2>1
  <2>5. FilterRegisters'
    BY <2>1, <2>4
  <2>6. QED
    BY <2>3, <2>5
<1>5. CASE Filter!Compute(q, empty)
  <2> DEFINE leave == Filter!LastWordNext(compute.ColCounter + 4)
  <2>1. /\ DOMAIN compute' = ComputeFields /\ compute.state = "Compute"
        /\ compute'.state = IF leave THEN "LastCompute" ELSE "Compute"
        /\ compute'.done = compute.done
        /\ compute'.ColCounter = compute.ColCounter + 4
        /\ compute'.row_rdreq = IF leave THEN Filter!None ELSE compute.row_rdreq
        /\ compute'.row_wrreq = Filter!NotEmpty(empty) /\ compute'.row_data = q
        /\ compute'.ofifo_sclr = FALSE /\ compute'.ofifo_wrreq = TRUE
    BY <1>5 DEF Filter!Compute
  <2>2. /\ compute.ColCounter \in 4 .. 4 * W - 8 /\ compute.ColCounter % 4 = 0
        /\ compute.ColCounter \in Nat /\ ~compute.done
    BY <2>1
  <2>3. (compute.ColCounter + 4) % 4 = 0
    BY <2>2, NextColumn
  <2>4. leave <=> compute.ColCounter + 4 >= 4 * W - 4
    BY DEF Filter!LastWordNext
  <2> HIDE DEF leave
  <2>5. PICK p \in Nat : compute.ColCounter = 4 * p
    <3>1. compute.ColCounter = 4 * Pos /\ Pos \in Nat
      BY <2>2 DEF Pos
    <3>2. QED
      BY <3>1
  <2>6. p \in 1 .. W - 2 /\ Pos = p /\ Pos' = p + 1
    BY <2>1, <2>2, <2>5 DEF Pos
  <2>7. leave <=> p = W - 2
    BY <2>4, <2>5, <2>6
  <2>8. NextWords
    BY <2>1, <2>6, <2>7 DEF NextWords, empty, q
  <2>9. /\ leave => compute.ColCounter + 4 = 4 * W - 4
        /\ ~leave => compute.ColCounter + 4 \in 4 .. 4 * W - 8
    BY <2>4, <2>5, <2>6
  <2>10. compute'.row_rdreq \in [1..3 -> BOOLEAN]
    BY <2>1
  <2>11. FilterRegisters'
    <3>1. Filter!TypeOK'
      <4>1. compute'.ColCounter \in 0 .. ColSize
        BY <2>1, <2>2
      <4>2. compute'.state \in {"Compute", "LastCompute"} /\ compute'.done \in BOOLEAN
        BY <2>1, <2>2
      <4>3. /\ compute'.row_wrreq \in [1..3 -> BOOLEAN]
            /\ compute'.ofifo_sclr \in BOOLEAN /\ compute'.ofifo_wrreq \in BOOLEAN
        BY <2>1
      <4>4. QED
        BY <2>10, <4>1, <4>2, <4>3
    <3>2. CASE leave
      <4>1. compute'.state = "LastCompute" /\ compute'.ColCounter = 4 * W - 4 /\ ~compute'.done
        BY <2>1, <2>2, <2>9, <3>2
      <4>2. QED
        BY <2>1, <3>1, <4>1
    <3>3. CASE ~leave
      <4>1. /\ compute'.state = "Compute" /\ compute'.ColCounter \in 4 .. 4 * W - 8
            /\ compute'.ColCounter % 4 = 0 /\ ~compute'.done
        BY <2>1, <2>2, <2>3, <2>9, <3>3
      <4>2. QED
        BY <2>1, <3>1, <4>1
    <3>4. QED
      BY <3>2, <3>3
  <2>12. QED
    BY <2>8, <2>11
<1>6. CASE Filter!LastCompute(q, empty)
  <2>1. Pos = W - 1
    BY <1>6 DEF Filter!LastCompute, Pos
  <2>2. LastWord
    BY <1>6, <2>1 DEF Filter!LastCompute, LastWord, empty, q
  <2>3. FilterRegisters'
    BY <1>6 DEF Filter!LastCompute
  <2>4. QED
    BY <2>2, <2>3
<1>7. CASE Filter!LastComputeWrite
  <2>1. LaneEnds
    BY <1>7 DEF Filter!LastComputeWrite, LaneEnds
  <2>2. FilterRegisters'
    BY <1>7 DEF Filter!LastComputeWrite
  <2>3. QED
    BY <2>1, <2>2
<1>8. QED
  BY <1>1, <1>2, <1>3, <1>4, <1>5, <1>6, <1>7 DEF Filter!Clock, empty, q

\* What a clock edge writes into the registers that hold pixels.
LEMMA PixelMoves ==
  ASSUME FilterRegisters, NEW enable \in BOOLEAN,
         Filter!Clock(enable, Filter!row_q, Filter!row_empty)
  PROVE  LET q == Filter!row_q
             results == Filter!ResultsOf(compute.last_q, q) IN
         /\ compute.state = "FirstCompute" =>
              /\ compute'.last_result =
                   <<Filter!DoComputation([i \in Filter!Lanes |-> Filter!LeftEdge(q[i])]),
                     Filter!DoComputation([i \in Filter!Lanes |-> Filter!SecondPixel(q[i])]),
                     Filter!DoComputation([i \in Filter!Lanes |-> Filter!ThirdPixel(q[i])])>>
              /\ compute'.last_q = Filter!UpperHalves(q)
         /\ compute.state = "Compute" =>
              /\ compute'.last_result = SubSeq(results, 2, 4)
              /\ compute'.last_q = Filter!UpperHalves(q)
         /\ compute.state \in {"Compute", "LastCompute"} =>
              compute'.ofifo_data = Append(compute.last_result, results[1])
         /\ compute.state = "LastCompute" =>
              /\ compute'.current_result = results
              /\ compute'.next_result
                   = Filter!DoComputation([i \in Filter!Lanes |-> Filter!RightEdge(q[i])])
         /\ compute.state = "LastComputeWrite" =>
              compute'.ofifo_data = Append(SubSeq(compute.current_result, 2, 4), compute.next_result)
<1> DEFINE q       == Filter!row_q
           empty   == Filter!row_empty
           results == Filter!ResultsOf(compute.last_q, q)
           left    == Filter!DoComputation([i \in Filter!Lanes |-> Filter!LeftEdge(q[i])])
           second  == Filter!DoComputation([i \in Filter!Lanes |-> Filter!SecondPixel(q[i])])
           third   == Filter!DoComputation([i \in Filter!Lanes |-> Filter!ThirdPixel(q[i])])
           right   == Filter!DoComputation([i \in Filter!Lanes |-> Filter!RightEdge(q[i])])
<1>1. DOMAIN compute = ComputeFields
  BY DEF FilterRegisters
<1>0. Filter!Clock(enable, q, empty)
  OBVIOUS
<1> HIDE DEF q, empty
<1> USE <1>1 DEF ComputeFields
<1>2. compute.state = "FirstCompute" =>
        /\ compute'.last_result = <<left, second, third>>
        /\ compute'.last_q = Filter!UpperHalves(q)
  <2> SUFFICES ASSUME Filter!FirstCompute(q, empty)
               PROVE  /\ compute'.last_result = <<left, second, third>>
                      /\ compute'.last_q = Filter!UpperHalves(q)
    BY <1>0 DEF Filter!Clock, Filter!IdleCompute, Filter!StartRow, Filter!ReadDelay,
       Filter!Compute, Filter!LastCompute, Filter!LastComputeWrite
  <2> HIDE DEF left, second, third
  <2>1. QED
    BY DEF Filter!FirstCompute, left, second, third
<1>3. compute.state = "Compute" =>
        /\ compute'.last_result = SubSeq(results, 2, 4)
        /\ compute'.last_q = Filter!UpperHalves(q)
        /\ compute'.ofifo_data = Append(compute.last_result, results[1])
  <2> SUFFICES ASSUME Filter!Compute(q, empty)
               PROVE  /\ compute'.last_result = SubSeq(results, 2, 4)
                      /\ compute'.last_q = Filter!UpperHalves(q)
                      /\ compute'.ofifo_data = Append(compute.last_result, results[1])
    BY <1>0 DEF Filter!Clock, Filter!IdleCompute, Filter!StartRow, Filter!ReadDelay,
       Filter!FirstCompute, Filter!LastCompute, Filter!LastComputeWrite
  <2>1. QED
    BY DEF Filter!Compute
<1>4. compute.state = "LastCompute" =>
        /\ compute'.current_result = results /\ compute'.next_result = right
        /\ compute'.ofifo_data = Append(compute.last_result, results[1])
  <2> SUFFICES ASSUME Filter!LastCompute(q, empty)
               PROVE  /\ compute'.current_result = results /\ compute'.next_result = right
                      /\ compute'.ofifo_data = Append(compute.last_result, results[1])
    BY <1>0 DEF Filter!Clock, Filter!IdleCompute, Filter!StartRow, Filter!ReadDelay,
       Filter!FirstCompute, Filter!Compute, Filter!LastComputeWrite
  <2>1. QED
    BY DEF Filter!LastCompute
<1>5. compute.state = "LastComputeWrite" =>
        compute'.ofifo_data = Append(SubSeq(compute.current_result, 2, 4), compute.next_result)
  BY <1>0 DEF Filter!Clock, Filter!IdleCompute, Filter!StartRow, Filter!ReadDelay,
     Filter!FirstCompute, Filter!Compute, Filter!LastCompute, Filter!LastComputeWrite
<1>6. QED
  BY <1>2, <1>3, <1>4, <1>5 DEF q

(***************************************************************************)
(* The row FIFOs.                                                          *)
(***************************************************************************)
\* The words of the row that have been taken out of the FIFOs, and those put back.
Popped == CASE compute.state = "FirstCompute" -> 1
            [] compute.state = "Compute"      -> Pos + 1
            [] compute.state \in {"LastCompute", "LastComputeWrite"} -> W
            [] OTHER                          -> 0

Pushed == CASE compute.state = "Compute"          -> Pos - 1
            [] compute.state = "LastCompute"      -> W - 2
            [] compute.state = "LastComputeWrite" -> W - 1
            [] OTHER                              -> 0

\* Whether they are read, and written, in the edge to come.
Pops   == compute.state \in {"ReadDelay", "FirstCompute", "Compute"}
Pushes == compute.state \in {"Compute", "LastCompute", "LastComputeWrite"}

LaneTurns(i) ==
  /\ compute.row_rdreq[i] <=> i \in filled /\ Pops
  /\ compute.row_wrreq[i] <=> i \in filled /\ Pushes
  /\ i \in filled =>
       /\ lanefifo[i].words = Held(Filter!RowOf(i), Popped, (W + Pushed) - Popped)
       /\ Pushes => compute.row_data[i] = Filter!RowOf(i)[Pushed + 1]
  /\ i \notin filled => lanefifo[i].words = <<>> /\ lanefifo[i].q = Filter!ZeroWord
  /\ compute.state \in {"FirstCompute", "Compute", "LastCompute"} =>
       lanefifo[i].q = LaneWord(i, Popped)

LanesTurn == filled \subseteq 1..3 /\ \A i \in 1..3 : LaneTurns(i)

PlaceByState ==
  /\ compute.state \in {"IdleCompute", "ReadDelay"} => Popped = 0 /\ Pushed = 0
  /\ compute.state = "FirstCompute" => Popped = 1 /\ Pushed = 0
  /\ compute.state = "Compute" => Popped = Pos + 1 /\ Pushed = Pos - 1
  /\ compute.state = "LastCompute" => Popped = W /\ Pushed = W - 2
  /\ compute.state = "LastComputeWrite" => Popped = W /\ Pushed = W - 1

\* Now and one edge later.
LEMMA PlaceCases == PlaceByState /\ PlaceByState'
  BY DEF PlaceByState, Popped, Pushed

\* Every edge counts the words that are asked for; at the end of the row the count
\* starts again.
Counted ==
  /\ Popped \in 0..W /\ Pushed \in 0..W /\ Pushed <= Popped
  /\ Pops => Popped < W
  /\ Pushes => Pushed < Popped
  /\ compute.state \in {"FirstCompute", "Compute", "LastCompute"} =>
       Pushed < Popped /\ Popped < W + Pushed
  /\ compute'.state \in {"FirstCompute", "Compute", "LastCompute"} => Pops
  /\ \/ Popped' = Popped + Bit(Pops) /\ Pushed' = Pushed + Bit(Pushes)
     \/ ~Pops /\ Pushes /\ Popped = W /\ Pushed = W - 1 /\ Popped' = 0 /\ Pushed' = 0
  /\ Pushes' => /\ Pushed' + 1 = Popped
                 /\ compute.state \in {"FirstCompute", "Compute", "LastCompute"}

LEMMA Counts ==
  ASSUME FilterRegisters, NEW enable \in BOOLEAN,
         Filter!Clock(enable, Filter!row_q, Filter!row_empty)
  PROVE  Counted
<1>1. /\ \/ LaneRests(enable) \/ LaneStarts(enable) \/ LaneDelays \/ FirstWord
         \/ NextWords \/ LastWord \/ LaneEnds
      /\ W \in Nat /\ W >= 3
  BY FilterMoves, RowSize
<1> USE <1>1, PlaceCases DEF PlaceByState, Counted, Pops, Pushes, Bit
<1>2. CASE LaneRests(enable)
  BY <1>2 DEF LaneRests
<1>3. CASE LaneStarts(enable)
  BY <1>3 DEF LaneStarts
<1>4. CASE LaneDelays
  BY <1>4 DEF LaneDelays
<1>5. CASE FirstWord
  BY <1>5 DEF FirstWord
<1>6. CASE NextWords
  <2>1. /\ compute.state = "Compute" /\ Pos \in 1 .. W - 2 /\ Pos' = Pos + 1
        /\ compute'.state = IF Pos = W - 2 THEN "LastCompute" ELSE "Compute"
    BY <1>6 DEF NextWords
  <2>2. CASE Pos = W - 2
    BY <2>1, <2>2
  <2>3. CASE Pos # W - 2
    BY <2>1, <2>3
  <2>4. QED
    BY <2>2, <2>3
<1>7. CASE LastWord
  BY <1>7 DEF LastWord
<1>8. CASE LaneEnds
  BY <1>8 DEF LaneEnds
<1>9. QED
  BY <1>2, <1>3, <1>4, <1>5, <1>6, <1>7, <1>8

\* The requests of the next edge.
LEMMA LaneAsks ==
  ASSUME FilterRegisters, LanesTurn, filled' = filled, NEW enable \in BOOLEAN,
         Filter!Clock(enable, Filter!row_q, Filter!row_empty), NEW i \in 1..3
  PROVE  /\ compute'.row_rdreq[i] <=> i \in filled /\ Pops'
         /\ compute'.row_wrreq[i] <=> i \in filled /\ Pushes'
         /\ Pushes' => compute'.row_data[i] = lanefifo[i].q
<1>1. /\ \/ LaneRests(enable) \/ LaneStarts(enable) \/ LaneDelays \/ FirstWord
         \/ NextWords \/ LastWord \/ LaneEnds
      /\ W \in Nat /\ W >= 3
  BY FilterMoves, RowSize
<1>2. /\ Filter!None[i] = FALSE /\ Filter!row_q[i] = lanefifo[i].q
      /\ Filter!NotEmpty(Filter!row_empty)[i] = (lanefifo[i].words # <<>>)
  BY DEF Filter!None, Filter!row_q, Filter!NotEmpty, Filter!row_empty, Filter!Lanes,
     Filter!Row!IsEmpty
<1>3. compute.row_rdreq[i] <=> i \in filled /\ Pops
  BY DEF LanesTurn, LaneTurns
<1>4. ASSUME compute.state \in {"IdleCompute", "FirstCompute", "Compute", "LastCompute"}
      PROVE  lanefifo[i].words # <<>> <=> i \in filled
  <2>1. CASE i \in filled
    <3>1. Counted
      BY Counts
    <3>2. (W + Pushed) - Popped \in Nat /\ (W + Pushed) - Popped # 0 /\ Popped \in Nat
      BY <1>1, <1>4, <3>1, PlaceCases DEF Counted, PlaceByState
    <3>3. lanefifo[i].words = Held(Filter!RowOf(i), Popped, (W + Pushed) - Popped)
      BY <2>1 DEF LanesTurn, LaneTurns
    <3> DEFINE n == (W + Pushed) - Popped
               s == Held(Filter!RowOf(i), Popped, n)
    <3>4. n \in Nat /\ n # 0
      BY <3>2
    <3> HIDE DEF n
    <3>5. s \in Seq(WordsOf(Filter!RowOf(i))) /\ Len(s) = n
      BY <3>2, <3>4, HeldSeq
    <3>6. s # <<>>
      BY <3>4, <3>5, EmptySeq
    <3>7. QED
      BY <2>1, <3>3, <3>6 DEF n
  <2>2. CASE i \notin filled
    BY <2>2 DEF LanesTurn, LaneTurns
  <2>3. QED
    BY <2>1, <2>2
<1> USE <1>1, <1>2, <1>3, <1>4 DEF Pops, Pushes, ReadsLanes, WritesLanes
<1>5. CASE LaneRests(enable)
  BY <1>5 DEF LaneRests
<1>6. CASE LaneStarts(enable)
  BY <1>6 DEF LaneStarts
<1>7. CASE LaneDelays
  <2>1. ~compute.row_wrreq[i]
    BY <1>7 DEF LaneDelays, LanesTurn, LaneTurns
  <2>2. QED
    BY <1>7, <2>1 DEF LaneDelays
<1>8. CASE FirstWord
  BY <1>8 DEF FirstWord
<1>9. CASE NextWords
  <2>1. CASE Pos = W - 2
    BY <1>9, <2>1 DEF NextWords
  <2>2. CASE Pos # W - 2
    BY <1>9, <2>2 DEF NextWords
  <2>3. QED
    BY <2>1, <2>2
<1>10. CASE LastWord
  BY <1>10 DEF LastWord
<1>11. CASE LaneEnds
  BY <1>11 DEF LaneEnds
<1>12. QED
  BY <1>5, <1>6, <1>7, <1>8, <1>9, <1>10, <1>11

\* One edge turns every row FIFO on.
LEMMA LaneTick ==
  ASSUME FilterRegisters, LanesTurn, NEW enable \in BOOLEAN, Filter!Tick(enable),
         NEW i \in 1..3
  PROVE  LaneTurns(i)'
<1> DEFINE row == Filter!RowOf(i)
           rd  == compute.row_rdreq[i]
           wr  == compute.row_wrreq[i]
           d   == compute.row_data[i]
           q   == lanefifo[i]
           sclr == FALSE
           g   == Filter!Row!Clocked(q, sclr, wr, d, rd)
           len == (W + Pushed) - Popped
<1>1. filled' = filled /\ lanefifo'[i] = g
  BY DEF Filter!Tick, Filter!Lanes
<1>2. Filter!Clock(enable, Filter!row_q, Filter!row_empty)
  BY DEF Filter!Tick
<1>3. Counted
  BY <1>2, Counts
<1>4. /\ compute'.row_rdreq[i] <=> i \in filled /\ Pops'
      /\ compute'.row_wrreq[i] <=> i \in filled /\ Pushes'
      /\ Pushes' => compute'.row_data[i] = lanefifo[i].q
  BY <1>1, <1>2, LaneAsks
<1>5. /\ wr \in BOOLEAN /\ rd \in BOOLEAN
      /\ rd <=> i \in filled /\ Pops
      /\ wr <=> i \in filled /\ Pushes
      /\ W \in Nat /\ W >= 3
  BY RowSize DEF LanesTurn, LaneTurns, FilterRegisters, Filter!TypeOK, Filter!Lanes
<1>6. /\ Popped \in 0..W /\ Pushed \in 0..W /\ len \in 0..W
      /\ Pops => Popped < W /\ len > 0
      /\ Pushes => len < W
  BY <1>3, <1>5 DEF Counted
<1>7. Pushes' => compute'.row_data[i] = LaneWord(i, Popped)
  BY <1>3, <1>4 DEF Counted, LanesTurn, LaneTurns
<1>8. CASE i \in filled
  <2>1. /\ q.words = Held(row, Popped, len)
        /\ Pushes => d = row[Pushed + 1]
    BY <1>8 DEF LanesTurn, LaneTurns
  <2>2. Pushes => d = row[Turn(Popped + (len + 1))]
    <3>1. Pushes => Turn(Popped + (len + 1)) = Pushed + 1
      BY <1>5, <1>6 DEF Turn
    <3>2. QED
      BY <2>1, <3>1
  <2>3. (rd <=> Pops) /\ (wr <=> Pushes)
    BY <1>5, <1>8
  <2> DEFINE first == Popped
  <2>4. first \in 0..W /\ len \in 0..W /\ q.words = Held(row, first, len)
    BY <1>6, <2>1
  <2>5. rd => len > 0 /\ first < W
    BY <1>6, <2>3
  <2>6. wr => len < W /\ d = row[Turn(first + (len + 1))]
    BY <1>6, <2>2, <2>3
  <2>0. ~sclr
    OBVIOUS
  <2> HIDE DEF row, rd, wr, d, q, len, first, sclr
  <2>7. /\ g.words = Held(row, first + Bit(rd), (len + Bit(wr)) - Bit(rd))
        /\ g.q = IF rd THEN row[first + 1] ELSE q.q
    BY <2>0, <2>4, <2>5, <2>6, HeldEdge
  <2> HIDE DEF g
  <2>8. g.words = Held(row, Popped', (W + Pushed') - Popped')
    <3>1. CASE Popped' = Popped + Bit(Pops) /\ Pushed' = Pushed + Bit(Pushes)
      <4>1. /\ first + Bit(rd) = Popped'
            /\ (len + Bit(wr)) - Bit(rd) = (W + Pushed') - Popped'
        BY <1>5, <1>6, <2>3, <3>1 DEF first, len, Bit
      <4>2. QED
        BY <2>7, <4>1
    <3>2. CASE ~Pops /\ Pushes /\ Popped = W /\ Pushed = W - 1 /\ Popped' = 0 /\ Pushed' = 0
      <4>1. first + Bit(rd) = W /\ (len + Bit(wr)) - Bit(rd) = W
        BY <1>5, <1>6, <2>3, <3>2 DEF first, len, Bit
      <4>2. g.words = Held(row, 0, W)
        BY <2>7, <4>1, HeldTurned
      <4>3. (W + 0) - 0 = W
        BY <1>5
      <4>4. QED
        BY <3>2, <4>2, <4>3
    <3>3. QED
      BY <1>3, <3>1, <3>2 DEF Counted
  <2>9. Pushes' => compute'.row_data[i] = row[Pushed' + 1]
    <3>1. Pushes' => Pushed' + 1 = Popped
      BY <1>3 DEF Counted
    <3>2. QED
      BY <1>7, <1>8, <3>1 DEF LaneWord, row
  <2>10. compute'.state \in {"FirstCompute", "Compute", "LastCompute"} => g.q = row[Popped']
    <3> SUFFICES ASSUME compute'.state \in {"FirstCompute", "Compute", "LastCompute"}
                 PROVE  g.q = row[Popped']
      OBVIOUS
    <3>1. Pops
      BY <1>3 DEF Counted
    <3>2. g.q = row[first + 1] /\ first + 1 = Popped'
      BY <1>3, <1>6, <2>3, <2>7, <3>1 DEF Counted, Bit, first
    <3>3. QED
      BY <3>2
  <2>11. /\ i \in filled' /\ Filter!RowOf(i)' = row
         /\ lanefifo'[i].words = Held(row, Popped', (W + Pushed') - Popped')
         /\ compute'.state \in {"FirstCompute", "Compute", "LastCompute"} =>
              lanefifo'[i].q = row[Popped']
    BY <1>1, <1>8, <2>8, <2>10 DEF g, row, Filter!RowOf, Filter!Pixel, Filter!RowWords
  <2>12. ASSUME NEW k PROVE LaneWord(i, k)' = row[k]
    BY <2>11 DEF LaneWord
  <2>13. QED
    BY <1>1, <1>4, <1>8, <2>9, <2>11, <2>12 DEF LaneTurns, Held, Turn, W, row
<1>9. CASE i \notin filled
  <2>1. /\ q.words = <<>> /\ q.q = Filter!ZeroWord /\ ~rd /\ ~wr
    BY <1>5, <1>9 DEF LanesTurn, LaneTurns
  <2>2. g.words = <<>> /\ g.q = Filter!ZeroWord
    BY <2>1 DEF Filter!Row!Clocked
  <2> HIDE DEF g
  <2>3. QED
    BY <1>1, <1>4, <1>9, <2>2 DEF LaneTurns, LaneWord
<1>10. QED
  BY <1>8, <1>9

\* How the registers that hold parts of words are shifted.
LEMMA TupleParts ==
  ASSUME NEW a, NEW b, NEW c, NEW d
  PROVE  /\ SubSeq(<<a, b, c, d>>, 2, 4) = <<b, c, d>>
         /\ Append(<<a, b, c>>, d) = <<a, b, c, d>>
<1> DEFINE S == {a, b, c, d}
           s == <<a, b, c, d>>
           t == <<a, b, c>>
           u == <<b, c, d>>
<1>1. SubSeq(s, 2, 4) = u
  <2>1. \A i \in 2..4 : s[i] \in S
    OBVIOUS
  <2>2. s[2] = b /\ s[3] = c /\ s[4] = d
    OBVIOUS
  <2>3. u \in Seq(S) /\ Len(u) = 3 /\ u[1] = b /\ u[2] = c /\ u[3] = d
    OBVIOUS
  <2> HIDE DEF S, s, u
  <2>4. /\ SubSeq(s, 2, 4) \in Seq(S) /\ Len(SubSeq(s, 2, 4)) = 3
        /\ \A i \in 1..3 : SubSeq(s, 2, 4)[i] = s[2 + i - 1]
    <3>1. /\ SubSeq(s, 2, 4) \in Seq(S) /\ Len(SubSeq(s, 2, 4)) = IF 2 <= 4 THEN 4 - 2 + 1 ELSE 0
          /\ \A i \in 1 .. 4 - 2 + 1 : SubSeq(s, 2, 4)[i] = s[2 + i - 1]
      BY <2>1, SubSeqProperties
    <3>2. QED
      BY <3>1
  <2>5. SubSeq(s, 2, 4)[1] = u[1] /\ SubSeq(s, 2, 4)[2] = u[2] /\ SubSeq(s, 2, 4)[3] = u[3]
    BY <2>2, <2>3, <2>4
  <2>6. \A i \in 1 .. Len(SubSeq(s, 2, 4)) : SubSeq(s, 2, 4)[i] = u[i]
    BY <2>4, <2>5
  <2>7. QED
    BY <2>3, <2>4, <2>6, SeqEqual
<1>2. Append(t, d) = s
  <2>1. t \in Seq(S) /\ d \in S /\ Len(t) = 3 /\ t[1] = a /\ t[2] = b /\ t[3] = c
    OBVIOUS
  <2>2. s \in Seq(S) /\ Len(s) = 4 /\ s[1] = a /\ s[2] = b /\ s[3] = c /\ s[4] = d
    OBVIOUS
  <2> HIDE DEF S, s, t
  <2>3. /\ Append(t, d) \in Seq(S) /\ Len(Append(t, d)) = 4
        /\ \A i \in 1..3 : Append(t, d)[i] = t[i]
        /\ Append(t, d)[4] = d
    <3>1. ASSUME NEW r \in Seq(S), NEW e \in S
          PROVE  /\ Append(r, e) \in Seq(S) /\ Len(Append(r, e)) = Len(r) + 1
                 /\ \A i \in 1 .. Len(r) : Append(r, e)[i] = r[i]
                 /\ Append(r, e)[Len(r) + 1] = e
      BY AppendProperties
    <3>2. /\ Append(t, d) \in Seq(S) /\ Len(Append(t, d)) = Len(t) + 1
          /\ \A i \in 1 .. Len(t) : Append(t, d)[i] = t[i]
          /\ Append(t, d)[Len(t) + 1] = d
      BY <2>1, <3>1
    <3>3. QED
      BY <2>1, <3>2
  <2>4. \A i \in 1 .. Len(Append(t, d)) : Append(t, d)[i] = s[i]
    BY <2>1, <2>2, <2>3
  <2>5. QED
    BY <2>2, <2>3, <2>4, SeqEqual
<1>3. QED
  BY <1>1, <1>2

(***************************************************************************)
(* The registers with pixels, and the output FIFO.                         *)
(***************************************************************************)
\* The filtered words that are in the output FIFO; one more is on its way when Delivers.
Filtered == CASE compute.state = "FirstCompute"     -> 0
              [] compute.state = "Compute"          -> IF Pos > 1 THEN Pos - 2 ELSE 0
              [] compute.state = "LastCompute"      -> W - 3
              [] compute.state = "LastComputeWrite" -> W - 2
              [] OTHER                              -> IF compute.done THEN W ELSE W - 1

Delivers == \/ compute.state = "Compute" /\ Pos > 1
            \/ compute.state \in {"LastCompute", "LastComputeWrite"}
            \/ compute.state = "IdleCompute" /\ ~compute.done

PixelsKept ==
  LET F == FilteredRow IN
  /\ compute.state \in {"Compute", "LastCompute"} =>
       /\ compute.last_result = <<F[Pos][1], F[Pos][2], F[Pos][3]>>
       /\ \A i \in 1..3 : compute.last_q[i] = <<LaneWord(i, Pos)[3], LaneWord(i, Pos)[4]>>
  /\ compute.state = "LastComputeWrite" =>
       /\ compute.current_result = <<compute.current_result[1], F[W][1], F[W][2], F[W][3]>>
       /\ compute.next_result = F[W][4]
  /\ Delivers => compute.ofifo_data = F[Filtered + 1]

OutputFills ==
  /\ compute.ofifo_wrreq <=> Delivers
  /\ compute.state = "ReadDelay" => compute.ofifo_sclr
  /\ compute.ofifo_sclr => compute.state = "ReadDelay" \/ fresh
  /\ ~compute.done => ~fresh
  /\ ~fresh /\ compute.state # "ReadDelay" => outfifo.words = Held(FilteredRow, 0, Filtered)

FilterInv == FilterRegisters /\ LanesTurn /\ PixelsKept /\ OutputFills

\* The row that is filtered stays the same.
LEMMA RowStays ==
  ASSUME filled' = filled
  PROVE  FilteredRow' = FilteredRow /\ \A i, k : LaneWord(i, k)' = LaneWord(i, k)
  BY DEF FilteredRow, LaneWord, Filter!RowOf, Filter!Slice, Filter!Pixel, Filter!RowWords, W,
     Filter!Lanes, Filter!LeftOf, Filter!ZeroWord

FilteredByState ==
  /\ compute.state = "FirstCompute" => Filtered = 0
  /\ compute.state = "Compute" => Filtered = IF Pos > 1 THEN Pos - 2 ELSE 0
  /\ compute.state = "LastCompute" => Filtered = W - 3
  /\ compute.state = "LastComputeWrite" => Filtered = W - 2
  /\ compute.state = "IdleCompute" => Filtered = IF compute.done THEN W ELSE W - 1

\* Now and one edge later.
LEMMA FilteredCases == FilteredByState /\ FilteredByState'
  BY DEF FilteredByState, Filtered, W, Filter!RowWords

\* The pixels made of the words at the outputs of the lanes are those of the filtered row.
LEMMA PixelsNow ==
  ASSUME NEW k \in 1..W,
         \A i \in 1..3 : Filter!row_q[i] = LaneWord(i, k),
         k > 1 => \A i \in 1..3 :
                    compute.last_q[i] = <<LaneWord(i, k - 1)[3], LaneWord(i, k - 1)[4]>>
  PROVE  LET F == FilteredRow
             q == Filter!row_q
             results == Filter!ResultsOf(compute.last_q, q) IN
         /\ k = 1 =>
              Filter!DoComputation([i \in Filter!Lanes |-> Filter!LeftEdge(q[i])]) = F[k][1]
         /\ k > 1 => results[1] = F[k - 1][4] /\ results[2] = F[k][1]
         /\ results[3] = F[k][2] /\ results[4] = F[k][3]
         /\ Filter!DoComputation([i \in Filter!Lanes |-> Filter!SecondPixel(q[i])]) = F[k][2]
         /\ Filter!DoComputation([i \in Filter!Lanes |-> Filter!ThirdPixel(q[i])]) = F[k][3]
         /\ k = W => Filter!DoComputation([i \in Filter!Lanes |-> Filter!RightEdge(q[i])]) = F[k][4]
<1> DEFINE q == Filter!row_q
           l == compute.last_q
           F == FilteredRow
<1>1. \A i \in 1..3 : q[i] = LaneWord(i, k)
  OBVIOUS
<1>2. k > 1 => \A i \in 1..3 : l[i] = <<LaneWord(i, k - 1)[3], LaneWord(i, k - 1)[4]>>
  OBVIOUS
<1> HIDE DEF q, l
<1>3. PixelsMade(k, q, l)
  BY <1>1, <1>2, PixelsOf
<1> DEFINE first == Filter!DoComputation([i \in Filter!Lanes |-> Filter!FirstPixel(l[i], q[i])])
           last == Filter!DoComputation([i \in Filter!Lanes |-> Filter!LastPixel(l[i], q[i])])
           second == Filter!DoComputation([i \in Filter!Lanes |-> Filter!SecondPixel(q[i])])
           third == Filter!DoComputation([i \in Filter!Lanes |-> Filter!ThirdPixel(q[i])])
           results == Filter!ResultsOf(l, q)
<1>4. results = <<last, first, second, third>>
  BY DEF Filter!ResultsOf
<1> HIDE DEF F, first, last, second, third, results
<1>5. results[1] = last /\ results[2] = first /\ results[3] = second /\ results[4] = third
  BY <1>4
<1>6. /\ k > 1 => results[1] = F[k - 1][4] /\ results[2] = F[k][1]
      /\ results[3] = F[k][2] /\ results[4] = F[k][3]
  BY <1>3, <1>5 DEF first, last, second, third, F, PixelsMade
<1>7. QED
  BY <1>3, <1>6 DEF F, results, q, l, PixelsMade

\* Every edge keeps what is said of the registers with pixels.
LEMMA PixelsTick ==
  ASSUME FilterRegisters, LanesTurn, PixelsKept, NEW enable \in BOOLEAN, Filter!Tick(enable)
  PROVE  PixelsKept'
<1> DEFINE F       == FilteredRow
           q       == Filter!row_q
           results == Filter!ResultsOf(compute.last_q, q)
           left    == Filter!DoComputation([i \in Filter!Lanes |-> Filter!LeftEdge(q[i])])
           second  == Filter!DoComputation([i \in Filter!Lanes |-> Filter!SecondPixel(q[i])])
           third   == Filter!DoComputation([i \in Filter!Lanes |-> Filter!ThirdPixel(q[i])])
           right   == Filter!DoComputation([i \in Filter!Lanes |-> Filter!RightEdge(q[i])])
<1>1. /\ Filter!Clock(enable, q, Filter!row_empty) /\ filled' = filled
      /\ W \in Nat /\ W >= 3
  BY RowSize DEF Filter!Tick
<1>2. /\ \/ LaneRests(enable) \/ LaneStarts(enable) \/ LaneDelays \/ FirstWord
         \/ NextWords \/ LastWord \/ LaneEnds
      /\ FilterRegisters'
  BY <1>1, FilterMoves
<1>3. FilteredRow' = F /\ \A i, k : LaneWord(i, k)' = LaneWord(i, k)
  BY <1>1, RowStays
<1>4. ASSUME compute.state \in {"FirstCompute", "Compute", "LastCompute"}
      PROVE  \A i \in 1..3 : q[i] = LaneWord(i, Popped)
  BY <1>4 DEF LanesTurn, LaneTurns, Filter!row_q, Filter!Lanes
<1>5. compute.state \in {"Compute", "LastCompute"} =>
        /\ compute.last_result = <<F[Pos][1], F[Pos][2], F[Pos][3]>>
        /\ \A i \in 1..3 : compute.last_q[i] = <<LaneWord(i, Pos)[3], LaneWord(i, Pos)[4]>>
  BY DEF PixelsKept
<1>6. results = <<results[1], results[2], results[3], results[4]>>
  BY DEF Filter!ResultsOf
<1>7. \A i \in 1..3 : Filter!UpperHalves(q)[i] = <<q[i][3], q[i][4]>>
  BY DEF Filter!UpperHalves, Filter!Lanes
<1>8. /\ compute.state = "FirstCompute" =>
           compute'.last_result = <<left, second, third>> /\ compute'.last_q = Filter!UpperHalves(q)
      /\ compute.state = "Compute" =>
           /\ compute'.last_result = SubSeq(results, 2, 4)
           /\ compute'.last_q = Filter!UpperHalves(q)
      /\ compute.state \in {"Compute", "LastCompute"} =>
           compute'.ofifo_data = Append(compute.last_result, results[1])
      /\ compute.state = "LastCompute" =>
           compute'.current_result = results /\ compute'.next_result = right
      /\ compute.state = "LastComputeWrite" =>
           compute'.ofifo_data = Append(SubSeq(compute.current_result, 2, 4), compute.next_result)
  BY <1>1, PixelMoves
<1>9. ASSUME NEW k \in 1..W, \A i \in 1..3 : q[i] = LaneWord(i, k),
             k > 1 => \A i \in 1..3 :
                        compute.last_q[i] = <<LaneWord(i, k - 1)[3], LaneWord(i, k - 1)[4]>>
      PROVE  /\ k = 1 => left = F[k][1]
             /\ k > 1 => results[1] = F[k - 1][4] /\ results[2] = F[k][1]
             /\ results[3] = F[k][2] /\ results[4] = F[k][3]
             /\ second = F[k][2] /\ third = F[k][3]
             /\ k = W => right = F[k][4]
  BY <1>9, PixelsNow
<1> HIDE DEF left, second, third, right, results, q
<1>10. CASE LaneRests(enable)
  <2>1. compute'.state = "IdleCompute" /\ compute'.done
    BY <1>10 DEF LaneRests
  <2>2. QED
    BY <2>1 DEF PixelsKept, Delivers
<1>11. CASE LaneStarts(enable) \/ LaneDelays
  <2>1. compute'.state \in {"ReadDelay", "FirstCompute"}
    BY <1>11 DEF LaneStarts, LaneDelays
  <2>2. QED
    BY <2>1 DEF PixelsKept, Delivers
<1>12. CASE FirstWord
  <2>1. compute.state = "FirstCompute" /\ compute'.state = "Compute" /\ Pos' = 1 /\ Popped = 1
    BY <1>12, PlaceCases DEF FirstWord, PlaceByState
  <2>2. \A i \in 1..3 : q[i] = LaneWord(i, 1)
    BY <1>4, <2>1
  <2>3. left = F[1][1] /\ second = F[1][2] /\ third = F[1][3]
    <3>1. 1 \in 1..W /\ ~(1 > 1)
      BY <1>1
    <3> HIDE DEF F
    <3>2. QED
      BY <1>9, <2>2, <3>1
  <2>4. compute'.last_result = <<F[1][1], F[1][2], F[1][3]>>
    BY <1>8, <2>1, <2>3
  <2>5. \A i \in 1..3 : compute'.last_q[i] = <<LaneWord(i, 1)[3], LaneWord(i, 1)[4]>>
    BY <1>7, <1>8, <2>1, <2>2
  <2>6. ~Delivers'
    BY <2>1 DEF Delivers
  <2> HIDE DEF F
  <2>7. QED
    BY <1>3, <2>1, <2>4, <2>5, <2>6 DEF PixelsKept
<1>13. CASE NextWords
  <2>1. /\ compute.state = "Compute" /\ compute'.state \in {"Compute", "LastCompute"}
        /\ Pos \in 1 .. W - 2 /\ Pos' = Pos + 1 /\ Popped = Pos + 1
        /\ Filtered' = Pos - 1
    <3> USE PlaceCases, FilteredCases DEF PlaceByState, FilteredByState
    <3>1. CASE Pos = W - 2
      BY <1>1, <1>2, <1>13, <3>1 DEF NextWords, W, Filter!RowWords
    <3>2. CASE Pos # W - 2
      BY <1>1, <1>13, <3>2 DEF NextWords
    <3>3. QED
      BY <3>1, <3>2
  <2> DEFINE k == Pos + 1
  <2>2. /\ k \in 1..W /\ k > 1 /\ k - 1 \in 1..W /\ Pos' = k /\ Popped = k /\ k - 1 = Pos
        /\ Filtered' + 1 = k - 1
    BY <1>1, <2>1
  <2>3. /\ \A i \in 1..3 : q[i] = LaneWord(i, k)
        /\ \A i \in 1..3 : compute.last_q[i] = <<LaneWord(i, k - 1)[3], LaneWord(i, k - 1)[4]>>
    BY <1>4, <1>5, <2>1, <2>2
  <2>4. compute.last_result = <<F[k - 1][1], F[k - 1][2], F[k - 1][3]>>
    BY <1>5, <2>1, <2>2
  <2> HIDE DEF k, F
  <2>5. results[1] = F[k - 1][4] /\ results[2] = F[k][1] /\ results[3] = F[k][2]
          /\ results[4] = F[k][3]
    BY <1>9, <2>2, <2>3
  <2>6. compute'.last_result = <<F[k][1], F[k][2], F[k][3]>>
    BY <1>6, <1>8, <2>1, <2>5, TupleParts
  <2>7. \A i \in 1..3 : compute'.last_q[i] = <<LaneWord(i, k)[3], LaneWord(i, k)[4]>>
    BY <1>7, <1>8, <2>1, <2>3
  <2>8. compute'.ofifo_data = F[k - 1]
    <3>1. compute'.ofifo_data = <<F[k - 1][1], F[k - 1][2], F[k - 1][3], F[k - 1][4]>>
      BY <1>8, <2>1, <2>4, <2>5, TupleParts
    <3>2. QED
      BY <2>2, <3>1, FourPixels DEF F
  <2>9. QED
    BY <1>3, <2>1, <2>2, <2>6, <2>7, <2>8 DEF PixelsKept
<1>14. CASE LastWord
  <2>1. /\ compute.state = "LastCompute" /\ compute'.state = "LastComputeWrite"
        /\ Pos = W - 1 /\ Popped = W /\ Filtered' = W - 2
    BY <1>14, PlaceCases, FilteredCases
       DEF LastWord, PlaceByState, FilteredByState, W, Filter!RowWords
  <2> DEFINE k == W
  <2>2. k \in 1..W /\ k > 1 /\ k - 1 \in 1..W /\ Pos = k - 1 /\ Filtered' + 1 = k - 1 /\ k = W
    BY <1>1, <2>1
  <2>3. /\ \A i \in 1..3 : q[i] = LaneWord(i, k)
        /\ \A i \in 1..3 : compute.last_q[i] = <<LaneWord(i, k - 1)[3], LaneWord(i, k - 1)[4]>>
    BY <1>4, <1>5, <2>1, <2>2
  <2>4. compute.last_result = <<F[k - 1][1], F[k - 1][2], F[k - 1][3]>>
    BY <1>5, <2>1, <2>2
  <2> HIDE DEF k, F
  <2>5. results[1] = F[k - 1][4] /\ results[2] = F[k][1] /\ results[3] = F[k][2]
          /\ results[4] = F[k][3] /\ right = F[k][4]
    BY <1>9, <2>2, <2>3
  <2>6. compute'.ofifo_data = F[k - 1]
    <3>1. compute'.ofifo_data = <<F[k - 1][1], F[k - 1][2], F[k - 1][3], F[k - 1][4]>>
      BY <1>8, <2>1, <2>4, <2>5, TupleParts
    <3>2. QED
      BY <2>2, <3>1, FourPixels DEF F
  <2>7. /\ compute'.current_result = <<compute'.current_result[1], F[k][1], F[k][2], F[k][3]>>
        /\ compute'.next_result = F[k][4]
    BY <1>6, <1>8, <2>1, <2>5
  <2>8. W' = W
    BY DEF W, Filter!RowWords
  <2>9. QED
    BY <1>3, <2>1, <2>2, <2>6, <2>7, <2>8 DEF PixelsKept
<1>15. CASE LaneEnds
  <2>1. /\ compute.state = "LastComputeWrite" /\ compute'.state = "IdleCompute"
        /\ ~compute'.done /\ Filtered' = W - 1
    <3>1. compute.state = "LastComputeWrite" /\ compute'.state = "IdleCompute" /\ ~compute'.done
      BY <1>15 DEF LaneEnds, FilterRegisters, Filter!TypeOK
    <3>2. QED
      BY <3>1, FilteredCases DEF FilteredByState, W, Filter!RowWords
  <2>2. /\ compute.current_result = <<compute.current_result[1], F[W][1], F[W][2], F[W][3]>>
        /\ compute.next_result = F[W][4]
    BY <2>1 DEF PixelsKept
  <2>3. W \in 1..W /\ Filtered' + 1 = W
    BY <1>1, <2>1
  <2> HIDE DEF F
  <2>4. compute'.ofifo_data = <<F[W][1], F[W][2], F[W][3], F[W][4]>>
    BY <1>8, <2>1, <2>2, TupleParts
  <2>5. compute'.ofifo_data = F[W]
    BY <2>3, <2>4, FourPixels DEF F
  <2>6. QED
    BY <1>3, <2>1, <2>3, <2>5 DEF PixelsKept
<1>16. QED
  BY <1>2, <1>10, <1>11, <1>12, <1>13, <1>14, <1>15

\* While a row is filtered, its words follow each other into the output FIFO.
LEMMA OutputEdge ==
  ASSUME FilterInv, ~fresh, compute.state # "ReadDelay", NEW enable \in BOOLEAN,
         Filter!Tick(enable)
  PROVE  outfifo'.words = Held(FilteredRow, 0, Filtered + Bit(Delivers))
<1> DEFINE F    == FilteredRow
           sclr == compute.ofifo_sclr
           wr   == compute.ofifo_wrreq
           d    == compute.ofifo_data
           rd   == FALSE
           first == 0
           g    == Filter!Row!Clocked(outfifo, sclr, wr, d, rd)
<1>1. outfifo' = g /\ Filter!Clock(enable, Filter!row_q, Filter!row_empty)
  BY DEF Filter!Tick
<1>2. /\ ~sclr /\ (wr <=> Delivers) /\ outfifo.words = Held(F, 0, Filtered)
      /\ Delivers => d = F[Filtered + 1]
      /\ W \in Nat /\ W >= 3 /\ FilterRegisters
  BY RowSize DEF FilterInv, OutputFills, PixelsKept
<1>3. compute.state = "Compute" => Pos \in 1 .. W - 2
  BY <1>1, <1>2, FilterMoves
     DEF LaneRests, LaneStarts, LaneDelays, FirstWord, NextWords, LastWord, LaneEnds
<1>4. Filtered \in 0..W /\ (Delivers => Filtered < W)
  BY <1>2, <1>3, FilteredCases DEF FilteredByState, Delivers, FilterRegisters, Filter!TypeOK
<1>5. /\ rd => Filtered > 0 /\ first < W
      /\ wr => Filtered < W /\ d = F[Turn(first + (Filtered + 1))]
      /\ first \in 0..W /\ outfifo.words = Held(F, first, Filtered)
  BY <1>2, <1>4 DEF Turn
<1>6. first + Bit(rd) = 0 /\ (Filtered + Bit(wr)) - Bit(rd) = Filtered + Bit(Delivers)
  BY <1>2, <1>4 DEF Bit
<1> HIDE DEF F, sclr, wr, d, rd, first
<1>7. g.words = Held(F, first + Bit(rd), (Filtered + Bit(wr)) - Bit(rd))
  BY <1>2, <1>4, <1>5, HeldEdge
<1> HIDE DEF g
<1>8. QED
  BY <1>1, <1>6, <1>7 DEF F

LEMMA OutputTick ==
  ASSUME FilterInv, NEW enable \in BOOLEAN, Filter!Tick(enable)
  PROVE  OutputFills'
<1>1. /\ Filter!Clock(enable, Filter!row_q, Filter!row_empty) /\ filled' = filled
      /\ outfifo' = Filter!Row!Clocked(outfifo, compute.ofifo_sclr, compute.ofifo_wrreq,
                                       compute.ofifo_data, FALSE)
      /\ fresh' = (fresh /\ ~enable) /\ (enable => compute.done)
      /\ W \in Nat /\ W >= 3
  BY RowSize DEF Filter!Tick
<1>2. /\ \/ LaneRests(enable) \/ LaneStarts(enable) \/ LaneDelays \/ FirstWord
         \/ NextWords \/ LastWord \/ LaneEnds
      /\ FilterRegisters /\ FilterRegisters'
  BY <1>1, FilterMoves DEF FilterInv
<1>3. FilteredRow' = FilteredRow /\ Held(FilteredRow, 0, Filtered)' = Held(FilteredRow', 0, Filtered')
  BY <1>1, RowStays DEF Held, Turn, W, Filter!RowWords
<1>4. /\ ~compute.done => ~fresh
      /\ compute.state = "ReadDelay" => compute.ofifo_sclr
      /\ compute.done \in BOOLEAN /\ compute'.done \in BOOLEAN
      /\ compute.done => compute.state = "IdleCompute"
      /\ compute'.done => compute'.state = "IdleCompute"
  BY <1>2 DEF FilterInv, OutputFills, FilterRegisters, Filter!TypeOK
<1>5. ~fresh /\ compute.state # "ReadDelay" =>
        outfifo'.words = Held(FilteredRow, 0, Filtered + Bit(Delivers))
  BY OutputEdge
<1>6. FilteredByState /\ FilteredByState'
  BY FilteredCases
<1>7. W' = W
  BY DEF W, Filter!RowWords
<1> USE <1>1, <1>4, <1>6, <1>7 DEF FilteredByState, Delivers, Bit, Output
<1>8. CASE LaneRests(enable)
  <2>1. /\ compute.state = "IdleCompute" /\ compute'.state = "IdleCompute" /\ compute'.done
        /\ compute'.ofifo_sclr = FALSE /\ compute'.ofifo_wrreq = FALSE
        /\ (fresh' <=> fresh) /\ Filtered' = W
    BY <1>8 DEF LaneRests
  <2>2. Filtered + Bit(Delivers) = W
    BY <2>1
  <2>3. ~fresh' => outfifo'.words = Held(FilteredRow', 0, Filtered')
    BY <1>3, <1>5, <2>1, <2>2
  <2>4. QED
    BY <1>3, <2>1, <2>3 DEF OutputFills
<1>9. CASE LaneStarts(enable)
  BY <1>9 DEF LaneStarts, OutputFills
<1>10. CASE LaneDelays
  <2>1. /\ compute.state = "ReadDelay" /\ compute'.state = "FirstCompute"
        /\ compute'.ofifo_sclr = FALSE /\ compute'.ofifo_wrreq = FALSE
        /\ compute.ofifo_sclr /\ Filtered' = 0 /\ ~fresh'
    BY <1>10 DEF LaneDelays
  <2>2. outfifo'.words = <<>>
    BY <2>1 DEF Filter!Row!Clocked, Filter!Row!EmptyFifo
  <2>3. outfifo'.words = Held(FilteredRow', 0, Filtered')
    BY <2>1, <2>2, HeldNone
  <2>4. QED
    BY <1>3, <2>1, <2>3 DEF OutputFills
<1>11. CASE FirstWord
  <2>1. /\ compute.state = "FirstCompute" /\ compute'.state = "Compute" /\ Pos' = 1
        /\ compute'.ofifo_sclr = FALSE /\ compute'.ofifo_wrreq = FALSE
        /\ ~fresh /\ ~fresh'
    BY <1>11 DEF FirstWord
  <2>2. Filtered' = 0 /\ Filtered + Bit(Delivers) = 0
    BY <2>1
  <2>3. outfifo'.words = Held(FilteredRow', 0, Filtered')
    BY <1>3, <1>5, <2>1, <2>2
  <2>4. ~(Pos' > 1)
    BY <2>1
  <2>5. ~Delivers'
    BY <2>1, <2>4
  <2> HIDE DEF Delivers
  <2>6. QED
    BY <1>3, <2>1, <2>3, <2>5 DEF OutputFills
<1>12. CASE NextWords
  <2>1. /\ compute.state = "Compute" /\ compute'.state \in {"Compute", "LastCompute"}
        /\ compute'.state = IF Pos = W - 2 THEN "LastCompute" ELSE "Compute"
        /\ Pos \in 1 .. W - 2 /\ Pos' = Pos + 1
        /\ compute'.ofifo_sclr = FALSE /\ compute'.ofifo_wrreq = TRUE
        /\ ~fresh /\ ~fresh'
    BY <1>12 DEF NextWords
  <2>2. Filtered' = Pos - 1
    <3>1. CASE Pos = W - 2
      BY <2>1, <3>1
    <3>2. CASE Pos # W - 2
      BY <2>1, <3>2
    <3>3. QED
      BY <3>1, <3>2
  <2>3. Filtered + Bit(Delivers) = Pos - 1
    BY <2>1
  <2>4. outfifo'.words = Held(FilteredRow', 0, Filtered')
    BY <1>3, <1>5, <2>1, <2>2, <2>3
  <2>5. Delivers'
    BY <2>1
  <2>6. QED
    BY <1>3, <2>1, <2>4, <2>5 DEF OutputFills
<1>13. CASE LastWord
  <2>1. /\ compute.state = "LastCompute" /\ compute'.state = "LastComputeWrite"
        /\ compute'.ofifo_sclr = FALSE /\ compute'.ofifo_wrreq = TRUE
        /\ ~fresh /\ ~fresh'
    BY <1>13 DEF LastWord
  <2>2. Filtered' = W - 2 /\ Filtered + Bit(Delivers) = W - 2
    BY <2>1
  <2>3. outfifo'.words = Held(FilteredRow', 0, Filtered')
    BY <1>3, <1>5, <2>1, <2>2
  <2>4. QED
    BY <1>3, <2>1, <2>3 DEF OutputFills
<1>14. CASE LaneEnds
  <2>1. /\ compute.state = "LastComputeWrite" /\ compute'.state = "IdleCompute"
        /\ compute'.ofifo_sclr = FALSE /\ compute'.ofifo_wrreq = TRUE /\ ~compute'.done
        /\ ~fresh /\ ~fresh'
    BY <1>14 DEF LaneEnds
  <2>2. Filtered' = W - 1 /\ Filtered + Bit(Delivers) = W - 1
    BY <2>1
  <2>3. outfifo'.words = Held(FilteredRow', 0, Filtered')
    BY <1>3, <1>5, <2>1, <2>2
  <2>4. QED
    BY <1>3, <2>1, <2>3 DEF OutputFills
<1>15. QED
  BY <1>2, <1>8, <1>9, <1>10, <1>11, <1>12, <1>13, <1>14

\* The row FIFOs have just been filled and the filter rests.
JustFilled ==
  /\ filled \subseteq 1..3
  /\ compute.state = "IdleCompute"
  /\ lanefifo = [i \in Filter!Lanes |->
                   [Filter!Row!EmptyFifo EXCEPT !.words = Filter!Contents(i, filled)]]
  /\ \A i \in 1..3 : ~compute.row_rdreq[i] /\ ~compute.row_wrreq[i]

\* They hold whole rows, now and one edge later.
LEMMA LanesFilled == JustFilled => LanesTurn
<1> SUFFICES ASSUME JustFilled, NEW i \in 1..3 PROVE LaneTurns(i)
  BY DEF LanesTurn, JustFilled
<1> USE DEF JustFilled
<1>1. /\ lanefifo[i].words = Filter!Contents(i, filled) /\ lanefifo[i].q = Filter!ZeroWord
  BY DEF Filter!Row!EmptyFifo, Filter!Lanes
<1>2. ~Pops /\ ~Pushes /\ Popped = 0 /\ Pushed = 0 /\ (W + 0) - 0 = W
  BY PlaceCases, RowSize DEF Pops, Pushes, PlaceByState
<1>3. i \in filled => lanefifo[i].words = Held(Filter!RowOf(i), 0, W)
  <2>1. Held(Filter!RowOf(i), 0, W) = Filter!RowOf(i)
    <3>1. Filter!RowOf(i) = [k \in 1..W |-> Filter!RowOf(i)[k]]
      BY DEF Filter!RowOf, W
    <3>2. QED
      BY <3>1, HeldWhole
  <2>2. QED
    BY <1>1, <2>1 DEF Filter!Contents
<1>4. i \notin filled => lanefifo[i].words = <<>>
  BY <1>1 DEF Filter!Contents
<1>5. QED
  BY <1>1, <1>2, <1>3, <1>4 DEF LaneTurns

LEMMA NextFilled == JustFilled' => LanesTurn'
  BY LanesFilled, PTL

LEMMA FilterInit == PathsInit => FilterInv
<1> SUFFICES ASSUME PathsInit PROVE FilterInv
  OBVIOUS
<1>1. /\ Filter!Init /\ filled \subseteq 1..3 /\ fresh = TRUE
      /\ lanefifo = [i \in Filter!Lanes |->
                       [Filter!Row!EmptyFifo EXCEPT !.words = Filter!Contents(i, filled)]]
  BY DEF PathsInit, Filter!FPInit, Filter!Lanes
<1>2. /\ FilterRegisters /\ compute.state = "IdleCompute" /\ compute.done
      /\ ~compute.ofifo_wrreq
      /\ \A i \in 1..3 : ~compute.row_rdreq[i] /\ ~compute.row_wrreq[i]
  BY <1>1, RowSize DEF Filter!Init, FilterRegisters, ComputeFields, Filter!TypeOK, Filter!Lanes
<1>3. LanesTurn
  BY <1>1, <1>2, LanesFilled DEF JustFilled
<1>4. PixelsKept /\ OutputFills
  BY <1>1, <1>2 DEF PixelsKept, OutputFills, Delivers
<1>5. QED
  BY <1>2, <1>3, <1>4 DEF FilterInv

\* New rows come in while the filter rests.
LEMMA FilterRefill == ASSUME FilterInv, Filter!Refill PROVE FilterInv'
<1>1. /\ filled' \subseteq 1..3 /\ compute' = compute /\ outfifo' = outfifo /\ fresh'
      /\ lanefifo' = [i \in Filter!Lanes |->
                       [Filter!Row!EmptyFifo EXCEPT !.words = Filter!Contents(i, filled')]]
      /\ compute.done /\ FilterRegisters
  BY DEF Filter!Refill, Filter!Lanes, FilterInv
<1>2. compute.state = "IdleCompute" /\ ~Delivers
  BY <1>1 DEF FilterRegisters, Delivers
<1>3. \A i \in 1..3 : ~compute.row_rdreq[i] /\ ~compute.row_wrreq[i]
  BY <1>2 DEF FilterInv, LanesTurn, LaneTurns, Pops, Pushes
<1>4. FilterRegisters'
  BY <1>1 DEF FilterRegisters, Filter!TypeOK, W, Filter!RowWords
<1>5. LanesTurn'
  <2>1. JustFilled'
    BY <1>1, <1>2, <1>3 DEF JustFilled, Filter!Contents, Filter!RowOf, Filter!RowWords, Filter!Pixel
  <2>2. QED
    BY <2>1, NextFilled
<1>6. PixelsKept'
  BY <1>1, <1>2 DEF PixelsKept, Delivers
<1>7. OutputFills'
  BY <1>1, <1>2 DEF OutputFills, Delivers, FilterInv
<1>8. QED
  BY <1>4, <1>5, <1>6, <1>7 DEF FilterInv

\* The filter's part, whichever part moves.
LEMMA FilterStep == ASSUME FilterInv, [PathsNext]_vars PROVE FilterInv'
<1>1. ASSUME NEW enable \in BOOLEAN, Filter!Tick(enable) PROVE FilterInv'
  <2>1. FilterRegisters'
    BY <1>1, FilterMoves DEF FilterInv, Filter!Tick
  <2>2. LanesTurn'
    <3>1. ASSUME NEW i \in 1..3 PROVE LaneTurns(i)'
      BY <1>1, LaneTick DEF FilterInv
    <3>2. filled' \subseteq 1..3
      BY <1>1 DEF FilterInv, LanesTurn, Filter!Tick
    <3>3. QED
      BY <3>1, <3>2 DEF LanesTurn
  <2>3. PixelsKept'
    BY <1>1, PixelsTick DEF FilterInv
  <2>4. OutputFills'
    BY <1>1, OutputTick
  <2>5. QED
    BY <2>1, <2>2, <2>3, <2>4 DEF FilterInv
<1>2. ASSUME UNCHANGED filterVars PROVE FilterInv'
  <2>1. /\ compute' = compute /\ lanefifo' = lanefifo /\ outfifo' = outfifo
        /\ filled' = filled /\ fresh' = fresh /\ W' = W
    BY <1>2 DEF filterVars, W, Filter!RowWords
  <2>2. /\ FilteredRow' = FilteredRow /\ \A i, k : LaneWord(i, k)' = LaneWord(i, k)
        /\ Popped' = Popped /\ Pushed' = Pushed /\ Filtered' = Filtered /\ Pos' = Pos
        /\ (Pops' <=> Pops) /\ (Pushes' <=> Pushes) /\ (Delivers' <=> Delivers)
    BY <2>1, RowStays DEF Popped, Pushed, Filtered, Pos, Pops, Pushes, Delivers
  <2>3. FilterRegisters'
    BY <2>1 DEF FilterInv, FilterRegisters, Filter!TypeOK
  <2>4. LanesTurn'
    <3> SUFFICES ASSUME NEW i \in 1..3 PROVE LaneTurns(i)'
      BY <2>1 DEF FilterInv, LanesTurn
    <3>1. Filter!RowOf(i)' = Filter!RowOf(i)
      BY DEF Filter!RowOf, Filter!Pixel, Filter!RowWords
    <3>2. Held(Filter!RowOf(i), Popped, (W + Pushed) - Popped)'
            = Held(Filter!RowOf(i), Popped, (W + Pushed) - Popped)
      BY <2>1, <2>2, <3>1 DEF Held, Turn
    <3>3. QED
      BY <2>1, <2>2, <3>2 DEF FilterInv, LanesTurn, LaneTurns
  <2>5. PixelsKept'
    BY <2>1, <2>2 DEF FilterInv, PixelsKept
  <2>6. OutputFills'
    BY <2>1, <2>2 DEF FilterInv, OutputFills, Held, Turn
  <2>7. QED
    BY <2>3, <2>4, <2>5, <2>6 DEF FilterInv
<1>3. CASE Filtering /\ Filter!Next
  BY <1>1, <1>3, FilterRefill DEF Filter!Next
<1>4. QED
  BY <1>2, <1>3 DEF PathsNext, Reading, Writing, Computing, vars

LEMMA FilterHolds == PathsSpec => []FilterInv
<1>1. FilterInv /\ [PathsNext]_vars => FilterInv'
  BY FilterStep
<1>2. QED
  BY <1>1, FilterInit, PTL DEF PathsSpec

\* A row is filtered into one row (adaptive_threshold.vhd): when the component is done, the
\* output FIFO holds exactly one word for each word of the row, every pixel computed from the
\* three rows around it, black where there is none, and the row FIFOs are as they were.
THEOREM RowsFiltered == PathsSpec => []RowFiltered
<1>1. FilterInv => RowFiltered
  <2> SUFFICES ASSUME FilterInv, compute.done, ~fresh
               PROVE  /\ Filter!RowsRestored
                      /\ outfifo.words = FilteredRow
    BY DEF RowFiltered, Filter!RowFiltered, Filter!Settled, FilteredRow, W
  <2>1. compute.state = "IdleCompute" /\ W \in Nat /\ (W + 0) - 0 = W
    BY RowSize DEF FilterInv, FilterRegisters
  <2>2. Popped = 0 /\ Pushed = 0 /\ Filtered = W
    BY <2>1, PlaceCases, FilteredCases DEF PlaceByState, FilteredByState
  <2>3. ASSUME NEW i \in 1..3 PROVE lanefifo[i].words = Filter!Contents(i, filled)
    <3>1. CASE i \in filled
      <4>1. lanefifo[i].words = Held(Filter!RowOf(i), 0, W)
        BY <2>1, <2>2, <3>1 DEF FilterInv, LanesTurn, LaneTurns
      <4>2. Filter!RowOf(i) = [k \in 1..W |-> Filter!RowOf(i)[k]]
        BY DEF Filter!RowOf, W
      <4>3. QED
        BY <3>1, <4>1, <4>2, HeldWhole DEF Filter!Contents
    <3>2. CASE i \notin filled
      BY <3>2 DEF FilterInv, LanesTurn, LaneTurns, Filter!Contents
    <3>3. QED
      BY <3>1, <3>2
  <2>4. outfifo.words = FilteredRow
    <3>1. outfifo.words = Held(FilteredRow, 0, W)
      BY <2>1, <2>2 DEF FilterInv, OutputFills
    <3>2. FilteredRow = [k \in 1..W |-> FilteredRow[k]]
      BY DEF FilteredRow
    <3>3. QED
      BY <3>1, <3>2, HeldWhole
  <2>5. QED
    BY <2>3, <2>4 DEF Filter!RowsRestored, Filter!Lanes
<1>2. QED
  BY <1>1, FilterHolds, PTL
==============================================================================
