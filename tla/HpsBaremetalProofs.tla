------------------------- MODULE HpsBaremetalProofs -------------------------
(***************************************************************************)
(* Proofs about HpsBaremetal, for FIFOs, triggers and images of any size   *)
(* and any number of bytes: IInv is inductive, and the safety properties   *)
(* follow from it.  One lemma for each part of IInv shows that every step  *)
(* preserves it.                                                           *)
(***************************************************************************)
EXTENDS HpsBaremetal, SequenceTheorems, TLAPS

USE FifoAssumption, SizeAssumption

\* Functions on 1..n are sequences of length n.
LEMMA FunctionIsSeq ==
  ASSUME NEW n \in Nat, NEW f \in [1..n -> Int]
  PROVE  f \in Seq(Int) /\ Len(f) = n
<1>1. f \in Seq(Int)
  BY SeqDef
<1>2. Len(f) \in Nat /\ DOMAIN f = 1..Len(f)
  BY <1>1, LenProperties
<1>3. 1..Len(f) = 1..n
  BY <1>2
<1>4. Len(f) = n
  BY <1>2, <1>3
<1>5. QED
  BY <1>1, <1>4

\* The elements of two sequences put together.
LEMMA Joined ==
  ASSUME NEW s \in Seq(Int), NEW t \in Seq(Int)
  PROVE  \A k \in 1..Len(s) + Len(t) :
           (s \o t)[k] = IF k <= Len(s) THEN s[k] ELSE t[k - Len(s)]
  BY ConcatProperties

\* What fifo_read takes from the receive FIFO and what it leaves.
LEMMA TakeFirst ==
  ASSUME NEW s \in Seq(Nat), NEW n \in 0..Len(s)
  PROVE  /\ SubSeq(s, n + 1, Len(s)) \in Seq(Nat)
         /\ Len(SubSeq(s, n + 1, Len(s))) = Len(s) - n
         /\ \A k \in 1..Len(s) - n : SubSeq(s, n + 1, Len(s))[k] = s[n + k]
         /\ \A k \in 1..n : SubSeq(s, 1, n)[k] = s[k]
<1>0. Len(s) \in Nat /\ \A k \in 1..Len(s) : s[k] \in Nat
  BY LenProperties, ElementOfSeq
<1>1. /\ SubSeq(s, n + 1, Len(s)) \in Seq(Nat)
      /\ Len(SubSeq(s, n + 1, Len(s))) = IF n + 1 <= Len(s) THEN Len(s) - (n + 1) + 1 ELSE 0
      /\ \A k \in 1..Len(s) - (n + 1) + 1 : SubSeq(s, n + 1, Len(s))[k] = s[n + 1 + k - 1]
  <2>1. n + 1 \in Int /\ Len(s) \in Int /\ \A k \in n + 1 .. Len(s) : s[k] \in Nat
    BY <1>0
  <2>2. QED
    BY <2>1, SubSeqProperties, SMTT(20)
<1>2. \A k \in 1 .. n - 1 + 1 : SubSeq(s, 1, n)[k] = s[1 + k - 1]
  <2>1. 1 \in Int /\ n \in Int /\ \A k \in 1..n : s[k] \in Nat
    BY <1>0
  <2>2. QED
    BY <2>1, SubSeqProperties, SMTT(20)
<1>3. QED
  BY <1>0, <1>1, <1>2

\* A byte that comes in.
LEMMA AppendOne ==
  ASSUME NEW s \in Seq(Nat), NEW b \in Nat
  PROVE  /\ Append(s, b) \in Seq(Nat)
         /\ Len(Append(s, b)) = Len(s) + 1
         /\ \A k \in 1..Len(s) : Append(s, b)[k] = s[k]
         /\ Append(s, b)[Len(s) + 1] = b
  BY AppendProperties

\* A byte that moves from the transmit FIFO to the shift register.
LEMMA TakeHead ==
  ASSUME NEW s \in Seq(Int), s # <<>>
  PROVE  /\ <<Head(s)>> \in Seq(Int) /\ Len(<<Head(s)>>) = 1 /\ <<Head(s)>>[1] = s[1]
         /\ Tail(s) \in Seq(Int) /\ Len(Tail(s)) = Len(s) - 1
         /\ \A k \in 1..Len(s) - 1 : Tail(s)[k] = s[k + 1]
<1>1. Head(s) \in Int /\ Head(s) = s[1]
  BY HeadTailProperties
<1>2. QED
  BY <1>1, HeadTailProperties
-----------------------------------------------------------------------------
LEMMA InitIInv == AppInit => IInv
<1> SUFFICES ASSUME AppInit PROVE IInv
  OBVIOUS
<1> USE DEF AppInit, Init, NoCall
<1>1. TypeOK
  <2>1. <<>> \in Seq(Nat) /\ <<>> \in Seq(Int)
    BY EmptySeq
  <2>2. UartTypeOK
    BY <2>1 DEF UartTypeOK, Enables
  <2>3. img \in [1..ImageSize -> Int] /\ img_offset \in Nat
    OBVIOUS
  <2>4. QED
    BY <2>1, <2>2, <2>3 DEF TypeOK, Enables, Places, Steps
<1>2. TransferFits
  BY DEF TransferFits, InsideBuffer
<1>3. Handshake
  BY DEF Handshake, WakeUpNotLost, EnableNotTorn
<1>4. EndAnnounced
  BY DEF EndAnnounced, Sending
<1>5. Incoming
  BY DEF Incoming, Received
<1>6. Buffered
  BY DEF Buffered, Sending
<1>7. Outgoing
  BY DEF Outgoing, Unsent, Sending
<1>8. QED
  BY <1>1, <1>2, <1>3, <1>4, <1>5, <1>6, <1>7 DEF IInv

\* Every step keeps every variable in its type.
LEMMA TypeStep == IInv /\ Next => TypeOK'
<1>a. SUFFICES ASSUME IInv, Next PROVE TypeOK'
  OBVIOUS
<1>t. TypeOK
  BY <1>a DEF IInv
<1>f. TransferFits
  BY <1>a DEF IInv
<1> USE <1>t DEF TypeOK, UartTypeOK
<1>1. CASE Main
  <2> USE DEF Goto, Places, Sending, Enables
  <2>1. CASE Filter
    <3>1. img' \in [1..ImageSize -> Int]
      BY <2>1 DEF Filter
    <3>2. QED
      BY <2>1, <3>1 DEF Filter
  <2>2. CASE ReadIer
    BY <2>2 DEF ReadIer
  <2>3. CASE WriteIer
    BY <2>3 DEF WriteIer, int_enable_tx
  <2>4. CASE Allocate \/ Restart \/ ImageReceived
    <3>1. CASE Allocate
      BY <3>1 DEF Allocate
    <3>2. CASE Restart
      BY <3>2 DEF Restart
    <3>3. CASE ImageReceived
      BY <3>3 DEF ImageReceived
    <3>4. QED
      BY <2>4, <3>1, <3>2, <3>3
  <2>5. CASE Rewind
    BY <2>5 DEF Rewind
  <2>6. CASE NextChunk
    BY <2>6 DEF NextChunk
  <2>7. CASE ChunkSent \/ TransmissionDone
    BY <2>7 DEF ChunkSent, TransmissionDone
  <2>8. QED
    BY <1>1, <2>1, <2>2, <2>3, <2>4, <2>5, <2>6, <2>7 DEF Main
<1>2. CASE Spin
  BY <1>2 DEF Spin, vars, appVars
<1>3. CASE uart_callback
  BY <1>3 DEF uart_callback, Steps
<1>4. CASE RxLevel
  BY <1>4, <1>f DEF RxLevel, CopySize, fifo_level_get_rx, TransferFits, InsideBuffer, Steps
<1>5. CASE RxCopy
  <2> DEFINE n == isr.copy_size
             rest == SubSeq(uart.rx, n + 1, Len(uart.rx))
  <2>1. uart.rx \in Seq(Nat) /\ n \in Nat /\ n \in 0..Len(uart.rx)
    BY <1>5, <1>f, LenProperties DEF RxCopy, TransferFits
  <2>l. Len(uart.rx) \in Nat
    BY <2>1, LenProperties
  <2>2. rest \in Seq(Nat)
    BY <2>1, TakeFirst
  <2>b. ASSUME NEW k \in 1..n PROVE FirstBytes(n)[k] \in Nat
    <3>1. FirstBytes(n)[k] = uart.rx[k]
      BY <2>1, TakeFirst, SMTT(20) DEF FirstBytes
    <3>2. k \in 1..Len(uart.rx)
      BY <2>1, <2>l
    <3>3. QED
      BY <2>1, <3>1, <3>2, ElementOfSeq
  <2>3. img' \in [1..ImageSize -> Int]
    <3> HIDE DEF n
    <3>1. \A k \in 1..ImageSize :
            k \in img_offset + 1 .. img_offset + n => FirstBytes(n)[k - img_offset] \in Int
      <4>1. ASSUME NEW k \in img_offset + 1 .. img_offset + n
            PROVE  FirstBytes(n)[k - img_offset] \in Int
        <5>1. k - img_offset \in 1..n
          BY <2>1
        <5>2. QED
          BY <2>b, <5>1
      <4>2. QED
        BY <4>1
    <3>2. Stored(n) \in [1..ImageSize -> Int]
      BY <3>1 DEF Stored
    <3>3. QED
      BY <1>5, <3>2 DEF RxCopy, n
  <2>4. uart' = [uart EXCEPT !.rx = rest]
    BY <1>5 DEF RxCopy, fifo_read
  <2> HIDE DEF n, rest
  <2>5. UartTypeOK'
    BY <2>2, <2>4
  <2>6. img_offset' \in Nat
    BY <1>5, <2>1, SMTT(20) DEF RxCopy, n
  <2> HIDE DEF UartTypeOK
  <2>7. QED
    BY <1>5, <2>3, <2>5, <2>6 DEF RxCopy, NoCall, Steps
<1>6. CASE RxClear
  BY <1>6, EmptySeq DEF RxClear, fifo_clear_rx, NoCall, Steps
<1>7. CASE TxLevel
  BY <1>7, <1>f DEF TxLevel, CopySize, fifo_level_get_tx, TransferFits, InsideBuffer, Steps
<1>8. CASE TxCopy
  <2> DEFINE bytes == [k \in 1..isr.copy_size |-> img[img_offset + k]]
  <2>1. bytes \in [1..isr.copy_size -> Int]
    <3>0. img_offset + isr.copy_size <= ImageSize
      BY <1>8, <1>f DEF TxCopy, TransferFits, InsideBuffer
    <3>1. \A k \in 1..isr.copy_size : img_offset + k \in 1..ImageSize
      BY <3>0
    <3>2. QED
      BY <3>1
  <2>2. uart.tx \in Seq(Int) /\ bytes \in Seq(Int)
    BY <2>1, FunctionIsSeq
  <2>3. uart.tx \o bytes \in Seq(Int)
    BY <2>2, ConcatProperties
  <2>4. uart' = [uart EXCEPT !.tx = uart.tx \o bytes]
    BY <1>8 DEF TxCopy, fifo_write
  <2> HIDE DEF bytes
  <2>5. transmission_done' \in BOOLEAN /\ img_offset' \in Nat
    <3>1. CASE isr.copy_size > 0
      BY <1>8, <3>1 DEF TxCopy
    <3>2. CASE ~(isr.copy_size > 0)
      BY <1>8, <3>2 DEF TxCopy
    <3>3. QED
      BY <3>1, <3>2
  <2>6. UartTypeOK'
    BY <2>3, <2>4
  <2>7. QED
    BY <1>8, <2>5, <2>6 DEF TxCopy, Steps
<1>9. CASE TxDisable
  BY <1>9 DEF TxDisable, int_disable_tx, NoCall, Steps, Enables
<1>10. CASE Line
  BY <1>10 DEF Line, line_status_get, NoCall, Steps
<1>11. CASE PcSends
  <2>1. Append(uart.rx, sent + 1) \in Seq(Nat)
    BY AppendOne
  <2>2. UartTypeOK'
    BY <1>11, <2>1 DEF PcSends, Receive
  <2> HIDE DEF UartTypeOK
  <2>3. QED
    BY <1>11, <2>2 DEF PcSends, appVars
<1>12. CASE PcReceives
  BY <1>12, ConcatProperties, EmptySeq DEF PcReceives, ShiftOut, appVars
<1>13. CASE ShiftNext
  BY <1>13, TakeHead DEF ShiftNext, Shift, appVars
<1>14. QED
  BY <1>a, <1>1, <1>2, <1>3, <1>4, <1>5, <1>6, <1>7, <1>8, <1>9, <1>10, <1>11, <1>12, <1>13 DEF Next, Handler

\* Every step leaves a transfer that fits.
LEMMA FitsStep == IInv /\ Next => TransferFits'
<1>a. SUFFICES ASSUME IInv, Next PROVE TransferFits'
  OBVIOUS
<1>t. TypeOK
  BY <1>a DEF IInv
<1>f. TransferFits
  BY <1>a DEF IInv
<1> USE <1>t, <1>f DEF TypeOK, UartTypeOK, TransferFits, InsideBuffer
<1>0. Len(uart.rx) \in Nat /\ Len(uart.tx) \in Nat
  BY LenProperties
<1>1. CASE Main
  <2>1. img_offset' \in {0, img_offset} /\ isr' = isr /\ isr.at = "None" /\ uart'.rx = uart.rx
    BY <1>1 DEF Main, Goto, Allocate, Restart, ImageReceived, Filter, Rewind, NextChunk, ReadIer, WriteIer,
                ChunkSent, TransmissionDone, int_enable_tx
  <2>2. QED
    BY <2>1
<1>2. CASE Spin
  BY <1>2 DEF Spin, vars, appVars
<1>3. CASE uart_callback
  BY <1>3 DEF uart_callback, TX_IDLE
<1>4. CASE RxLevel
  BY <1>0, <1>4 DEF RxLevel, CopySize, fifo_level_get_rx
<1>5. CASE RxCopy
  BY <1>5 DEF RxCopy, NoCall
<1>6. CASE RxClear
  BY <1>6 DEF RxClear, fifo_clear_rx, NoCall
<1>7. CASE TxLevel
  <2>1. uart.tx = <<>> /\ Len(uart.tx) = 0
    BY <1>7 DEF TxLevel
  <2>2. isr' = [at |-> "TxCopy", level |-> 0, copy_size |-> CopySize(FifoSize)]
    BY <1>7, <2>1 DEF TxLevel, fifo_level_get_tx
  <2>3. CopySize(FifoSize) \in Nat /\ img_offset + CopySize(FifoSize) <= ImageSize
    <3>1. CASE img_offset + FifoSize > ImageSize
      BY <3>1, SMTT(20) DEF CopySize
    <3>2. CASE ~(img_offset + FifoSize > ImageSize)
      BY <3>2 DEF CopySize
    <3>3. QED
      BY <3>1, <3>2
  <2>4. CopySize(FifoSize)' = CopySize(FifoSize)
    BY <1>7 DEF TxLevel, CopySize
  <2> HIDE DEF CopySize
  <2>5. QED
    BY <1>7, <2>1, <2>2, <2>3, <2>4 DEF TxLevel
<1>8. CASE TxCopy
  BY <1>8 DEF TxCopy
<1>9. CASE TxDisable
  BY <1>9 DEF TxDisable, int_disable_tx, NoCall
<1>10. CASE Line
  BY <1>10 DEF Line, line_status_get, NoCall
<1>11. CASE PcSends
  BY <1>0, <1>11, AppendOne DEF PcSends, Receive, appVars, CopySize
<1>12. CASE PcReceives
  BY <1>12 DEF PcReceives, ShiftOut, appVars, CopySize
<1>13. CASE ShiftNext
  BY <1>13 DEF ShiftNext, Shift, appVars, CopySize
<1>14. QED
  BY <1>a, <1>1, <1>2, <1>3, <1>4, <1>5, <1>6, <1>7, <1>8, <1>9, <1>10, <1>11, <1>12, <1>13 DEF Next, Handler

\* Every step keeps the transmit interrupt, the flags and the loop together.
LEMMA HandshakeStep == IInv /\ Next => Handshake'
<1>a. SUFFICES ASSUME IInv, Next PROVE Handshake'
  OBVIOUS
<1>t. TypeOK
  BY <1>a DEF IInv
<1>h. Handshake
  BY <1>a DEF IInv
<1> USE <1>t, <1>h DEF TypeOK, UartTypeOK, Handshake, WakeUpNotLost, EnableNotTorn
<1>1. CASE Main
  BY <1>1 DEF Main, Goto, Allocate, Restart, ImageReceived, Filter, Rewind, NextChunk, ReadIer, WriteIer,
              ChunkSent, TransmissionDone, int_enable_tx
<1>2. CASE Spin
  BY <1>2 DEF Spin, vars, appVars
<1>3. CASE uart_callback
  BY <1>3 DEF uart_callback, TX_IDLE
<1>4. CASE RxLevel \/ RxCopy \/ RxClear
  <2>1. CASE RxLevel
    BY <2>1 DEF RxLevel
  <2>2. CASE RxCopy
    <3>1. isr'.at \in {"None", "RxClear"} /\ uart'.ier = uart.ier
      BY <2>2 DEF RxCopy, fifo_read, NoCall
    <3>2. QED
      BY <2>2, <3>1 DEF RxCopy
  <2>3. CASE RxClear
    BY <2>3 DEF RxClear, fifo_clear_rx, NoCall
  <2>4. QED
    BY <1>4, <2>1, <2>2, <2>3
<1>5. CASE TxLevel
  BY <1>5 DEF TxLevel
<1>6. CASE TxCopy
  BY <1>6 DEF TxCopy, fifo_write
<1>7. CASE TxDisable
  BY <1>7 DEF TxDisable, int_disable_tx, NoCall
<1>8. CASE Line
  BY <1>8 DEF Line, line_status_get, NoCall
<1>9. CASE PcSends
  BY <1>9 DEF PcSends, Receive, appVars
<1>10. CASE PcReceives
  BY <1>10 DEF PcReceives, ShiftOut, appVars
<1>11. CASE ShiftNext
  BY <1>11 DEF ShiftNext, Shift, appVars
<1>12. QED
  BY <1>a, <1>1, <1>2, <1>3, <1>4, <1>5, <1>6, <1>7, <1>8, <1>9, <1>10, <1>11 DEF Next, Handler

\* Every step keeps the announcement of the end true.
LEMMA EndStep == IInv /\ Next => EndAnnounced'
<1>a. SUFFICES ASSUME IInv, Next PROVE EndAnnounced'
  OBVIOUS
<1>t. TypeOK
  BY <1>a DEF IInv
<1>f. TransferFits
  BY <1>a DEF IInv
<1>h. Handshake
  BY <1>a DEF IInv
<1>e. EndAnnounced
  BY <1>a DEF IInv
<1> USE <1>t, <1>e DEF TypeOK, UartTypeOK, EndAnnounced, Sending
<1>0. Len(uart.rx) \in Nat /\ Len(uart.tx) \in Nat
  BY LenProperties
<1>1. CASE Main
  <2> USE DEF Goto
  <2>1. CASE Allocate \/ Restart \/ ImageReceived
    BY <2>1 DEF Allocate, Restart, ImageReceived
  <2>2. CASE Filter \/ Rewind
    BY <2>2 DEF Filter, Rewind
  <2>3. CASE NextChunk \/ ReadIer
    BY <2>3, <1>h DEF NextChunk, ReadIer, Handshake
  <2>4. CASE WriteIer
    BY <2>4, <1>h DEF Handshake, WriteIer, int_enable_tx
  <2>5. CASE ChunkSent \/ TransmissionDone
    BY <2>5, SMTT(20) DEF ChunkSent, TransmissionDone
  <2>6. QED
    BY <1>1, <2>1, <2>2, <2>3, <2>4, <2>5 DEF Main
<1>2. CASE Spin
  BY <1>2 DEF Spin, vars, appVars
<1>3. CASE uart_callback
  BY <1>3 DEF uart_callback
<1>4. CASE RxLevel \/ RxClear
  <2>1. uart'.tx = uart.tx /\ isr.at # "TxDisable"
    BY <1>4 DEF RxLevel, RxClear, fifo_clear_rx
  <2>2. QED
    BY <1>4, <2>1 DEF RxLevel, RxClear
<1>5. CASE RxCopy
  <2>1. uart'.tx = uart.tx
    BY <1>5 DEF RxCopy, fifo_read
  <2>2. img_offset = ImageSize => img_offset' = ImageSize
    BY <1>5, <1>f DEF RxCopy, TransferFits, InsideBuffer
  <2>3. isr.at # "TxDisable"
    BY <1>5 DEF RxCopy
  <2>4. QED
    BY <1>5, <2>1, <2>2, <2>3 DEF RxCopy
<1>6. CASE TxLevel
  BY <1>6 DEF TxLevel
<1>7. CASE TxCopy
  <2>1. main = "Wait" /\ main' = "Wait" /\ ~transmission_done /\ isr'.at = "TxDisable"
    BY <1>7, <1>h DEF TxCopy, Handshake, WakeUpNotLost
  <2>2. CASE isr.copy_size > 0
    BY <1>7, <2>1, <2>2 DEF TxCopy
  <2>3. CASE isr.copy_size = 0
    <3>1. img_offset = ImageSize /\ img_offset' = ImageSize
      BY <1>7, <1>f, <2>3 DEF TxCopy, CopySize, TransferFits, InsideBuffer
    <3>2. [k \in 1..isr.copy_size |-> img[img_offset + k]] = <<>>
      BY <2>3
    <3>3. uart'.tx = <<>>
      BY <1>7, <1>f, <3>2, ConcatEmptySeq, EmptySeq DEF TxCopy, fifo_write, TransferFits
    <3>4. QED
      BY <2>1, <3>1, <3>3
  <2>4. QED
    BY <2>2, <2>3
<1>8. CASE TxDisable
  BY <1>8 DEF TxDisable, int_disable_tx, NoCall
<1>9. CASE Line
  BY <1>9 DEF Line, line_status_get, NoCall
<1>10. CASE PcSends
  BY <1>10 DEF PcSends, Receive, appVars
<1>11. CASE PcReceives
  BY <1>11 DEF PcReceives, ShiftOut, appVars
<1>12. CASE ShiftNext
  BY <1>12 DEF ShiftNext, Shift, appVars
<1>13. QED
  BY <1>a, <1>1, <1>2, <1>3, <1>4, <1>5, <1>6, <1>7, <1>8, <1>9, <1>10, <1>11, <1>12 DEF Next, Handler
-----------------------------------------------------------------------------
\* A history that is clean was clean before.
LEMMA CleanBefore == IInv /\ Next /\ clean' => clean
<1> SUFFICES ASSUME IInv, Next, clean' PROVE clean
  OBVIOUS
<1>1. CASE Main
  BY <1>1 DEF Main, Goto, Allocate, Restart, ImageReceived, Filter, Rewind, NextChunk, ReadIer, WriteIer,
              ChunkSent, TransmissionDone
<1>2. CASE Spin \/ uart_callback
  BY <1>2 DEF Spin, vars, uart_callback
<1>3. CASE Handler
  BY <1>3 DEF Handler, RxLevel, RxCopy, RxClear, TxLevel, TxCopy, TxDisable, Line
<1>4. CASE PcSends \/ PcReceives \/ ShiftNext
  BY <1>4 DEF PcSends, PcReceives, ShiftNext
<1>5. QED
  BY <1>1, <1>2, <1>3, <1>4 DEF Next

\* The bytes in the images filtered so far.
LEMMA Filtered ==
  ASSUME NEW n \in Nat
  PROVE  ImageSize * n \in Nat /\ ImageSize * (n + 1) = ImageSize * n + ImageSize
  OBVIOUS

\* Every step keeps the receive FIFO the next bytes to be received.
LEMMA IncomingStep == IInv /\ Next /\ clean' => Incoming'
<1>a. SUFFICES ASSUME IInv, Next, clean' PROVE Incoming'
  OBVIOUS
<1>0. clean /\ Incoming /\ Buffered
  BY <1>a, CleanBefore DEF IInv
<1>t. /\ uart.rx \in Seq(Nat) /\ DOMAIN uart = {"rx", "tx", "shift", "ier", "overrun"}
      /\ DOMAIN isr = {"at", "level", "copy_size"}
      /\ img_offset \in Nat /\ round \in Nat /\ sent \in Nat
  BY <1>a DEF IInv, TypeOK, UartTypeOK
<1> DEFINE base == ImageSize * round
<1>b. base \in Nat
  BY <1>t, Filtered
<1>l. Len(uart.rx) \in Nat
  BY <1>t, LenProperties
<1>r. Received = base + IF main \in {"Receiving", "Filter"} THEN img_offset ELSE 0
  BY DEF Received
<1>n. Received \in Nat
  <2> HIDE DEF base
  <2>1. QED
    BY <1>b, <1>r, <1>t
<1>i. Received + Len(uart.rx) = sent
  BY <1>0 DEF Incoming
<1>e. \A k \in 1..Len(uart.rx) : uart.rx[k] = Received + k
  BY <1>0 DEF Incoming
<1>k. ASSUME uart'.rx = uart.rx, sent' = sent, Received' = Received PROVE Incoming'
  BY <1>i, <1>e, <1>k DEF Incoming
<1>1. CASE Main
  <2>1. uart'.rx = uart.rx /\ sent' = sent
    BY <1>1, <1>t DEF Main, Goto, Allocate, Restart, ImageReceived, Filter, Rewind, NextChunk, ReadIer, WriteIer,
                ChunkSent, TransmissionDone, int_enable_tx
  <2>2. Received' = Received
    <3>1. CASE Filter
      <4>1. round' = round + 1 /\ img_offset = ImageSize /\ main = "Filter" /\ main' = "Rewind"
        BY <1>0, <3>1, <1>t DEF Filter, Goto, Buffered
      <4>2. ImageSize * round' = base + ImageSize
        BY <1>t, <4>1, Filtered
      <4>3. QED
        BY <1>b, <1>r, <1>t, <4>1, <4>2 DEF Received
    <3>2. CASE ~Filter
      BY <1>1, <1>t, <3>2 DEF Received, Main, Goto, Allocate, Restart, ImageReceived, Rewind, NextChunk,
                         ReadIer, WriteIer, ChunkSent, TransmissionDone
    <3>3. QED
      BY <3>1, <3>2
  <2>3. QED
    BY <1>k, <2>1, <2>2
<1>2. CASE Spin \/ uart_callback \/ RxLevel \/ TxLevel
  BY <1>2, <1>k, <1>t DEF Spin, vars, appVars, uart_callback, RxLevel, TxLevel, Received
<1>3. CASE RxCopy
  <2> DEFINE n == isr.copy_size
             rest == SubSeq(uart.rx, n + 1, Len(uart.rx))
  <2>1. n \in Nat /\ n \in 0..Len(uart.rx)
    BY <1>3, <1>a, <1>l DEF RxCopy, IInv, TypeOK, TransferFits
  <2>2. Len(rest) = Len(uart.rx) - n
    BY <1>t, <2>1, TakeFirst
  <2>e. \A k \in 1..Len(uart.rx) - n : rest[k] = uart.rx[n + k]
    BY <1>t, <2>1, TakeFirst
  <2>3. uart'.rx = rest /\ sent' = sent
    BY <1>3, <1>t DEF RxCopy, fifo_read
  <2>4. Received' = Received + n
    <3>1. img_offset' = img_offset + n /\ main' = main /\ round' = round
      BY <1>3, <1>a DEF RxCopy
    <3>2. n > 0 => main = "Receiving"
      BY <1>3, <1>a DEF RxCopy
    <3> HIDE DEF n
    <3>3. QED
      BY <1>b, <1>r, <1>t, <2>1, <3>1, <3>2 DEF Received
  <2> HIDE DEF n, rest, base
  <2>5. Received' + Len(rest) = sent
    BY <1>i, <1>l, <1>n, <1>t, <2>1, <2>2, <2>4
  <2>6. ASSUME NEW k \in 1..Len(rest) PROVE rest[k] = Received' + k
    <3>1. k \in 1..Len(uart.rx) - n
      BY <2>2
    <3>2. n + k \in 1..Len(uart.rx)
      BY <1>l, <2>1, <3>1
    <3>3. rest[k] = Received + (n + k)
      BY <1>e, <2>e, <3>1, <3>2
    <3>4. QED
      BY <1>n, <2>1, <2>4, <3>3
  <2>7. QED
    BY <2>3, <2>5, <2>6 DEF Incoming
<1>4. CASE RxClear
  BY <1>4, <1>a DEF RxClear
<1>5. CASE TxCopy
  <2>1. main = "Wait"
    BY <1>5, <1>a DEF IInv, TxCopy, Handshake, WakeUpNotLost
  <2>2. QED
    BY <1>5, <1>k, <1>t, <2>1 DEF TxCopy, fifo_write, Received
<1>6. CASE TxDisable \/ Line
  BY <1>6, <1>k, <1>t DEF TxDisable, Line, int_disable_tx, line_status_get, Received
<1>7. CASE PcSends
  <2>1. Received' = Received
    BY <1>7 DEF PcSends, appVars, Received
  <2>2. uart'.rx = Append(uart.rx, sent + 1) /\ sent' = sent + 1
    BY <1>7, <1>a, <1>t DEF PcSends, Receive, IInv, TypeOK
  <2> DEFINE more == Append(uart.rx, sent + 1)
  <2>3. Len(more) = Len(uart.rx) + 1
    BY <1>t, AppendOne
  <2>e. \A k \in 1..Len(uart.rx) : more[k] = uart.rx[k]
    BY <1>t, AppendOne
  <2>f. more[Len(uart.rx) + 1] = sent + 1
    BY <1>t, AppendOne
  <2> HIDE DEF more, base
  <2>4. Received + Len(more) = sent + 1
    BY <1>l, <1>i, <1>n, <2>3
  <2>5. ASSUME NEW k \in 1..Len(more) PROVE more[k] = Received + k
    <3>1. CASE k = Len(uart.rx) + 1
      BY <1>i, <1>l, <1>n, <2>f, <3>1
    <3>2. CASE k # Len(uart.rx) + 1
      <4>1. k \in 1..Len(uart.rx)
        BY <1>l, <2>3, <3>2
      <4>2. QED
        BY <1>e, <2>e, <4>1
    <3>3. QED
      BY <3>1, <3>2
  <2>6. QED
    BY <2>1, <2>2, <2>4, <2>5 DEF Incoming, more
<1>8. CASE PcReceives \/ ShiftNext
  BY <1>8, <1>k, <1>t DEF PcReceives, ShiftOut, ShiftNext, Shift, appVars, Received
<1>9. QED
  BY <1>a, <1>1, <1>2, <1>3, <1>4, <1>5, <1>6, <1>7, <1>8 DEF Next, Handler

\* Every step keeps the contents of the buffer.
LEMMA BufferedStep == IInv /\ Next /\ clean' => Buffered'
<1>a. SUFFICES ASSUME IInv, Next, clean' PROVE Buffered'
  OBVIOUS
<1>0. clean /\ Incoming /\ Buffered
  BY <1>a, CleanBefore DEF IInv
<1>t. /\ uart.rx \in Seq(Nat) /\ DOMAIN uart = {"rx", "tx", "shift", "ier", "overrun"}
      /\ DOMAIN isr = {"at", "level", "copy_size"} /\ img \in [1..ImageSize -> Int]
      /\ img_offset \in Nat /\ round \in Nat
  BY <1>a DEF IInv, TypeOK, UartTypeOK
<1>o. img_offset <= ImageSize
  BY <1>a DEF IInv, TransferFits, InsideBuffer
<1> DEFINE base == ImageSize * round
<1>b. base \in Nat
  BY <1>t, Filtered
<1>k. ASSUME img' = img, img_offset' = img_offset, main' = main, round' = round PROVE Buffered'
  BY <1>0, <1>k DEF Buffered
<1>1. CASE Main
  <2>1. CASE Allocate \/ Restart \/ TransmissionDone
    <3>1. main' = "Restart" \/ (main' = "Receiving" /\ img_offset' = 0)
      BY <2>1 DEF Allocate, Restart, TransmissionDone, Goto
    <3>2. QED
      BY <3>1 DEF Buffered, Sending
  <2>2. CASE ImageReceived
    BY <1>0, <1>o, <1>t, <2>2 DEF ImageReceived, Goto, Buffered, Sending
  <2>3. CASE Filter
    <3>1. main = "Filter" /\ main' = "Rewind" /\ round' = round + 1 /\ img_offset = ImageSize
      BY <1>0, <2>3 DEF Filter, Goto, Buffered
    <3>2. ImageSize * round' = base + ImageSize
      BY <1>t, <3>1, Filtered
    <3>3. \A k \in 1..ImageSize : img[k] = base + k
      BY <1>0, <3>1 DEF Buffered
    <3>4. \A k \in 1..ImageSize : img'[k] = -img[k]
      BY <1>t, <2>3 DEF Filter
    <3> HIDE DEF base
    <3>5. ASSUME NEW k \in 1..ImageSize PROVE img'[k] = ImageSize - (base + ImageSize) - k
      BY <1>b, <3>3, <3>4
    <3>6. \A k \in 1..ImageSize : img'[k] = ImageSize - ImageSize * round' - k
      BY <3>2, <3>5
    <3>7. QED
      BY <3>1, <3>6 DEF Buffered
  <2>4. CASE Rewind \/ NextChunk \/ ReadIer \/ WriteIer \/ ChunkSent
    <3>1. main \in {"Rewind"} \cup Sending /\ main' \in Sending /\ img' = img /\ round' = round
      BY <2>4 DEF Rewind, NextChunk, ReadIer, WriteIer, ChunkSent, Goto, Sending
    <3>2. QED
      BY <1>0, <3>1 DEF Buffered, Sending
  <2>5. QED
    BY <1>1, <2>1, <2>2, <2>3, <2>4 DEF Main
<1>2. CASE Spin \/ uart_callback \/ RxLevel \/ TxLevel \/ TxDisable \/ Line
  BY <1>2, <1>k DEF Spin, vars, appVars, uart_callback, RxLevel, TxLevel, TxDisable, Line
<1>3. CASE RxCopy
  <2> DEFINE n == isr.copy_size
  <2>1. n \in Nat /\ n \in 0..Len(uart.rx) /\ Len(uart.rx) \in Nat
    BY <1>3, <1>a, <1>t, LenProperties DEF RxCopy, IInv, TypeOK, TransferFits
  <2>2. img' = Stored(n) /\ img_offset' = img_offset + n /\ main' = main /\ round' = round
    BY <1>3 DEF RxCopy
  <2>3. CASE n = 0
    <3>1. \A k \in 1..ImageSize : k \notin img_offset + 1 .. img_offset + n
      BY <1>t, <2>3
    <3>2. img' = img
      BY <1>t, <2>2, <3>1 DEF Stored
    <3>3. QED
      BY <1>k, <1>t, <2>2, <2>3, <3>2
  <2>4. CASE n # 0
    <3>1. main = "Receiving"
      <4>1. isr.copy_size > 0
        BY <2>1, <2>4
      <4>2. QED
        BY <1>3, <1>a, <4>1 DEF RxCopy
    <3>2. \A k \in 1..n : FirstBytes(n)[k] = uart.rx[k]
      BY <1>t, <2>1, TakeFirst DEF FirstBytes
    <3>3. \A k \in 1..Len(uart.rx) : uart.rx[k] = base + img_offset + k
      BY <1>0, <3>1 DEF Incoming, Received
    <3>4. \A k \in 1..img_offset : img[k] = base + k
      BY <1>0, <3>1 DEF Buffered
    <3>5. img_offset + n <= ImageSize
      BY <1>3, <1>a DEF RxCopy, IInv, TransferFits, InsideBuffer
    <3> HIDE DEF n, base
    <3>6. ASSUME NEW k \in 1..img_offset + n PROVE img'[k] = base + k
      <4>1. k \in 1..ImageSize
        BY <1>t, <2>1, <3>5
      <4>2. CASE k <= img_offset
        <5>1. img'[k] = img[k]
          BY <1>t, <2>2, <3>1, <4>1, <4>2 DEF Stored
        <5>2. QED
          BY <1>t, <3>4, <4>2, <5>1
      <4>3. CASE ~(k <= img_offset)
        <5>1. k \in img_offset + 1 .. img_offset + n /\ k - img_offset \in 1..n
          BY <1>t, <2>1, <4>3
        <5>2. img'[k] = FirstBytes(n)[k - img_offset]
          BY <2>2, <3>1, <4>1, <5>1 DEF Stored
        <5>3. k - img_offset \in 1..Len(uart.rx)
          BY <1>t, <2>1, <5>1
        <5>4. img'[k] = base + img_offset + (k - img_offset)
          BY <3>2, <3>3, <5>1, <5>2, <5>3
        <5>5. QED
          BY <1>b, <1>t, <5>4
      <4>4. QED
        BY <4>2, <4>3
    <3>7. QED
      BY <2>2, <3>1, <3>6 DEF Buffered, Sending, base
  <2>5. QED
    BY <2>3, <2>4
<1>4. CASE RxClear
  BY <1>4, <1>a DEF RxClear
<1>5. CASE TxCopy
  <2>1. main = "Wait"
    BY <1>5, <1>a DEF IInv, TxCopy, Handshake, WakeUpNotLost
  <2>2. QED
    BY <1>0, <1>5, <2>1 DEF TxCopy, Buffered
<1>6. CASE PcSends \/ PcReceives \/ ShiftNext
  BY <1>6, <1>k DEF PcSends, PcReceives, ShiftNext, appVars
<1>7. QED
  BY <1>a, <1>1, <1>2, <1>3, <1>4, <1>5, <1>6 DEF Next, Handler

\* A byte that moves on does not change the sum of two lengths.
LEMMA OneMoves ==
  ASSUME NEW m \in Nat, NEW n \in Nat
  PROVE  (m + 1) + (n - 1) = m + n
  OBVIOUS

\* Every step keeps what was handed over on its way, in order.
LEMMA OutgoingStep == IInv /\ Next /\ clean' => Outgoing'
<1>a. SUFFICES ASSUME IInv, Next, clean' PROVE Outgoing'
  OBVIOUS
<1>0. clean /\ Buffered /\ Outgoing
  BY <1>a, CleanBefore DEF IInv
<1>t. /\ uart.tx \in Seq(Int) /\ uart.shift \in Seq(Int) /\ received \in Seq(Int)
      /\ DOMAIN uart = {"rx", "tx", "shift", "ier", "overrun"}
      /\ DOMAIN isr = {"at", "level", "copy_size"} /\ img \in [1..ImageSize -> Int]
      /\ img_offset \in Nat /\ round \in Nat
  BY <1>a DEF IInv, TypeOK, UartTypeOK
<1>l. Len(uart.tx) \in Nat /\ Len(uart.shift) \in Nat /\ Len(received) \in Nat
  BY <1>t, LenProperties
<1>o. img_offset <= ImageSize
  BY <1>a DEF IInv, TransferFits, InsideBuffer
<1> DEFINE base == ImageSize * round
<1>b. base \in Nat
  BY <1>t, Filtered
<1>m. img_offset \in Nat
  BY <1>t
<1>u. Unsent \in Int
  BY <1>t DEF Unsent
<1>n. Len(received) + Len(uart.shift) + Len(uart.tx) = base - Unsent
  BY <1>0 DEF Outgoing
<1>r. \A k \in 1..Len(received) : received[k] = -k
  BY <1>0 DEF Outgoing
<1>s. \A k \in 1..Len(uart.shift) : uart.shift[k] = -(Len(received) + k)
  BY <1>0 DEF Outgoing
<1>x. \A k \in 1..Len(uart.tx) : uart.tx[k] = -(Len(received) + Len(uart.shift) + k)
  BY <1>0 DEF Outgoing
<1>k. ASSUME uart'.tx = uart.tx, uart'.shift = uart.shift, received' = received,
             ImageSize * round' - Unsent' = base - Unsent
      PROVE  Outgoing'
  BY <1>k, <1>n, <1>r, <1>s, <1>x DEF Outgoing
<1>1. CASE Main
  <2>1. uart'.tx = uart.tx /\ uart'.shift = uart.shift /\ received' = received
    BY <1>1, <1>t DEF Main, Goto, Allocate, Restart, ImageReceived, Filter, Rewind, NextChunk, ReadIer, WriteIer,
                ChunkSent, TransmissionDone, int_enable_tx
  <2>2. CASE Filter
    <3>1. main = "Filter" /\ main' = "Rewind" /\ round' = round + 1
      BY <2>2 DEF Filter, Goto
    <3>2. ImageSize * round' = base + ImageSize
      BY <1>t, <3>1, Filtered
    <3>3. Unsent = 0 /\ Unsent' = ImageSize
      BY <3>1 DEF Unsent, Sending
    <3> HIDE DEF base
    <3>4. ImageSize * round' - Unsent' = base - Unsent
      BY <1>b, <3>2, <3>3
    <3>5. QED
      BY <1>k, <2>1, <3>4 DEF base
  <2>3. CASE ~Filter
    <3>1. round' = round
      BY <1>1, <2>3 DEF Main, Goto, Allocate, Restart, ImageReceived, Rewind, NextChunk, ReadIer, WriteIer,
                ChunkSent, TransmissionDone
    <3>2. Unsent' = Unsent
      <4>1. CASE TransmissionDone
        <5>1. main = "NextChunk" /\ main' = "Restart" /\ img_offset = ImageSize
          BY <1>a, <4>1 DEF TransmissionDone, Goto, IInv, EndAnnounced, Sending
        <5>2. QED
          BY <5>1 DEF Unsent, Sending
      <4>2. CASE Rewind
        BY <4>2 DEF Rewind, Goto, Unsent, Sending
      <4>3. CASE Allocate \/ Restart \/ ImageReceived
        BY <4>3 DEF Allocate, Restart, ImageReceived, Goto, Unsent, Sending
      <4>4. CASE NextChunk \/ ReadIer \/ WriteIer \/ ChunkSent
        BY <4>4 DEF NextChunk, ReadIer, WriteIer, ChunkSent, Goto, Unsent, Sending
      <4>5. QED
        BY <1>1, <2>3, <4>1, <4>2, <4>3, <4>4 DEF Main
    <3>3. QED
      BY <1>k, <2>1, <3>1, <3>2
  <2>4. QED
    BY <2>2, <2>3
<1>2. CASE Spin \/ uart_callback \/ RxLevel \/ TxLevel
  BY <1>2, <1>k DEF Spin, vars, appVars, uart_callback, RxLevel, TxLevel, Unsent
<1>3. CASE RxCopy
  <2>1. uart'.tx = uart.tx /\ uart'.shift = uart.shift
    BY <1>3, <1>t DEF RxCopy, fifo_read
  <2>2. isr.copy_size > 0 => main = "Receiving"
    BY <1>3, <1>a DEF RxCopy
  <2>3. isr.copy_size \in Nat
    BY <1>a DEF IInv, TypeOK
  <2>4. img_offset' = img_offset \/ main = "Receiving"
    BY <1>3, <1>t, <2>2, <2>3 DEF RxCopy
  <2>5. main' = main /\ round' = round /\ received' = received
    BY <1>3 DEF RxCopy
  <2>6. Unsent' = Unsent
    BY <2>4, <2>5 DEF Unsent, Sending
  <2>7. QED
    BY <1>k, <2>1, <2>5, <2>6
<1>4. CASE RxClear
  BY <1>4, <1>a DEF RxClear
<1>5. CASE TxCopy
  <2> DEFINE n == isr.copy_size
             bytes == [k \in 1..n |-> img[img_offset + k]]
  <2>1. main = "Wait" /\ uart.tx = <<>> /\ n \in Nat /\ img_offset + n <= ImageSize
    BY <1>5, <1>a DEF IInv, TypeOK, TxCopy, Handshake, WakeUpNotLost, TransferFits, InsideBuffer
  <2>2. bytes \in Seq(Int) /\ Len(bytes) = n
    <3>1. \A k \in 1..n : img_offset + k \in 1..ImageSize
      BY <1>t, <2>1
    <3>2. bytes \in [1..n -> Int]
      BY <1>t, <3>1
    <3>3. QED
      BY <2>1, <3>2, FunctionIsSeq
  <2>3. uart'.tx = bytes
    <3>1. uart'.tx = <<>> \o bytes
      BY <1>5, <1>t, <2>1 DEF TxCopy, fifo_write
    <3>2. QED
      BY <2>2, <3>1, ConcatEmptySeq
  <2>4. /\ uart'.shift = uart.shift /\ received' = received /\ round' = round
        /\ main' = main /\ img_offset' = img_offset + n
    BY <1>5, <1>t DEF TxCopy, fifo_write
  <2>5. Unsent = ImageSize - img_offset /\ Unsent' = ImageSize - (img_offset + n)
    BY <2>1, <2>4 DEF Unsent, Sending
  <2>6. Len(uart.tx) = 0
    BY <2>1
  <2>n. n \in Nat
    BY <2>1
  <2>7. Len(received) + Len(uart.shift) = base - (ImageSize - img_offset)
    <3> HIDE DEF base, n
    <3>1. QED
      BY <1>b, <1>l, <1>n, <1>t, <2>5, <2>6
  <2>8. ASSUME NEW k \in 1..n PROVE bytes[k] = -(Len(received) + Len(uart.shift) + k)
    <3>1. img_offset + k \in 1..ImageSize
      BY <1>t, <2>1
    <3>2. img[img_offset + k] = ImageSize - base - (img_offset + k)
      BY <1>0, <2>1, <3>1 DEF Buffered, Sending
    <3>3. bytes[k] = img[img_offset + k]
      OBVIOUS
    <3> HIDE DEF base, n, bytes
    <3>4. QED
      BY <1>b, <1>l, <1>m, <2>1, <2>7, <3>2, <3>3
  <2>9. Len(received) + Len(uart.shift) + n = base - Unsent'
    <3> HIDE DEF base, n
    <3>1. QED
      BY <1>b, <1>l, <1>m, <2>n, <2>5, <2>7
  <2> HIDE DEF n, bytes
  <2>10. QED
    BY <1>r, <1>s, <2>2, <2>3, <2>4, <2>8, <2>9 DEF Outgoing
<1>6. CASE TxDisable \/ Line
  BY <1>6, <1>k, <1>t DEF TxDisable, Line, int_disable_tx, line_status_get, Unsent
<1>7. CASE PcSends
  BY <1>7, <1>k, <1>t DEF PcSends, Receive, appVars, Unsent
<1>8. CASE PcReceives
  <2>1. uart'.shift = <<>> /\ uart'.tx = uart.tx /\ received' = received \o uart.shift /\ round' = round
    BY <1>8, <1>t DEF PcReceives, ShiftOut, appVars
  <2>2. Unsent' = Unsent
    BY <1>8 DEF PcReceives, appVars, Unsent
  <2>3. Len(received') = Len(received) + Len(uart.shift) /\ Len(uart'.shift) = 0
    BY <1>t, <2>1, ConcatProperties
  <2>4. \A k \in 1..Len(received) + Len(uart.shift) :
           received'[k] = IF k <= Len(received) THEN received[k] ELSE uart.shift[k - Len(received)]
    BY <1>t, <2>1, ConcatProperties
  <2>5. ASSUME NEW k \in 1..Len(received') PROVE received'[k] = -k
    <3>1. CASE k <= Len(received)
      BY <1>l, <1>r, <2>3, <2>4, <3>1
    <3>2. CASE ~(k <= Len(received))
      <4>1. k - Len(received) \in 1..Len(uart.shift) /\ k \in 1..Len(received) + Len(uart.shift)
        BY <1>l, <2>3, <3>2
      <4>2. received'[k] = -(Len(received) + (k - Len(received)))
        BY <1>s, <2>4, <3>2, <4>1
      <4>3. QED
        BY <1>l, <4>2
    <3>3. QED
      BY <3>1, <3>2
  <2>6. \A k \in 1..Len(uart'.tx) : uart'.tx[k] = -(Len(received') + Len(uart'.shift) + k)
    BY <1>l, <1>x, <2>1, <2>3
  <2>7. Len(received') + Len(uart'.shift) + Len(uart'.tx) = ImageSize * round' - Unsent'
    <3>1. Len(uart'.tx) = Len(uart.tx) /\ ImageSize * round' = base
      BY <2>1
    <3> HIDE DEF base
    <3>2. Len(received') + Len(uart'.shift) = Len(received) + Len(uart.shift)
      BY <1>l, <2>3
    <3>3. QED
      BY <1>n, <2>2, <3>1, <3>2
  <2>8. \A k \in 1..Len(uart'.shift) : uart'.shift[k] = -(Len(received') + k)
    BY <2>3
  <2>9. QED
    BY <2>5, <2>6, <2>7, <2>8 DEF Outgoing
<1>9. CASE ShiftNext
  <2> DEFINE head == <<Head(uart.tx)>>
             tail == Tail(uart.tx)
  <2>1. uart.shift = <<>> /\ Len(uart.shift) = 0 /\ uart.tx # <<>>
    BY <1>9 DEF ShiftNext, Shift
  <2>2. uart'.shift = head /\ uart'.tx = tail /\ received' = received /\ round' = round /\ Unsent' = Unsent
    BY <1>9, <1>t DEF ShiftNext, Shift, appVars, Unsent
  <2>3. Len(head) = 1 /\ head[1] = uart.tx[1]
    BY <1>t, <2>1, TakeHead
  <2>4. Len(tail) = Len(uart.tx) - 1
    BY <1>t, <2>1, TakeHead
  <2>5. \A k \in 1..Len(uart.tx) - 1 : tail[k] = uart.tx[k + 1]
    BY <1>t, <2>1, TakeHead
  <2>6. Len(uart.tx) > 0
    BY <1>l, <1>t, <2>1, EmptySeq
  <2> HIDE DEF head, tail
  <2>7. ASSUME NEW k \in 1..Len(head) PROVE head[k] = -(Len(received) + k)
    BY <1>l, <1>x, <2>1, <2>3, <2>6
  <2>8. ASSUME NEW k \in 1..Len(tail) PROVE tail[k] = -(Len(received) + Len(head) + k)
    <3>1. k \in 1..Len(uart.tx) - 1 /\ k + 1 \in 1..Len(uart.tx)
      BY <1>l, <2>4
    <3>2. tail[k] = -(Len(received) + Len(uart.shift) + (k + 1))
      BY <1>x, <2>5, <3>1
    <3>3. QED
      BY <1>l, <2>1, <2>3, <3>2
  <2>9. Len(received) + Len(head) + Len(tail) = base - Unsent
    <3> HIDE DEF base
    <3>1. Len(uart.shift) = 0 /\ Len(head) = 1
      BY <2>1, <2>3
    <3>2. Len(received) + Len(uart.shift) = Len(received)
      BY <1>l, <3>1
    <3>3. Len(received) + Len(head) + Len(tail) = Len(received) + Len(uart.tx)
      <4>1. Len(received) + Len(head) + Len(tail) = (Len(received) + 1) + (Len(uart.tx) - 1)
        BY <2>4, <3>1, Zenon
      <4>2. (Len(received) + 1) + (Len(uart.tx) - 1) = Len(received) + Len(uart.tx)
        BY <1>l, OneMoves, Zenon
      <4>3. QED
        BY <4>1, <4>2, Zenon
    <3>4. QED
      BY <1>n, <3>2, <3>3
  <2>10. QED
    BY <1>r, <2>2, <2>7, <2>8, <2>9 DEF Outgoing
<1>10. QED
  BY <1>a, <1>1, <1>2, <1>3, <1>4, <1>5, <1>6, <1>7, <1>8, <1>9 DEF Next, Handler
-----------------------------------------------------------------------------
\* A step that changes nothing preserves the invariant.
LEMMA StutterIInv == IInv /\ UNCHANGED vars => IInv'
<1> SUFFICES ASSUME IInv, UNCHANGED vars PROVE IInv'
  OBVIOUS
<1> USE DEF vars, appVars
<1>1. TypeOK' /\ TransferFits'
  BY DEF IInv, TypeOK, UartTypeOK, TransferFits, InsideBuffer, CopySize
<1>2. Handshake' /\ EndAnnounced'
  BY DEF IInv, Handshake, WakeUpNotLost, EnableNotTorn, EndAnnounced
<1>3. clean' => Incoming' /\ Buffered' /\ Outgoing'
  BY DEF IInv, Incoming, Received, Buffered, Outgoing, Unsent
<1>4. QED
  BY <1>1, <1>2, <1>3 DEF IInv

\* IInv holds in every reachable state.
THEOREM Inductive == Spec => []IInv
<1>1. AppInit => IInv
  BY InitIInv
<1>2. IInv /\ [Next]_vars => IInv'
  <2>1. IInv /\ Next => IInv'
    BY TypeStep, FitsStep, HandshakeStep, EndStep, IncomingStep, BufferedStep, OutgoingStep DEF IInv
  <2>2. QED
    BY <2>1, StutterIInv
<1>3. QED
  BY <1>1, <1>2, PTL DEF Spec

\* Type correctness.
THEOREM TypeCorrect == Spec => []TypeOK
<1>1. IInv => TypeOK
  BY DEF IInv
<1>2. QED
  BY <1>1, Inductive, PTL

\* The handler never leaves the image buffer.
THEOREM NeverOutsideBuffer == Spec => []InsideBuffer
<1>1. IInv => InsideBuffer
  BY DEF IInv, TransferFits
<1>2. QED
  BY <1>1, Inductive, PTL

\* The handler never underruns the receive FIFO nor overruns the transmit FIFO.
THEOREM FifosNeverExceeded == Spec => []FifosRespected
<1>1. ASSUME IInv PROVE FifosRespected
  <2>1. isr.at = "RxCopy" => isr.copy_size <= Len(uart.rx)
    <3>1. Len(uart.rx) \in Nat /\ isr.level \in Nat /\ isr.copy_size \in Nat
      BY <1>1, LenProperties DEF IInv, TypeOK, UartTypeOK
    <3>2. QED
      BY <1>1, <3>1 DEF IInv, TransferFits
  <2>2. isr.at = "TxCopy" => Len(uart.tx) + isr.copy_size <= FifoSize
    <3>1. ASSUME isr.at = "TxCopy" PROVE Len(uart.tx) = 0 /\ isr.copy_size = CopySize(FifoSize)
      BY <1>1, <3>1 DEF IInv, TransferFits
    <3>2. CopySize(FifoSize) \in Int /\ CopySize(FifoSize) <= FifoSize
      BY <1>1 DEF IInv, TypeOK, CopySize
    <3>3. QED
      BY <3>1, <3>2
  <2>3. QED
    BY <2>1, <2>2 DEF FifosRespected
<1>2. QED
  BY <1>1, Inductive, PTL

\* The copies of the handler stay within the bounds of the buffer and of both FIFOs.
THEOREM CopiesInBounds == Spec => []CopyInBounds
<1>1. InsideBuffer /\ FifosRespected => CopyInBounds
  BY DEF CopyInBounds
<1>2. QED
  BY <1>1, NeverOutsideBuffer, FifosNeverExceeded, PTL

\* The two sides of the transmission never miss each other.
THEOREM HandshakeKept == Spec => []Handshake
<1>1. IInv => Handshake
  BY DEF IInv
<1>2. QED
  BY <1>1, Inductive, PTL

\* The loop waits exactly as long as the interrupt it waits for is enabled.
THEOREM NoLostWakeUp == Spec => []WakeUpNotLost
<1>1. IInv => WakeUpNotLost
  BY DEF IInv, Handshake
<1>2. QED
  BY <1>1, Inductive, PTL

\* The loop's update of the interrupt enable register is never torn.
THEOREM EnableWhole == Spec => []EnableNotTorn
<1>1. IInv => EnableNotTorn
  BY DEF IInv, Handshake
<1>2. QED
  BY <1>1, Inductive, PTL

\* The next image is awaited only when the transmit FIFO is empty.
THEOREM SentFirst == Spec => []SentBeforeNext
<1>1. IInv => SentBeforeNext
  BY DEF IInv, EndAnnounced, SentBeforeNext, Sending
<1>2. QED
  BY <1>1, Inductive, PTL

\* What is filtered is the image that was sent.
THEOREM FilteredAsSent == Spec => []ImageIntact
<1>1. ASSUME IInv PROVE ImageIntact
  <2>1. SUFFICES ASSUME clean, main = "Filter"
                 PROVE  img = [k \in 1..ImageSize |-> round * ImageSize + k]
    BY DEF ImageIntact
  <2>2. img \in [1..ImageSize -> Int] /\ round \in Nat
    BY <1>1 DEF IInv, TypeOK
  <2>3. \A k \in 1..ImageSize : img[k] = ImageSize * round + k
    BY <1>1, <2>1 DEF IInv, Buffered
  <2>4. ImageSize * round = round * ImageSize
    BY <2>2
  <2>5. QED
    BY <2>2, <2>3, <2>4
<1>2. QED
  BY <1>1, Inductive, PTL

\* What is handed to the line are the filtered images, once and in order.
THEOREM RepliedInOrder == Spec => []ReplyIntact
<1>1. ASSUME IInv PROVE ReplyIntact
  <2>1. SUFFICES ASSUME clean
                 PROVE  /\ Reply = [k \in 1..Len(Reply) |-> -k]
                        /\ Len(Reply) = ImageSize * round - Unsent
    BY DEF ReplyIntact
  <2>t. uart.tx \in Seq(Int) /\ uart.shift \in Seq(Int) /\ received \in Seq(Int)
    BY <1>1 DEF IInv, TypeOK, UartTypeOK
  <2>l. Len(uart.tx) \in Nat /\ Len(uart.shift) \in Nat /\ Len(received) \in Nat
    BY <2>t, LenProperties
  <2> DEFINE line == received \o uart.shift
  <2>2. line \in Seq(Int) /\ Len(line) = Len(received) + Len(uart.shift)
    BY <2>t, ConcatProperties
  <2>3. \A k \in 1..Len(received) + Len(uart.shift) :
          line[k] = IF k <= Len(received) THEN received[k] ELSE uart.shift[k - Len(received)]
    BY <2>t, ConcatProperties
  <2>4. Reply = line \o uart.tx
    BY DEF Reply
  <2> HIDE DEF line
  <2>5. Reply \in Seq(Int) /\ Len(Reply) = Len(line) + Len(uart.tx)
    BY <2>2, <2>4, <2>t, ConcatProperties
  <2>6. \A k \in 1..Len(line) + Len(uart.tx) :
          Reply[k] = IF k <= Len(line) THEN line[k] ELSE uart.tx[k - Len(line)]
    <3>1. \A k \in 1..Len(line) + Len(uart.tx) :
            (line \o uart.tx)[k] = IF k <= Len(line) THEN line[k] ELSE uart.tx[k - Len(line)]
      BY <2>2, <2>t, Joined
    <3>2. QED
      BY <2>4, <3>1, Zenon
  <2>r. \A k \in 1..Len(received) : received[k] = -k
    BY <1>1, <2>1 DEF IInv, Outgoing
  <2>s. \A k \in 1..Len(uart.shift) : uart.shift[k] = -(Len(received) + k)
    BY <1>1, <2>1 DEF IInv, Outgoing
  <2>x. \A k \in 1..Len(uart.tx) : uart.tx[k] = -(Len(received) + Len(uart.shift) + k)
    BY <1>1, <2>1 DEF IInv, Outgoing
  <2>7. ASSUME NEW k \in 1..Len(line) PROVE line[k] = -k
    <3>1. CASE k <= Len(received)
      BY <2>2, <2>3, <2>l, <2>r, <3>1
    <3>2. CASE ~(k <= Len(received))
      <4>1. k - Len(received) \in 1..Len(uart.shift) /\ k \in 1..Len(received) + Len(uart.shift)
        BY <2>2, <2>l, <3>2
      <4>2. line[k] = -(Len(received) + (k - Len(received)))
        BY <2>3, <2>s, <3>2, <4>1
      <4>3. QED
        BY <2>l, <4>2
    <3>3. QED
      BY <3>1, <3>2
  <2>8. ASSUME NEW k \in 1..Len(Reply) PROVE Reply[k] = -k
    <3>0. Len(line) \in Nat /\ k \in 1..Len(line) + Len(uart.tx)
      <4>1. Len(line) \in Nat
        BY <2>2, LenProperties
      <4>2. QED
        BY <2>5, <4>1
    <3>1. CASE k <= Len(line)
      <4>1. k \in 1..Len(line)
        BY <3>0, <3>1
      <4>2. QED
        BY <2>6, <2>7, <3>0, <3>1, <4>1
    <3>2. CASE ~(k <= Len(line))
      <4>1. k - Len(line) \in 1..Len(uart.tx)
        BY <2>l, <3>0, <3>2
      <4>2. Reply[k] = -(Len(received) + Len(uart.shift) + (k - Len(line)))
        BY <2>6, <2>x, <3>0, <3>2, <4>1
      <4>3. QED
        BY <2>2, <2>l, <4>2
    <3>3. QED
      BY <3>1, <3>2
  <2>9. Len(Reply) = ImageSize * round - Unsent
    <3>1. Len(received) + Len(uart.shift) + Len(uart.tx) = ImageSize * round - Unsent
      BY <1>1, <2>1 DEF IInv, Outgoing
    <3>2. QED
      BY <2>2, <2>5, <2>l, <3>1
  <2>10. Reply = [k \in 1..Len(Reply) |-> Reply[k]]
    BY <2>5, LenProperties
  <2>11. QED
    BY <2>8, <2>9, <2>10
<1>2. QED
  BY <1>1, Inductive, PTL
=============================================================================
