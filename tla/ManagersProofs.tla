--------------------------- MODULE ManagersProofs ---------------------------
(***************************************************************************)
(* Proofs about two of the drivers of Managers.                            *)
(*                                                                         *)
(* BridgeManager, for images, words, chunks and waits of any size, any     *)
(* mode of the pins and any set of bridges: IInv is inductive, and the     *)
(* three action properties follow from it.                                 *)
(*                                                                         *)
(* GlobalTimer, for words of any size, any values and any number of calls: *)
(* the halves of a time are never mixed up.                                *)
(***************************************************************************)
EXTENDS BridgeManager, GlobalTimer, SequenceTheorems, TLAPS

USE FpgaAssumption

CtrlRegister ==
  [en : BOOLEAN, nce : BOOLEAN, ncfgpull : BOOLEAN, axicfgen : BOOLEAN,
   cdratio : {1, 2, 4, 8}, cfgwdth : {16, 32}]

Modes == {"RESET", "CFG", "INIT", "USER_MODE"}

Byte == {Padding} \cup {<<i, n>> : i \in Images, n \in Int}

\* The bytes of an image, what is behind it, and what fills up a word.
BytesOf(i) == {Padding} \cup {<<i, n>> : n \in Int}

AfterReset ==
  {"Step5", "Step6", "Step8", "Step9", "Step10", "Step11", "Step12", "Step12Count",
   "Step12Wait", "Step13"}

Failures == {"TMO", "ERROR", "FPGA_CFG", "FPGA_CFG_STM", "FPGA_CRC"}

CallRecord ==
  [at : AfterReset \cup {"Idle", "Step3", "Step4", "Step5Late"}, source : Sources \cup {<<>>},
   ctrl_reg : CtrlRegister \cup {<<>>}, polls : Int, data_status : Failures \cup {"SUCCESS"},
   data_limit : Int, handed : Int]

Fpga ==
  [msel : Msels, power : BOOLEAN, mode : Modes, nstatus : BOOLEAN, conf_done : BOOLEAN,
   crc : BOOLEAN, data : Seq(Byte), counting : BOOLEAN, dcntdone : BOOLEAN]

TypeOK ==
  /\ ctl \in CtrlRegister
  /\ fpga \in Fpga
  /\ call \in CallRecord
  /\ call.at # "Idle" => call.source \in Sources

\* The copy of the register is never stale, and each bit is up in its steps only.
Registered ==
  /\ ctl.axicfgen => call.at \in {"Step9", "Step10", "Step11"}
  /\ call.at # "Idle" =>
       /\ call.ctrl_reg = ctl /\ ctl.en
       /\ ctl.ncfgpull => call.at \in {"Step3", "Step4", "Step5", "Step5Late"}

\* A reset forgets the data, and only a complete image starts the FPGA.
ImageLoaded ==
  /\ fpga.mode = "RESET" => fpga.data = <<>> /\ ~fpga.conf_done
  /\ fpga.mode \in {"INIT", "USER_MODE"} => fpga.conf_done
  /\ fpga.conf_done => \E i \in Images : First(ImageSize, fpga.data) = Image(i)

\* Once the reset was seen there is nothing but the image of this call.
OwnData == call.at \in AfterReset => fpga.data \in Seq(BytesOf(call.source.image))

Bridging == [at : {"Idle", "Check", "Ready"}, id : Bridges \cup {""}]

\* A bridge call owns the program and holds its bridge in reset.
BridgeHeld ==
  /\ bridge \in Bridging
  /\ bridge.at # "Idle" => call.at = "Idle" /\ bridge.id \in brgmodrst
  /\ bridge.at = "Ready" => fpga.conf_done \/ ~fpga.power \/ ctl.ncfgpull

IInv == TypeOK /\ Registered /\ ImageLoaded /\ OwnData /\ BridgeHeld
-----------------------------------------------------------------------------
(* The bytes.                                                              *)

\* The beginning of a sequence.
LEMMA FirstOf ==
  ASSUME NEW S, NEW s \in Seq(S), NEW n \in Nat
  PROVE  /\ First(n, s) \in Seq(S)
         /\ Len(First(n, s)) = IF n < Len(s) THEN n ELSE Len(s)
         /\ \A k \in 1..Len(First(n, s)) : First(n, s)[k] = s[k]
<1> DEFINE m == IF n < Len(s) THEN n ELSE Len(s)
<1>1. Len(s) \in Nat /\ m \in Nat /\ m <= Len(s)
  BY LenProperties
<1>2. \A k \in 1..m : s[k] \in S
  BY <1>1, ElementOfSeq
<1> HIDE DEF m
<1>3. /\ SubSeq(s, 1, m) \in Seq(S)
      /\ Len(SubSeq(s, 1, m)) = IF 1 <= m THEN m - 1 + 1 ELSE 0
      /\ \A k \in 1 .. m - 1 + 1 : SubSeq(s, 1, m)[k] = s[1 + k - 1]
  <2>1. 1 \in Int /\ m \in Int
    BY <1>1
  <2>2. QED
    BY <1>2, <2>1, SubSeqProperties, SMTT(20)
<1>4. First(n, s) = SubSeq(s, 1, m)
  BY DEF First, m
<1>5. Len(SubSeq(s, 1, m)) = m /\ \A k \in 1..m : SubSeq(s, 1, m)[k] = s[k]
  BY <1>1, <1>3
<1>6. QED
  BY <1>3, <1>4, <1>5 DEF m

\* A buffer of an image.
LEMMA BytesType ==
  ASSUME NEW i, NEW first \in Int, NEW n \in Nat
  PROVE  Bytes(i, first, n) \in Seq(BytesOf(i)) /\ Len(Bytes(i, first, n)) = n
<1>1. Bytes(i, first, n) \in [1..n -> BytesOf(i)]
  <2>1. \A k \in 1..n : (IF first + k - 1 > ImageSize THEN ImageSize + 1 ELSE first + k - 1) \in Int
    OBVIOUS
  <2>2. QED
    BY <2>1 DEF Bytes, BytesOf
<1>2. Bytes(i, first, n) \in Seq(BytesOf(i))
  BY <1>1, SeqDef
<1>3. DOMAIN Bytes(i, first, n) = 1..n
  BY <1>1
<1>4. Len(Bytes(i, first, n)) \in Nat /\ 1..Len(Bytes(i, first, n)) = 1..n
  BY <1>2, <1>3, LenProperties
<1>5. QED
  BY <1>2, <1>4

\* Filling up a word.
LEMMA PadType ==
  ASSUME NEW S, Padding \in S, NEW s \in Seq(S)
  PROVE  Pad(s) \in Seq(S)
<1> DEFINE m == (-Len(s)) % WordSize
<1>1. m \in Nat
  <2>1. Len(s) \in Nat
    BY LenProperties
  <2>2. QED
    BY <2>1
<1> HIDE DEF m
<1>2. [k \in 1..m |-> Padding] \in [1..m -> S]
  OBVIOUS
<1>3. [k \in 1..m |-> Padding] \in Seq(S)
  BY <1>1, <1>2, SeqDef
<1>4. s \o [k \in 1..m |-> Padding] \in Seq(S)
  BY <1>3, ConcatProperties
<1>5. QED
  BY <1>4 DEF Pad, m

\* Nothing foreign gets into the words.
LEMMA SentType ==
  ASSUME NEW S, Padding \in S, NEW buf \in Seq(S), NEW dma
  PROVE  Sent(buf, dma) \in Seq(S)
<1> DEFINE rest == Len(buf) % WordSize
<1>1. Len(buf) \in Nat
  BY LenProperties
<1>2. rest \in Nat /\ rest <= Len(buf)
  BY <1>1
<1> HIDE DEF rest
<1>3. \A a \in Int, b \in Int : a >= 1 /\ b <= Len(buf) => SubSeq(buf, a, b) \in Seq(S)
  <2>1. SUFFICES ASSUME NEW a \in Int, NEW b \in Int, a >= 1, b <= Len(buf)
                 PROVE  SubSeq(buf, a, b) \in Seq(S)
    OBVIOUS
  <2>2. \A k \in a..b : buf[k] \in S
    BY <1>1, <2>1, ElementOfSeq
  <2>3. QED
    BY <2>2, SubSeqProperties
<1>4. Pad(SubSeq(buf, Len(buf) - rest + 1, Len(buf))) \in Seq(S) /\ Pad(buf) \in Seq(S)
  <2>1. SubSeq(buf, Len(buf) - rest + 1, Len(buf)) \in Seq(S)
    BY <1>1, <1>2, <1>3
  <2>2. QED
    BY <2>1, PadType
<1>5. Pad(SubSeq(buf, 1, rest)) \in Seq(S) /\ SubSeq(buf, 1, Len(buf) - rest) \in Seq(S)
  <2>1. SubSeq(buf, 1, rest) \in Seq(S) /\ SubSeq(buf, 1, Len(buf) - rest) \in Seq(S)
    BY <1>1, <1>2, <1>3
  <2>2. QED
    BY <2>1, PadType
<1>6. Pad(buf) \o Pad(SubSeq(buf, Len(buf) - rest + 1, Len(buf))) \in Seq(S)
  BY <1>4, ConcatProperties
<1>7. SubSeq(buf, 1, Len(buf) - rest) \o Pad(SubSeq(buf, 1, rest)) \in Seq(S)
  BY <1>5, ConcatProperties
<1>8. QED
  BY <1>6, <1>7 DEF Sent, rest

\* The data register.
LEMMA TakenType ==
  ASSUME NEW S, fpga.data \in Seq(S), NEW words \in Seq(S)
  PROVE  Taken(words) \in Seq(S)
<1>1. fpga.data \o words \in Seq(S)
  BY ConcatProperties
<1>2. ImageSize + 1 \in Nat
  OBVIOUS
<1>3. First(ImageSize + 1, fpga.data \o words) \in Seq(S)
  BY <1>1, <1>2, FirstOf
<1>4. QED
  BY <1>3 DEF Taken

\* An image that is complete stays as it is.
LEMMA StaysComplete ==
  ASSUME NEW S, NEW d \in Seq(S), NEW words \in Seq(S), NEW i, First(ImageSize, d) = Image(i)
  PROVE  First(ImageSize, First(ImageSize + 1, d \o words)) = Image(i)
<1> DEFINE both  == d \o words
           taken == First(ImageSize + 1, both)
           kept  == First(ImageSize, taken)
<1>1. /\ both \in Seq(S) /\ Len(both) = Len(d) + Len(words)
      /\ \A k \in 1 .. Len(d) + Len(words) : both[k] = IF k <= Len(d) THEN d[k] ELSE words[k - Len(d)]
  BY ConcatProperties
<1>2. Len(d) \in Nat /\ Len(words) \in Nat
  BY LenProperties
<1> HIDE DEF both
<1>3. /\ taken \in Seq(S)
      /\ Len(taken) = IF ImageSize + 1 < Len(both) THEN ImageSize + 1 ELSE Len(both)
      /\ \A k \in 1..Len(taken) : taken[k] = both[k]
  <2>1. ImageSize + 1 \in Nat
    OBVIOUS
  <2>2. QED
    BY <1>1, <2>1, FirstOf
<1> HIDE DEF taken
<1>4. /\ kept \in Seq(S)
      /\ Len(kept) = IF ImageSize < Len(taken) THEN ImageSize ELSE Len(taken)
      /\ \A k \in 1..Len(kept) : kept[k] = taken[k]
  <2>1. ImageSize \in Nat
    OBVIOUS
  <2>2. QED
    BY <1>3, <2>1, FirstOf
<1> HIDE DEF kept
<1>5. /\ First(ImageSize, d) \in Seq(S)
      /\ Len(First(ImageSize, d)) = IF ImageSize < Len(d) THEN ImageSize ELSE Len(d)
      /\ \A k \in 1..Len(First(ImageSize, d)) : First(ImageSize, d)[k] = d[k]
  <2>1. ImageSize \in Nat
    OBVIOUS
  <2>2. QED
    BY <2>1, FirstOf
<1>6. Len(First(ImageSize, d)) = ImageSize
  <2>1. Len(First(ImageSize, d)) \in Nat /\ DOMAIN First(ImageSize, d) = 1..Len(First(ImageSize, d))
    BY <1>5, LenProperties
  <2>2. DOMAIN First(ImageSize, d) = 1..ImageSize
    BY DEF Image
  <2>3. Len(First(ImageSize, d)) < ImageSize => ImageSize \in 1..ImageSize /\ ImageSize \notin 1..Len(First(ImageSize, d))
    BY <2>1
  <2>4. QED
    BY <1>5, <2>1, <2>2, <2>3
<1>7. Len(kept) = ImageSize /\ \A k \in 1..ImageSize : kept[k] = First(ImageSize, d)[k]
  <2>1. ImageSize \in Nat /\ ImageSize <= Len(d)
    BY <1>2, <1>5, <1>6
  <2>2. ImageSize <= Len(taken) /\ Len(kept) = ImageSize
    BY <1>1, <1>2, <1>3, <1>4, <2>1
  <2>3. ASSUME NEW k \in 1..ImageSize PROVE kept[k] = First(ImageSize, d)[k]
    <3>1. kept[k] = taken[k]
      BY <1>4, <2>2
    <3>2. Len(taken) \in Nat /\ k \in 1..Len(taken)
      BY <1>1, <1>2, <1>3, <2>1, <2>2
    <3>3. taken[k] = both[k]
      BY <1>3, <3>2
    <3>4. both[k] = d[k]
      BY <1>1, <1>2, <2>1
    <3>5. First(ImageSize, d)[k] = d[k]
      BY <1>5, <1>6
    <3>6. QED
      BY <3>1, <3>3, <3>4, <3>5
  <2>4. QED
    BY <2>2, <2>3
<1>8. kept = First(ImageSize, d)
  BY <1>4, <1>5, <1>6, <1>7, SeqEqual
<1>9. QED
  BY <1>8 DEF kept, taken, both
-----------------------------------------------------------------------------
(* The invariant.                                                          *)

\* What a chunk leaves in the data register, taken whole or cut short.
LEMMA ChunkTaken ==
  ASSUME NEW i, NEW dma, NEW first \in Int, NEW len \in Nat
  PROVE  /\ Sent(Bytes(i, first, len), dma) \in Seq(BytesOf(i))
         /\ \A n \in 0..Len(Sent(Bytes(i, first, len), dma)) :
              SubSeq(Sent(Bytes(i, first, len), dma), 1, n) \in Seq(BytesOf(i))
<1> DEFINE S == BytesOf(i)
           words == Sent(Bytes(i, first, len), dma)
<1>1. words \in Seq(S)
  <2>1. Padding \in S
    BY DEF BytesOf
  <2>2. QED
    BY <2>1, BytesType, SentType
<1> HIDE DEF words
<1>2. ASSUME NEW n \in 0..Len(words) PROVE SubSeq(words, 1, n) \in Seq(S)
  <2>1. Len(words) \in Nat
    BY <1>1, LenProperties
  <2>2. \A k \in 1..n : words[k] \in S
    BY <1>1, <2>1, ElementOfSeq
  <2>3. QED
    BY <2>1, <2>2, SubSeqProperties
<1>3. QED
  BY <1>1, <1>2 DEF words

\* A step on the data: the register takes more bytes of this image, or stays.
DataTaken(S) ==
  UNCHANGED fpga \/ \E words \in Seq(S) : fpga' = [fpga EXCEPT !.data = Taken(words)]

\* The call goes on, with the same source and register.
CallGoesOn ==
  /\ call' \in CallRecord /\ call'.at \in {"Step9", "Step10", "Step11"}
  /\ call'.source = call.source /\ call'.ctrl_reg = call.ctrl_reg

LEMMA DmaData ==
  ASSUME NEW S, NEW words \in Seq(S), \A n \in 0..Len(words) : SubSeq(words, 1, n) \in Seq(S),
         DmaFails(words)
  PROVE  DataTaken(S)
BY DEF DmaFails, DataTaken

LEMMA WritesData ==
  ASSUME TypeOK, call.at = "Step9", call.source \in Sources, WriteFull \/ StreamChunk
  PROVE  DataTaken(BytesOf(call.source.image)) /\ CallGoesOn /\ UNCHANGED <<ctl, status>>
<1> DEFINE i == call.source.image
           S == BytesOf(i)
<1>t. /\ call \in CallRecord /\ Polls \in Int
      /\ call.handed \in Int /\ call.data_limit \in Int
      /\ call.source.type = "FULL" => call.source.length \in Nat
  BY DEF TypeOK, CallRecord, Sources, Full, Stream
<1>s. ASSUME NEW s, s \in Failures, DataStatus(s, "Step11")
      PROVE  CallGoesOn
  BY <1>t, <1>s DEF DataStatus, CallGoesOn, CallRecord, AfterReset
<1>d. ASSUME NEW words, DmaFails(words)
      PROVE  CallGoesOn /\ UNCHANGED <<ctl, status>>
  BY <1>s, <1>d DEF DmaFails, Failures
<1>1. CASE WriteFull
  <2> DEFINE buf == Bytes(i, 1, call.source.length)
             words == Sent(buf, call.source.dma)
  <2>1. words \in Seq(S) /\ \A n \in 0..Len(words) : SubSeq(words, 1, n) \in Seq(S)
    <3>1. call.source.length \in Nat /\ 1 \in Int
      BY <1>1, <1>t DEF WriteFull
    <3>2. QED
      BY <3>1, ChunkTaken
  <2>2. Capped(Len(buf)) \in Int
    <3>1. Len(buf) = call.source.length /\ call.source.length \in Nat
      <4>1. call.source.length \in Nat /\ 1 \in Int
        BY <1>1, <1>t DEF WriteFull
      <4>2. QED
        BY <4>1, BytesType
    <3>2. QED
      BY <3>1 DEF Capped
  <2>3. \/ DataStatus("FPGA_CFG", "Step11") /\ UNCHANGED <<ctl, fpga, status>>
        \/ /\ fpga' = [fpga EXCEPT !.data = Taken(words)]
           /\ call' = [call EXCEPT !.at = "Step10", !.polls = Polls, !.handed = Capped(Len(buf))]
           /\ UNCHANGED <<ctl, status>>
        \/ DmaFails(words)
    BY <1>1 DEF WriteFull
  <2> HIDE DEF words, buf
  <2>4. DataTaken(S)
    BY <2>1, <2>3, DmaData DEF DataTaken
  <2>5. CallGoesOn
    BY <1>t, <1>s, <1>d, <2>2, <2>3 DEF CallGoesOn, CallRecord, AfterReset, Failures
  <2>6. QED
    BY <1>d, <2>3, <2>4, <2>5
<1>2. CASE StreamChunk
  <2> DEFINE Buf(n) == Bytes(i, call.handed + 1, n)
             Words(n) == Sent(Buf(n), call.source.dma)
  <2>1. PICK n \in ChunkSizes :
          \/ DataStatus("FPGA_CFG_STM", "Step11") /\ UNCHANGED <<ctl, fpga, status>>
          \/ Goto("Step10") /\ UNCHANGED <<ctl, fpga, status>>
          \/ /\ n \in 1..ChunkSize
             /\ fpga' = [fpga EXCEPT !.data = Taken(Words(n))]
             /\ call' = [call EXCEPT !.handed = Capped(@ + n), !.data_limit = Limit(n)]
             /\ UNCHANGED <<ctl, status>>
          \/ n \in 1..ChunkSize /\ DmaFails(Words(n))
    BY <1>2 DEF StreamChunk
  <2>2. n \in Int /\ Capped(call.handed + n) \in Int /\ Limit(n) \in Int
    BY <1>t DEF Capped, Limit
  <2>3. ASSUME n \in 1..ChunkSize
        PROVE  /\ Words(n) \in Seq(S)
               /\ \A m \in 0..Len(Words(n)) : SubSeq(Words(n), 1, m) \in Seq(S)
    <3>1. call.handed + 1 \in Int /\ n \in Nat
      BY <1>t, <2>2, <2>3
    <3>2. QED
      BY <3>1, ChunkTaken
  <2> HIDE DEF Words
  <2>4. DataTaken(S)
    BY <2>1, <2>3, DmaData DEF DataTaken
  <2>5. CallGoesOn
    BY <1>t, <1>s, <1>d, <2>1, <2>2 DEF CallGoesOn, CallRecord, AfterReset, Failures, Goto
  <2>6. QED
    BY <1>d, <2>1, <2>4, <2>5
<1>3. QED
  BY <1>1, <1>2

LEMMA InitIInv == BMInit => IInv
<1> SUFFICES ASSUME BMInit PROVE IInv
  OBVIOUS
<1>1. TypeOK
  <2>1. <<>> \in Seq(Byte)
    BY EmptySeq
  <2>2. ctl \in CtrlRegister
    BY DEF CtrlRegister, BMInit, Init
  <2>4. call \in CallRecord
    <3>1. call = NoCall
      BY DEF BMInit, Init
    <3>2. NoCall \in CallRecord
      BY DEF NoCall, CallRecord
    <3>3. QED
      BY <3>1, <3>2
  <2>3. call.at = "Idle" /\ fpga \in Fpga
    BY <2>1 DEF Fpga, Modes, BMInit, Init, Unpowered, NoCall
  <2>5. QED
    BY <2>2, <2>3, <2>4 DEF TypeOK
<1>2. Registered /\ OwnData
  BY DEF Registered, OwnData, AfterReset, BMInit, Init, NoCall
<1>3. BridgeHeld
  BY DEF BridgeHeld, Bridging, BMInit, NoBridge
<1>4. ImageLoaded
  BY DEF ImageLoaded, BMInit, Init, Unpowered
<1>5. QED
  BY <1>1, <1>2, <1>3, <1>4 DEF IInv

\* What the FPGA does by itself.
LEMMA ControlBlockStep ==
  ASSUME IInv, ControlBlock
  PROVE  /\ fpga' \in Fpga /\ ImageLoaded'
         /\ fpga'.data \in {fpga.data, <<>>}
         /\ ~fpga'.conf_done => ~fpga.conf_done \/ ~fpga'.power \/ ctl.ncfgpull
         /\ ~fpga.power => ~fpga'.power
<1>t. fpga \in Fpga /\ ImageLoaded
  BY DEF IInv, TypeOK
<1>m. <<>> \in Seq(Byte)
  BY EmptySeq
<1> USE <1>t DEF Fpga, ImageLoaded, Modes
<1>1. CASE Pulled
  BY <1>1, <1>m DEF Pulled
<1>2. CASE Released
  BY <1>2, <1>m DEF Released
<1>3. CASE Accept
  BY <1>3, <1>m DEF Accept
<1>4. CASE Reject
  BY <1>4, <1>m DEF Reject
<1>5. CASE CountDone
  BY <1>5, <1>m DEF CountDone
<1>6. CASE Initialised
  BY <1>6, <1>m DEF Initialised
<1>7. CASE PowerLoss
  BY <1>7, <1>m DEF PowerLoss, Unpowered
<1>8. QED
  BY <1>1, <1>2, <1>3, <1>4, <1>5, <1>6, <1>7 DEF ControlBlock

IdleCall ==
  \/ alt_fpga_control_enable \/ alt_fpga_control_disable
  \/ alt_fpga_reset_assert \/ alt_fpga_reset_deassert
  \/ Refused
  \/ \E src \in Sources : Configure(src)

\* The calls of the program that finds the manager idle.
LEMMA IdleCallStep ==
  ASSUME IInv, IdleCall
  PROVE  TypeOK' /\ Registered' /\ ImageLoaded' /\ OwnData' /\ UNCHANGED fpga
<1>t. TypeOK /\ Registered /\ ImageLoaded /\ ctl \in CtrlRegister /\ fpga \in Fpga
  BY DEF IInv, TypeOK
<1>u. UNCHANGED fpga => ImageLoaded'
  BY <1>t DEF ImageLoaded
<1>n. NoCall \in CallRecord /\ NoCall.at = "Idle"
  BY DEF NoCall, CallRecord
<1>1. ASSUME UNCHANGED fpga, call' = NoCall, call.at = "Idle", NEW b \in BOOLEAN,
             \/ ctl' = [ctl EXCEPT !.en = b] \/ ctl' = [ctl EXCEPT !.ncfgpull = b] \/ ctl' = ctl
      PROVE  TypeOK' /\ Registered' /\ ImageLoaded' /\ OwnData' /\ UNCHANGED fpga
  <2>1. ctl' \in CtrlRegister /\ ctl'.axicfgen = ctl.axicfgen
    BY <1>t, <1>1 DEF CtrlRegister
  <2>2. TypeOK'
    BY <1>t, <1>n, <1>1, <2>1 DEF TypeOK
  <2>3. Registered' /\ OwnData'
    BY <1>t, <1>n, <1>1, <2>1 DEF Registered, OwnData, AfterReset
  <2>4. QED
    BY <1>u, <1>1, <2>2, <2>3
<1>2. CASE alt_fpga_control_enable \/ alt_fpga_control_disable \/ Refused
  <2>1. UNCHANGED fpga /\ call' = NoCall /\ call.at = "Idle"
    BY <1>2 DEF alt_fpga_control_enable, alt_fpga_control_disable, Refused, Return
  <2>2. \E b \in BOOLEAN : ctl' = [ctl EXCEPT !.en = b] \/ ctl' = ctl
    BY <1>2 DEF alt_fpga_control_enable, alt_fpga_control_disable, Refused
  <2>3. QED
    BY <1>1, <2>1, <2>2
<1>3. CASE alt_fpga_reset_assert \/ alt_fpga_reset_deassert
  <2>1. UNCHANGED fpga /\ call' = NoCall /\ call.at = "Idle"
    BY <1>3 DEF alt_fpga_reset_assert, alt_fpga_reset_deassert, Return
  <2>2. \E b \in BOOLEAN : ctl' = [ctl EXCEPT !.ncfgpull = b]
    BY <1>3 DEF alt_fpga_reset_assert, alt_fpga_reset_deassert
  <2>3. QED
    BY <1>1, <2>1, <2>2
<1>4. ASSUME NEW src \in Sources, Configure(src)
      PROVE  TypeOK' /\ Registered' /\ ImageLoaded' /\ OwnData' /\ UNCHANGED fpga
  <2> USE <1>4
  <2>1. CdRatio(fpga.msel) \in {1, 2, 4, 8} /\ CfgWidth(fpga.msel) \in {16, 32}
    BY DEF CdRatio, CfgWidth
  <2>2. /\ ctl' \in CtrlRegister /\ ctl'.en = ctl.en /\ ctl'.axicfgen = ctl.axicfgen
        /\ ctl.en /\ ~ctl.axicfgen
    BY <1>t, <2>1 DEF Configure, CtrlRegister, Refusal, Registered
  <2>3. /\ call' \in CallRecord /\ call'.at = "Step3" /\ call'.source = src
        /\ call'.ctrl_reg = ctl'
    <3>1. call' = [NoCall EXCEPT !.at = "Step3", !.source = src, !.ctrl_reg = ctl',
                                 !.data_limit = DataLimit]
      BY DEF Configure
    <3>2. DataLimit \in Int /\ ctl' \in CtrlRegister \cup {<<>>} /\ src \in Sources \cup {<<>>}
      BY <2>2
    <3>3. "Step3" \in AfterReset \cup {"Idle", "Step3", "Step4", "Step5Late"}
      OBVIOUS
    <3> HIDE DEF Sources, CtrlRegister
    <3>4. QED
      BY <1>n, <3>1, <3>2, <3>3 DEF CallRecord
  <2>4. UNCHANGED fpga
    BY DEF Configure
  <2>5. QED
    BY <1>t, <1>u, <2>2, <2>3, <2>4 DEF TypeOK, Registered, OwnData, AfterReset
<1>5. QED
  BY <1>2, <1>3, <1>4 DEF IdleCall


\* A step of a configuration goes on, or gives up, or is done.
LEMMA ConfigureSteps ==
  ASSUME IInv, ConfigureStep
  PROVE  TypeOK' /\ Registered' /\ ImageLoaded' /\ OwnData' /\ call.at # "Idle"
<1> DEFINE Goal == TypeOK' /\ Registered' /\ ImageLoaded' /\ OwnData' /\ call.at # "Idle"
           Places == AfterReset \cup {"Step3", "Step4", "Step5Late"}
           Clean(at) == at \in AfterReset => call.at \in AfterReset \/ fpga.data = <<>>
<1>s. SUFFICES Goal
  OBVIOUS
<1>t. /\ TypeOK /\ Registered /\ ImageLoaded /\ OwnData
      /\ ctl \in CtrlRegister /\ fpga \in Fpga /\ call \in CallRecord
  BY DEF IInv, TypeOK
<1>u. UNCHANGED fpga => ImageLoaded'
  BY <1>t DEF ImageLoaded
<1>n. NoCall \in CallRecord /\ NoCall.at = "Idle"
  BY DEF NoCall, CallRecord
<1>p. Polls \in Int /\ call.polls \in Int /\ \A S : <<>> \in Seq(S)
  BY <1>t, EmptySeq DEF CallRecord
<1>i. call.at # "Idle"
  BY DEF ConfigureStep, Step3, Wait, Step4, Step5, Step6, Step8, WriteFull, StreamChunk,
         Step10, Step11, Step12, Step12Wait, Step13
<1>c. /\ call.ctrl_reg = ctl /\ ctl.en
      /\ ctl.axicfgen => call.at \in {"Step9", "Step10", "Step11"}
      /\ ctl.ncfgpull => call.at \in {"Step3", "Step4", "Step5", "Step5Late"}
  BY <1>i, <1>t DEF Registered
\* The register is written from its copy.
<1>w. ASSUME NEW r \in CtrlRegister, NEW at \in Places, Write(r, at), r.en, Clean(at),
             r.axicfgen => at \in {"Step9", "Step10", "Step11"},
             r.ncfgpull => at \in {"Step3", "Step4", "Step5", "Step5Late"}
      PROVE  Goal
  <2>1. /\ call' \in CallRecord /\ call'.at = at /\ call'.source = call.source
        /\ call'.ctrl_reg = r /\ ctl' = r /\ UNCHANGED fpga
    BY <1>t, <1>p, <1>w DEF Write, CallRecord
  <2>2. TypeOK' /\ Registered'
    BY <1>t, <1>i, <1>w, <2>1 DEF TypeOK, Registered, AfterReset
  <2>3. OwnData'
    BY <1>t, <1>p, <1>w, <2>1 DEF OwnData
  <2>4. QED
    BY <1>i, <1>u, <2>1, <2>2, <2>3
\* The call only moves on.
<1>e. ASSUME NEW at \in Places, NEW d \in Failures \cup {"SUCCESS"},
             \/ Goto(at) \/ DataStatus(d, at)
             \/ at = call.at /\ call' = [call EXCEPT !.polls = @ - 1]
      PROVE  /\ call' \in CallRecord /\ call'.at = at /\ call'.source = call.source
             /\ call'.ctrl_reg = call.ctrl_reg
  <2>1. CASE Goto(at)
    BY <1>t, <1>p, <2>1 DEF CallRecord, Goto
  <2>2. CASE DataStatus(d, at)
    BY <1>t, <1>p, <2>2 DEF CallRecord, DataStatus
  <2>3. CASE at = call.at /\ call' = [call EXCEPT !.polls = @ - 1]
    BY <1>t, <1>p, <2>3 DEF CallRecord
  <2>4. QED
    BY <1>e, <2>1, <2>2, <2>3
<1>g. ASSUME NEW at \in Places,
             call' \in CallRecord, call'.at = at, call'.source = call.source,
             call'.ctrl_reg = call.ctrl_reg, UNCHANGED <<ctl, fpga>>, Clean(at),
             ctl.axicfgen => at \in {"Step9", "Step10", "Step11"},
             ctl.ncfgpull => at \in {"Step3", "Step4", "Step5", "Step5Late"}
      PROVE  Goal
  <2>1. TypeOK' /\ Registered'
    BY <1>t, <1>i, <1>g DEF TypeOK, Registered, AfterReset
  <2>2. OwnData'
    BY <1>t, <1>p, <1>g DEF OwnData
  <2>3. QED
    BY <1>i, <1>g, <1>u, <2>1, <2>2
\* One poll, and no more.
<1>o. ASSUME call.at \in Places, call' = [call EXCEPT !.polls = @ - 1], UNCHANGED <<ctl, fpga>>
      PROVE  Goal
  <2>1. Clean(call.at)
    OBVIOUS
  <2>2. QED
    BY <1>c, <1>e, <1>g, <1>o, <2>1 DEF Failures
\* The call ends.
<1>r. ASSUME UNCHANGED fpga, call' = NoCall, ctl' \in CtrlRegister, ~ctl'.axicfgen
      PROVE  Goal
  <2>1. TypeOK' /\ Registered' /\ OwnData'
    BY <1>t, <1>n, <1>r DEF TypeOK, Registered, OwnData, AfterReset
  <2>2. QED
    BY <1>i, <1>r, <1>u, <2>1
<1>k. ASSUME NEW b \in BOOLEAN
      PROVE  /\ [call.ctrl_reg EXCEPT !.ncfgpull = b] \in CtrlRegister
             /\ [call.ctrl_reg EXCEPT !.axicfgen = b] \in CtrlRegister
             /\ [call.ctrl_reg EXCEPT !.ncfgpull = b].en /\ [call.ctrl_reg EXCEPT !.axicfgen = b].en
             /\ [call.ctrl_reg EXCEPT !.ncfgpull = b].ncfgpull = b
             /\ [call.ctrl_reg EXCEPT !.axicfgen = b].axicfgen = b
             /\ [call.ctrl_reg EXCEPT !.ncfgpull = b].axicfgen = ctl.axicfgen
             /\ [call.ctrl_reg EXCEPT !.axicfgen = b].ncfgpull = ctl.ncfgpull
  BY <1>t, <1>c DEF CtrlRegister
<1> HIDE DEF Goal
<1>1. CASE Step3
  BY <1>1, <1>c, <1>k, <1>w DEF Step3, AfterReset
<1>2. CASE Step4
  <2>1. alt_fpga_state_get = "RESET" => fpga.data = <<>>
    BY <1>t DEF alt_fpga_state_get, ImageLoaded
  <2>2. CASE call' = [call EXCEPT !.polls = @ - 1]
    BY <1>2, <1>o, <2>2 DEF Step4, Wait
  <2>3. CASE Goto("Step5") /\ alt_fpga_state_get = "RESET"
    BY <1>2, <1>c, <1>e, <1>g, <2>1, <2>3 DEF Step4, Wait, AfterReset, Failures
  <2>4. CASE Goto("Step5Late")
    BY <1>2, <1>c, <1>e, <1>g, <2>4 DEF Step4, Wait, AfterReset, Failures
  <2>5. QED
    BY <1>2, <2>2, <2>3, <2>4 DEF Step4, Wait
<1>3. CASE Step5
  <2>1. CASE call.at = "Step5"
    BY <1>3, <1>c, <1>k, <1>w, <2>1 DEF Step5, AfterReset
  <2>2. CASE call.at = "Step5Late"
    BY <1>3, <1>c, <1>k, <1>r, <2>2 DEF Step5, Return
  <2>3. QED
    BY <1>3, <2>1, <2>2 DEF Step5
<1>4. CASE Step6
  <2>2. CASE call' = [call EXCEPT !.polls = @ - 1]
    BY <1>4, <1>o, <2>2 DEF Step6, Wait, AfterReset
  <2>3. CASE Goto("Step8")
    BY <1>4, <1>c, <1>e, <1>g, <2>3 DEF Step6, Wait, AfterReset, Failures
  <2>4. CASE Return("FPGA_CFG")
    BY <1>4, <1>c, <1>r, <1>t, <2>4 DEF Step6, Wait, Return
  <2>5. QED
    BY <1>4, <2>2, <2>3, <2>4 DEF Step6, Wait
<1>5. CASE Step8 \/ Step11
  <2>1. CASE Step8
    BY <2>1, <1>c, <1>k, <1>w DEF Step8, AfterReset
  <2>2. CASE Step11
    BY <2>2, <1>c, <1>k, <1>w DEF Step11, AfterReset
  <2>3. QED
    BY <1>5, <2>1, <2>2
<1>6. CASE WriteFull \/ StreamChunk
  <2> DEFINE S == BytesOf(call.source.image)
  <2>1. call.at = "Step9" /\ call.source \in Sources
    BY <1>6, <1>i, <1>t DEF WriteFull, StreamChunk, TypeOK
  <2>2. fpga.data \in Seq(S)
    BY <1>t, <2>1 DEF OwnData, AfterReset
  <2>3. DataTaken(S) /\ CallGoesOn /\ UNCHANGED <<ctl, status>>
    BY <1>6, <1>t, <2>1, WritesData
  <2>4. call'.at \in AfterReset /\ call' \in CallRecord
        /\ call'.source = call.source /\ call'.ctrl_reg = call.ctrl_reg
    BY <2>3 DEF CallGoesOn, AfterReset
  <2>5. fpga' \in Fpga /\ fpga'.data \in Seq(S)
    <3>1. CASE UNCHANGED fpga
      BY <1>t, <2>2, <3>1
    <3>2. ASSUME NEW words \in Seq(S), fpga' = [fpga EXCEPT !.data = Taken(words)]
          PROVE  fpga' \in Fpga /\ fpga'.data \in Seq(S)
      <4>1. Taken(words) \in Seq(S)
        BY <2>2, TakenType
      <4>2. S \subseteq Byte
        BY <2>1 DEF Byte, BytesOf, Sources, Full, Stream
      <4>3. Taken(words) \in Seq(Byte)
        BY <4>1, <4>2, SeqMonotonic
      <4>4. QED
        BY <1>t, <3>2, <4>1, <4>3 DEF Fpga
    <3>3. QED
      BY <2>3, <3>1, <3>2 DEF DataTaken
  <2>6. ImageLoaded'
    <3>1. CASE UNCHANGED fpga
      BY <1>u, <3>1
    <3>2. ASSUME NEW words \in Seq(S), fpga' = [fpga EXCEPT !.data = Taken(words)]
          PROVE  ImageLoaded'
      <4>1. CASE ~(fpga.mode = "CFG" /\ fpga.power)
        BY <1>t, <1>u, <3>2, <4>1 DEF Fpga, Taken, ImageLoaded
      <4>2. CASE fpga.mode = "CFG" /\ fpga.power
        <5>1. /\ fpga'.mode = "CFG" /\ fpga'.conf_done = fpga.conf_done
              /\ fpga'.data = First(ImageSize + 1, fpga.data \o words)
          BY <1>t, <3>2, <4>2 DEF Fpga, Taken
        <5>2. ASSUME NEW j \in Images, First(ImageSize, fpga.data) = Image(j)
              PROVE  First(ImageSize, fpga'.data) = Image(j)
          BY <2>2, <5>1, <5>2, StaysComplete
        <5>3. QED
          BY <1>t, <5>1, <5>2 DEF ImageLoaded
      <4>3. QED
        BY <4>1, <4>2
    <3>3. QED
      BY <2>3, <3>1, <3>2 DEF DataTaken
  <2>7. TypeOK' /\ Registered' /\ OwnData'
    <3>1. call'.at \in {"Step9", "Step10", "Step11"}
      BY <2>3 DEF CallGoesOn
    <3>2. QED
      BY <1>t, <1>c, <2>1, <2>3, <2>4, <2>5, <3>1 DEF TypeOK, Registered, OwnData
  <2>8. QED
    BY <1>i, <2>6, <2>7 DEF Goal
<1>7. CASE Step10
  <2>1. CASE call' = [call EXCEPT !.polls = @ - 1]
    BY <1>7, <1>o, <2>1 DEF Step10, AfterReset
  <2>2. ASSUME NEW d \in Failures \cup {"SUCCESS"}, DataStatus(d, "Step11")
        PROVE  Goal
    BY <1>7, <1>c, <1>e, <1>g, <2>2 DEF Step10, AfterReset
  <2>3. QED
    BY <1>7, <2>1, <2>2 DEF Step10, Failures
<1>8. CASE Step12 \/ Step12Wait
  <2>1. /\ call.at \in {"Step12", "Step12Count", "Step12Wait"} /\ UNCHANGED ctl
        /\ \/ call' = NoCall
           \/ \E at \in {"Step12Count", "Step12Wait", "Step13"} : Goto(at)
           \/ call' = [call EXCEPT !.polls = @ - 1]
    BY <1>8 DEF Step12, Step12Wait, Return
  <2>2. fpga' \in Fpga /\ fpga'.data = fpga.data /\ ImageLoaded'
    BY <1>8, <1>t DEF Step12, Step12Wait, Fpga, ImageLoaded
  <2>3. /\ call' \in CallRecord
        /\ \/ call'.at = "Idle"
           \/ /\ call'.at \in {"Step12", "Step12Count", "Step12Wait", "Step13"}
              /\ call'.source = call.source /\ call'.ctrl_reg = call.ctrl_reg
    BY <1>n, <1>e, <2>1 DEF AfterReset, Failures
  <2>4. TypeOK' /\ Registered'
    BY <1>t, <1>c, <1>i, <2>1, <2>2, <2>3 DEF TypeOK, Registered
  <2>5. OwnData'
    BY <1>t, <2>1, <2>2, <2>3 DEF OwnData, AfterReset
  <2>6. QED
    BY <1>i, <2>2, <2>4, <2>5 DEF Goal
<1>9. CASE Step13
  <2>1. CASE call' = [call EXCEPT !.polls = @ - 1]
    BY <1>9, <1>o, <2>1 DEF Step13, Wait, AfterReset
  <2>2. CASE call' = NoCall
    BY <1>9, <1>c, <1>r, <1>t, <2>2 DEF Step13, Wait
  <2>3. QED
    BY <1>9, <2>1, <2>2 DEF Step13, Wait, Return
<1>10. QED
  BY <1>1, <1>2, <1>3, <1>4, <1>5, <1>6, <1>7, <1>8, <1>9 DEF ConfigureStep

\* A bridge keeps the program, and what it has seen of the FPGA lasts.
LEMMA BridgeStep ==
  ASSUME IInv, BridgeNext
  PROVE  IInv'
<1>t. TypeOK /\ Registered /\ ImageLoaded /\ OwnData /\ BridgeHeld /\ fpga \in Fpga
  BY DEF IInv, TypeOK
<1>1. UNCHANGED <<ctl, fpga, call>>
  BY DEF BridgeNext, alt_bridge_init, alt_bridge_uninit, BridgeCheck, BridgeReady, alt_bridge_f2s
<1>2. TypeOK' /\ Registered' /\ ImageLoaded' /\ OwnData'
  BY <1>t, <1>1 DEF TypeOK, Registered, ImageLoaded, OwnData
<1>n. NoBridge \in Bridging /\ NoBridge.at = "Idle"
  BY DEF NoBridge, Bridging
<1>b. /\ bridge \in Bridging
      /\ bridge.at # "Idle" => call.at = "Idle" /\ bridge.id \in brgmodrst
      /\ bridge.at = "Ready" => fpga.conf_done \/ ~fpga.power \/ ctl.ncfgpull
  BY <1>t DEF BridgeHeld
<1>i. ASSUME bridge' = NoBridge PROVE BridgeHeld'
  BY <1>n, <1>i DEF BridgeHeld
<1>3. BridgeHeld'
  <2>1. ASSUME NEW b \in Bridges, alt_bridge_init(b) PROVE BridgeHeld'
    <3>1. bridge' \in Bridging /\ bridge'.at = "Check" /\ bridge'.id = b
      BY <2>1 DEF alt_bridge_init, Bridging
    <3>2. b \in brgmodrst' /\ call'.at = "Idle"
      BY <1>1, <2>1 DEF alt_bridge_init
    <3>3. QED
      BY <3>1, <3>2 DEF BridgeHeld
  <2>2. ASSUME NEW b \in Bridges, alt_bridge_uninit(b) PROVE BridgeHeld'
    <3>1. bridge' = bridge /\ bridge.at = "Idle"
      BY <2>2 DEF alt_bridge_uninit
    <3>2. QED
      BY <1>b, <3>1 DEF BridgeHeld
  <2>3. CASE BridgeCheck
    <3>1. alt_fpga_state_get = "USER_MODE" => fpga.conf_done
      BY <1>t DEF alt_fpga_state_get, ImageLoaded
    <3>2. bridge.at = "Check" /\ UNCHANGED brgmodrst
      BY <2>3 DEF BridgeCheck
    <3>3. CASE bridge' = [bridge EXCEPT !.at = "Ready"] /\ alt_fpga_state_get = "USER_MODE"
      <4>1. bridge' \in Bridging /\ bridge'.at = "Ready" /\ bridge'.id = bridge.id
        BY <1>b, <3>3 DEF Bridging
      <4>2. QED
        BY <1>1, <1>b, <3>1, <3>2, <3>3, <4>1 DEF BridgeHeld
    <3>4. QED
      BY <1>i, <2>3, <3>3 DEF BridgeCheck, BridgeReturn
  <2>4. CASE BridgeReady
    BY <1>i, <2>4 DEF BridgeReady, BridgeReturn
  <2>5. ASSUME NEW open \in BOOLEAN, alt_bridge_f2s(open) PROVE BridgeHeld'
    <3>1. bridge' = bridge /\ bridge.at = "Idle"
      BY <2>5 DEF alt_bridge_f2s
    <3>2. QED
      BY <1>b, <3>1 DEF BridgeHeld
  <2>6. QED
    BY <2>1, <2>2, <2>3, <2>4, <2>5 DEF BridgeNext
<1>4. QED
  BY <1>2, <1>3 DEF IInv

LEMMA ManagerKeeps ==
  ASSUME IInv, ManagerStep
  PROVE  IInv'
<1>t. TypeOK /\ Registered /\ ImageLoaded /\ OwnData /\ BridgeHeld
  BY DEF IInv
<1>0. /\ ManagerNext /\ UNCHANGED <<brgmodrst, f2s_ports, bridge>>
      /\ ControlBlock \/ bridge.at = "Idle"
  BY DEF ManagerStep, ManagerNext
<1>1. CASE ControlBlock
  <2>1. UNCHANGED <<ctl, call, status>>
    BY <1>1 DEF ControlBlock
  <2>2. /\ fpga' \in Fpga /\ ImageLoaded' /\ fpga'.data \in {fpga.data, <<>>}
        /\ ~fpga'.conf_done => ~fpga.conf_done \/ ~fpga'.power \/ ctl.ncfgpull
        /\ ~fpga.power => ~fpga'.power
    BY <1>1, ControlBlockStep
  <2>3. \A S : <<>> \in Seq(S)
    BY EmptySeq
  <2>4. TypeOK' /\ Registered'
    BY <1>t, <2>1, <2>2 DEF TypeOK, Registered
  <2>5. OwnData'
    BY <1>t, <2>1, <2>2, <2>3 DEF OwnData
  <2>6. BridgeHeld'
    BY <1>t, <1>0, <2>1, <2>2 DEF BridgeHeld
  <2>7. QED
    BY <2>2, <2>4, <2>5, <2>6 DEF IInv
<1>2. CASE IdleCall /\ bridge.at = "Idle"
  <2>1. TypeOK' /\ Registered' /\ ImageLoaded' /\ OwnData' /\ UNCHANGED fpga
    BY <1>2, IdleCallStep
  <2>2. BridgeHeld'
    BY <1>t, <1>0, <1>2, <2>1 DEF BridgeHeld
  <2>3. QED
    BY <2>1, <2>2 DEF IInv
<1>3. CASE ConfigureStep /\ bridge.at = "Idle"
  <2>1. TypeOK' /\ Registered' /\ ImageLoaded' /\ OwnData' /\ call.at # "Idle"
    BY <1>3, ConfigureSteps
  <2>2. BridgeHeld'
    BY <1>t, <1>0, <1>3, <2>1 DEF BridgeHeld
  <2>3. QED
    BY <2>1, <2>2 DEF IInv
<1>4. QED
  BY <1>0, <1>1, <1>2, <1>3 DEF ManagerNext, IdleCall

LEMMA StutterIInv == IInv /\ UNCHANGED vars => IInv'
BY DEF IInv, TypeOK, Registered, ImageLoaded, OwnData, BridgeHeld, vars, manager
-----------------------------------------------------------------------------
\* The invariant holds in every reachable state.
THEOREM Inductive == Spec => []IInv
<1>1. IInv /\ [Next]_vars => IInv'
  BY BridgeStep, ManagerKeeps, StutterIInv DEF Next
<1>2. QED
  BY <1>1, InitIInv, PTL DEF Spec

\* The ways in which a configuration ends.
LEMMA Ends ==
  ASSUME IInv, [Next]_vars, call.at # "Idle", call'.at = "Idle"
  PROVE  \/ /\ call.at = "Step5Late" /\ status' = "FPGA_CFG"
            /\ ctl' = [call.ctrl_reg EXCEPT !.ncfgpull = FALSE]
         \/ /\ call.at \in {"Step6", "Step12Wait", "Step13"} /\ UNCHANGED ctl
            /\ status' = "SUCCESS" =>
                 UNCHANGED fpga /\ fpga.power /\ fpga.mode = "USER_MODE" /\ call.at = "Step13"
<1>t. call \in CallRecord
  BY DEF IInv, TypeOK
<1>1. ConfigureStep
  <2>1. Next
    BY DEF vars, manager
  <2>2. ~BridgeNext
    BY DEF BridgeNext, alt_bridge_init, alt_bridge_uninit, BridgeCheck, BridgeReady, alt_bridge_f2s
  <2>3. ManagerNext
    BY <2>1, <2>2 DEF Next, ManagerStep, ManagerNext
  <2>4. ~ControlBlock
    BY DEF ControlBlock
  <2>5. QED
    BY <2>3, <2>4 DEF ManagerNext, alt_fpga_control_enable, alt_fpga_control_disable,
       alt_fpga_reset_assert, alt_fpga_reset_deassert, Refused, Configure
<1> USE <1>t DEF CallRecord
<1>2. ASSUME NEW r, NEW at \in AfterReset \cup {"Step4"}, Write(r, at) PROVE FALSE
  BY <1>2 DEF Write, AfterReset
<1>3. ASSUME NEW at \in AfterReset \cup {"Step5Late"}, NEW d, Goto(at) \/ DataStatus(d, at)
      PROVE  FALSE
  BY <1>3 DEF Goto, DataStatus, AfterReset
<1>4. call' # [call EXCEPT !.polls = @ - 1]
  OBVIOUS
<1>5. CASE Step3 \/ Step8 \/ Step11
  BY <1>2, <1>5 DEF Step3, Step8, Step11, AfterReset
<1>6. CASE Step4
  BY <1>3, <1>4, <1>6 DEF Step4, Wait, AfterReset
<1>7. CASE Step5
  BY <1>2, <1>7 DEF Step5, Return, AfterReset
<1>8. CASE Step6
  BY <1>3, <1>4, <1>8 DEF Step6, Wait, Return, AfterReset
<1>9. CASE WriteFull \/ StreamChunk
  <2>1. call.at = "Step9" /\ call.source \in Sources
    BY <1>9 DEF WriteFull, StreamChunk, IInv, TypeOK
  <2>2. CallGoesOn
    BY <1>9, <2>1, WritesData DEF IInv
  <2>3. QED
    BY <2>2 DEF CallGoesOn
<1>10. CASE Step10
  BY <1>3, <1>4, <1>10 DEF Step10, AfterReset
<1>11. CASE Step12 \/ Step12Wait
  <2>1. ~Step12
    BY <1>3 DEF Step12, AfterReset
  <2>2. Failed # "SUCCESS"
    BY DEF Failed
  <2>3. QED
    BY <1>3, <1>4, <1>11, <2>1, <2>2 DEF Step12Wait, Return, AfterReset
<1>12. CASE Step13
  <2>1. Failed # "SUCCESS"
    BY DEF Failed
  <2>2. alt_fpga_state_get = "USER_MODE" => fpga.power /\ fpga.mode = "USER_MODE"
    BY DEF alt_fpga_state_get
  <2>3. QED
    BY <1>4, <1>12, <2>1, <2>2 DEF Step13, Wait, Return
<1>13. QED
  BY <1>1, <1>5, <1>6, <1>7, <1>8, <1>9, <1>10, <1>11, <1>12 DEF ConfigureStep

\* A configuration that fails, in whatever step, leaves the FPGA under control, neither
\* held in reset nor with its data register open.
THEOREM AlwaysReleased == Spec => ControlReleased
<1>1. ASSUME IInv, [Next]_vars, call.at # "Idle", call'.at = "Idle"
      PROVE  ~ctl'.ncfgpull /\ ~ctl'.axicfgen /\ ctl'.en
  <2>1. ctl \in CtrlRegister /\ call.ctrl_reg = ctl /\ Registered
    BY <1>1 DEF IInv, TypeOK, Registered
  <2>2. CASE call.at = "Step5Late" /\ ctl' = [call.ctrl_reg EXCEPT !.ncfgpull = FALSE]
    BY <1>1, <2>1, <2>2 DEF CtrlRegister, Registered
  <2>3. CASE call.at \in {"Step6", "Step12Wait", "Step13"} /\ UNCHANGED ctl
    BY <1>1, <2>1, <2>3 DEF Registered
  <2>4. QED
    BY <1>1, <2>2, <2>3, Ends
<1>2. IInv /\ [Next]_vars =>
        [call.at # "Idle" /\ call'.at = "Idle" => ~ctl'.ncfgpull /\ ~ctl'.axicfgen /\ ctl'.en]_manager
  BY <1>1
<1>3. QED
  BY <1>2, Inductive, PTL DEF Spec, ControlReleased

\* A configuration that reports success has loaded the image it was called with.
THEOREM AlwaysLoaded == Spec => SuccessMeansLoaded
<1>1. ASSUME IInv, [Next]_vars, call.at # "Idle", call'.at = "Idle", status' = "SUCCESS"
      PROVE  /\ fpga.power /\ fpga.mode = "USER_MODE"
             /\ First(ImageSize, fpga.data) = Image(call.source.image)
  <2>1. call.at = "Step13" /\ fpga.power /\ fpga.mode = "USER_MODE"
    BY <1>1, Ends
  <2>2. PICK i \in Images : First(ImageSize, fpga.data) = Image(i)
    BY <1>1, <2>1 DEF IInv, ImageLoaded
  <2>3. fpga.data \in Seq(BytesOf(call.source.image))
    BY <1>1, <2>1 DEF IInv, OwnData, AfterReset
  <2>4. CASE ImageSize = 0
    BY <2>1, <2>2, <2>4 DEF Image
  <2>5. CASE ImageSize > 0
    <3>1. /\ First(ImageSize, fpga.data) \in Seq(BytesOf(call.source.image))
          /\ Len(First(ImageSize, fpga.data)) \in Nat
      <4>1. ImageSize \in Nat
        OBVIOUS
      <4>2. First(ImageSize, fpga.data) \in Seq(BytesOf(call.source.image))
        BY <2>3, <4>1, FirstOf
      <4>3. QED
        BY <4>2, LenProperties
    <3>2. DOMAIN First(ImageSize, fpga.data) = 1..Len(First(ImageSize, fpga.data))
      BY <3>1, LenProperties
    <3>3. 1 \in DOMAIN Image(i) /\ Image(i)[1] = <<i, 1>>
      BY <2>5 DEF Image
    <3>4. 1 \in 1..Len(First(ImageSize, fpga.data))
      BY <2>2, <3>2, <3>3
    <3>5. <<i, 1>> \in BytesOf(call.source.image)
      BY <2>2, <3>1, <3>3, <3>4, ElementOfSeq
    <3>6. i = call.source.image
      BY <3>5 DEF BytesOf, Padding
    <3>7. QED
      BY <2>1, <2>2, <3>6
  <2>6. QED
    BY <2>4, <2>5
<1>2. IInv /\ [Next]_vars =>
        [call.at # "Idle" /\ call'.at = "Idle" /\ status' = "SUCCESS" =>
           /\ fpga.power /\ fpga.mode = "USER_MODE"
           /\ First(ImageSize, fpga.data) = Image(call.source.image)]_manager
  BY <1>1
<1>3. QED
  BY <1>2, Inductive, PTL DEF Spec, SuccessMeansLoaded

\* A bridge is opened only into an FPGA that was seen configured, and one that could not
\* be opened is in reset.
THEOREM AlwaysGuarded == Spec => BridgeGuarded
<1>1. ASSUME IInv, [Next]_vars, NEW b \in Bridges
      PROVE  /\ b \in brgmodrst /\ b \notin brgmodrst' =>
                  fpga.conf_done \/ ~fpga.power \/ ctl.ncfgpull
             /\ bridge = [at |-> "Check", id |-> b] /\ bridge'.at = "Idle" => b \in brgmodrst'
             /\ bridge = [at |-> "Ready", id |-> b] /\ bridge'.at = "Idle" /\ status' # "SUCCESS" =>
                  b \in brgmodrst'
  <2> DEFINE Opens == b \in brgmodrst /\ b \notin brgmodrst'
             Closed(at) == bridge = [at |-> at, id |-> b] /\ bridge'.at = "Idle"
  <2>h. /\ bridge.at # "Idle" => bridge.id \in brgmodrst
        /\ bridge.at = "Ready" => fpga.conf_done \/ ~fpga.power \/ ctl.ncfgpull
    BY <1>1 DEF IInv, BridgeHeld
  <2>k. Closed("Check") => bridge.at = "Check" /\ bridge.id = b
    OBVIOUS
  <2>r. Closed("Ready") => bridge.at = "Ready" /\ bridge.id = b
    OBVIOUS
  <2>1. CASE UNCHANGED brgmodrst
    BY <2>1, <2>h, <2>k, <2>r
  <2>2. ASSUME NEW c \in Bridges, alt_bridge_init(c) \/ alt_bridge_uninit(c), ~UNCHANGED brgmodrst
        PROVE  brgmodrst \subseteq brgmodrst' /\ bridge.at = "Idle"
    BY <2>2 DEF alt_bridge_init, alt_bridge_uninit
  <2>3. ASSUME BridgeReady, ~UNCHANGED brgmodrst
        PROVE  bridge.at = "Ready" /\ status' = "SUCCESS"
    BY <2>3 DEF BridgeReady, BridgeReturn
  <2>4. CASE ~UNCHANGED brgmodrst
    <3>1. BridgeReady \/ \E c \in Bridges : alt_bridge_init(c) \/ alt_bridge_uninit(c)
      BY <1>1, <2>4 DEF Next, ManagerStep, vars, BridgeNext, BridgeCheck, alt_bridge_f2s
    <3>2. QED
      BY <2>4, <2>2, <2>3, <2>h, <2>k, <2>r, <3>1
  <2>5. QED
    BY <2>1, <2>4
<1>2. IInv /\ [Next]_vars =>
        [\A b \in Bridges :
           /\ b \in brgmodrst /\ b \notin brgmodrst' =>
                fpga.conf_done \/ ~fpga.power \/ ctl.ncfgpull
           /\ bridge = [at |-> "Check", id |-> b] /\ bridge'.at = "Idle" => b \in brgmodrst'
           /\ bridge = [at |-> "Ready", id |-> b] /\ bridge'.at = "Idle" /\ status' # "SUCCESS" =>
                b \in brgmodrst']_vars
  BY <1>1
<1>3. QED
  BY <1>2, Inductive, PTL DEF Spec, BridgeGuarded
-----------------------------------------------------------------------------
(* The global timer.                                                       *)
HIDE FpgaAssumption

Bits == {"enable", "comp", "int", "autoinc"}

AccessType ==
  [op : {"ctrl"}, off : SUBSET Bits, on : SUBSET Bits]
    \cup [op : {"put"}, reg : {"comp_lo", "comp_hi", "inc", "ps"}, val : Nat]
    \cup {Clear}

TimerTypeOK ==
  /\ now \in Nat /\ asked \in Nat
  /\ tmr \in [ctrl : SUBSET Bits, comp_lo : Nat, comp_hi : Nat, inc : Nat, ps : Nat,
              pending : BOOLEAN]
  /\ writes \in Seq(AccessType)
  /\ reading \in [at : {"idle", "lo", "hi"}, from : Nat, hi : Nat, lo : Nat, cnt : 0..3]

IsPut(a, reg) == a.op = "put" /\ a.reg = reg

\* The two halves of the comparator are written one after the other, with the comparison
\* off.
Paired(s, ctrl) ==
  \A k \in 1..Len(s) :
    IsPut(s[k], "comp_lo") =>
      /\ k < Len(s) /\ IsPut(s[k + 1], "comp_hi")
      /\ \/ k = 1 /\ "comp" \notin ctrl
         \/ k = 2 /\ s[1].op = "ctrl" /\ "comp" \in s[1].off /\ "comp" \notin s[1].on

\* Between the two the comparator is half of what the program asks for.
HalfWritten ==
  Comparator # asked => "comp" \notin tmr.ctrl /\ writes # <<>> /\ IsPut(writes[1], "comp_hi")

\* What a call that reads has seen: the low word at a time t, before the next look at the
\* high word, and not before the last one; each round is a change of the high word.
Seen ==
  /\ reading.at # "idle" =>
       /\ reading.from <= now
       /\ reading.hi <= now \div Half
       /\ reading.hi - reading.from \div Half >= 3 - reading.cnt
  /\ reading.at = "hi" =>
       \E t \in reading.from..now : reading.lo = t % Half /\ reading.hi <= t \div Half

TimerInv == TimerTypeOK /\ Paired(writes, tmr.ctrl) /\ HalfWritten /\ Seen
-----------------------------------------------------------------------------
(* Words.                                                                  *)

\* A time is its two halves.
LEMMA Halves ==
  ASSUME Half \in Nat \ {0}, NEW t \in Nat
  PROVE  /\ t \div Half \in Nat /\ t % Half \in Nat /\ t % Half < Half
         /\ (t \div Half) * Half + (t % Half) = t
OBVIOUS

\* Later times have no smaller high words.
LEMMA Later ==
  ASSUME Half \in Nat \ {0}, NEW s \in Nat, NEW t \in Nat, s <= t
  PROVE  s \div Half <= t \div Half
<1> DEFINE p == s \div Half
           q == t \div Half
<1>1. /\ p \in Nat /\ q \in Nat
      /\ p * Half <= s
      /\ t < q * Half + Half
  BY Halves
<1> HIDE DEF p, q
<1>2. ASSUME q < p PROVE FALSE
  <2>1. q + 1 <= p
    BY <1>1, <1>2
  <2>2. (q + 1) * Half <= p * Half
    BY <1>1, <2>1
  <2>3. (q + 1) * Half = q * Half + Half
    BY <1>1
  <2>4. QED
    BY <1>1, <2>2, <2>3
<1>3. QED
  BY <1>1, <1>2 DEF p, q
-----------------------------------------------------------------------------
(* The calls that write.                                                   *)

\* Accesses that leave the comparator alone, or its high word only.
Plain == {a \in AccessType : ~IsPut(a, "comp_lo")}

Writable(s) == s \in Seq(AccessType) /\ Paired(s, tmr.ctrl)

LEMMA AccessTypes ==
  /\ \A off, on \in SUBSET Bits : Ctrl(off, on) \in Plain
  /\ \A v \in Nat : /\ Put("inc", v) \in Plain /\ Put("ps", v) \in Plain /\ Put("comp_hi", v) \in Plain
                    /\ Put("comp_lo", v) \in AccessType
  /\ Clear \in Plain
  /\ Plain \subseteq AccessType
BY DEF Plain, AccessType, Ctrl, Put, Clear, IsPut

\* A sequence of such accesses.
LEMMA PlainWritable ==
  ASSUME NEW s \in Seq(Plain)
  PROVE  Writable(s)
<1>1. s \in Seq(AccessType)
  BY AccessTypes, SeqMonotonic
<1>2. \A k \in 1..Len(s) : s[k] \in Plain
  BY ElementOfSeq
<1>3. QED
  BY <1>1, <1>2 DEF Writable, Paired, Plain

\* What else is written may follow.
LEMMA PlainFollows ==
  ASSUME NEW s, Writable(s), NEW t \in Seq(Plain)
  PROVE  Writable(s \o t)
<1>1. s \in Seq(AccessType) /\ t \in Seq(AccessType)
  BY AccessTypes, SeqMonotonic DEF Writable
<1>2. /\ s \o t \in Seq(AccessType)
      /\ Len(s) \in Nat /\ Len(t) \in Nat
      /\ Len(s \o t) = Len(s) + Len(t)
      /\ \A k \in 1 .. Len(s) + Len(t) : (s \o t)[k] = IF k <= Len(s) THEN s[k] ELSE t[k - Len(s)]
  BY <1>1, ConcatProperties, LenProperties
<1>3. \A k \in 1..Len(t) : ~IsPut(t[k], "comp_lo")
  BY ElementOfSeq DEF Plain
<1>4. ASSUME NEW k \in 1..Len(s \o t), IsPut((s \o t)[k], "comp_lo")
      PROVE  /\ k < Len(s \o t) /\ IsPut((s \o t)[k + 1], "comp_hi")
             /\ \/ k = 1 /\ "comp" \notin tmr.ctrl
                \/ k = 2 /\ (s \o t)[1].op = "ctrl" /\ "comp" \in (s \o t)[1].off /\ "comp" \notin (s \o t)[1].on
  <2>1. k <= Len(s)
    <3>1. ASSUME k > Len(s) PROVE FALSE
      <4>1. (s \o t)[k] = t[k - Len(s)] /\ k - Len(s) \in 1..Len(t)
        BY <1>2, <3>1
      <4>2. QED
        BY <1>3, <1>4, <4>1
    <3>2. QED
      BY <3>1, <1>2
  <2>2. /\ k \in 1..Len(s) /\ (s \o t)[k] = s[k]
        /\ k < Len(s) => (s \o t)[k + 1] = s[k + 1]
        /\ (s \o t)[1] = s[1]
    BY <1>2, <2>1
  <2>3. QED
    BY <1>2, <1>4, <2>2 DEF Writable, Paired
<1>5. QED
  BY <1>2, <1>4 DEF Writable, Paired

\* An access in front of two.
LEMMA InFront ==
  ASSUME NEW S, NEW a \in S, NEW b \in S, NEW c \in S
  PROVE  <<a>> \o <<b, c>> = <<a, b, c>>
<1> DEFINE s == <<a>>
           t == <<b, c>>
           u == <<a, b, c>>
<1>1. s \in Seq(S) /\ t \in Seq(S) /\ u \in Seq(S)
  OBVIOUS
<1>2. /\ Len(s) = 1 /\ Len(t) = 2 /\ Len(u) = 3
      /\ s[1] = a /\ t[1] = b /\ t[2] = c /\ u[1] = a /\ u[2] = b /\ u[3] = c
  OBVIOUS
<1> HIDE DEF s, t, u
<1>3. /\ s \o t \in Seq(S) /\ Len(s \o t) = 3
      /\ (s \o t)[1] = s[1] /\ (s \o t)[2] = t[1] /\ (s \o t)[3] = t[2]
  <2>1. /\ s \o t \in Seq(S)
        /\ Len(s \o t) = Len(s) + Len(t)
        /\ \A i \in 1 .. Len(s) + Len(t) : (s \o t)[i] = IF i <= Len(s) THEN s[i] ELSE t[i - Len(s)]
    BY <1>1, ConcatProperties
  <2>2. QED
    BY <1>2, <2>1
<1>4. \A i \in 1..3 : (s \o t)[i] = u[i]
  BY <1>2, <1>3
<1>5. s \o t = u
  BY <1>1, <1>2, <1>3, <1>4, SeqEqual
<1>6. QED
  BY <1>5 DEF s, t, u

\* The two words of a comparator value, with the comparison off.
LEMMA BothWords ==
  ASSUME NEW lo \in Nat, NEW hi \in Nat, NEW off \in SUBSET Bits, "comp" \in off
  PROVE  /\ Writable(<<Ctrl(off, {}), Put("comp_lo", lo), Put("comp_hi", hi)>>)
         /\ "comp" \notin tmr.ctrl => Writable(<<Put("comp_lo", lo), Put("comp_hi", hi)>>)
<1>1. /\ Ctrl(off, {}) \in AccessType /\ Put("comp_lo", lo) \in AccessType
      /\ Put("comp_hi", hi) \in AccessType
  BY AccessTypes
<1>2. Writable(<<Ctrl(off, {}), Put("comp_lo", lo), Put("comp_hi", hi)>>)
  BY <1>1 DEF Writable, Paired, IsPut, Ctrl, Put
<1>3. ASSUME "comp" \notin tmr.ctrl PROVE Writable(<<Put("comp_lo", lo), Put("comp_hi", hi)>>)
  BY <1>1, <1>3 DEF Writable, Paired, IsPut, Ctrl, Put
<1>4. QED
  BY <1>2, <1>3

\* A change of a value without its first word.
LEMMA NotComparingPlain ==
  ASSUME NEW s \in Seq(Plain)
  PROVE  NotComparing(s) \in Seq(Plain)
<1>1. /\ <<Ctrl({"comp"}, {})>> \in Seq(Plain) /\ <<Ctrl({}, {"comp"})>> \in Seq(Plain)
      /\ <<>> \in Seq(Plain)
  BY AccessTypes, EmptySeq DEF Bits
<1>2. /\ When(alt_globaltmr_is_comp_mode, alt_globaltmr_comp_mode_stop) \in Seq(Plain)
      /\ When(alt_globaltmr_is_comp_mode, alt_globaltmr_comp_mode_start) \in Seq(Plain)
  BY <1>1 DEF When, alt_globaltmr_comp_mode_stop, alt_globaltmr_comp_mode_start
<1>3. QED
  BY <1>2, ConcatProperties DEF NotComparing

\* Every call writes the comparator in this way.
LEMMA CallsWritable ==
  ASSUME WriteCall
  PROVE  Writable(writes')
<1> DEFINE Written(s) == writes' = s
<1>1. \/ \E s \in {alt_globaltmr_start, alt_globaltmr_stop, alt_globaltmr_comp_mode_start,
                   alt_globaltmr_comp_mode_stop, alt_globaltmr_autoinc_mode_start,
                   alt_globaltmr_autoinc_mode_stop, alt_globaltmr_int_enable,
                   alt_globaltmr_int_disable, alt_globaltmr_int_clear_pending,
                   alt_globaltmr_int_if_pending_clear} : Written(s)
      \/ Written(alt_globaltmr_init)
      \/ Written(alt_globaltmr_uninit)
      \/ \E t \in Times : Written(alt_globaltmr_comp_set(t))
      \/ \E inc \in Increments : Written(alt_globaltmr_autoinc_set(inc))
      \/ \E ps \in Prescalers : Written(alt_globaltmr_prescaler_set(ps))
  BY DEF WriteCall, Call
<1>2. ASSUME NEW s \in {alt_globaltmr_start, alt_globaltmr_stop, alt_globaltmr_comp_mode_start,
                   alt_globaltmr_comp_mode_stop, alt_globaltmr_autoinc_mode_start,
                   alt_globaltmr_autoinc_mode_stop, alt_globaltmr_int_enable,
                   alt_globaltmr_int_disable, alt_globaltmr_int_clear_pending,
                   alt_globaltmr_int_if_pending_clear}
      PROVE  Writable(s)
  <2>1. /\ \A off, on \in SUBSET Bits : <<Ctrl(off, on)>> \in Seq(Plain)
        /\ <<Clear>> \in Seq(Plain) /\ <<>> \in Seq(Plain)
    BY AccessTypes, EmptySeq
  <2>2. alt_globaltmr_int_enable \in Seq(Plain)
    <3>1. /\ When("enable" \notin tmr.ctrl, alt_globaltmr_start) \in Seq(Plain)
          /\ <<Ctrl({}, {"int"})>> \in Seq(Plain)
      BY <2>1 DEF When, alt_globaltmr_start, Bits
    <3>2. QED
      BY <3>1, ConcatProperties DEF alt_globaltmr_int_enable
  <2>3. s \in Seq(Plain)
    BY <2>1, <2>2 DEF Bits, When, alt_globaltmr_start, alt_globaltmr_stop,
       alt_globaltmr_comp_mode_start, alt_globaltmr_comp_mode_stop, alt_globaltmr_autoinc_mode_start,
       alt_globaltmr_autoinc_mode_stop, alt_globaltmr_int_disable, alt_globaltmr_int_clear_pending,
       alt_globaltmr_int_if_pending_clear
  <2>4. QED
    BY <2>3, PlainWritable
<1>3. Writable(alt_globaltmr_uninit)
  <2> DEFINE first == <<Ctrl({"comp", "int", "autoinc"}, {}), Put("comp_lo", 0), Put("comp_hi", 0)>>
             rest  == <<Put("inc", 0), Clear>>
  <2>1. Writable(first)
    BY BothWords DEF Bits
  <2>2. rest \in Seq(Plain)
    BY AccessTypes
  <2>3. alt_globaltmr_uninit = first \o rest
    BY DEF alt_globaltmr_uninit
  <2> HIDE DEF first, rest
  <2>4. QED
    BY <2>1, <2>2, <2>3, PlainFollows
<1>4. Writable(alt_globaltmr_init)
  <2>1. <<Ctrl({}, {"enable"})>> \in Seq(Plain)
    BY AccessTypes DEF Bits
  <2>2. QED
    BY <1>3, <2>1, PlainFollows DEF alt_globaltmr_init
<1>5. ASSUME NEW t \in Times PROVE Writable(alt_globaltmr_comp_set(t))
  <2> DEFINE lo == t % Half
             hi == t \div Half
             both == <<Put("comp_lo", lo), Put("comp_hi", hi)>>
  <2>1. lo \in Nat /\ hi \in Nat
    BY Halves, TimerAssumption
  <2>2. both \in Seq(AccessType) /\ <<>> \in Seq(AccessType)
    BY <2>1, AccessTypes, EmptySeq
  <2>3. CASE alt_globaltmr_is_comp_mode
    <3>1. alt_globaltmr_comp_set(t) = <<Ctrl({"comp"}, {})>> \o both \o <<Ctrl({}, {"comp"})>>
      BY <2>3 DEF alt_globaltmr_comp_set, NotComparing, When, alt_globaltmr_comp_mode_stop,
         alt_globaltmr_comp_mode_start
    <3>2. <<Ctrl({"comp"}, {})>> \o both = <<Ctrl({"comp"}, {}), Put("comp_lo", lo), Put("comp_hi", hi)>>
      <4>1. /\ Ctrl({"comp"}, {}) \in AccessType
            /\ Put("comp_lo", lo) \in AccessType /\ Put("comp_hi", hi) \in AccessType
        BY <2>1, AccessTypes DEF Bits
      <4>2. QED
        BY <4>1, InFront
    <3>3. Writable(<<Ctrl({"comp"}, {})>> \o both)
      BY <2>1, <3>2, BothWords DEF Bits
    <3>4. <<Ctrl({}, {"comp"})>> \in Seq(Plain)
      BY AccessTypes DEF Bits
    <3>5. QED
      BY <3>1, <3>3, <3>4, PlainFollows
  <2>4. CASE ~alt_globaltmr_is_comp_mode
    <3>1. alt_globaltmr_comp_set(t) = <<>> \o both \o <<>>
      BY <2>4 DEF alt_globaltmr_comp_set, NotComparing, When
    <3>2. <<>> \o both \o <<>> = both
      BY <2>2, ConcatEmptySeq
    <3>3. Writable(both)
      BY <2>1, <2>4, BothWords DEF alt_globaltmr_is_comp_mode, Bits
    <3>4. QED
      BY <3>1, <3>2, <3>3
  <2>5. QED
    BY <2>3, <2>4
<1>6. ASSUME NEW inc \in Increments PROVE Writable(alt_globaltmr_autoinc_set(inc))
  <2>1. <<Put("inc", inc)>> \in Seq(Plain)
    BY AccessTypes, TimerAssumption
  <2>2. QED
    BY <2>1, NotComparingPlain, PlainWritable DEF alt_globaltmr_autoinc_set
<1>7. ASSUME NEW ps \in Prescalers PROVE Writable(alt_globaltmr_prescaler_set(ps))
  <2>1. <<Put("ps", ps)>> \in Seq(Plain) /\ <<>> \in Seq(Plain)
    BY AccessTypes, EmptySeq, TimerAssumption
  <2>2. QED
    BY <2>1, PlainWritable DEF alt_globaltmr_prescaler_set, When
<1> HIDE DEF Written
<1>8. \A s : Written(s) => writes' = s
  BY DEF Written
<1>9. QED
  BY <1>1, <1>2, <1>3, <1>4, <1>5, <1>6, <1>7, <1>8
-----------------------------------------------------------------------------
(* The steps.                                                              *)

Registers ==
  [ctrl : SUBSET Bits, comp_lo : Nat, comp_hi : Nat, inc : Nat, ps : Nat, pending : BOOLEAN]

Readings == [at : {"idle", "lo", "hi"}, from : Nat, hi : Nat, lo : Nat, cnt : 0..3]

LEMMA InitTimerInv == TimerInit => TimerInv
<1> SUFFICES ASSUME TimerInit PROVE TimerInv
  OBVIOUS
<1>1. Half \in Nat \ {0}
  BY TimerAssumption
<1>2. tmr.comp_hi = 0 /\ tmr.comp_lo = 0 /\ tmr \in Registers
  <2>1. PICK c \in {{}, {"enable"}} :
          tmr = [ctrl |-> c, comp_lo |-> 0, comp_hi |-> 0, inc |-> 0, ps |-> 0, pending |-> FALSE]
    BY DEF TimerInit
  <2>2. c \in SUBSET Bits
    BY DEF Bits
  <2>3. QED
    BY <2>1, <2>2 DEF Registers
<1>3. TimerTypeOK
  <2>1. <<>> \in Seq(AccessType)
    BY EmptySeq
  <2>2. QED
    BY <1>1, <1>2, <2>1 DEF TimerTypeOK, TimerInit, NotReading, Registers
<1>4. Paired(writes, tmr.ctrl)
  <2>1. Len(writes) = 0
    BY EmptySeq DEF TimerInit
  <2>2. QED
    BY <2>1 DEF Paired
<1>5. HalfWritten
  <2>1. Comparator = 0
    BY <1>1, <1>2 DEF Comparator
  <2>2. QED
    BY <2>1 DEF HalfWritten, TimerInit
<1>6. Seen
  BY DEF Seen, TimerInit, NotReading
<1>7. QED
  BY <1>3, <1>4, <1>5, <1>6 DEF TimerInv

\* The counter goes on: later high words are no smaller.
LEMMA TickStep == TimerInv /\ Tick => TimerInv'
<1> SUFFICES ASSUME TimerInv, Tick PROVE TimerInv'
  OBVIOUS
<1>1. /\ now \in Nat /\ now' = now + 1 /\ Half \in Nat \ {0}
      /\ UNCHANGED <<tmr, writes, reading, asked>>
  BY TimerAssumption DEF TimerInv, TimerTypeOK, Tick
<1>2. TimerTypeOK'
  BY <1>1 DEF TimerInv, TimerTypeOK
<1>3. (Paired(writes, tmr.ctrl))' /\ HalfWritten'
  BY <1>1 DEF TimerInv, Paired, HalfWritten, Comparator
<1>4. Seen'
  <2>1. now \div Half <= now' \div Half /\ now \div Half \in Nat /\ now' \div Half \in Nat
    <3>1. now' \in Nat /\ now <= now'
      BY <1>1
    <3>2. QED
      BY <1>1, <3>1, Later, Halves
  <2>2. reading \in Readings
    BY DEF TimerInv, TimerTypeOK, Readings
  <2>3. reading.at # "idle" =>
          /\ reading.from <= now'
          /\ reading.hi <= now' \div Half
          /\ reading.hi - reading.from \div Half >= 3 - reading.cnt
    BY <1>1, <2>1, <2>2 DEF TimerInv, Seen, Readings
  <2>4. reading.at = "hi" =>
          \E t \in reading.from..now' : reading.lo = t % Half /\ reading.hi <= t \div Half
    <3>1. reading.from..now \subseteq reading.from..now'
      BY <1>1, <2>2 DEF Readings
    <3>2. QED
      BY <3>1 DEF TimerInv, Seen
  <2>5. QED
    BY <1>1, <2>3, <2>4 DEF Seen
<1>5. QED
  BY <1>2, <1>3, <1>4 DEF TimerInv

\* Nothing but the counter and the reading matters for a reading.
LEMMA SeenKept == Seen /\ UNCHANGED <<now, reading>> => Seen'
BY DEF Seen

\* The comparator moves on as a whole.
LEMMA EventStep == TimerInv /\ Event => TimerInv' /\ now >= asked
<1> SUFFICES ASSUME TimerInv, Event PROVE TimerInv' /\ now >= asked
  OBVIOUS
<1> DEFINE inc == IF "autoinc" \in tmr.ctrl THEN tmr.inc ELSE 0
           next == Comparator + inc
<1>1. /\ Half \in Nat \ {0} /\ tmr \in Registers /\ asked \in Nat /\ now \in Nat
  BY TimerAssumption DEF TimerInv, TimerTypeOK, Registers
<1>2. /\ now >= Comparator /\ "comp" \in tmr.ctrl
      /\ tmr' = [tmr EXCEPT !.pending = TRUE, !.comp_lo = next % Half, !.comp_hi = next \div Half]
      /\ asked' = asked + inc
      /\ UNCHANGED <<now, writes, reading>>
  BY DEF Event
<1>3. Comparator = asked
  BY <1>2 DEF TimerInv, HalfWritten
<1>4. inc \in Nat /\ next \in Nat
  BY <1>1, <1>3 DEF Registers
<1>5. next % Half \in Nat /\ next \div Half \in Nat /\ (next \div Half) * Half + (next % Half) = next
  BY <1>1, <1>4, Halves
<1>6. tmr' \in Registers /\ tmr'.ctrl = tmr.ctrl
      /\ tmr'.comp_lo = next % Half /\ tmr'.comp_hi = next \div Half
  BY <1>1, <1>2, <1>5 DEF Registers
<1>7. Comparator' = asked'
  <2>1. Comparator' = next
    BY <1>5, <1>6 DEF Comparator
  <2>2. QED
    BY <1>2, <1>3, <2>1
<1> HIDE DEF inc, next
<1>8. TimerTypeOK'
  BY <1>1, <1>2, <1>4, <1>6 DEF TimerInv, TimerTypeOK, Registers
<1>9. (Paired(writes, tmr.ctrl))' /\ HalfWritten'
  BY <1>2, <1>6, <1>7 DEF TimerInv, Paired, HalfWritten
<1>10. Seen'
  BY <1>2, SeenKept DEF TimerInv
<1>11. QED
  BY <1>2, <1>3, <1>8, <1>9, <1>10 DEF TimerInv

LEMMA WriteCallStep == TimerInv /\ WriteCall => TimerInv'
<1> SUFFICES ASSUME TimerInv, WriteCall PROVE TimerInv'
  OBVIOUS
<1>1. writes = <<>> /\ UNCHANGED <<now, tmr, reading, asked>>
  BY DEF WriteCall, Call, Idle
<1>2. writes' \in Seq(AccessType) /\ (Paired(writes, tmr.ctrl))'
  BY <1>1, CallsWritable DEF Writable, Paired
<1>3. TimerTypeOK'
  BY <1>1, <1>2 DEF TimerInv, TimerTypeOK
<1>4. HalfWritten'
  BY <1>1 DEF TimerInv, HalfWritten, Comparator
<1>5. Seen'
  BY <1>1, SeenKept DEF TimerInv
<1>6. QED
  BY <1>2, <1>3, <1>4, <1>5 DEF TimerInv

\* An access is one of three kinds.
LEMMA AccessCases ==
  ASSUME NEW a \in AccessType
  PROVE  \/ a.op = "ctrl" /\ a.off \in SUBSET Bits /\ a.on \in SUBSET Bits
         \/ a.op = "put" /\ a.reg \in {"comp_lo", "comp_hi", "inc", "ps"} /\ a.val \in Nat
         \/ a.op = "clear"
BY DEF AccessType, Clear

\* One half of the comparator differs only while the other is still to be written.
LEMMA AccessStep == TimerInv /\ Access => TimerInv'
<1> SUFFICES ASSUME TimerInv, Access PROVE TimerInv'
  OBVIOUS
<1> DEFINE a == writes[1]
<1>1. /\ Half \in Nat \ {0} /\ tmr \in Registers /\ asked \in Nat
      /\ writes \in Seq(AccessType) /\ Paired(writes, tmr.ctrl)
  BY TimerAssumption DEF TimerInv, TimerTypeOK, Registers
<1>2. /\ Len(writes) \in Nat \ {0} /\ a \in AccessType /\ Head(writes) = a
      /\ writes' \in Seq(AccessType) /\ Len(writes') = Len(writes) - 1
      /\ \A k \in 1..Len(writes') : writes'[k] = writes[k + 1]
  <2>1. writes # <<>> /\ writes' = Tail(writes)
    BY DEF Access
  <2>2. Len(writes) \in Nat \ {0}
    BY <1>1, <2>1, EmptySeq, LenProperties
  <2>3. Head(writes) = a /\ Tail(writes) \in Seq(AccessType) /\ Len(Tail(writes)) = Len(writes) - 1
        /\ \A k \in 1..Len(Tail(writes)) : Tail(writes)[k] = writes[k + 1]
    BY <1>1, <2>1, HeadTailProperties
  <2>4. a \in AccessType
    BY <1>1, <2>2, ElementOfSeq
  <2>5. QED
    BY <2>1, <2>2, <2>3, <2>4
<1>3. /\ tmr' = CASE a.op = "ctrl"  -> [tmr EXCEPT !.ctrl = (@ \ a.off) \cup a.on]
                  [] a.op = "put"   -> [tmr EXCEPT ![a.reg] = a.val]
                  [] a.op = "clear" -> [tmr EXCEPT !.pending = FALSE]
      /\ asked' = IF IsPut(a, "comp_hi") THEN Comparator' ELSE asked
      /\ UNCHANGED <<now, reading>>
  BY <1>2 DEF Access, IsPut
<1> HIDE DEF a
<1>4. tmr' \in Registers
  <2>1. CASE a.op = "ctrl" /\ a.off \in SUBSET Bits /\ a.on \in SUBSET Bits
    <3>1. (tmr.ctrl \ a.off) \cup a.on \in SUBSET Bits
      BY <1>1, <2>1 DEF Registers
    <3>2. QED
      BY <1>1, <1>3, <2>1, <3>1 DEF Registers
  <2>2. CASE a.op = "put" /\ a.reg \in {"comp_lo", "comp_hi", "inc", "ps"} /\ a.val \in Nat
    BY <1>1, <1>3, <2>2 DEF Registers
  <2>3. CASE a.op = "clear"
    BY <1>1, <1>3, <2>3 DEF Registers
  <2>4. QED
    BY <1>2, <2>1, <2>2, <2>3, AccessCases
<1>5. Comparator \in Nat /\ Comparator' \in Nat
  BY <1>1, <1>4 DEF Comparator, Registers
<1>6. TimerTypeOK'
  BY <1>1, <1>2, <1>3, <1>4, <1>5 DEF TimerInv, TimerTypeOK, Registers
<1>7. (Paired(writes, tmr.ctrl))'
  <2> SUFFICES ASSUME NEW k \in 1..Len(writes'), IsPut(writes'[k], "comp_lo")
               PROVE  /\ k < Len(writes') /\ IsPut(writes'[k + 1], "comp_hi")
                      /\ k = 1 /\ "comp" \notin tmr'.ctrl
    BY DEF Paired
  <2>1. k + 1 \in 1..Len(writes) /\ k \in Nat \ {0} /\ writes'[k] = writes[k + 1]
    BY <1>2
  <2>2. /\ k + 1 < Len(writes) /\ IsPut(writes[k + 1 + 1], "comp_hi")
        /\ k + 1 = 2 /\ a.op = "ctrl" /\ "comp" \in a.off /\ "comp" \notin a.on
    BY <1>1, <2>1 DEF Paired, a
  <2>3. k < Len(writes') /\ IsPut(writes'[k + 1], "comp_hi")
    BY <1>2, <2>1, <2>2
  <2>4. tmr'.ctrl = (tmr.ctrl \ a.off) \cup a.on
    BY <1>1, <1>3, <2>2 DEF Registers
  <2>5. QED
    BY <2>1, <2>2, <2>3, <2>4
<1>8. HalfWritten'
  <2>1. CASE IsPut(a, "comp_hi")
    <3>1. asked' = Comparator'
      BY <1>3, <2>1
    <3>2. QED
      BY <3>1 DEF HalfWritten
  <2>2. CASE IsPut(a, "comp_lo")
    <3>1. /\ 1 < Len(writes) /\ IsPut(writes[2], "comp_hi") /\ "comp" \notin tmr.ctrl
      BY <1>1, <1>2, <2>2 DEF Paired, a
    <3>2. writes'[1] = writes[2] /\ Len(writes') # 0
      BY <1>2, <3>1
    <3>3. writes' # <<>>
      BY <1>2, <3>2, EmptySeq
    <3>4. tmr'.ctrl = tmr.ctrl
      BY <1>1, <1>3, <2>2 DEF Registers, IsPut
    <3>5. QED
      BY <3>1, <3>2, <3>3, <3>4 DEF HalfWritten
  <2>3. CASE ~IsPut(a, "comp_hi") /\ ~IsPut(a, "comp_lo")
    <3>1. Comparator = asked
      BY <2>3 DEF TimerInv, HalfWritten, a
    <3>2. tmr'.comp_hi = tmr.comp_hi /\ tmr'.comp_lo = tmr.comp_lo
      BY <1>1, <1>2, <1>3, <2>3, AccessCases DEF Registers, IsPut
    <3>3. asked' = asked
      BY <1>3, <2>3
    <3>4. Comparator' = Comparator
      BY <3>2 DEF Comparator
    <3>5. QED
      BY <3>1, <3>3, <3>4 DEF HalfWritten
  <2>4. QED
    BY <2>1, <2>2, <2>3
<1>9. Seen'
  BY <1>3, SeenKept DEF TimerInv
<1>10. QED
  BY <1>6, <1>7, <1>8, <1>9 DEF TimerInv

\* A call that reads leaves the comparator alone.
LEMMA ComparatorKept ==
  HalfWritten /\ Paired(writes, tmr.ctrl) /\ UNCHANGED <<tmr, writes, asked>>
    => HalfWritten' /\ (Paired(writes, tmr.ctrl))'
BY DEF HalfWritten, Comparator, Paired

LEMMA ReadCallStep == TimerInv /\ ReadCall => TimerInv'
<1> SUFFICES ASSUME TimerInv, ReadCall PROVE TimerInv'
  OBVIOUS
<1> DEFINE hi == now \div Half
<1>1. /\ now \in Nat /\ hi \in Nat
      /\ reading' = [at |-> "lo", from |-> now, hi |-> hi, lo |-> 0, cnt |-> 3]
      /\ UNCHANGED <<now, tmr, writes, asked>>
  BY Halves, TimerAssumption DEF ReadCall, TimerInv, TimerTypeOK
<1>2. Seen'
  <2>1. now' = now /\ now' \div Half = hi /\ reading'.from \div Half = hi
    BY <1>1
  <2> HIDE DEF hi
  <2>2. QED
    BY <1>1, <2>1 DEF Seen
<1> HIDE DEF hi
<1>3. TimerTypeOK'
  BY <1>1 DEF TimerInv, TimerTypeOK
<1>4. QED
  BY <1>1, <1>2, <1>3, ComparatorKept DEF TimerInv

\* The low word is that of this moment.
LEMMA ReadLoStep == TimerInv /\ ReadLo => TimerInv'
<1> SUFFICES ASSUME TimerInv, ReadLo PROVE TimerInv'
  OBVIOUS
<1> DEFINE lo == now % Half
<1>1. /\ now \in Nat /\ lo \in Nat /\ reading \in Readings
      /\ reading.at = "lo" /\ reading' = [reading EXCEPT !.at = "hi", !.lo = lo]
      /\ UNCHANGED <<now, tmr, writes, asked>>
  BY Halves, TimerAssumption DEF ReadLo, TimerInv, TimerTypeOK, Readings
<1>2. /\ reading'.at = "hi" /\ reading'.from = reading.from /\ reading'.hi = reading.hi
      /\ reading'.cnt = reading.cnt /\ reading'.lo = now % Half
      /\ reading.from \in Nat
  BY <1>1 DEF Readings
<1> HIDE DEF lo
<1>3. Seen'
  <2>1. /\ reading.from <= now
        /\ reading.hi <= now \div Half
        /\ reading.hi - reading.from \div Half >= 3 - reading.cnt
    BY <1>1 DEF TimerInv, Seen
  <2>2. now \in reading'.from..now' /\ now' = now
    BY <1>1, <1>2, <2>1
  <2>3. \E t \in reading'.from..now' : reading'.lo = t % Half /\ reading'.hi <= t \div Half
    BY <1>2, <2>1, <2>2
  <2>4. QED
    BY <1>2, <2>1, <2>2, <2>3 DEF Seen
<1>4. TimerTypeOK'
  BY <1>1 DEF TimerInv, TimerTypeOK, Readings
<1>5. QED
  BY <1>1, <1>3, <1>4, ComparatorKept DEF TimerInv

\* The high word is the same, and so it was when the low word was read; or it has changed
\* once more.
LEMMA ReadHiStep ==
  TimerInv /\ ReadHi =>
    /\ TimerInv'
    /\ reading'.at = "idle" =>
         \/ value' \subseteq reading.from..now
         \/ now \div Half - reading.from \div Half >= 4
<1> SUFFICES ASSUME TimerInv, ReadHi
             PROVE  /\ TimerInv'
                    /\ reading'.at = "idle" =>
                         \/ value' \subseteq reading.from..now
                         \/ now \div Half - reading.from \div Half >= 4
  OBVIOUS
<1> DEFINE hi   == now \div Half
           from == reading.from \div Half
<1>1. /\ Half \in Nat \ {0} /\ now \in Nat /\ hi \in Nat /\ reading \in Readings /\ from \in Nat
      /\ reading.at = "hi" /\ UNCHANGED <<now, tmr, writes, asked>>
  <2>1. Half \in Nat \ {0} /\ now \in Nat /\ reading \in Readings
    BY TimerAssumption DEF TimerInv, TimerTypeOK, Readings
  <2>2. reading.from \in Nat
    BY <2>1 DEF Readings
  <2>3. hi \in Nat /\ from \in Nat
    BY <2>1, <2>2, Halves
  <2>4. QED
    BY <2>1, <2>3 DEF ReadHi
<1>2. reading.from <= now /\ reading.hi <= hi /\ reading.hi - from >= 3 - reading.cnt
  BY <1>1 DEF TimerInv, Seen
<1>3. CASE hi # reading.hi /\ reading.cnt # 0
  <2>1. reading' = [reading EXCEPT !.at = "lo", !.hi = hi, !.cnt = reading.cnt - 1]
    BY <1>3 DEF ReadHi
  <2>2. now' \div Half = hi /\ reading'.from \div Half = from
    BY <1>1, <2>1 DEF Readings
  <2> HIDE DEF hi, from
  <2>3. /\ reading'.at = "lo" /\ reading'.from = reading.from /\ reading'.hi = hi
        /\ reading'.cnt = reading.cnt - 1 /\ reading.hi \in Nat /\ reading.cnt \in 0..3
        /\ reading' \in Readings
    <3>1. reading.hi \in Nat /\ reading.cnt \in 0..3 /\ hi \in Nat
      BY <1>1 DEF Readings
    <3>2. reading.cnt - 1 \in 0..3
      BY <1>3, <3>1
    <3>3. QED
      BY <1>1, <2>1, <3>1, <3>2 DEF Readings
  <2>4. hi - from >= 3 - (reading.cnt - 1)
    BY <1>1, <1>2, <1>3, <2>3
  <2>5. Seen'
    BY <1>1, <1>2, <2>2, <2>3, <2>4 DEF Seen
  <2>6. TimerTypeOK'
    BY <1>1, <2>3 DEF TimerInv, TimerTypeOK, Readings
  <2>7. QED
    BY <1>1, <2>3, <2>5, <2>6, ComparatorKept DEF TimerInv
<1>4. CASE ~(hi # reading.hi /\ reading.cnt # 0)
  <2>1. reading' = NotReading
    BY <1>4 DEF ReadHi
  <2>2. Seen' /\ TimerTypeOK'
    BY <1>1, <2>1 DEF Seen, TimerInv, TimerTypeOK, NotReading
  <2>3. TimerInv'
    BY <1>1, <2>2, ComparatorKept DEF TimerInv
  <2>4. CASE hi # reading.hi
    <3> HIDE DEF hi, from
    <3>1. reading.cnt = 0 /\ reading.hi \in Nat
      BY <1>1, <1>4, <2>4 DEF Readings
    <3>2. hi - from >= 4
      BY <1>1, <1>2, <2>4, <3>1
    <3>3. QED
      BY <2>3, <3>2 DEF hi, from
  <2>5. CASE hi = reading.hi
    <3>1. value' \subseteq {hi * Half + reading.lo}
      BY <1>4, <2>5 DEF ReadHi
    <3>2. PICK t \in reading.from..now : reading.lo = t % Half /\ reading.hi <= t \div Half
      BY <1>1 DEF TimerInv, Seen
    <3>3. t \in Nat /\ t <= now
      BY <1>1, <3>2 DEF Readings
    <3>4. t \div Half <= hi /\ t \div Half \in Nat
      BY <1>1, <3>3, Later, Halves
    <3>5. t \div Half = hi
      <4> HIDE DEF hi
      <4>1. QED
        BY <1>1, <2>5, <3>2, <3>4
    <3>6. hi * Half + reading.lo = t
      BY <1>1, <3>2, <3>3, <3>5, Halves
    <3>7. QED
      BY <2>3, <3>1, <3>2, <3>6
  <2>6. QED
    BY <2>4, <2>5
<1>5. QED
  BY <1>3, <1>4
-----------------------------------------------------------------------------
(* The theorems.                                                           *)

LEMMA NextIInv == TimerInv /\ [TimerNext]_timerVars => TimerInv'
<1> SUFFICES ASSUME TimerInv, [TimerNext]_timerVars PROVE TimerInv'
  OBVIOUS
<1>1. CASE UNCHANGED timerVars
  <2>1. UNCHANGED <<now, tmr, writes, reading, asked>>
    BY <1>1 DEF timerVars
  <2>2. TimerTypeOK'
    BY <2>1 DEF TimerInv, TimerTypeOK
  <2>3. QED
    BY <2>1, <2>2, ComparatorKept, SeenKept DEF TimerInv
<1>2. QED
  BY <1>1, TickStep, EventStep, WriteCallStep, AccessStep, ReadCallStep, ReadLoStep, ReadHiStep
     DEF TimerNext

\* The registers, the calls and what they read have their types in every reachable state,
\* half a comparator value stands only while the comparison is off and the other half is
\* the next access, and a reading has seen its low word at a time since the call began
\* (alt_globaltmr.c, the order of the accesses).
THEOREM TimerInductive == TimerSpec => []TimerInv
<1>1. TimerInit => TimerInv
  BY InitTimerInv
<1>2. TimerInv /\ [TimerNext]_timerVars => TimerInv'
  BY NextIInv
<1>3. QED
  BY <1>1, <1>2, PTL DEF TimerSpec

\* Only an event of the timer raises the pending flag.
LEMMA OnlyEvent ==
  ASSUME TimerInv, [TimerNext]_timerVars, ~tmr.pending, tmr'.pending
  PROVE  Event
<1>1. ~UNCHANGED tmr
  OBVIOUS
<1>2. ASSUME Access PROVE FALSE
  <2> DEFINE a == Head(writes)
  <2>1. tmr \in Registers /\ a \in AccessType
    <3>1. writes # <<>> /\ writes \in Seq(AccessType) /\ tmr \in Registers
      BY <1>2 DEF Access, TimerInv, TimerTypeOK, Registers
    <3>2. QED
      BY <3>1, HeadTailProperties
  <2>2. tmr' = CASE a.op = "ctrl"  -> [tmr EXCEPT !.ctrl = (@ \ a.off) \cup a.on]
                [] a.op = "put"   -> [tmr EXCEPT ![a.reg] = a.val]
                [] a.op = "clear" -> [tmr EXCEPT !.pending = FALSE]
    BY <1>2 DEF Access
  <2> HIDE DEF a
  <2>3. ~tmr'.pending
    BY <2>1, <2>2, AccessCases DEF Registers
  <2>4. QED
    BY <2>3
<1>3. QED
  BY <1>1, <1>2 DEF TimerNext, Tick, WriteCall, Call, ReadCall, ReadLo, ReadHi, timerVars

\* The halves of a time are never mixed up: an event comes when the counter has reached
\* the comparator as it was asked for, and a time that is read is one of the call, unless
\* the high word changed in each of the four rounds (alt_globaltmr_comp_set64,
\* alt_globaltmr_get).
THEOREM HalvesNeverMixed == TimerSpec => HalvesTogether
<1> DEFINE Step ==
      /\ ~tmr.pending /\ tmr'.pending => now >= asked
      /\ reading.at = "hi" /\ reading'.at = "idle" =>
           \/ value' \subseteq reading.from..now
           \/ now \div Half - reading.from \div Half >= 4
<1>1. TimerInv /\ [TimerNext]_timerVars => Step
  <2> SUFFICES ASSUME TimerInv, [TimerNext]_timerVars PROVE Step
    OBVIOUS
  <2>1. ~tmr.pending /\ tmr'.pending => now >= asked
    BY OnlyEvent, EventStep
  <2>2. ASSUME reading.at = "hi", reading'.at = "idle" PROVE ReadHi
    BY <2>2 DEF TimerNext, Tick, Event, WriteCall, Call, Access, ReadCall, ReadLo, Idle, timerVars
  <2>3. QED
    BY <2>1, <2>2, ReadHiStep
<1>2. TimerSpec => []TimerInv
  BY TimerInductive
<1>3. QED
  BY <1>1, <1>2, PTL DEF TimerSpec, HalvesTogether
=============================================================================
