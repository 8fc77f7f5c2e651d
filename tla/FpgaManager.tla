---------------------------- MODULE FpgaManager -----------------------------
(***************************************************************************)
(* alt_fpga_manager.c: the register writes and waits that configure the    *)
(* FPGA.  The control block of the FPGA (external) follows in its own      *)
(* time, or not at all: every wait of the driver has a timeout.  It may    *)
(* also lose its power, for good.                                          *)
(*                                                                         *)
(* Byte n of image i is <<i, n>>; what a caller hands over behind the      *)
(* image is its byte ImageSize + 1, and Padding is what fills up a word.   *)
(***************************************************************************)
EXTENDS Integers, Sequences

CONSTANTS Images,        \* the images the callers have
          ImageSize,     \* bytes the FPGA has to take
          WordSize,      \* bytes of a word, sizeof(uint32_t)
          Msels,         \* the values the MSEL pins may be set to
          Lengths,       \* cfg_buf_len of a whole buffer
          ChunkSizes,    \* what the stream callback may return
          ChunkSize,     \* ISTREAM_CHUNK_SIZE
          DataLimit,     \* data_limit
          Polls          \* bound: polls of a wait before it times out

ASSUME FpgaAssumption ==
  /\ ImageSize \in Nat /\ ChunkSize \in Nat /\ WordSize \in Nat \ {0}
  /\ Polls \in Nat /\ DataLimit \in Nat
  /\ Msels \subseteq 0..15 /\ Lengths \subseteq Nat /\ ChunkSizes \subseteq Int

VARIABLES ctl,        \* the register CTRL
          fpga,       \* the control block of the FPGA
          call,       \* the configuration under way, and its local variables
          status      \* what the last call has returned, if it has

manager == <<ctl, fpga, call, status>>

Padding  == <<>>
Image(i) == [n \in 1..ImageSize |-> <<i, n>>]

First(n, bytes) == SubSeq(bytes, 1, IF n < Len(bytes) THEN n ELSE Len(bytes))

\* What a caller hands over: a buffer, or the callback of a stream.
Full(i, len, dma) == [type |-> "FULL", image |-> i, length |-> len, dma |-> dma]
Stream(i, dma)    == [type |-> "ISTREAM", image |-> i, length |-> 0, dma |-> dma]
Sources ==
  {Full(i, len, dma) : i \in Images, len \in Lengths, dma \in BOOLEAN}
    \cup {Stream(i, dma) : i \in Images, dma \in BOOLEAN}

NoCall == [at |-> "Idle", source |-> <<>>, ctrl_reg |-> <<>>, polls |-> 0,
           data_status |-> "SUCCESS", data_limit |-> 0, handed |-> 0]

Unpowered(msel) ==
  [msel |-> msel, power |-> FALSE, mode |-> "RESET", nstatus |-> FALSE, conf_done |-> FALSE,
   crc |-> FALSE, data |-> <<>>, counting |-> FALSE, dcntdone |-> FALSE]

Init ==
  /\ ctl = [en |-> FALSE, nce |-> TRUE, ncfgpull |-> FALSE, axicfgen |-> FALSE,
            cdratio |-> 1, cfgwdth |-> 16]
  /\ \E msel \in Msels : fpga = [Unpowered(msel) EXCEPT !.power = TRUE]
  /\ call = NoCall
  /\ status = "SUCCESS"
-----------------------------------------------------------------------------
(* The control block of the FPGA, external.                                *)

Pulled ==
  /\ ctl.ncfgpull /\ fpga.power /\ fpga.mode # "RESET"
  /\ fpga' = [fpga EXCEPT !.mode = "RESET", !.nstatus = FALSE, !.conf_done = FALSE,
                          !.crc = FALSE, !.data = <<>>]

Released ==
  /\ ~ctl.ncfgpull /\ fpga.power /\ fpga.mode = "RESET"
  /\ fpga' = [fpga EXCEPT !.mode = "CFG", !.nstatus = TRUE]

CfgWidth(msel) == IF msel < 8 THEN 16 ELSE 32

\* Plain, encrypted and compressed data.
CdRatio(msel) ==
  CASE msel % 4 = 0 -> 1
    [] msel % 4 = 1 -> IF msel < 8 THEN 2 ELSE 4
    [] OTHER        -> IF msel < 8 THEN 4 ELSE 8

\* The image is complete.
Accept ==
  /\ fpga.mode = "CFG" /\ fpga.nstatus /\ ~fpga.conf_done
  /\ \E i \in Images : First(ImageSize, fpga.data) = Image(i)
  /\ fpga' = [fpga EXCEPT !.conf_done = TRUE]

\* Something is wrong with the data.
Reject ==
  /\ fpga.mode = "CFG" /\ fpga.nstatus /\ ~fpga.conf_done /\ fpga.data # <<>>
  /\ \/ fpga' = [fpga EXCEPT !.nstatus = FALSE]
     \/ fpga' = [fpga EXCEPT !.crc = TRUE]

CountDone ==
  /\ fpga.counting
  /\ fpga' = [fpga EXCEPT !.counting = FALSE, !.dcntdone = TRUE,
                          !.mode = IF @ = "CFG" /\ fpga.conf_done THEN "INIT" ELSE @]

Initialised ==
  /\ fpga.mode = "INIT"
  /\ fpga' = [fpga EXCEPT !.mode = "USER_MODE"]

PowerLoss ==
  /\ fpga.power
  /\ fpga' = Unpowered(fpga.msel)

ControlBlock ==
  /\ Pulled \/ Released \/ Accept \/ Reject \/ CountDone \/ Initialised \/ PowerLoss
  /\ UNCHANGED <<ctl, call, status>>
-----------------------------------------------------------------------------
alt_fpga_state_get == IF fpga.power THEN fpga.mode ELSE "POWER_OFF"

\* The modes with an MSEL of 3 (mod 4) do not exist.
ModeKnown == fpga.msel % 4 # 3

Return(s) == status' = s /\ call' = NoCall

Goto(at) == call' = [call EXCEPT !.at = at, !.polls = Polls]

Refusal ==
  IF ~ctl.en THEN "NO_SOC_CTRL"
  ELSE IF alt_fpga_state_get = "POWER_OFF" THEN "PWR_OFF" ELSE "SUCCESS"

alt_fpga_control_enable ==
  /\ call.at = "Idle" /\ Return("SUCCESS")
  /\ ctl' = [ctl EXCEPT !.en = TRUE]
  /\ UNCHANGED fpga

alt_fpga_control_disable ==
  /\ call.at = "Idle" /\ Return("SUCCESS")
  /\ ctl' = [ctl EXCEPT !.en = FALSE]
  /\ UNCHANGED fpga

alt_fpga_reset_assert ==
  /\ call.at = "Idle" /\ Return(Refusal)
  /\ ctl' = [ctl EXCEPT !.ncfgpull = @ \/ Refusal = "SUCCESS"]
  /\ UNCHANGED fpga

alt_fpga_reset_deassert ==
  /\ call.at = "Idle" /\ Return(Refusal)
  /\ ctl' = [ctl EXCEPT !.ncfgpull = @ /\ Refusal # "SUCCESS"]
  /\ UNCHANGED fpga

Refused ==
  /\ call.at = "Idle"
  /\ \/ Refusal # "SUCCESS" /\ Return(Refusal)
     \/ Refusal = "SUCCESS" /\ ~ModeKnown /\ Return("ERROR")
  /\ UNCHANGED <<ctl, fpga>>

\* alt_fpga_configure, alt_fpga_istream_configure and their variants with DMA, up
\* to step 1.  The register is written from ctrl_reg from now on.
Configure(source) ==
  /\ call.at = "Idle" /\ Refusal = "SUCCESS" /\ ModeKnown
  /\ ctl' = [ctl EXCEPT !.cdratio = CdRatio(fpga.msel), !.cfgwdth = CfgWidth(fpga.msel),
                        !.nce = FALSE]
  /\ call' = [NoCall EXCEPT !.at = "Step3", !.source = source, !.ctrl_reg = ctl',
                            !.data_limit = DataLimit]
  /\ status' = "Running"
  /\ UNCHANGED fpga

\* The register is written, and the next step begun.
Write(ctrl_reg, at) ==
  /\ ctl' = ctrl_reg
  /\ call' = [call EXCEPT !.at = at, !.polls = Polls, !.ctrl_reg = ctrl_reg]
  /\ UNCHANGED <<fpga, status>>

Step3 ==
  /\ call.at = "Step3"
  /\ Write([call.ctrl_reg EXCEPT !.ncfgpull = TRUE], "Step4")

\* One poll of wait_for_fpga_state.  The last one is made when polls is 0.
Wait(at, mode, next, late) ==
  /\ call.at = at
  /\ IF alt_fpga_state_get = mode THEN next
     ELSE IF call.polls = 0 THEN late
     ELSE call' = [call EXCEPT !.polls = @ - 1] /\ UNCHANGED status
  /\ UNCHANGED <<ctl, fpga>>

Step4 == Wait("Step4", "RESET", Goto("Step5") /\ UNCHANGED status,
                                Goto("Step5Late") /\ UNCHANGED status)

\* Mutant of Step5: the reset that was not seen is left as it is.
Step5Pulled ==
  \/ /\ call.at = "Step5"
     /\ Write([call.ctrl_reg EXCEPT !.ncfgpull = FALSE], "Step6")
  \/ /\ call.at = "Step5Late"
     /\ Return("FPGA_CFG")
     /\ UNCHANGED <<ctl, fpga>>

\* The reset is released whether it was seen or not.
Step5 ==
  \/ /\ call.at = "Step5"
     /\ Write([call.ctrl_reg EXCEPT !.ncfgpull = FALSE], "Step6")
  \/ /\ call.at = "Step5Late"
     /\ ctl' = [call.ctrl_reg EXCEPT !.ncfgpull = FALSE]
     /\ Return("FPGA_CFG")
     /\ UNCHANGED fpga

Step6 == Wait("Step6", "CFG", Goto("Step8") /\ UNCHANGED status, Return("FPGA_CFG"))

\* Step 7 only clears the interrupt of the monitor.
Step8 ==
  /\ call.at = "Step8"
  /\ Write([call.ctrl_reg EXCEPT !.axicfgen = TRUE], "Step9")
-----------------------------------------------------------------------------
(* Steps 9 and 10, alt_fpga_internal_configure_idata.                      *)

\* How much of the image has been handed over.
Capped(n) == IF n > ImageSize THEN ImageSize ELSE n

\* Bytes first .. first + n - 1 of an image and what is behind it.
Bytes(i, first, n) ==
  [k \in 1..n |-> <<i, IF first + k - 1 > ImageSize THEN ImageSize + 1 ELSE first + k - 1>>]

Pad(bytes) == bytes \o [k \in 1 .. (-Len(bytes)) % WordSize |-> Padding]

\* The words alt_fpga_internal_writeaxi sends, byte by byte.  The words of the
\* processor leave cfg_buf where it is, so that the rest of a word is taken from the
\* start of the buffer; those of the DMA contain the rest, which then follows again.
Sent(buf, dma) ==
  LET rest == Len(buf) % WordSize IN
    IF rest = 0 THEN buf
    ELSE IF dma THEN Pad(buf) \o Pad(SubSeq(buf, Len(buf) - rest + 1, Len(buf)))
    ELSE SubSeq(buf, 1, Len(buf) - rest) \o Pad(SubSeq(buf, 1, rest))

\* The data register takes words in configuration mode only; the FPGA does not look
\* at what comes behind the image.
Taken(words) ==
  IF fpga.mode = "CFG" /\ fpga.power THEN First(ImageSize + 1, fpga.data \o words)
  ELSE fpga.data

DataStatus(s, at) == call' = [call EXCEPT !.at = at, !.polls = Polls, !.data_status = s]

\* A transfer of the DMA can end early, and with an error or a timeout.
DmaFails(words) ==
  /\ call.source.dma
  /\ \E n \in 0 .. Len(words) : fpga' = [fpga EXCEPT !.data = Taken(SubSeq(words, 1, n))]
  /\ \E s \in {"TMO", "ERROR"} : DataStatus(s, "Step11")
  /\ UNCHANGED <<ctl, status>>

WriteFull ==
  /\ call.at = "Step9" /\ call.source.type = "FULL"
  /\ LET buf == Bytes(call.source.image, 1, call.source.length)
         words == Sent(buf, call.source.dma)
     IN \/ /\ call.source.length > DataLimit
           /\ DataStatus("FPGA_CFG", "Step11")
           /\ UNCHANGED <<ctl, fpga, status>>
        \/ /\ call.source.length <= DataLimit
           /\ fpga' = [fpga EXCEPT !.data = Taken(words)]
           /\ call' = [call EXCEPT !.at = "Step10", !.polls = Polls, !.handed = Capped(Len(buf))]
           /\ UNCHANGED <<ctl, status>>
        \/ call.source.length <= DataLimit /\ DmaFails(words)

\* data_limit -= cb_status
Limit(n) == call.data_limit - n

StreamChunk ==
  /\ call.at = "Step9" /\ call.source.type = "ISTREAM"
  /\ \E n \in ChunkSizes :
       LET buf == Bytes(call.source.image, call.handed + 1, n)
           words == Sent(buf, call.source.dma)
       IN \/ /\ n > ChunkSize \/ n < 0 \/ n > call.data_limit
             /\ DataStatus("FPGA_CFG_STM", "Step11")
             /\ UNCHANGED <<ctl, fpga, status>>
          \/ /\ n = 0
             /\ Goto("Step10")
             /\ UNCHANGED <<ctl, fpga, status>>
          \/ /\ n \in 1..ChunkSize /\ n <= call.data_limit
             /\ fpga' = [fpga EXCEPT !.data = Taken(words)]
             /\ call' = [call EXCEPT !.handed = Capped(@ + n), !.data_limit = Limit(n)]
             /\ UNCHANGED <<ctl, status>>
          \/ n \in 1..ChunkSize /\ n <= call.data_limit /\ DmaFails(words)

\* wait_for_config_done: CONF_DONE and nSTATUS both up, or both down.
Step10 ==
  /\ call.at = "Step10"
  /\ IF fpga.crc THEN DataStatus("FPGA_CRC", "Step11")
     ELSE IF fpga.conf_done = fpga.nstatus
     THEN DataStatus(IF fpga.conf_done THEN "SUCCESS" ELSE "FPGA_CFG", "Step11")
     ELSE IF call.polls = 0 THEN DataStatus("FPGA_CFG", "Step11")
     ELSE call' = [call EXCEPT !.polls = @ - 1]
  /\ UNCHANGED <<ctl, fpga, status>>
-----------------------------------------------------------------------------
Step11 ==
  /\ call.at = "Step11"
  /\ Write([call.ctrl_reg EXCEPT !.axicfgen = FALSE], "Step12")

\* dclk_set_and_wait_clear: the flag of a count that came too late the last time
\* is cleared, the next count is set, and its flag awaited.
Step12 ==
  \/ /\ call.at = "Step12" /\ Goto("Step12Count")
     /\ fpga' = [fpga EXCEPT !.dcntdone = FALSE]
     /\ UNCHANGED <<ctl, status>>
  \/ /\ call.at = "Step12Count" /\ Goto("Step12Wait")
     /\ fpga' = [fpga EXCEPT !.counting = fpga.power]
     /\ UNCHANGED <<ctl, status>>

\* The status of the data goes first when a later step fails.
Failed == IF call.data_status # "SUCCESS" THEN call.data_status ELSE "FPGA_CFG"

Step12Wait ==
  /\ call.at = "Step12Wait"
  /\ \/ /\ fpga.dcntdone /\ Goto("Step13")
        /\ fpga' = [fpga EXCEPT !.dcntdone = FALSE]
        /\ UNCHANGED status
     \/ /\ ~fpga.dcntdone /\ call.polls > 0
        /\ call' = [call EXCEPT !.polls = @ - 1]
        /\ UNCHANGED <<fpga, status>>
     \/ /\ ~fpga.dcntdone /\ call.polls = 0
        /\ Return(Failed)
        /\ UNCHANGED fpga
  /\ UNCHANGED ctl

\* Mutant of Step13: user mode is not insisted on.
Step13Lenient == Wait("Step13", "USER_MODE", Return(call.data_status), Return(call.data_status))

Step13 == Wait("Step13", "USER_MODE", Return(call.data_status), Return(Failed))

ConfigureStep ==
  \/ Step3 \/ Step4 \/ Step5 \/ Step6 \/ Step8 \/ WriteFull \/ StreamChunk \/ Step10
  \/ Step11 \/ Step12 \/ Step12Wait \/ Step13

ManagerNext ==
  \/ ControlBlock
  \/ alt_fpga_control_enable \/ alt_fpga_control_disable
  \/ alt_fpga_reset_assert \/ alt_fpga_reset_deassert
  \/ Refused
  \/ \E source \in Sources : Configure(source)
  \/ ConfigureStep
-----------------------------------------------------------------------------
\* A call that returns success has loaded its own image, not the one before and
\* not a part of it, and the FPGA runs it.  The waits in between may all be late, and
\* the FPGA may have been running another image.
SuccessMeansLoaded ==
  [][call.at # "Idle" /\ call'.at = "Idle" /\ status' = "SUCCESS" =>
       /\ fpga.power /\ fpga.mode = "USER_MODE"
       /\ First(ImageSize, fpga.data) = Image(call.source.image)]_manager

\* Whichever step a configuration fails in, it leaves the FPGA neither held in reset
\* nor with its data register open, and the control where it was.
ControlReleased ==
  [][call.at # "Idle" /\ call'.at = "Idle" =>
       ~ctl'.ncfgpull /\ ~ctl'.axicfgen /\ ctl'.en]_manager

\* What a writer hands over arrives: "Write out remaining non 32-bit chunks"
\* (alt_fpga_manager.c:207).
RemainderWritten ==
  call.at = "Step10" /\ fpga.power /\ fpga.mode = "CFG" =>
    First(call.handed, fpga.data) = Bytes(call.source.image, 1, call.handed)
=============================================================================
