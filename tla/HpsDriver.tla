----------------------------- MODULE HpsDriver ------------------------------
(***************************************************************************)
(* do_adaptive_threshold of hps_baremetal.c, seen from the bus: it writes  *)
(* the address of the image and the start bit, then reads the done bit     *)
(* until it is set.                                                        *)
(*                                                                         *)
(* The processor is much slower than the accelerator's clock: at every     *)
(* edge it may, or may not, have its next access on the bus (`issue').     *)
(***************************************************************************)
EXTENDS Naturals

CONSTANT Image         \* the address of the buffer, img

VARIABLE host          \* where the processor is

Places == {"Filling", "WriteAddress", "WriteStart", "Gap", "Read", "Test"}

Init == host = "Filling"

\* The access on the bus.
CanIssue == host \in {"WriteAddress", "WriteStart", "Read"}
avs_wr(issue) == issue /\ host \in {"WriteAddress", "WriteStart"}
avs_rd(issue) == issue /\ host = "Read"
avs_add == CASE host = "WriteStart" -> 1
             [] host = "Read" -> 2
             [] OTHER -> 0
avs_wrdata == IF host = "WriteStart" THEN 1 ELSE Image

\* Outside of do_adaptive_threshold: the image is being received or sent.
Filling == host = "Filling" /\ UNCHANGED host

WriteAddress(issue) == host = "WriteAddress" /\ issue /\ host' = "WriteStart"

WriteStart(issue) == host = "WriteStart" /\ issue /\ host' = "Gap"

\* The write and the read that follows it are two transactions of the bridge:
\* they are never in adjacent cycles of the slave.
Gap == host = "Gap" /\ host' = "Read"

Read(issue) == host = "Read" /\ issue /\ host' = "Test"

\* while (finished == 0)
Test(finished) ==
  /\ host = "Test"
  /\ host' = IF finished = 0 THEN "Read" ELSE "Filling"

Delay(issue) == CanIssue /\ ~issue /\ UNCHANGED host

Clock(issue, finished) ==
  \/ Filling
  \/ WriteAddress(issue)
  \/ WriteStart(issue)
  \/ Gap
  \/ Read(issue)
  \/ Test(finished)
  \/ Delay(issue)

\* do_adaptive_threshold is called.
Call == host = "Filling" /\ host' = "WriteAddress"
=============================================================================
