---------------------------- MODULE AvalonSlave -----------------------------
(***************************************************************************)
(* avalon_slave.vhd: the three registers the processor sees.               *)
(*   0  start address of the image (read/write)                            *)
(*   1  bit 0: start; a pulse of one cycle on `enable' (write only)        *)
(*   2  bit 0: done (read only)                                            *)
(* A read answers with the values before the edge, one cycle later.        *)
(***************************************************************************)
EXTENDS Naturals

VARIABLE slave

Init == slave = [RegStartAddress |-> 0, Start |-> FALSE, avs_rddata |-> 0]

\* avs_rddata has no reset.
Reset == slave' = [slave EXCEPT !.RegStartAddress = 0, !.Start = FALSE]

Bit(b) == IF b THEN 1 ELSE 0

\* Start is lowered at every edge that does not write register 1.
Started(avs_wr, avs_add, avs_wrdata) ==
  avs_wr /\ avs_add = 1 /\ avs_wrdata % 2 = 1

\* Mutant of ReadData: the done bit at the place of the start bit.
ReadDataMisplaced(avs_add, done) ==
  CASE avs_add = 0 -> slave.RegStartAddress
    [] avs_add = 1 -> Bit(done)
    [] OTHER -> 0

ReadData(avs_add, done) ==
  CASE avs_add = 0 -> slave.RegStartAddress
    [] avs_add = 2 -> Bit(done)
    [] OTHER -> 0

Clock(avs_wr, avs_rd, avs_add, avs_wrdata, done) ==
  slave' = [ RegStartAddress |-> IF avs_wr /\ avs_add = 0 THEN avs_wrdata
                                                         ELSE slave.RegStartAddress,
             Start           |-> Started(avs_wr, avs_add, avs_wrdata),
             avs_rddata      |-> IF avs_rd THEN ReadData(avs_add, done)
                                           ELSE slave.avs_rddata ]
=============================================================================
