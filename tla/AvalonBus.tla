----------------------------- MODULE AvalonBus ------------------------------
(***************************************************************************)
(* The memory behind the Avalon master of the accelerator (interconnect,   *)
(* FPGA-to-HPS bridge and SDRAM), as the burst reader and writer use it:   *)
(* it accepts one burst of reads or of writes and answers reads when it    *)
(* likes.                                                                  *)
(*                                                                         *)
(* Polite is what the components take for granted of it, see README.       *)
(***************************************************************************)
EXTENDS Integers

CONSTANTS MemWords,    \* number of words of memory that are modelled
          MemBase,     \* byte address of the first of them
          Nowhere      \* what is read outside of them

VARIABLES mem,         \* the contents of memory
          bus          \* the burst of reads and the burst of writes under way

BusInit == bus = [rd_left |-> 0, rd_index |-> 0, wr_left |-> 0, wr_index |-> 0]

BusTypeOK ==
  /\ bus.rd_left \in Nat /\ bus.rd_index \in Int
  /\ bus.wr_left \in Nat /\ bus.wr_index \in Int

Index(address) == (address - MemBase) \div 4

\* The bus neither refuses a command or a word in the one cycle in which it is
\* presented, nor delivers a word of a read in a cycle in which it asks to wait.
Polite(avm_rd, avm_wr, waitrequest, rddatavalid) ==
  /\ avm_rd \/ avm_wr => ~waitrequest
  /\ rddatavalid => bus.rd_left > 0 /\ ~waitrequest

\* The word on the read data lines.
ReadWord == IF bus.rd_index \in DOMAIN mem THEN mem[bus.rd_index] ELSE Nowhere

\* The place of the word presented for writing: the address counts for the first
\* word of a burst only.
WriteIndex(avm_add) == IF bus.wr_left = 0 THEN Index(avm_add) ELSE bus.wr_index

Clock(avm_rd, avm_wr, avm_add, avm_burstcount, avm_wrdata, waitrequest, rddatavalid) ==
  LET reads  == avm_rd /\ ~waitrequest
      writes == avm_wr /\ ~waitrequest IN
  /\ bus' = [ rd_left  |-> IF reads THEN avm_burstcount
                           ELSE IF rddatavalid THEN bus.rd_left - 1 ELSE bus.rd_left,
              rd_index |-> IF reads THEN Index(avm_add)
                           ELSE IF rddatavalid THEN bus.rd_index + 1 ELSE bus.rd_index,
              wr_left  |-> IF ~writes THEN bus.wr_left
                           ELSE IF bus.wr_left = 0 THEN avm_burstcount - 1
                           ELSE bus.wr_left - 1,
              wr_index |-> IF writes THEN WriteIndex(avm_add) + 1 ELSE bus.wr_index ]
  /\ mem' = IF writes /\ WriteIndex(avm_add) \in DOMAIN mem
            THEN [mem EXCEPT ![WriteIndex(avm_add)] = avm_wrdata] ELSE mem

Reset == bus' = [rd_left |-> 0, rd_index |-> 0, wr_left |-> 0, wr_index |-> 0]
         /\ UNCHANGED mem
=============================================================================
