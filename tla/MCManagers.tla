----------------------------- MODULE MCManagers ------------------------------
(* Clocks: frequencies in MHz; one setting of the VCOs, and changes of them inside and  *)
(* outside the guard band and the limits.  FPGA: two images of two words; buffers of    *)
(* one word, of the image and of more than the limit; a callback that returns nothing,  *)
(* a word, more than it may, or an error.  Timer: words of three values, and time for   *)
(* the high word to change four times in one read.                                      *)
EXTENDS Managers

MCMsels == {1, 3, 10}
MCLengths == {2, 4, 8}
MCChunkSizes == {-1, 0, 2, 6}
MCFreq == [OSC1 |-> 25, OSC2 |-> 25, F2H_PERIPH_REF |-> 0, F2H_SDRAM_REF |-> 0]
MCVcoLimits ==
  [MAIN_PLL |-> [min |-> 320, max |-> 1600], PERIPHERAL_PLL |-> [min |-> 320, max |-> 1250],
   SDRAM_PLL |-> [min |-> 320, max |-> 1066]]
MCMaxFreq == [c \in {"MAIN_PLL", "PERIPHERAL_PLL"} \X (0..5) |-> 400]
MCSetting == [numer |-> 31, denom |-> 0]
MCMuxSettings ==
  {[MAIN_PLL |-> "OSC1", PERIPHERAL_PLL |-> "OSC1", SDRAM_PLL |-> "OSC1", L4_MP |-> c[1], L4_SP |-> c[1],
    SDMMC |-> c[2], NAND |-> c[2], QSPI |-> c[3]] :
     c \in {<<"MAIN_PLL_C1", "MAIN_PLL_C4", "MAIN_PLL_C3">>,
            <<"PERIPHERAL_PLL_C4", "PERIPHERAL_PLL_C3", "PERIPHERAL_PLL_C2">>}}
MCCfgs == {[mult |-> 39, div |-> 1, ref_clk |-> "OSC2", cntrs |-> <<3, 3, 3, 3, 3, 3>>]}
=============================================================================
