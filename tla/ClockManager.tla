---------------------------- MODULE ClockManager -----------------------------
(***************************************************************************)
(* alt_clock_manager.c: the calls that change clocks, as the sequences of  *)
(* register writes and waits they consist of.  A call reads the registers  *)
(* it depends on when it begins, into temp and temp1, and writes them back *)
(* from there, so its sequence is known then: todo is what is left of it.  *)
(* Between two of its steps the hardware (external) acts: a PLL locks or   *)
(* loses its lock, a counter acknowledges its reset, the clocks settle.    *)
(*                                                                         *)
(* A register of enable bits is the set of the clocks that are on; the     *)
(* register BYPASS is the set of its bits.  Counters and dividers hold     *)
(* what is written into them, one less than the divisor.                   *)
(***************************************************************************)
EXTENDS Integers, Sequences

CONSTANTS Freq,       \* alt_ext_clk_paramblok: the frequency of each input
          VcoLimits,  \* alt_pll_clk_paramblok: lowest and highest frequency of a VCO
          MaxFreq,    \* alt_pll_cntr_maxfreq: the highest frequency of a counter
          GuardBand,  \* percentage
          Word,       \* 2^32, in the unit of the frequencies
          Prediv,     \* the dividers in front of the counters C0, C1, C2 of the main PLL
          CntMax,     \* the largest value of a counter
          Setting,    \* the VCOs at startup
          MuxSettings, \* the multiplexers at startup
          Mults, Divs, Clocks, Cfgs, \* bounds: what the program calls the driver with
          ClockPolls, \* bound: polls of a wait before it times out
          MaxCalls    \* bound: calls

PLLs     == {"MAIN_PLL", "PERIPHERAL_PLL", "SDRAM_PLL"}
Counters == {"MAIN_PLL", "PERIPHERAL_PLL"} \X (0..5)

MainClocks ==
  {"L4_MAIN", "L3_MP", "L4_MP", "L4_SP", "DBG_AT", "DBG", "DBG_TRACE", "DBG_TIMER", "CFG",
   "H2F_USER0"}
PeripheralClocks ==
  {"EMAC0", "EMAC1", "USB_MP", "SPI_M", "CAN0", "CAN1", "GPIO_DB", "H2F_USER1", "SDMMC",
   "NAND_X", "NAND", "QSPI"}
SdramClocks == {"DDR_DQS", "DDR_2X_DQS", "DDR_DQ", "H2F_USER2"}

EnabledBy == [MAIN_PLL |-> MainClocks, PERIPHERAL_PLL |-> PeripheralClocks,
              SDRAM_PLL |-> SdramClocks]
GateOf(clk) == CHOOSE pll \in PLLs : clk \in EnabledBy[pll]

\* The bits of BYPASS: the PLL is bypassed; by the clock of its input multiplexer.
Bit    == [MAIN_PLL |-> "MAINPLL", PERIPHERAL_PLL |-> "PERPLL", SDRAM_PLL |-> "SDRPLL"]
SrcBit == [PERIPHERAL_PLL |-> "PERPLLSRC", SDRAM_PLL |-> "SDRPLLSRC"]

\* The multiplexers, and what they choose from.
Choices ==
  [MAIN_PLL       |-> {"OSC1"},
   PERIPHERAL_PLL |-> {"OSC1", "OSC2", "F2H_PERIPH_REF"},
   SDRAM_PLL      |-> {"OSC1", "OSC2", "F2H_SDRAM_REF"},
   L4_MP |-> {"MAIN_PLL_C1", "PERIPHERAL_PLL_C4"},
   L4_SP |-> {"MAIN_PLL_C1", "PERIPHERAL_PLL_C4"},
   SDMMC |-> {"F2H_PERIPH_REF", "MAIN_PLL_C4", "PERIPHERAL_PLL_C3"},
   NAND  |-> {"F2H_PERIPH_REF", "MAIN_PLL_C4", "PERIPHERAL_PLL_C3"},
   QSPI  |-> {"F2H_PERIPH_REF", "MAIN_PLL_C3", "PERIPHERAL_PLL_C2"}]

\* A multiplexer has no other setting.
ASSUME MuxAssumption ==
  \A m \in MuxSettings :
    /\ m \in [DOMAIN Choices -> UNION {Choices[x] : x \in DOMAIN Choices}]
    /\ \A x \in DOMAIN Choices : m[x] \in Choices[x]

\* The small dividers, with the divisors they take.
Divisors ==
  [L3_MP |-> {1, 2}, L3_SP |-> {1, 2}, L4_MP |-> {1, 2, 4, 8, 16}, L4_SP |-> {1, 2, 4, 8, 16},
   DBG_AT |-> {1, 2, 4}, DBG |-> {2, 4}, DBG_TRACE |-> {1, 2, 4, 8, 16},
   USB_MP |-> {1, 2, 4, 8, 16}, SPI_M |-> {1, 2, 4, 8, 16}, CAN0 |-> {1, 2, 4, 8, 16},
   CAN1 |-> {1, 2, 4, 8, 16}]

VARIABLES en,        \* the registers EN: per PLL, the clocks that are on
          bypass,    \* the register BYPASS
          safemod,   \* the clocks are in safe mode
          vco,       \* the registers VCO
          source,    \* the multiplexers
          counter,   \* the counters C0 to C5
          divider,   \* the small dividers
          outrst, acked,  \* counters held in reset, and the acknowledgements
          locked,    \* the PLLs that are locked
          busy,      \* clocks are in transition
          clk_call,  \* the call under way
          todo,      \* what is left of it
          polls,     \* polls left in a wait
          clk_status, \* the local variable status or ret
          calls,     \* how many calls there were
          seen       \* the PLLs that the waits of this call have seen locked; for the
                     \* properties only

registers == <<en, bypass, safemod, vco, source, counter, divider, outrst>>
hardware  == <<acked, locked, busy>>
clockVars == <<registers, hardware, clk_call, todo, polls, clk_status, calls, seen>>

NoClockCall == [name |-> "none", about |-> <<>>, en |-> EnabledBy, bypass |-> {}]

ClockInit ==
  /\ en = EnabledBy
  /\ bypass = {} /\ safemod \in BOOLEAN
  /\ vco = [pll \in PLLs |-> [numer |-> Setting.numer, denom |-> Setting.denom, outrstall |-> FALSE]]
  /\ source \in MuxSettings
  /\ counter = [c \in Counters |-> 1]
  /\ divider = [x \in DOMAIN Divisors \cup {"GPIO_DB"} |-> 1]
  /\ outrst = {} /\ acked = {}
  /\ locked = PLLs /\ busy = FALSE
  /\ clk_call = NoClockCall /\ todo = <<>> /\ polls = ClockPolls /\ clk_status = "SUCCESS" /\ calls = 0
  /\ seen = {}
-----------------------------------------------------------------------------
(* The steps of a call.                                                    *)

En(pll, on)        == [op |-> "en", pll |-> pll, on |-> on]
Bypass(clr, set)   == [op |-> "bypass", clr |-> clr, set |-> set]
OutRstAll(pll, b)  == [op |-> "outrstall", pll |-> pll, on |-> b]
Vco(pll, f, val)   == [op |-> "vco", pll |-> pll, field |-> f, val |-> val]
Select(x, s)       == [op |-> "select", mux |-> x, source |-> s]
Count(c, val)      == [op |-> "count", counter |-> c, val |-> val]
Divide(x, val)     == [op |-> "divide", clk |-> x, val |-> val]
OutRst(c, b)       == [op |-> "outrst", counter |-> c, on |-> b]
ClearSafeMode      == [op |-> "safemod"]
\* Waits: the result goes to status, or is dropped.
Settle(kept)       == [op |-> "settle", kept |-> kept]
LockWait(pll)      == [op |-> "lock", pll |-> pll]
\* What follows is left out unless the PLL is locked.
IfLocked(pll, kept) == [op |-> "if_locked", pll |-> pll, kept |-> kept]

\* alt_clk_pllcounter_write: the counter is held in reset while it is written.
CounterWrite(c, val) == <<OutRst(c, TRUE), Count(c, val), OutRst(c, FALSE)>>

\* Mutant of Gated: they are turned on again, those that were off with them.
GatedAll(clks, pll, steps) ==
  IF clks \cap en[pll] = {} THEN steps
  ELSE <<En(pll, en[pll] \ clks)>> \o steps \o <<En(pll, en[pll] \cup clks)>>

\* Some clocks are off while the steps are taken, those of them that were on.
Gated(clks, pll, steps) ==
  IF clks \cap en[pll] = {} THEN steps
  ELSE <<En(pll, en[pll] \ clks)>> \o steps \o <<En(pll, en[pll])>>

\* The slow clocks that come from this PLL.
L4Of(pll) ==
  {x \in {"L4_MP", "L4_SP"} :
     source[x] = CASE pll = "MAIN_PLL" -> "MAIN_PLL_C1" [] OTHER -> "PERIPHERAL_PLL_C4"}

\* alt_clk_pll_bypass_enable
BypassEnable(pll, use_input_mux) ==
  LET set == {Bit[pll]} \cup (IF use_input_mux THEN {SrcBit[pll]} ELSE {}) IN
    CASE pll = "MAIN_PLL" ->
           Gated(L4Of(pll), "MAIN_PLL", <<Bypass({}, set), Settle(FALSE)>>)
      [] pll = "PERIPHERAL_PLL" ->
           Gated(L4Of(pll), "MAIN_PLL", <<Bypass({SrcBit[pll]}, set)>>)
      [] OTHER -> <<Bypass({SrcBit[pll]}, set)>>

\* Mutant of BypassDisable: the slow clocks are not turned off.
BypassDisableUngated(pll, kept) ==
  <<IfLocked(pll, kept), OutRstAll(pll, TRUE), OutRstAll(pll, FALSE), Settle(FALSE),
    Bypass({Bit[pll]}, {}), Settle(kept)>>

\* alt_clk_pll_bypass_disable.  For the SDRAM PLL it is the bit of the input
\* multiplexer that is cleared.
BypassDisable(pll, kept) ==
  <<IfLocked(pll, kept)>> \o
    CASE pll = "MAIN_PLL" ->
           Gated(L4Of(pll), "MAIN_PLL",
             <<OutRstAll(pll, TRUE), OutRstAll(pll, FALSE), Settle(FALSE),
               Bypass({Bit[pll]}, {}), Settle(kept)>>)
      [] pll = "PERIPHERAL_PLL" ->
           Gated(L4Of(pll), "MAIN_PLL",
             <<OutRstAll(pll, TRUE), Settle(FALSE), OutRstAll(pll, FALSE),
               Bypass({Bit[pll]}, {}), Settle(kept)>>)
      [] OTHER ->
             <<OutRstAll(pll, TRUE), OutRstAll(pll, FALSE), Settle(FALSE),
               Bypass({SrcBit[pll]}, {}), Settle(kept)>>

bypassed(pll) == safemod \/ Bit[pll] \in bypass
-----------------------------------------------------------------------------
(* The calls; Call makes one when none is under way.                       *)

ClockIdle == todo = <<>>

\* About a PLL <<pll>>, or one of its counters <<pll, i>>.
Begin(name, about, steps) ==
  /\ clk_call' = [name |-> name, about |-> about, en |-> en, bypass |-> bypass]
  /\ todo' = steps
  /\ polls' = ClockPolls
  /\ clk_status' = "SUCCESS"
  /\ calls' = calls + 1 /\ seen' = {}
  /\ UNCHANGED <<registers, hardware>>

Refuse(s) ==
  /\ clk_status' = s
  /\ calls' = calls + 1
  /\ UNCHANGED <<registers, hardware, clk_call, todo, polls, seen>>

alt_clk_safe_mode_clear ==
  Begin("safe_mode_clear", <<"MAIN_PLL">>,
    <<En("MAIN_PLL", en["MAIN_PLL"] \ {"L4_MP", "L4_SP"}), ClearSafeMode, Settle(TRUE),
      En("MAIN_PLL", en["MAIN_PLL"])>>)

alt_clk_pll_bypass_enable(pll, use_input_mux) ==
  IF pll = "MAIN_PLL" /\ use_input_mux THEN Refuse("BAD_ARG")
  ELSE Begin("bypass_enable", <<pll>>, BypassEnable(pll, use_input_mux))

alt_clk_pll_bypass_disable(pll) ==
  Begin("bypass_disable", <<pll>>, BypassDisable(pll, TRUE))

\* Mutant of alt_clk_clock_disable: both in one step, in the order of the names.
alt_clk_clock_disable_x_first(clk) ==
  Begin("clock_disable", <<GateOf(clk)>>,
    LET pll == GateOf(clk) on == en[GateOf(clk)] IN
      <<En(pll, on \ {clk})>> \o
        IF clk = "NAND_X" THEN <<En(pll, on \ {"NAND_X", "NAND"})>> ELSE <<>>)

\* For a PLL these two are the calls above.  The clock of the NAND controller goes
\* off before, and on after, the one of its interface.
alt_clk_clock_disable(clk) ==
  LET pll == GateOf(clk)
      on == en[GateOf(clk)]
  IN \/ clk \in {"USB_MP", "NAND"} /\ Refuse("BAD_CLK")
     \/ /\ clk = "NAND_X"
        /\ Begin("clock_disable", <<pll>>,
                 <<En(pll, on \ {"NAND"}), En(pll, on \ {"NAND", "NAND_X"})>>)
     \/ /\ clk \notin {"USB_MP", "NAND", "NAND_X"}
        /\ Begin("clock_disable", <<pll>>, <<En(pll, on \ {clk})>>)

alt_clk_clock_enable(clk) ==
  LET pll == GateOf(clk)
      on == en[GateOf(clk)]
  IN \/ /\ clk = "NAND"
        /\ Begin("clock_enable", <<pll>>,
                 <<En(pll, on \cup {"NAND_X"}), En(pll, on \cup {"NAND_X", "NAND"})>>)
     \/ /\ clk # "NAND"
        /\ Begin("clock_enable", <<pll>>, <<En(pll, on \cup {clk})>>)

\* That the clock is off, or the PLL bypassed, is left to the caller.
alt_clk_source_set(x, s) ==
  \/ s \notin Choices[x] /\ Refuse(IF x = "MAIN_PLL" THEN "BAD_ARG" ELSE "INV_OPTION")
  \/ x = "MAIN_PLL" /\ s \in Choices[x] /\ Refuse("SUCCESS")
  \/ /\ x # "MAIN_PLL" /\ s \in Choices[x]
     /\ Begin("source_set", <<"MAIN_PLL">>, <<Select(x, s)>>)
-----------------------------------------------------------------------------
(* alt_clk_divider_set and alt_clk_pll_vco_cfg_set.                        *)

InputFreq(pll) == Freq[source[pll]]

\* alt_clk_pll_vco_freq_get: of a bypassed PLL, its input.  Safe mode is not asked for.
VcoFreq(pll) ==
  IF Bit[pll] \in bypass
  THEN IF pll = "PERIPHERAL_PLL" /\ SrcBit[pll] \in bypass THEN Freq["F2H_PERIPH_REF"]
       ELSE Freq["OSC1"]
  ELSE (InputFreq(pll) * (vco[pll].numer + 1)) \div (vco[pll].denom + 1)

\* The counters that may not run slower than the oscillator.
FloorOf(c) ==
  IF c \in {<<"MAIN_PLL", i>> : i \in {0, 1, 2, 4, 5}} \cup {<<"PERIPHERAL_PLL", 5>>}
  THEN Freq["OSC1"] ELSE 0

\* The frequency of an input may not have been set.
alt_clk_within_freq_limits(c, div) ==
  /\ div # 0
  /\ Bit[c[1]] \in bypass \/ InputFreq(c[1]) # 0
  /\ VcoFreq(c[1]) \div div \in FloorOf(c) .. MaxFreq[c]

\* The counters C0 to C2 of the main PLL count behind another divider.
PredivOf(c) == IF c \in {<<"MAIN_PLL", i>> : i \in 0..2} THEN Prediv ELSE 1

InRange(c, div) ==
  /\ div <= (CntMax + 1) * PredivOf(c)
  /\ div % PredivOf(c) = 0
  /\ alt_clk_within_freq_limits(c, div)

\* The clocks a counter feeds directly, or through a multiplexer set to it.
Fed(c) ==
  CASE c = <<"MAIN_PLL", 3>>       -> {x \in {"QSPI"} : source[x] = "MAIN_PLL_C3"}
    [] c = <<"MAIN_PLL", 5>>       -> {"CFG", "H2F_USER0"}
    [] c = <<"PERIPHERAL_PLL", 0>> -> {"EMAC0"}
    [] c = <<"PERIPHERAL_PLL", 1>> -> {"EMAC1"}
    [] c = <<"PERIPHERAL_PLL", 2>> -> {x \in {"QSPI"} : source[x] = "PERIPHERAL_PLL_C2"}
    [] c = <<"PERIPHERAL_PLL", 5>> -> {"H2F_USER1"}
    [] OTHER                       -> {}

\* The three clocks of the flash controllers, as far as they come from this counter
\* and are on.
Flash(s) ==
  ((IF source["SDMMC"] = s THEN {"SDMMC"} ELSE {}) \cup
   (IF source["NAND"] = s THEN {"NAND_X", "NAND"} ELSE {})) \cap en["PERIPHERAL_PLL"]

\* C4 of the main PLL and C3 of the peripheral PLL.  NAND is turned off at the end
\* and on again, by the one if both of its clocks were off for this, by the other if
\* NAND was.
MainFlash(c, div) ==
  LET on    == en["PERIPHERAL_PLL"]
      off   == Flash("MAIN_PLL_C4")
      both  == {"NAND_X", "NAND"} \subseteq off
      temp  == IF both THEN on \ {"NAND"} ELSE on
      steps == CounterWrite(c, div - 1)
  IN IF off \cap {"SDMMC", "NAND_X"} = {} THEN steps
     ELSE (IF both THEN <<En("PERIPHERAL_PLL", temp)>> ELSE <<>>)
          \o <<En("PERIPHERAL_PLL", temp \ (off \ {"NAND"}))>> \o steps
          \o <<En("PERIPHERAL_PLL", on \ {"NAND"})>>
          \o (IF both THEN <<En("PERIPHERAL_PLL", on)>> ELSE <<>>)

PeripheralFlash(c, div) ==
  LET on  == en["PERIPHERAL_PLL"]
      off == Flash("PERIPHERAL_PLL_C3")
  IN <<En("PERIPHERAL_PLL", on \ (off \ {"NAND_X"}))>>
     \o (IF "NAND_X" \in off THEN <<En("PERIPHERAL_PLL", on \ off)>> ELSE <<>>)
     \o CounterWrite(c, div - 1)
     \o <<En("PERIPHERAL_PLL", on \ {"NAND"})>>
     \o (IF "NAND" \in off THEN <<En("PERIPHERAL_PLL", on)>> ELSE <<>>)

\* C4 of the peripheral PLL.  Whether the slow clocks are on is looked up in the enable
\* register of the peripheral PLL, where their bits belong to USB_MP and SPI_M.
PeripheralBase(c, div) ==
  LET on   == en["PERIPHERAL_PLL"]
      slow == L4Of("PERIPHERAL_PLL") \cap
                ((IF "USB_MP" \in on THEN {"L4_MP"} ELSE {}) \cup
                 (IF "SPI_M" \in on THEN {"L4_SP"} ELSE {}))
  IN <<En("MAIN_PLL", en["MAIN_PLL"] \ slow),
       En("PERIPHERAL_PLL", on \ {"USB_MP", "SPI_M", "CAN0", "CAN1", "GPIO_DB"})>>
     \o CounterWrite(c, div - 1)
     \o <<En("MAIN_PLL", en["MAIN_PLL"] \cup slow), En("PERIPHERAL_PLL", on)>>

CounterSteps(c, div) ==
  CASE c \in {<<"MAIN_PLL", 0>>, <<"MAIN_PLL", 2>>} -> <<Count(c, (div \div Prediv) - 1)>>
    [] c = <<"MAIN_PLL", 1>> ->
         Gated(L4Of("MAIN_PLL"), "MAIN_PLL", <<Count(c, (div \div Prediv) - 1)>>)
    [] c = <<"MAIN_PLL", 4>>       -> MainFlash(c, div)
    [] c = <<"PERIPHERAL_PLL", 3>> -> PeripheralFlash(c, div)
    [] c = <<"PERIPHERAL_PLL", 4>> -> PeripheralBase(c, div)
    [] OTHER -> Gated(Fed(c), IF c = <<"MAIN_PLL", 5>> THEN "MAIN_PLL" ELSE "PERIPHERAL_PLL",
                      CounterWrite(c, div - 1))

\* C3 of the main PLL is not written unless QSPI comes from it.
CounterSet(c, div) ==
  IF ~InRange(c, div) THEN Refuse("ARG_RANGE")
  ELSE IF c = <<"MAIN_PLL", 3>> /\ Fed(c) = {} THEN Refuse("BAD_ARG")
  ELSE Begin("divider_set", c, CounterSteps(c, div))

\* L3_SP has no gate.
DividerSet(x, div) ==
  IF div \notin Divisors[x] THEN Refuse("ARG_RANGE")
  ELSE Begin("divider_set", <<"MAIN_PLL">>,
         IF x = "L3_SP" THEN <<Divide(x, div)>>
         ELSE Gated({x}, GateOf(x), <<Divide(x, div)>>))

\* One less than the divisor in the bits the field has: 0 gives the largest value.
FieldOf(div) == (div - 1) % (CntMax + 1)

GpioSet(div) ==
  IF div > CntMax THEN Refuse("ARG_RANGE")
  ELSE Begin("divider_set", <<"PERIPHERAL_PLL">>,
         Gated({"GPIO_DB"}, "PERIPHERAL_PLL", <<Divide("GPIO_DB", FieldOf(div))>>))

\* MAIN_QSPI is the counter QSPI comes from, without a look at its frequency.
QspiSet(div) ==
  \/ source["QSPI"] = "F2H_PERIPH_REF" /\ Refuse("BAD_ARG")
  \/ source["QSPI"] # "F2H_PERIPH_REF" /\ div > CntMax /\ Refuse("ARG_RANGE")
  \/ /\ source["QSPI"] # "F2H_PERIPH_REF" /\ div <= CntMax
     /\ LET c == IF source["QSPI"] = "MAIN_PLL_C3" THEN <<"MAIN_PLL", 3>>
                 ELSE <<"PERIPHERAL_PLL", 2>>
        IN Begin("divider_set", c,
                 Gated({"QSPI"}, "PERIPHERAL_PLL", CounterWrite(c, FieldOf(div))))

alt_clk_divider_set ==
  \/ \E c \in Counters, div \in Divs : CounterSet(c, div)
  \/ \E x \in DOMAIN Divisors, div \in Divs : DividerSet(x, div)
  \/ \E div \in Divs : GpioSet(div) \/ QspiSet(div)
-----------------------------------------------------------------------------
(* alt_clk_pll_vco_chg_methods_get and alt_clk_pll_vco_cfg_set.            *)

\* The frequency of a VCO, as computed in a word.
Product(pll, mult, div) == (mult * (InputFreq(pll) \div div)) % Word

InLimits(pll, freq) == freq \in VcoLimits[pll].min .. VcoLimits[pll].max

alt_within_delta(ref, neu) ==
  (neu * 100) \div ref \in (101 - GuardBand) .. (99 + GuardBand)

\* Which of numerator and denominator change, and whether one of them can go first.
\* When both orders are possible it is the second that is returned.
Methods(pll, mult, div) ==
  LET numer == vco[pll].numer + 1
      denom == vco[pll].denom + 1
      numer_first == InLimits(pll, Product(pll, mult, denom))
      denom_first == InLimits(pll, Product(pll, numer, div))
  IN IF mult \notin 1..4096 \/ div \notin 1..64 \/ ~InLimits(pll, Product(pll, mult, div))
     THEN "NONE_VALID"
     ELSE CASE mult = numer /\ div = denom                       -> "NOCHANGE"
            [] mult # numer /\ div = denom /\ numer_first        -> "NUM"
            [] mult = numer /\ div # denom /\ denom_first        -> "DENOM"
            [] mult # numer /\ div # denom /\ denom_first        -> "DENOM_NUM"
            [] mult # numer /\ div # denom /\ ~denom_first /\ numer_first -> "NUM_DENOM"
            [] OTHER                                              -> "NONE_VALID"

\* The change is not within the guard band, of the one that is to go first.
NeedsBypass(pll, mult, div, method) ==
  IF method \in {"NUM", "NUM_DENOM"} THEN ~alt_within_delta(vco[pll].numer + 1, mult)
  ELSE ~alt_within_delta(vco[pll].denom + 1, div)

\* The numerator is written first with either method, and the lock that is waited for
\* is that of the main PLL.
VcoWrites(pll, mult, div, method, byp) ==
  CASE method = "NUM"   -> <<Vco(pll, "numer", mult - 1)>>
    [] method = "DENOM" -> <<Vco(pll, "denom", div - 1)>>
    [] OTHER -> <<Vco(pll, "numer", mult - 1)>>
                \o (IF byp THEN <<>> ELSE <<LockWait("MAIN_PLL")>>)
                \o <<Vco(pll, "denom", div - 1)>>

\* Mutant of VcoSteps: nobody waits for the lock.
VcoStepsUnlocked(pll, mult, div, method) ==
  LET byp == NeedsBypass(pll, mult, div, method) IN
    (IF byp THEN BypassEnable(pll, FALSE) ELSE <<>>)
    \o VcoWrites(pll, mult, div, method, byp)
    \o (IF byp THEN BypassDisable(pll, FALSE) ELSE <<>>)

\* The PLL leaves its bypass if it has locked; that it has not is not reported.
VcoSteps(pll, mult, div, method) ==
  LET byp == NeedsBypass(pll, mult, div, method) IN
    (IF byp THEN BypassEnable(pll, FALSE) ELSE <<>>)
    \o VcoWrites(pll, mult, div, method, byp)
    \o <<LockWait("MAIN_PLL")>>
    \o (IF byp THEN BypassDisable(pll, FALSE) ELSE <<>>)

alt_clk_pll_vco_cfg_set(pll, mult, div) ==
  LET method == Methods(pll, mult, div) IN
    CASE method = "NONE_VALID" -> Refuse("BAD_CLK")
      [] method = "NOCHANGE"   -> Refuse("INV_OPTION")
      [] OTHER -> Begin("vco_cfg_set", <<pll>>, VcoSteps(pll, mult, div, method))

\* Of the main and the peripheral PLL.  The registers are written as they are given.
alt_clk_pll_cfg_set(pll, cfg) ==
  IF ~bypassed(pll) THEN Refuse("ERROR")
  ELSE Begin("pll_cfg_set", <<pll>>,
         <<Vco(pll, "numer", cfg.mult), Vco(pll, "denom", cfg.div),
           Select(pll, IF pll = "MAIN_PLL" THEN "OSC1" ELSE cfg.ref_clk)>>
         \o [i \in 1..6 |-> Count(<<pll, i - 1>>, cfg.cntrs[i])])

ClockCall ==
  /\ ClockIdle /\ calls < MaxCalls
  /\ \/ alt_clk_safe_mode_clear
     \/ \E pll \in PLLs :
          \/ alt_clk_pll_bypass_disable(pll)
          \/ \E use_input_mux \in BOOLEAN : alt_clk_pll_bypass_enable(pll, use_input_mux)
          \/ \E mult \in Mults, div \in Divs \ {0} : alt_clk_pll_vco_cfg_set(pll, mult, div)
     \/ \E clk \in Clocks : alt_clk_clock_disable(clk) \/ alt_clk_clock_enable(clk)
     \/ \E x \in DOMAIN Choices : \E s \in Choices[x] \cup {"MAIN_PLL_C1"} : alt_clk_source_set(x, s)
     \/ alt_clk_divider_set
     \/ \E pll \in PLLs \ {"SDRAM_PLL"}, cfg \in Cfgs : alt_clk_pll_cfg_set(pll, cfg)
-----------------------------------------------------------------------------
(* A step of a call.                                                       *)

At(op) == ~ClockIdle /\ Head(todo).op = op

\* The last step returns.
Proceed(plls) ==
  /\ todo' = Tail(todo) /\ polls' = ClockPolls
  /\ clk_call' = IF Len(todo) = 1 THEN NoClockCall ELSE clk_call
  /\ seen' = IF Len(todo) = 1 THEN {} ELSE plls

Advance == Proceed(seen)

WriteEnable ==
  /\ At("en") /\ Advance
  /\ en' = [en EXCEPT ![Head(todo).pll] = Head(todo).on]
  /\ UNCHANGED <<bypass, safemod, vco, source, counter, divider, outrst, hardware, clk_status>>

\* The clocks need some time now.
WriteBypass ==
  /\ Advance
  /\ \/ /\ At("bypass")
        /\ bypass' = (bypass \ Head(todo).clr) \cup Head(todo).set
        /\ UNCHANGED safemod
     \/ At("safemod") /\ safemod' = FALSE /\ UNCHANGED bypass
  /\ busy' = TRUE
  /\ UNCHANGED <<en, vco, source, counter, divider, outrst, acked, locked, clk_status>>

WriteOutRstAll ==
  /\ At("outrstall") /\ Advance
  /\ vco' = [vco EXCEPT ![Head(todo).pll].outrstall = Head(todo).on]
  /\ busy' = TRUE
  /\ UNCHANGED <<en, bypass, safemod, source, counter, divider, outrst, acked, locked, clk_status>>

\* The PLL may lose its lock.
WriteVco ==
  /\ Advance
  /\ \/ /\ At("vco")
        /\ vco' = [vco EXCEPT ![Head(todo).pll][Head(todo).field] = Head(todo).val]
        /\ locked' \in {locked, locked \ {Head(todo).pll}}
        /\ UNCHANGED source
     \/ /\ At("select")
        /\ source' = [source EXCEPT ![Head(todo).mux] = Head(todo).source]
        /\ locked' \in {locked, locked \ {Head(todo).mux}}
        /\ UNCHANGED vco
  /\ UNCHANGED <<en, bypass, safemod, counter, divider, outrst, acked, busy, clk_status>>

\* A counter that is held in reset is written when the reset has been acknowledged,
\* and that is waited for without an end.
WriteCounter ==
  /\ Advance
  /\ \/ /\ At("count") /\ outrst \subseteq acked
        /\ counter' = [counter EXCEPT ![Head(todo).counter] = Head(todo).val]
        /\ UNCHANGED <<divider, outrst>>
     \/ /\ At("divide")
        /\ divider' = [divider EXCEPT ![Head(todo).clk] = Head(todo).val]
        /\ UNCHANGED <<counter, outrst>>
     \/ /\ At("outrst")
        /\ outrst' = IF Head(todo).on THEN outrst \cup {Head(todo).counter}
                     ELSE outrst \ {Head(todo).counter}
        /\ UNCHANGED <<counter, divider>>
  /\ UNCHANGED <<en, bypass, safemod, vco, source, hardware, clk_status>>

Result(s) == clk_status' = IF Head(todo).kept THEN s ELSE clk_status

Poll == polls' = polls - 1 /\ UNCHANGED <<todo, clk_call, clk_status, seen>>

\* alt_clk_plls_settle_wait: clocks that are seen settled at the last poll are too late.
SettleWait ==
  /\ At("settle")
  /\ IF busy /\ polls > 0 THEN Poll
     ELSE Advance /\ Result(IF polls > 0 THEN "SUCCESS" ELSE "ERROR")
  /\ UNCHANGED <<registers, hardware>>

\* alt_clk_pll_lock_wait
LockedWait ==
  /\ At("lock")
  /\ IF Head(todo).pll \notin locked /\ polls > 0 THEN Poll
     ELSE /\ Proceed(seen \cup ({Head(todo).pll} \cap locked))
          /\ clk_status' = IF Head(todo).pll \in locked THEN "SUCCESS" ELSE "TMO"
  /\ UNCHANGED <<registers, hardware>>

\* alt_clk_pll_is_locked, before alt_clk_pll_bypass_disable goes on.
LockedCheck ==
  /\ At("if_locked")
  /\ IF Head(todo).pll \in locked THEN Advance /\ UNCHANGED clk_status
     ELSE /\ todo' = <<>> /\ polls' = ClockPolls /\ clk_call' = NoClockCall /\ seen' = {}
          /\ Result("ERROR")
  /\ UNCHANGED <<registers, hardware>>

ClockStep ==
  /\ ~ClockIdle
  /\ \/ WriteEnable \/ WriteBypass \/ WriteOutRstAll \/ WriteVco \/ WriteCounter
     \/ SettleWait \/ LockedWait \/ LockedCheck
  /\ UNCHANGED calls

\* The hardware, external.  A PLL may lose its lock at any time.
Lock        == locked # PLLs /\ \E pll \in PLLs \ locked : locked' = locked \cup {pll} /\ UNCHANGED <<busy, acked>>
Unlock      == \E pll \in locked : locked' = locked \ {pll} /\ UNCHANGED <<busy, acked>>
Settled     == busy /\ busy' = FALSE /\ UNCHANGED <<locked, acked>>
Acknowledge == acked # outrst /\ acked' = outrst /\ UNCHANGED <<locked, busy>>

Hardware ==
  /\ Lock \/ Unlock \/ Settled \/ Acknowledge
  /\ UNCHANGED <<registers, clk_call, todo, polls, clk_status, calls, seen>>

ClockNext == ClockCall \/ ClockStep \/ Hardware

ClockSpec == ClockInit /\ [][ClockNext]_clockVars
-----------------------------------------------------------------------------
Returns == ~ClockIdle /\ todo' = <<>>

\* A call leaves every clock on, or off, as it was, though most calls turn some off and
\* on again.  This is not so of NAND after a change of the counter its multiplexer
\* chooses from, and of what hangs on C4 of the peripheral PLL.
GatesRestored ==
  [][Returns /\ clk_call.name \notin {"clock_enable", "clock_disable"} =>
       \A pll \in PLLs : \A clk \in EnabledBy[pll] :
         \/ clk \in en'[pll] <=> clk \in clk_call.en[pll]
         \/ clk = "NAND" /\ clk_call.about \in {<<"MAIN_PLL", 4>>, <<"PERIPHERAL_PLL", 3>>}
         \/ clk \in {"L4_MP", "L4_SP"} /\ clk_call.about = <<"PERIPHERAL_PLL", 4>>]_clockVars

\* What a slow clock is made from: the oscillator, or a counter of a PLL.
Path(x) ==
  LET c == IF source[x] = "MAIN_PLL_C1" THEN <<"MAIN_PLL", 1>> ELSE <<"PERIPHERAL_PLL", 4>>
  IN <<divider[x], IF bypassed(c[1]) THEN <<>> ELSE <<c, counter[c]>> >>

\* A slow clock is off whenever what it is made from changes, the bus has its glitches
\* otherwise; alt_clk_source_set leaves this to its caller, and C4 looks for the clocks
\* in the wrong register.
GlitchFree ==
  [][\A x \in {"L4_MP", "L4_SP"} :
       Path(x)' # Path(x) =>
         \/ x \notin en["MAIN_PLL"]
         \/ clk_call.name = "source_set"
         \/ clk_call.about = <<"PERIPHERAL_PLL", 4>>]_clockVars

\* The clock of the NAND controller never runs without the one of its interface.
NandAfterX == "NAND" \in en["PERIPHERAL_PLL"] => "NAND_X" \in en["PERIPHERAL_PLL"]

\* Success means that the PLL has left its bypass, or was not left in one, though the
\* waits may all be late and the lock come and go.  There is one exception: a lock that
\* alt_clk_pll_vco_cfg_set has waited for and that is lost again before
\* alt_clk_pll_bypass_disable looks at it, whose error is dropped.  Of
\* alt_clk_pll_bypass_disable this does not hold for the SDRAM PLL, of
\* alt_clk_pll_vco_cfg_set for the main PLL only.
SuccessMeansRunning ==
  [][Returns /\ clk_status' = "SUCCESS" =>
       /\ clk_call.name = "bypass_disable" /\ clk_call.about # <<"SDRAM_PLL">> =>
            Bit[clk_call.about[1]] \notin bypass'
       /\ clk_call.name = "vco_cfg_set" /\ clk_call.about = <<"MAIN_PLL">> =>
            \/ bypass' \subseteq clk_call.bypass
            \/ At("if_locked") /\ "MAIN_PLL" \in seen \ locked]_clockVars
=============================================================================
