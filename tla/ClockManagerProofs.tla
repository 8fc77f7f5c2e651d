------------------------- MODULE ClockManagerProofs --------------------------
(***************************************************************************)
(* Proofs about ClockManager, for any frequencies, limits, dividers and    *)
(* multiplexers and for any number of calls, in any order: what a call has *)
(* left to do is known when it begins, so that each invariant is about the *)
(* steps in todo, and holds of what is left when it holds of them all.     *)
(***************************************************************************)
EXTENDS ClockManager, TLAPS

IsSteps(s) == \E S : s \in Seq(S)

\* A program's steps one after the other, and what is left of them after the first.
LEMMA Concat ==
  ASSUME NEW s, NEW t, IsSteps(s), IsSteps(t)
  PROVE  /\ IsSteps(s \o t)
         /\ Len(s) \in Nat /\ Len(t) \in Nat /\ Len(s \o t) = Len(s) + Len(t)
         /\ \A k \in 1..Len(s) : (s \o t)[k] = s[k]
         /\ \A k \in 1..Len(t) : (s \o t)[Len(s) + k] = t[k]
         /\ \A k \in 1..Len(s \o t) :
              \/ k \in 1..Len(s)
              \/ k - Len(s) \in 1..Len(t) /\ k = Len(s) + (k - Len(s))
<1>1. PICK S, T : s \in Seq(S) /\ t \in Seq(T)
  BY DEF IsSteps
<1> DEFINE U == S \cup T
<1>2. s \in Seq(U) /\ t \in Seq(U)
  BY <1>1
<1> HIDE DEF U
<1>3. /\ s \o t \in Seq(U)
      /\ Len(s) \in Nat /\ Len(t) \in Nat /\ Len(s \o t) = Len(s) + Len(t)
      /\ \A k \in 1..Len(s) : (s \o t)[k] = s[k]
      /\ \A k \in 1..Len(t) : (s \o t)[Len(s) + k] = t[k]
  BY <1>2
<1>4. QED
  BY <1>3 DEF IsSteps

LEMMA Rest ==
  ASSUME NEW s, IsSteps(s), s # <<>>
  PROVE  /\ IsSteps(Tail(s)) /\ Head(s) = s[1]
         /\ Len(s) \in Nat \ {0} /\ Len(Tail(s)) = Len(s) - 1
         /\ \A k \in 1..Len(Tail(s)) : Tail(s)[k] = s[k + 1] /\ k + 1 \in 2..Len(s)
         /\ Tail(s) = <<>> <=> Len(s) = 1
<1>1. PICK S : s \in Seq(S)
  BY DEF IsSteps
<1>2. /\ Tail(s) \in Seq(S) /\ Head(s) = s[1]
      /\ Len(s) \in Nat \ {0} /\ Len(Tail(s)) = Len(s) - 1
      /\ \A k \in 1..Len(Tail(s)) : Tail(s)[k] = s[k + 1]
  BY <1>1
<1>3. Tail(s) = <<>> <=> Len(s) = 1
  BY <1>1, <1>2
<1>4. QED
  BY <1>2, <1>3 DEF IsSteps

LEMMA NoSteps == IsSteps(<<>>) /\ Len(<<>>) = 0
<1>1. <<>> \in Seq({})
  OBVIOUS
<1>2. QED
  BY <1>1 DEF IsSteps

LEMMA OneStep ==
  ASSUME NEW a
  PROVE  IsSteps(<<a>>) /\ Len(<<a>>) = 1 /\ <<a>>[1] = a
<1>1. <<a>> \in Seq({a})
  OBVIOUS
<1>2. QED
  BY <1>1 DEF IsSteps

LEMMA TwoSteps ==
  ASSUME NEW a, NEW b
  PROVE  IsSteps(<<a, b>>)
<1>1. <<a, b>> \in Seq({a, b})
  OBVIOUS
<1>2. QED
  BY <1>1 DEF IsSteps

LEMMA ThreeSteps ==
  ASSUME NEW a, NEW b, NEW c
  PROVE  IsSteps(<<a, b, c>>)
<1>1. <<a, b, c>> \in Seq({a, b, c})
  OBVIOUS
<1>2. QED
  BY <1>1 DEF IsSteps

LEMMA FourSteps ==
  ASSUME NEW a, NEW b, NEW c, NEW d
  PROVE  IsSteps(<<a, b, c, d>>)
<1>1. <<a, b, c, d>> \in Seq({a, b, c, d})
  OBVIOUS
<1>2. QED
  BY <1>1 DEF IsSteps

LEMMA FiveSteps ==
  ASSUME NEW a, NEW b, NEW c, NEW d, NEW e
  PROVE  IsSteps(<<a, b, c, d, e>>)
<1>1. <<a, b, c, d, e>> \in Seq({a, b, c, d, e})
  OBVIOUS
<1>2. QED
  BY <1>1 DEF IsSteps
-----------------------------------------------------------------------------
(* A step of a call.                                                       *)

TypeOK == IsSteps(todo) /\ en = [pll \in PLLs |-> en[pll]]

\* The step a has been taken, and the call goes on or returns.
Taken(a) ==
  /\ todo' = Tail(todo)
  /\ todo' # <<>> => clk_call' = clk_call
  /\ en' = IF a.op = "en" THEN [en EXCEPT ![a.pll] = a.on] ELSE en
  /\ bypass' = IF a.op = "bypass" THEN (bypass \ a.clr) \cup a.set ELSE bypass
  /\ safemod' = IF a.op = "safemod" THEN FALSE ELSE safemod
  /\ source' = IF a.op = "select" THEN [source EXCEPT ![a.mux] = a.source] ELSE source
  /\ counter' = IF a.op = "count" THEN [counter EXCEPT ![a.counter] = a.val] ELSE counter
  /\ divider' = IF a.op = "divide" THEN [divider EXCEPT ![a.clk] = a.val] ELSE divider

\* What is heard of the PLLs.
Heard(a) ==
  /\ a.op \notin {"vco", "select"} => locked' = locked
  /\ a.op = "lock" => clk_status' = IF a.pll \in locked THEN "SUCCESS" ELSE "TMO"
  /\ a.op # "lock" /\ ~(a.op = "settle" /\ a.kept) => clk_status' = clk_status
  /\ a.op = "if_locked" => a.pll \in locked
  /\ todo' # <<>> => /\ seen \subseteq seen'
                     /\ a.op = "lock" /\ a.pll \in locked => a.pll \in seen'

Polled == UNCHANGED <<registers, hardware, clk_call, todo, clk_status, seen>>

\* The PLL has not locked, and alt_clk_pll_bypass_disable returns.
GivenUp(a) ==
  /\ a.op = "if_locked" /\ a.pll \notin locked
  /\ todo' = <<>>
  /\ clk_status' = IF a.kept THEN "ERROR" ELSE clk_status
  /\ UNCHANGED <<registers, hardware>>

LEMMA Steps ==
  ASSUME IsSteps(todo), ClockStep
  PROVE  todo # <<>> /\ (Polled \/ GivenUp(todo[1]) \/ (Taken(todo[1]) /\ Heard(todo[1])))
<1> DEFINE a == todo[1]
<1>0. todo # <<>> /\ Head(todo) = a /\ (Tail(todo) = <<>> <=> Len(todo) = 1)
  BY Rest DEF ClockStep, ClockIdle
<1>1. \A plls : Proceed(plls) => /\ todo' = Tail(todo) /\ (todo' # <<>> => clk_call' = clk_call)
                                 /\ todo' # <<>> => seen' = plls
  BY <1>0 DEF Proceed
<1>a. Advance => /\ todo' = Tail(todo) /\ (todo' # <<>> => clk_call' = clk_call)
                 /\ todo' # <<>> => seen' = seen
  BY <1>1 DEF Advance
<1> HIDE DEF a
<1>2. CASE WriteEnable
  <2>1. Taken(a)
    BY <1>0, <1>a, <1>2 DEF WriteEnable, At, Taken
  <2>2. Heard(a)
    BY <1>0, <1>a, <1>2 DEF WriteEnable, At, Heard, hardware
  <2>3. QED
    BY <1>0, <2>1, <2>2 DEF a
<1>3. CASE WriteBypass
  <2>1. Taken(a)
    BY <1>0, <1>a, <1>3 DEF WriteBypass, At, Taken
  <2>2. Heard(a)
    BY <1>0, <1>a, <1>3 DEF WriteBypass, At, Heard
  <2>3. QED
    BY <1>0, <2>1, <2>2 DEF a
<1>4. CASE WriteOutRstAll
  <2>1. Taken(a)
    BY <1>0, <1>a, <1>4 DEF WriteOutRstAll, At, Taken
  <2>2. Heard(a)
    BY <1>0, <1>a, <1>4 DEF WriteOutRstAll, At, Heard
  <2>3. QED
    BY <1>0, <2>1, <2>2 DEF a
<1>5. CASE WriteVco
  <2>1. Taken(a)
    BY <1>0, <1>a, <1>5 DEF WriteVco, At, Taken
  <2>2. Heard(a)
    BY <1>0, <1>a, <1>5 DEF WriteVco, At, Heard
  <2>3. QED
    BY <1>0, <2>1, <2>2 DEF a
<1>6. CASE WriteCounter
  <2>1. Taken(a)
    BY <1>0, <1>a, <1>6 DEF WriteCounter, At, Taken
  <2>2. Heard(a)
    BY <1>0, <1>a, <1>6 DEF WriteCounter, At, Heard, hardware
  <2>3. QED
    BY <1>0, <2>1, <2>2 DEF a
<1>7. CASE SettleWait
  <2>1. CASE busy /\ polls > 0
    BY <1>0, <1>7, <2>1 DEF SettleWait, Polled, Poll, registers, hardware
  <2>2. CASE ~(busy /\ polls > 0)
    <3>1. Taken(a)
      BY <1>0, <1>a, <1>7, <2>2 DEF SettleWait, At, Taken, registers
    <3>2. Heard(a)
      BY <1>0, <1>a, <1>7, <2>2 DEF SettleWait, At, Heard, hardware, Result
    <3>3. QED
      BY <1>0, <3>1, <3>2 DEF a
  <2>3. QED
    BY <2>1, <2>2
<1>8. CASE LockedWait
  <2>1. CASE a.pll \notin locked /\ polls > 0
    BY <1>0, <1>8, <2>1 DEF LockedWait, Polled, Poll, registers, hardware
  <2>2. CASE ~(a.pll \notin locked /\ polls > 0)
    <3>1. Taken(a)
      BY <1>0, <1>1, <1>8, <2>2 DEF LockedWait, At, Taken, registers
    <3>2. Heard(a)
      BY <1>0, <1>1, <1>8, <2>2 DEF LockedWait, At, Heard, hardware
    <3>3. QED
      BY <1>0, <3>1, <3>2 DEF a
  <2>3. QED
    BY <2>1, <2>2
<1>9. CASE LockedCheck
  <2>1. CASE a.pll \in locked
    <3>1. Taken(a)
      BY <1>0, <1>a, <1>9, <2>1 DEF LockedCheck, At, Taken, registers
    <3>2. Heard(a)
      BY <1>0, <1>a, <1>9, <2>1 DEF LockedCheck, At, Heard, hardware
    <3>3. QED
      BY <1>0, <3>1, <3>2 DEF a
  <2>2. CASE a.pll \notin locked
    <3>1. GivenUp(a)
      BY <1>0, <1>9, <2>2 DEF LockedCheck, At, GivenUp, Result
    <3>2. QED
      BY <1>0, <3>1 DEF a
  <2>3. QED
    BY <2>1, <2>2
<1>10. QED
  BY <1>2, <1>3, <1>4, <1>5, <1>6, <1>7, <1>8, <1>9 DEF ClockStep
-----------------------------------------------------------------------------
(* The calls, by the steps they consist of.                                *)

Refused == UNCHANGED <<registers, hardware, clk_call, todo>>

Modes(name, about, steps) ==
  \/ /\ name = "safe_mode_clear" /\ about = <<"MAIN_PLL">>
     /\ steps = <<En("MAIN_PLL", en["MAIN_PLL"] \ {"L4_MP", "L4_SP"}), ClearSafeMode, Settle(TRUE),
                  En("MAIN_PLL", en["MAIN_PLL"])>>
  \/ \E pll \in PLLs, use_input_mux \in BOOLEAN :
       /\ name = "bypass_enable" /\ about = <<pll>> /\ (use_input_mux => pll # "MAIN_PLL")
       /\ steps = BypassEnable(pll, use_input_mux)
  \/ \E pll \in PLLs :
       name = "bypass_disable" /\ about = <<pll>> /\ steps = BypassDisable(pll, TRUE)

Switches(name, about, steps) ==
  \E clk \in Clocks :
    LET pll == GateOf(clk)
        on  == en[GateOf(clk)]
    IN /\ about = <<pll>>
       /\ \/ /\ clk = "NAND_X" /\ name = "clock_disable"
             /\ steps = <<En(pll, on \ {"NAND"}), En(pll, on \ {"NAND", "NAND_X"})>>
          \/ /\ clk \notin {"USB_MP", "NAND", "NAND_X"} /\ name = "clock_disable"
             /\ steps = <<En(pll, on \ {clk})>>
          \/ /\ clk = "NAND" /\ name = "clock_enable"
             /\ steps = <<En(pll, on \cup {"NAND_X"}), En(pll, on \cup {"NAND_X", "NAND"})>>
          \/ /\ clk # "NAND" /\ name = "clock_enable"
             /\ steps = <<En(pll, on \cup {clk})>>

Selects(name, about, steps) ==
  \E x \in DOMAIN Choices : \E s \in Choices[x] :
    name = "source_set" /\ about = <<"MAIN_PLL">> /\ steps = <<Select(x, s)>>

Dividers(name, about, steps) ==
  /\ name = "divider_set"
  /\ \/ \E c \in Counters, div \in Divs : about = c /\ steps = CounterSteps(c, div)
     \/ \E x \in DOMAIN Divisors, div \in Divs :
          /\ about = <<"MAIN_PLL">>
          /\ steps = IF x = "L3_SP" THEN <<Divide(x, div)>>
                     ELSE Gated({x}, GateOf(x), <<Divide(x, div)>>)
     \/ \E div \in Divs :
          /\ about = <<"PERIPHERAL_PLL">>
          /\ steps = Gated({"GPIO_DB"}, "PERIPHERAL_PLL", <<Divide("GPIO_DB", FieldOf(div))>>)
     \/ \E c \in {<<"MAIN_PLL", 3>>, <<"PERIPHERAL_PLL", 2>>}, div \in Divs :
          /\ about = c
          /\ steps = Gated({"QSPI"}, "PERIPHERAL_PLL", CounterWrite(c, FieldOf(div)))

Multiplies(name, about, steps) ==
  \E pll \in PLLs, mult \in Mults, div \in Divs :
    /\ name = "vco_cfg_set" /\ about = <<pll>>
    /\ steps = VcoSteps(pll, mult, div, Methods(pll, mult, div))

Configures(name, about, steps) ==
  \E pll \in PLLs \ {"SDRAM_PLL"}, cfg \in Cfgs :
    /\ name = "pll_cfg_set" /\ about = <<pll>> /\ bypassed(pll)
    /\ steps = <<Vco(pll, "numer", cfg.mult), Vco(pll, "denom", cfg.div),
                 Select(pll, IF pll = "MAIN_PLL" THEN "OSC1" ELSE cfg.ref_clk)>>
               \o [i \in 1..6 |-> Count(<<pll, i - 1>>, cfg.cntrs[i])]

Program(name, about, steps) ==
  \/ Modes(name, about, steps) \/ Switches(name, about, steps) \/ Selects(name, about, steps)
  \/ Dividers(name, about, steps) \/ Multiplies(name, about, steps)
  \/ Configures(name, about, steps)

Begun == \E name, about, steps : Begin(name, about, steps) /\ Program(name, about, steps)

LEMMA Calls ==
  ASSUME ClockCall
  PROVE  todo = <<>> /\ (Refused \/ Begun)
<1>0. todo = <<>> /\ \A s : Refuse(s) => Refused
  BY DEF ClockCall, ClockIdle, Refuse, Refused
<1>1. ASSUME NEW name, NEW about, NEW steps, Begin(name, about, steps), Program(name, about, steps)
      PROVE  Begun
  BY <1>1 DEF Begun
<1> HIDE DEF Begun
<1>2. CASE alt_clk_safe_mode_clear
  <2> DEFINE steps == <<En("MAIN_PLL", en["MAIN_PLL"] \ {"L4_MP", "L4_SP"}), ClearSafeMode,
                        Settle(TRUE), En("MAIN_PLL", en["MAIN_PLL"])>>
  <2>1. Begin("safe_mode_clear", <<"MAIN_PLL">>, steps)
    BY <1>2 DEF alt_clk_safe_mode_clear
  <2>2. Program("safe_mode_clear", <<"MAIN_PLL">>, steps)
    BY DEF Program, Modes
  <2> HIDE DEF steps
  <2>3. QED
    BY <1>0, <1>1, <2>1, <2>2
<1>3. ASSUME NEW pll \in PLLs, alt_clk_pll_bypass_disable(pll)
      PROVE  Begun
  <2> DEFINE steps == BypassDisable(pll, TRUE)
  <2>1. Begin("bypass_disable", <<pll>>, steps)
    BY <1>3 DEF alt_clk_pll_bypass_disable
  <2>2. Program("bypass_disable", <<pll>>, steps)
    BY DEF Program, Modes
  <2> HIDE DEF steps
  <2>3. QED
    BY <1>1, <2>1, <2>2
<1>4. ASSUME NEW pll \in PLLs, NEW use_input_mux \in BOOLEAN,
             alt_clk_pll_bypass_enable(pll, use_input_mux)
      PROVE  Refused \/ Begun
  <2> DEFINE steps == BypassEnable(pll, use_input_mux)
  <2>1. \/ Refuse("BAD_ARG")
        \/ Begin("bypass_enable", <<pll>>, steps) /\ (use_input_mux => pll # "MAIN_PLL")
    BY <1>4 DEF alt_clk_pll_bypass_enable
  <2>2. (use_input_mux => pll # "MAIN_PLL") => Program("bypass_enable", <<pll>>, steps)
    BY DEF Program, Modes
  <2> HIDE DEF steps
  <2>3. QED
    BY <1>0, <1>1, <2>1, <2>2
<1>5. ASSUME NEW pll \in PLLs, NEW mult \in Mults, NEW div \in Divs,
             alt_clk_pll_vco_cfg_set(pll, mult, div)
      PROVE  Refused \/ Begun
  <2> DEFINE steps == VcoSteps(pll, mult, div, Methods(pll, mult, div))
  <2>1. Refuse("BAD_CLK") \/ Refuse("INV_OPTION") \/ Begin("vco_cfg_set", <<pll>>, steps)
    BY <1>5 DEF alt_clk_pll_vco_cfg_set
  <2>2. Program("vco_cfg_set", <<pll>>, steps)
    BY DEF Program, Multiplies
  <2> HIDE DEF steps
  <2>3. QED
    BY <1>0, <1>1, <2>1, <2>2
<1>6. ASSUME NEW clk \in Clocks, alt_clk_clock_disable(clk) \/ alt_clk_clock_enable(clk)
      PROVE  Refused \/ Begun
  <2> DEFINE pll == GateOf(clk)
             on  == en[GateOf(clk)]
             offBoth == <<En(pll, on \ {"NAND"}), En(pll, on \ {"NAND", "NAND_X"})>>
             off     == <<En(pll, on \ {clk})>>
             onBoth  == <<En(pll, on \cup {"NAND_X"}), En(pll, on \cup {"NAND_X", "NAND"})>>
             onOne   == <<En(pll, on \cup {clk})>>
  <2>1. \/ Refuse("BAD_CLK")
        \/ clk = "NAND_X" /\ Begin("clock_disable", <<pll>>, offBoth)
        \/ clk \notin {"USB_MP", "NAND", "NAND_X"} /\ Begin("clock_disable", <<pll>>, off)
        \/ clk = "NAND" /\ Begin("clock_enable", <<pll>>, onBoth)
        \/ clk # "NAND" /\ Begin("clock_enable", <<pll>>, onOne)
    BY <1>6 DEF alt_clk_clock_disable, alt_clk_clock_enable
  <2>2. /\ clk = "NAND_X" => Program("clock_disable", <<pll>>, offBoth)
        /\ clk \notin {"USB_MP", "NAND", "NAND_X"} => Program("clock_disable", <<pll>>, off)
        /\ clk = "NAND" => Program("clock_enable", <<pll>>, onBoth)
        /\ clk # "NAND" => Program("clock_enable", <<pll>>, onOne)
    BY <1>6 DEF Program, Switches
  <2> HIDE DEF pll, offBoth, off, onBoth, onOne
  <2>3. QED
    BY <1>0, <1>1, <2>1, <2>2
<1>7. ASSUME NEW x \in DOMAIN Choices, NEW s \in Choices[x] \cup {"MAIN_PLL_C1"},
             alt_clk_source_set(x, s)
      PROVE  Refused \/ Begun
  <2>1. \/ Refuse(IF x = "MAIN_PLL" THEN "BAD_ARG" ELSE "INV_OPTION") \/ Refuse("SUCCESS")
        \/ s \in Choices[x] /\ Begin("source_set", <<"MAIN_PLL">>, <<Select(x, s)>>)
    BY <1>7 DEF alt_clk_source_set
  <2>2. s \in Choices[x] => Program("source_set", <<"MAIN_PLL">>, <<Select(x, s)>>)
    BY <1>7 DEF Program, Selects
  <2>3. QED
    BY <1>0, <1>1, <2>1, <2>2
<1>8. ASSUME alt_clk_divider_set
      PROVE  Refused \/ Begun
  <2>1. ASSUME NEW c \in Counters, NEW div \in Divs, CounterSet(c, div)
        PROVE  Refused \/ Begun
    <3> DEFINE steps == CounterSteps(c, div)
    <3>1. Refuse("ARG_RANGE") \/ Refuse("BAD_ARG") \/ Begin("divider_set", c, steps)
      BY <2>1 DEF CounterSet
    <3>2. Program("divider_set", c, steps)
      BY DEF Program, Dividers
    <3> HIDE DEF steps
    <3>3. QED
      BY <1>0, <1>1, <3>1, <3>2
  <2>2. ASSUME NEW x \in DOMAIN Divisors, NEW div \in Divs, DividerSet(x, div)
        PROVE  Refused \/ Begun
    <3> DEFINE steps == IF x = "L3_SP" THEN <<Divide(x, div)>>
                        ELSE Gated({x}, GateOf(x), <<Divide(x, div)>>)
    <3>1. Refuse("ARG_RANGE") \/ Begin("divider_set", <<"MAIN_PLL">>, steps)
      BY <2>2 DEF DividerSet
    <3>2. Program("divider_set", <<"MAIN_PLL">>, steps)
      BY DEF Program, Dividers
    <3> HIDE DEF steps
    <3>3. QED
      BY <1>0, <1>1, <3>1, <3>2
  <2>3. ASSUME NEW div \in Divs, GpioSet(div)
        PROVE  Refused \/ Begun
    <3> DEFINE steps == Gated({"GPIO_DB"}, "PERIPHERAL_PLL", <<Divide("GPIO_DB", FieldOf(div))>>)
    <3>1. Refuse("ARG_RANGE") \/ Begin("divider_set", <<"PERIPHERAL_PLL">>, steps)
      BY <2>3 DEF GpioSet
    <3>2. Program("divider_set", <<"PERIPHERAL_PLL">>, steps)
      BY DEF Program, Dividers
    <3> HIDE DEF steps
    <3>3. QED
      BY <1>0, <1>1, <3>1, <3>2
  <2>4. ASSUME NEW div \in Divs, QspiSet(div)
        PROVE  Refused \/ Begun
    <3> DEFINE c == IF source["QSPI"] = "MAIN_PLL_C3" THEN <<"MAIN_PLL", 3>>
                    ELSE <<"PERIPHERAL_PLL", 2>>
               steps == Gated({"QSPI"}, "PERIPHERAL_PLL", CounterWrite(c, FieldOf(div)))
    <3>1. Refuse("BAD_ARG") \/ Refuse("ARG_RANGE") \/ Begin("divider_set", c, steps)
      BY <2>4 DEF QspiSet
    <3>2. c \in {<<"MAIN_PLL", 3>>, <<"PERIPHERAL_PLL", 2>>}
      OBVIOUS
    <3> HIDE DEF c
    <3>3. Program("divider_set", c, steps)
      BY <3>2 DEF Program, Dividers
    <3> HIDE DEF steps
    <3>4. QED
      BY <1>0, <1>1, <3>1, <3>3
  <2>5. QED
    BY <1>8, <2>1, <2>2, <2>3, <2>4 DEF alt_clk_divider_set
<1>9. ASSUME NEW pll \in PLLs \ {"SDRAM_PLL"}, NEW cfg \in Cfgs, alt_clk_pll_cfg_set(pll, cfg)
      PROVE  Refused \/ Begun
  <2> DEFINE steps == <<Vco(pll, "numer", cfg.mult), Vco(pll, "denom", cfg.div),
                        Select(pll, IF pll = "MAIN_PLL" THEN "OSC1" ELSE cfg.ref_clk)>>
                      \o [i \in 1..6 |-> Count(<<pll, i - 1>>, cfg.cntrs[i])]
  <2>1. Refuse("ERROR") \/ (bypassed(pll) /\ Begin("pll_cfg_set", <<pll>>, steps))
    BY <1>9 DEF alt_clk_pll_cfg_set
  <2>2. bypassed(pll) => Program("pll_cfg_set", <<pll>>, steps)
    BY DEF Program, Configures
  <2> HIDE DEF steps
  <2>3. QED
    BY <1>0, <1>1, <2>1, <2>2
<1>10. QED
  BY <1>0, <1>2, <1>3, <1>4, <1>5, <1>6, <1>7, <1>8, <1>9 DEF ClockCall
-----------------------------------------------------------------------------
(* The parts of a program.                                                 *)

IsWrite(a, pll) == a.op = "en" /\ a.pll = pll

\* Nothing is switched, and nothing ends the call.
NoGates(s) == \A k \in 1..Len(s) : s[k].op \notin {"en", "if_locked"}

LEMMA NoGatesConcat ==
  ASSUME NEW s, NEW t, IsSteps(s), IsSteps(t), NoGates(s), NoGates(t)
  PROVE  IsSteps(s \o t) /\ NoGates(s \o t)
BY Concat DEF NoGates

LEMMA Wrap ==
  ASSUME NEW a, NEW t, NEW b, IsSteps(t)
  PROVE  /\ IsSteps(<<a>> \o t \o <<b>>) /\ Len(t) \in Nat /\ Len(<<a>> \o t \o <<b>>) = Len(t) + 2
         /\ (<<a>> \o t \o <<b>>)[1] = a /\ (<<a>> \o t \o <<b>>)[Len(t) + 2] = b
         /\ \A k \in 1..Len(t) : (<<a>> \o t \o <<b>>)[k + 1] = t[k]
         /\ \A k \in 1..Len(<<a>> \o t \o <<b>>) :
              k = 1 \/ k = Len(t) + 2 \/ (k - 1 \in 1..Len(t) /\ k = (k - 1) + 1)
<1> DEFINE s == <<a>> \o t
<1>1. /\ IsSteps(<<a>>) /\ Len(<<a>>) = 1 /\ <<a>>[1] = a
      /\ IsSteps(<<b>>) /\ Len(<<b>>) = 1 /\ <<b>>[1] = b
  BY OneStep
<1>2. /\ IsSteps(s) /\ Len(t) \in Nat /\ Len(s) = 1 + Len(t) /\ s[1] = a
      /\ \A k \in 1..Len(t) : s[1 + k] = t[k]
  <2>1. /\ IsSteps(s) /\ Len(t) \in Nat /\ Len(s) = Len(<<a>>) + Len(t)
        /\ \A k \in 1..Len(<<a>>) : s[k] = <<a>>[k]
        /\ \A k \in 1..Len(t) : s[Len(<<a>>) + k] = t[k]
    BY <1>1, Concat
  <2>2. QED
    BY <1>1, <2>1
<1> HIDE DEF s
<1>3. /\ IsSteps(s \o <<b>>) /\ Len(s \o <<b>>) = Len(s) + 1 /\ (s \o <<b>>)[Len(s) + 1] = b
      /\ \A k \in 1..Len(s) : (s \o <<b>>)[k] = s[k]
  <2>1. /\ IsSteps(s \o <<b>>) /\ Len(s \o <<b>>) = Len(s) + Len(<<b>>)
        /\ \A k \in 1..Len(s) : (s \o <<b>>)[k] = s[k]
        /\ \A k \in 1..Len(<<b>>) : (s \o <<b>>)[Len(s) + k] = <<b>>[k]
    BY <1>1, <1>2, Concat
  <2>2. QED
    BY <1>1, <2>1
<1> DEFINE u == s \o <<b>>
<1>4. u = <<a>> \o t \o <<b>>
  BY DEF s
<1>5. /\ IsSteps(u) /\ Len(u) = Len(s) + 1 /\ u[Len(s) + 1] = b /\ \A k \in 1..Len(s) : u[k] = s[k]
  BY <1>3
<1> HIDE DEF u
<1>6. /\ IsSteps(u) /\ Len(u) = Len(t) + 2 /\ u[1] = a /\ u[Len(t) + 2] = b
      /\ \A k \in 1..Len(t) : u[k + 1] = t[k]
      /\ \A k \in 1..Len(u) : k = 1 \/ k = Len(t) + 2 \/ (k - 1 \in 1..Len(t) /\ k = (k - 1) + 1)
  BY <1>2, <1>5
<1>7. QED
  BY <1>2, <1>4, <1>6

LEMMA GatedForm ==
  ASSUME NEW clks, NEW pll, NEW t, IsSteps(t)
  PROVE  /\ IsSteps(Gated(clks, pll, t))
         /\ \/ clks \cap en[pll] = {} /\ Gated(clks, pll, t) = t
            \/ /\ clks \cap en[pll] # {}
               /\ Gated(clks, pll, t) = <<En(pll, en[pll] \ clks)>> \o t \o <<En(pll, en[pll])>>
<1>1. IsSteps(<<En(pll, en[pll] \ clks)>> \o t \o <<En(pll, en[pll])>>)
  BY Wrap
<1>2. QED
  BY <1>1 DEF Gated

LEMMA Blocks ==
  ASSUME NEW clr, NEW set, NEW kept, NEW pll, NEW c, NEW val, NEW x
  PROVE  /\ NoGates(<<>>) /\ IsSteps(<<>>)
         /\ NoGates(<<Bypass(clr, set)>>) /\ IsSteps(<<Bypass(clr, set)>>)
         /\ NoGates(<<Bypass(clr, set), Settle(kept)>>) /\ IsSteps(<<Bypass(clr, set), Settle(kept)>>)
         /\ NoGates(<<Count(c, val)>>) /\ IsSteps(<<Count(c, val)>>)
         /\ NoGates(<<Divide(x, val)>>) /\ IsSteps(<<Divide(x, val)>>)
         /\ NoGates(<<LockWait(pll)>>) /\ IsSteps(<<LockWait(pll)>>)
         /\ NoGates(CounterWrite(c, val)) /\ IsSteps(CounterWrite(c, val))
<1>1. ASSUME NEW a, a.op \notin {"en", "if_locked"}
      PROVE  NoGates(<<a>>) /\ IsSteps(<<a>>)
  BY <1>1, OneStep DEF NoGates
<1>2. ASSUME NEW a, NEW b, a.op \notin {"en", "if_locked"}, b.op \notin {"en", "if_locked"}
      PROVE  NoGates(<<a, b>>) /\ IsSteps(<<a, b>>)
  BY <1>2, TwoSteps DEF NoGates
<1>3. ASSUME NEW a, NEW b, NEW d, a.op \notin {"en", "if_locked"}, b.op \notin {"en", "if_locked"},
             d.op \notin {"en", "if_locked"}
      PROVE  NoGates(<<a, b, d>>) /\ IsSteps(<<a, b, d>>)
  BY <1>3, ThreeSteps DEF NoGates
<1>4. NoGates(<<>>) /\ IsSteps(<<>>)
  BY NoSteps DEF NoGates
<1>5. /\ Bypass(clr, set).op = "bypass" /\ Settle(kept).op = "settle" /\ Count(c, val).op = "count"
      /\ Divide(x, val).op = "divide" /\ LockWait(pll).op = "lock"
      /\ OutRst(c, TRUE).op = "outrst" /\ OutRst(c, FALSE).op = "outrst"
  BY DEF Bypass, Settle, Count, Divide, LockWait, OutRst
<1>6. NoGates(<<Bypass(clr, set)>>) /\ IsSteps(<<Bypass(clr, set)>>)
  BY <1>1, <1>5
<1>7. NoGates(<<Bypass(clr, set), Settle(kept)>>) /\ IsSteps(<<Bypass(clr, set), Settle(kept)>>)
  BY <1>2, <1>5
<1>8. NoGates(<<Count(c, val)>>) /\ IsSteps(<<Count(c, val)>>)
  BY <1>1, <1>5
<1>9. NoGates(<<Divide(x, val)>>) /\ IsSteps(<<Divide(x, val)>>)
  BY <1>1, <1>5
<1>10. NoGates(<<LockWait(pll)>>) /\ IsSteps(<<LockWait(pll)>>)
  BY <1>1, <1>5
<1>11. NoGates(CounterWrite(c, val)) /\ IsSteps(CounterWrite(c, val))
  BY <1>3, <1>5 DEF CounterWrite
<1>12. QED
  BY <1>4, <1>6, <1>7, <1>8, <1>9, <1>10, <1>11

\* What alt_clk_pll_bypass_disable does while the slow clocks are off.
Leaving(pll, kept) ==
  CASE pll = "MAIN_PLL" -> <<OutRstAll(pll, TRUE), OutRstAll(pll, FALSE), Settle(FALSE),
                             Bypass({Bit[pll]}, {}), Settle(kept)>>
    [] pll = "PERIPHERAL_PLL" -> <<OutRstAll(pll, TRUE), Settle(FALSE), OutRstAll(pll, FALSE),
                                   Bypass({Bit[pll]}, {}), Settle(kept)>>
    [] OTHER -> <<OutRstAll(pll, TRUE), OutRstAll(pll, FALSE), Settle(FALSE),
                  Bypass({SrcBit[pll]}, {}), Settle(kept)>>

\* What alt_clk_pll_bypass_enable does.
Entering(pll, set) ==
  CASE pll = "MAIN_PLL" -> <<Bypass({}, set), Settle(FALSE)>>
    [] OTHER -> <<Bypass({SrcBit[pll]}, set)>>

\* The SDRAM PLL gates nothing.
Slow(pll) == IF pll = "SDRAM_PLL" THEN {} ELSE L4Of(pll)

LEMMA EnterLeave ==
  ASSUME NEW pll \in PLLs, NEW set, NEW kept
  PROVE  /\ IsSteps(Leaving(pll, kept)) /\ NoGates(Leaving(pll, kept)) /\ Len(Leaving(pll, kept)) = 5
         /\ IsSteps(Entering(pll, set)) /\ NoGates(Entering(pll, set))
<1>1. pll = "MAIN_PLL" \/ pll = "PERIPHERAL_PLL" \/ pll = "SDRAM_PLL"
  BY DEF PLLs
<1>2. IsSteps(Leaving(pll, kept)) /\ NoGates(Leaving(pll, kept)) /\ Len(Leaving(pll, kept)) = 5
  <2>1. IsSteps(Leaving(pll, kept)) /\ Len(Leaving(pll, kept)) = 5
    BY <1>1, FiveSteps DEF Leaving
  <2>2. NoGates(Leaving(pll, kept))
    BY <1>1, <2>1 DEF Leaving, NoGates, OutRstAll, Settle, Bypass
  <2>3. QED
    BY <2>1, <2>2
<1>3. IsSteps(Entering(pll, set)) /\ NoGates(Entering(pll, set))
  BY <1>1, Blocks DEF Entering
<1>4. QED
  BY <1>2, <1>3

LEMMA EnableForm ==
  ASSUME NEW pll \in PLLs, NEW use_input_mux \in BOOLEAN
  PROVE  \E set :
           /\ set = {Bit[pll]} \cup (IF use_input_mux THEN {SrcBit[pll]} ELSE {})
           /\ BypassEnable(pll, use_input_mux) = Gated(Slow(pll), "MAIN_PLL", Entering(pll, set))
<1>1. pll = "MAIN_PLL" \/ pll = "PERIPHERAL_PLL" \/ pll = "SDRAM_PLL"
  BY DEF PLLs
<1>2. \A t : Gated({}, "MAIN_PLL", t) = t
  BY DEF Gated
<1>3. QED
  BY <1>1, <1>2 DEF BypassEnable, Entering, Slow

LEMMA DisableForm ==
  ASSUME NEW pll \in PLLs, NEW kept
  PROVE  BypassDisable(pll, kept) =
           <<IfLocked(pll, kept)>> \o Gated(Slow(pll), "MAIN_PLL", Leaving(pll, kept))
<1>1. pll = "MAIN_PLL" \/ pll = "PERIPHERAL_PLL" \/ pll = "SDRAM_PLL"
  BY DEF PLLs
<1>2. \A t : Gated({}, "MAIN_PLL", t) = t
  BY DEF Gated
<1>3. QED
  BY <1>1, <1>2 DEF BypassDisable, Leaving, Slow

LEMMA WritesForm ==
  ASSUME NEW pll, NEW mult, NEW div, NEW method, NEW byp
  PROVE  /\ IsSteps(VcoWrites(pll, mult, div, method, byp))
         /\ NoGates(VcoWrites(pll, mult, div, method, byp))
         /\ \A k \in 1..Len(VcoWrites(pll, mult, div, method, byp)) :
              VcoWrites(pll, mult, div, method, byp)[k].op \in {"vco", "lock"}
<1> DEFINE n == Vco(pll, "numer", mult - 1)
           d == Vco(pll, "denom", div - 1)
           l == LockWait("MAIN_PLL")
<1>1. n.op = "vco" /\ d.op = "vco" /\ l.op = "lock"
  BY DEF Vco, LockWait
<1>2. \/ VcoWrites(pll, mult, div, method, byp) = <<n>>
      \/ VcoWrites(pll, mult, div, method, byp) = <<d>>
      \/ VcoWrites(pll, mult, div, method, byp) = <<n>> \o <<>> \o <<d>>
      \/ VcoWrites(pll, mult, div, method, byp) = <<n>> \o <<l>> \o <<d>>
  BY DEF VcoWrites
<1> HIDE DEF n, d, l
<1>3. ASSUME NEW t, t = <<>> \/ t = <<l>>
      PROVE  /\ IsSteps(<<n>> \o t \o <<d>>)
             /\ \A k \in 1..Len(<<n>> \o t \o <<d>>) :
                  (<<n>> \o t \o <<d>>)[k].op \in {"vco", "lock"}
  <2>1. IsSteps(t) /\ \A k \in 1..Len(t) : t[k].op = "lock"
    BY <1>1, <1>3, NoSteps, OneStep
  <2>2. QED
    BY <1>1, <2>1, Wrap
<1>4. \E s : /\ s = VcoWrites(pll, mult, div, method, byp)
             /\ IsSteps(s) /\ \A k \in 1..Len(s) : s[k].op \in {"vco", "lock"}
  <2>1. IsSteps(<<n>>) /\ IsSteps(<<d>>)
    BY OneStep
  <2>2. /\ \A k \in 1..Len(<<n>>) : <<n>>[k].op \in {"vco", "lock"}
        /\ \A k \in 1..Len(<<d>>) : <<d>>[k].op \in {"vco", "lock"}
    BY <1>1
  <2>3. QED
    BY <1>2, <1>3, <2>1, <2>2
<1>5. QED
  BY <1>4 DEF NoGates

ConfigureSteps(pll, cfg) ==
  <<Vco(pll, "numer", cfg.mult), Vco(pll, "denom", cfg.div),
    Select(pll, IF pll = "MAIN_PLL" THEN "OSC1" ELSE cfg.ref_clk)>>
  \o [i \in 1..6 |-> Count(<<pll, i - 1>>, cfg.cntrs[i])]

LEMMA ConfigureForm ==
  ASSUME NEW pll, NEW cfg
  PROVE  /\ IsSteps(ConfigureSteps(pll, cfg))
         /\ \A k \in 1..Len(ConfigureSteps(pll, cfg)) :
              LET a == ConfigureSteps(pll, cfg)[k] IN
                \/ a.op = "vco"
                \/ a.op = "select" /\ a.mux = pll
                \/ a.op = "count" /\ \E i \in 0..5 : a.counter = <<pll, i>>
<1> DEFINE s == <<Vco(pll, "numer", cfg.mult), Vco(pll, "denom", cfg.div),
                  Select(pll, IF pll = "MAIN_PLL" THEN "OSC1" ELSE cfg.ref_clk)>>
           t == [i \in 1..6 |-> Count(<<pll, i - 1>>, cfg.cntrs[i])]
<1>1. /\ IsSteps(s) /\ Len(s) = 3 /\ s[1].op = "vco" /\ s[2].op = "vco"
      /\ s[3].op = "select" /\ s[3].mux = pll
  BY ThreeSteps DEF Vco, Select
<1>2. IsSteps(t) /\ Len(t) = 6
  <2> DEFINE S == {Count(<<pll, i - 1>>, cfg.cntrs[i]) : i \in 1..6}
  <2>1. t \in Seq(S) /\ Len(t) = 6
    OBVIOUS
  <2> HIDE DEF S, t
  <2>2. QED
    BY <2>1 DEF IsSteps
<1>3. \A k \in 1..6 : t[k].op = "count" /\ t[k].counter = <<pll, k - 1>> /\ k - 1 \in 0..5
  BY DEF Count
<1>4. s \o t = ConfigureSteps(pll, cfg)
  BY DEF ConfigureSteps
<1> HIDE DEF s, t
<1>c. /\ IsSteps(s \o t)
      /\ \A k \in 1..Len(s) : (s \o t)[k] = s[k]
      /\ \A k \in 1..Len(t) : (s \o t)[Len(s) + k] = t[k]
      /\ \A k \in 1..Len(s \o t) :
           \/ k \in 1..Len(s)
           \/ k - Len(s) \in 1..Len(t) /\ k = Len(s) + (k - Len(s))
  <2>1. IsSteps(s) /\ IsSteps(t)
    BY <1>1, <1>2
  <2>2. QED
    BY ONLY <2>1, Concat
<1> DEFINE u == s \o t
<1>5. /\ IsSteps(u)
      /\ \A k \in 1..Len(s) : u[k] = s[k]
      /\ \A k \in 1..Len(t) : u[Len(s) + k] = t[k]
      /\ \A k \in 1..Len(u) :
           k \in 1..Len(s) \/ (k - Len(s) \in 1..Len(t) /\ k = Len(s) + (k - Len(s)))
  BY <1>c
<1> HIDE DEF u
<1>6. \A k \in 1..Len(u) :
        \/ u[k].op = "vco"
        \/ u[k].op = "select" /\ u[k].mux = pll
        \/ u[k].op = "count" /\ \E i \in 0..5 : u[k].counter = <<pll, i>>
  <2> TAKE k \in 1..Len(u)
  <2>1. CASE k \in 1..Len(s)
    <3>1. (k = 1 \/ k = 2 \/ k = 3) /\ u[k] = s[k]
      BY <1>1, <1>5, <2>1
    <3>2. QED
      BY <1>1, <3>1
  <2>2. CASE k - Len(s) \in 1..Len(t)
    <3>1. k - 3 \in 1..6 /\ u[k] = t[k - 3]
      BY <1>1, <1>2, <1>5, <2>2
    <3>2. QED
      BY <1>3, <3>1
  <2>3. QED
    BY <1>5, <2>1, <2>2
<1>7. QED
  BY <1>4, <1>5, <1>6 DEF u
-----------------------------------------------------------------------------
(* The gates: what the calls write into the registers EN.                  *)

Xed(on) == "NAND" \in on => "NAND_X" \in on

XWrites(s) == \A k \in 1..Len(s) : IsWrite(s[k], "PERIPHERAL_PLL") => Xed(s[k].on)

\* These gates are as they were when the call c began, but for the exceptions.
Kept(pll, on, c) ==
  \A clk \in EnabledBy[pll] :
     \/ clk \in on <=> clk \in c.en[pll]
     \/ clk = "NAND" /\ c.about \in {<<"MAIN_PLL", 4>>, <<"PERIPHERAL_PLL", 3>>}
     \/ clk \in {"L4_MP", "L4_SP"} /\ c.about = <<"PERIPHERAL_PLL", 4>>

\* From step i on they become so, before anything ends the call.
Restores(s, i, pll, c) ==
  \E j \in i..Len(s) :
    /\ IsWrite(s[j], pll) /\ Kept(pll, s[j].on, c)
    /\ \A h \in i..j : s[h].op # "if_locked"

Tidy(s, pll, c) ==
  \A k \in 1..Len(s) :
    IsWrite(s[k], pll) => Kept(pll, s[k].on, c) \/ Restores(s, k + 1, pll, c)

Sound(s, c) == IsSteps(s) /\ XWrites(s) /\ \A pll \in PLLs : Tidy(s, pll, c)

LEMMA SoundConcat ==
  ASSUME NEW s, NEW t, NEW c, Sound(s, c), Sound(t, c)
  PROVE  Sound(s \o t, c)
<1> DEFINE u == s \o t
<1>1. /\ IsSteps(u) /\ Len(s) \in Nat /\ Len(t) \in Nat /\ Len(u) = Len(s) + Len(t)
      /\ \A k \in 1..Len(s) : u[k] = s[k]
      /\ \A k \in 1..Len(t) : u[Len(s) + k] = t[k]
      /\ \A k \in 1..Len(u) :
           \/ k \in 1..Len(s)
           \/ k - Len(s) \in 1..Len(t) /\ k = Len(s) + (k - Len(s))
  <2>1. IsSteps(s) /\ IsSteps(t)
    BY DEF Sound
  <2>2. QED
    BY ONLY <2>1, Concat
<1> HIDE DEF u
<1>2. XWrites(u)
  BY <1>1 DEF Sound, XWrites
<1>3. ASSUME NEW pll \in PLLs
      PROVE  Tidy(u, pll, c)
  <2> SUFFICES ASSUME NEW k \in 1..Len(u), IsWrite(u[k], pll)
               PROVE  Kept(pll, u[k].on, c) \/ Restores(u, k + 1, pll, c)
    BY DEF Tidy
  <2>1. CASE k \in 1..Len(s)
    <3>1. Kept(pll, s[k].on, c) \/ Restores(s, k + 1, pll, c)
      BY <1>1, <2>1 DEF Sound, Tidy
    <3>2. ASSUME Restores(s, k + 1, pll, c)
          PROVE  Restores(u, k + 1, pll, c)
      <4>1. PICK j \in (k + 1)..Len(s) :
                   /\ IsWrite(s[j], pll) /\ Kept(pll, s[j].on, c)
                   /\ \A h \in (k + 1)..j : s[h].op # "if_locked"
        BY <3>2 DEF Restores
      <4>2. j \in (k + 1)..Len(u) /\ u[j] = s[j] /\ \A h \in (k + 1)..j : u[h] = s[h]
        BY <1>1, <2>1
      <4>3. QED
        BY <4>1, <4>2 DEF Restores
    <3>3. QED
      BY <1>1, <2>1, <3>1, <3>2
  <2>2. CASE k - Len(s) \in 1..Len(t)
    <3> DEFINE n == k - Len(s)
    <3>0. n \in 1..Len(t) /\ u[k] = t[n] /\ k = Len(s) + n
      BY <1>1, <2>2
    <3> HIDE DEF n
    <3>1. Kept(pll, t[n].on, c) \/ Restores(t, n + 1, pll, c)
      BY <3>0 DEF Sound, Tidy
    <3>2. ASSUME Restores(t, n + 1, pll, c)
          PROVE  Restores(u, k + 1, pll, c)
      <4>1. PICK j \in (n + 1)..Len(t) :
                   /\ IsWrite(t[j], pll) /\ Kept(pll, t[j].on, c)
                   /\ \A h \in (n + 1)..j : t[h].op # "if_locked"
        BY <3>2 DEF Restores
      <4>2. Len(s) + j \in (k + 1)..Len(u) /\ u[Len(s) + j] = t[j]
        BY <1>1, <3>0
      <4>3. ASSUME NEW h \in (k + 1)..(Len(s) + j)
            PROVE  u[h].op # "if_locked"
        <5>1. h - Len(s) \in (n + 1)..j /\ h - Len(s) \in 1..Len(t) /\ Len(s) + (h - Len(s)) = h
          BY <1>1, <3>0
        <5>2. QED
          BY <1>1, <4>1, <5>1
      <4>4. QED
        BY <4>1, <4>2, <4>3 DEF Restores
    <3>3. QED
      BY <3>0, <3>1, <3>2
  <2>3. QED
    BY <1>1, <2>1, <2>2
<1>4. QED
  BY <1>1, <1>2, <1>3 DEF Sound, u

LEMMA NoGatesSound ==
  ASSUME NEW s, NEW c, IsSteps(s), NoGates(s) \/ \A k \in 1..Len(s) : s[k].op # "en"
  PROVE  Sound(s, c)
BY DEF Sound, XWrites, Tidy, NoGates, IsWrite

\* The last write of a register restores it, and nothing ends the call before.
LEMMA LastWrite ==
  ASSUME NEW s, NEW c, NEW pll, NEW j \in 1..Len(s), IsSteps(s),
         IsWrite(s[j], pll), Kept(pll, s[j].on, c),
         \A k \in 1..Len(s) : k > j => ~IsWrite(s[k], pll),
         \A k \in 1..Len(s) : s[k].op # "if_locked"
  PROVE  Tidy(s, pll, c)
<1> SUFFICES ASSUME NEW k \in 1..Len(s), IsWrite(s[k], pll), ~Kept(pll, s[k].on, c)
             PROVE  Restores(s, k + 1, pll, c)
  BY DEF Tidy
<1>0. Len(s) \in Nat
  BY DEF IsSteps
<1>1. k < j
  BY <1>0
<1>2. j \in (k + 1)..Len(s) /\ \A h \in (k + 1)..j : h \in 1..Len(s)
  BY <1>0, <1>1
<1>3. QED
  BY <1>2 DEF Restores

LEMMA GatedSound ==
  ASSUME NEW clks, NEW pll \in PLLs, NEW t, NEW c, IsSteps(t), NoGates(t),
         Xed(en["PERIPHERAL_PLL"]), pll = "PERIPHERAL_PLL" => "NAND_X" \notin clks,
         c.en = en
  PROVE  Sound(Gated(clks, pll, t), c)
<1> DEFINE a == En(pll, en[pll] \ clks)
           b == En(pll, en[pll])
           s == <<a>> \o t \o <<b>>
<1>0. Sound(t, c)
  BY NoGatesSound
<1>1. IsWrite(a, pll) /\ a.on = en[pll] \ clks /\ IsWrite(b, pll) /\ b.on = en[pll]
      /\ (\A p : IsWrite(a, p) \/ IsWrite(b, p) => p = pll) /\ a.op = "en" /\ b.op = "en"
  BY DEF IsWrite, En
<1>f. \/ Gated(clks, pll, t) = t
      \/ Gated(clks, pll, t) = s
  BY GatedForm
<1> HIDE DEF a, b
<1>2. /\ IsSteps(s) /\ Len(t) \in Nat /\ Len(s) = Len(t) + 2
      /\ s[1] = a /\ s[Len(t) + 2] = b
      /\ \A k \in 1..Len(t) : s[k + 1] = t[k]
      /\ \A k \in 1..Len(s) : k = 1 \/ k = Len(t) + 2 \/ (k - 1 \in 1..Len(t) /\ k = (k - 1) + 1)
  BY ONLY IsSteps(t), Wrap
<1> HIDE DEF s
<1>3. \A k \in 1..Len(s) : k = 1 \/ k = Len(s) \/ s[k].op \notin {"en", "if_locked"}
  BY <1>2 DEF NoGates
<1>4. XWrites(s)
  <2>1. pll = "PERIPHERAL_PLL" => Xed(a.on) /\ Xed(b.on)
    BY <1>1 DEF Xed
  <2>2. QED
    BY <1>1, <1>2, <1>3, <2>1, ZenonT(40) DEF XWrites, IsWrite
<1>5. ASSUME NEW p \in PLLs
      PROVE  Tidy(s, p, c)
  <2>1. CASE p = pll
    <3>1. Kept(pll, b.on, c)
      BY <1>1 DEF Kept
    <3>2. Len(s) \in 1..Len(s) /\ s[Len(s)] = b
      BY <1>2
    <3>3. \A k \in 1..Len(s) : s[k].op # "if_locked"
      BY <1>1, <1>2, <1>3
    <3>4. \A k \in 1..Len(s) : k > Len(s) => ~IsWrite(s[k], pll)
      BY <1>2
    <3>5. QED
      BY <1>1, <1>2, <2>1, <3>1, <3>2, <3>3, <3>4, LastWrite
  <2>2. CASE p # pll
    BY <1>1, <1>2, <1>3, <2>2 DEF Tidy, IsWrite
  <2>3. QED
    BY <2>1, <2>2
<1>6. QED
  BY <1>0, <1>2, <1>4, <1>5, <1>f DEF Sound
\* The clocks of the flash controllers are turned off and on in steps of their own: all the
\* writes are of the peripheral PLL.
Flashing(s) ==
  \A k \in 1..Len(s) :
    /\ s[k].op # "if_locked"
    /\ s[k].op = "en" => s[k].pll = "PERIPHERAL_PLL" /\ Xed(s[k].on)

LEMMA FlashingConcat ==
  ASSUME NEW s, NEW t, IsSteps(s), IsSteps(t), Flashing(s), Flashing(t)
  PROVE  IsSteps(s \o t) /\ Flashing(s \o t)
BY Concat DEF Flashing

LEMMA FlashingParts ==
  /\ IsSteps(<<>>) /\ Flashing(<<>>)
  /\ \A on : Xed(on) => IsSteps(<<En("PERIPHERAL_PLL", on)>>) /\ Flashing(<<En("PERIPHERAL_PLL", on)>>)
  /\ \A c, val : IsSteps(CounterWrite(c, val)) /\ Flashing(CounterWrite(c, val))
<1>1. IsSteps(<<>>) /\ Flashing(<<>>)
  BY NoSteps DEF Flashing
<1>2. ASSUME NEW on, Xed(on)
      PROVE  IsSteps(<<En("PERIPHERAL_PLL", on)>>) /\ Flashing(<<En("PERIPHERAL_PLL", on)>>)
  <2> DEFINE a == En("PERIPHERAL_PLL", on)
  <2>1. a.op = "en" /\ a.pll = "PERIPHERAL_PLL" /\ a.on = on
    BY DEF En
  <2> HIDE DEF a
  <2>2. IsSteps(<<a>>) /\ Flashing(<<a>>)
    BY <1>2, <2>1, OneStep DEF Flashing
  <2>3. QED
    BY <2>2 DEF a
<1>3. ASSUME NEW c, NEW val
      PROVE  IsSteps(CounterWrite(c, val)) /\ Flashing(CounterWrite(c, val))
  BY Blocks DEF Flashing, NoGates
<1>4. QED
  BY <1>1, <1>2, <1>3

LEMMA FlashingSound ==
  ASSUME NEW s, NEW on, NEW c, IsSteps(s), Flashing(s), Xed(on), Kept("PERIPHERAL_PLL", on, c)
  PROVE  Sound(s \o <<En("PERIPHERAL_PLL", on)>>, c)
<1> DEFINE a == En("PERIPHERAL_PLL", on)
           u == s \o <<a>>
<1>1. a.op = "en" /\ a.pll = "PERIPHERAL_PLL" /\ a.on = on
  BY DEF En
<1>2. IsSteps(<<a>>) /\ Flashing(<<a>>)
  BY FlashingParts
<1> HIDE DEF a
<1>3. IsSteps(u) /\ Flashing(u)
  BY <1>2, FlashingConcat
<1>4. Len(u) \in 1..Len(u) /\ u[Len(u)] = a
  <2>1. /\ Len(s) \in Nat /\ Len(s \o <<a>>) = Len(s) + Len(<<a>>)
        /\ \A k \in 1..Len(<<a>>) : (s \o <<a>>)[Len(s) + k] = <<a>>[k]
    BY <1>2, Concat
  <2>2. Len(<<a>>) = 1 /\ <<a>>[1] = a
    BY OneStep
  <2>3. QED
    BY <2>1, <2>2
<1> HIDE DEF u
<1>5. XWrites(u)
  BY <1>3 DEF Flashing, XWrites, IsWrite
<1>6. ASSUME NEW pll \in PLLs
      PROVE  Tidy(u, pll, c)
  <2>1. CASE pll = "PERIPHERAL_PLL"
    <3>1. IsWrite(u[Len(u)], pll) /\ Kept(pll, u[Len(u)].on, c)
      BY <1>1, <1>4, <2>1 DEF IsWrite
    <3>2. \A k \in 1..Len(u) : ~(k > Len(u)) /\ u[k].op # "if_locked"
      BY <1>3, <1>4 DEF Flashing
    <3>3. QED
      BY <1>3, <1>4, <3>1, <3>2, LastWrite
  <2>2. CASE pll # "PERIPHERAL_PLL"
    BY <1>3, <2>2 DEF Flashing, Tidy, IsWrite
  <2>3. QED
    BY <2>1, <2>2
<1>7. QED
  BY <1>3, <1>5, <1>6 DEF Sound, u, a

LEMMA Unended ==
  ASSUME NEW s, IsSteps(s)
  PROVE  s \o <<>> = s
BY DEF IsSteps

LEMMA MainFlashSound ==
  ASSUME NEW c, NEW div, NEW b, Xed(en["PERIPHERAL_PLL"]), b.en = en, c = <<"MAIN_PLL", 4>>,
         b.about = c
  PROVE  Sound(MainFlash(c, div), b)
<1> DEFINE on    == en["PERIPHERAL_PLL"]
           off   == Flash("MAIN_PLL_C4")
           both  == {"NAND_X", "NAND"} \subseteq off
           temp  == IF both THEN on \ {"NAND"} ELSE on
           steps == CounterWrite(c, div - 1)
           first == IF both THEN <<En("PERIPHERAL_PLL", temp)>> ELSE <<>>
           gated == <<En("PERIPHERAL_PLL", temp \ (off \ {"NAND"}))>>
           last  == IF both THEN <<En("PERIPHERAL_PLL", on)>> ELSE <<>>
<1>1. MainFlash(c, div) = IF off \cap {"SDMMC", "NAND_X"} = {} THEN steps
                          ELSE first \o gated \o steps \o <<En("PERIPHERAL_PLL", on \ {"NAND"})>> \o last
  BY DEF MainFlash
<1>2. both \/ "NAND" \notin temp \ (off \ {"NAND"}) \/ "NAND_X" \notin off
  BY DEF Flash, Xed
<1>3. Xed(temp) /\ Xed(temp \ (off \ {"NAND"})) /\ Xed(on \ {"NAND"}) /\ Xed(on)
  BY <1>2 DEF Xed
<1>4. Sound(steps, b)
  BY Blocks, NoGatesSound
<1>5. IsSteps(first) /\ Flashing(first) /\ IsSteps(gated) /\ Flashing(gated)
  BY <1>3, FlashingParts
<1>6. IsSteps(steps) /\ Flashing(steps)
  BY FlashingParts
<1> DEFINE front == first \o gated \o steps
<1>7. IsSteps(front) /\ Flashing(front)
  <2> HIDE DEF first, gated, steps
  <2>1. IsSteps(first \o gated) /\ Flashing(first \o gated)
    BY <1>5, FlashingConcat
  <2>2. QED
    BY <1>6, <2>1, FlashingConcat
<1>8. Kept("PERIPHERAL_PLL", on \ {"NAND"}, b) /\ Kept("PERIPHERAL_PLL", on, b)
  BY DEF Kept
<1> DEFINE near == front \o <<En("PERIPHERAL_PLL", on \ {"NAND"})>>
<1>9. Sound(near, b) /\ IsSteps(near) /\ Flashing(near)
  <2> HIDE DEF front
  <2>1. Sound(near, b)
    BY <1>3, <1>7, <1>8, FlashingSound
  <2>2. QED
    BY <1>3, <1>7, FlashingParts, FlashingConcat, <2>1
<1>10. Sound(near \o last, b)
  <2> HIDE DEF near
  <2>1. CASE both
    <3>1. Sound(near \o <<En("PERIPHERAL_PLL", on)>>, b)
      BY <1>3, <1>8, <1>9, FlashingSound
    <3>2. QED
      BY <2>1, <3>1
  <2>2. CASE ~both
    <3>1. near \o <<>> = near
      BY <1>9, Unended
    <3>2. QED
      BY <1>9, <2>2, <3>1
  <2>3. QED
    BY <2>1, <2>2
<1> HIDE DEF first, gated, steps, last, on, off
<1>11. QED
  BY <1>1, <1>4, <1>10

LEMMA PeripheralFlashSound ==
  ASSUME NEW c, NEW div, NEW b, Xed(en["PERIPHERAL_PLL"]), b.en = en, c = <<"PERIPHERAL_PLL", 3>>,
         b.about = c
  PROVE  Sound(PeripheralFlash(c, div), b)
<1> DEFINE on    == en["PERIPHERAL_PLL"]
           off   == Flash("PERIPHERAL_PLL_C3")
           steps == CounterWrite(c, div - 1)
           first == <<En("PERIPHERAL_PLL", on \ (off \ {"NAND_X"}))>>
           gated == IF "NAND_X" \in off THEN <<En("PERIPHERAL_PLL", on \ off)>> ELSE <<>>
           last  == IF "NAND" \in off THEN <<En("PERIPHERAL_PLL", on)>> ELSE <<>>
<1>1. PeripheralFlash(c, div) =
        first \o gated \o steps \o <<En("PERIPHERAL_PLL", on \ {"NAND"})>> \o last
  BY DEF PeripheralFlash
<1>2. "NAND_X" \in off /\ "NAND" \in on => "NAND" \in off
  BY DEF Flash
<1>3. Xed(on \ (off \ {"NAND_X"})) /\ Xed(on \ off) /\ Xed(on \ {"NAND"}) /\ Xed(on)
  BY <1>2 DEF Xed
<1>4. IsSteps(first) /\ Flashing(first) /\ IsSteps(gated) /\ Flashing(gated)
  BY <1>3, FlashingParts
<1>5. IsSteps(steps) /\ Flashing(steps)
  BY FlashingParts
<1> DEFINE front == first \o gated \o steps
<1>6. IsSteps(front) /\ Flashing(front)
  <2> HIDE DEF first, gated, steps
  <2>1. IsSteps(first \o gated) /\ Flashing(first \o gated)
    BY <1>4, FlashingConcat
  <2>2. QED
    BY <1>5, <2>1, FlashingConcat
<1>7. Kept("PERIPHERAL_PLL", on \ {"NAND"}, b) /\ Kept("PERIPHERAL_PLL", on, b)
  BY DEF Kept
<1> DEFINE near == front \o <<En("PERIPHERAL_PLL", on \ {"NAND"})>>
<1>8. Sound(near, b) /\ IsSteps(near) /\ Flashing(near)
  <2> HIDE DEF front
  <2>1. Sound(near, b)
    BY <1>3, <1>6, <1>7, FlashingSound
  <2>2. QED
    BY <1>3, <1>6, FlashingParts, FlashingConcat, <2>1
<1>9. Sound(near \o last, b)
  <2> HIDE DEF near
  <2>1. CASE "NAND" \in off
    <3>1. Sound(near \o <<En("PERIPHERAL_PLL", on)>>, b)
      BY <1>3, <1>7, <1>8, FlashingSound
    <3>2. QED
      BY <2>1, <3>1
  <2>2. CASE "NAND" \notin off
    <3>1. near \o <<>> = near
      BY <1>8, Unended
    <3>2. QED
      BY <1>8, <2>2, <3>1
  <2>3. QED
    BY <2>1, <2>2
<1> HIDE DEF first, gated, steps, last, on, off
<1>10. QED
  BY <1>1, <1>9

LEMMA PeripheralBaseSound ==
  ASSUME NEW c, NEW div, NEW b, Xed(en["PERIPHERAL_PLL"]), b.en = en, c = <<"PERIPHERAL_PLL", 4>>,
         b.about = c
  PROVE  Sound(PeripheralBase(c, div), b)
<1> DEFINE on   == en["PERIPHERAL_PLL"]
           slow == L4Of("PERIPHERAL_PLL") \cap
                     ((IF "USB_MP" \in on THEN {"L4_MP"} ELSE {}) \cup
                      (IF "SPI_M" \in on THEN {"L4_SP"} ELSE {}))
           low  == on \ {"USB_MP", "SPI_M", "CAN0", "CAN1", "GPIO_DB"}
           w1 == En("MAIN_PLL", en["MAIN_PLL"] \ slow)
           w2 == En("PERIPHERAL_PLL", low)
           w3 == En("MAIN_PLL", en["MAIN_PLL"] \cup slow)
           w4 == En("PERIPHERAL_PLL", on)
           t  == CounterWrite(c, div - 1)
           u  == <<w1, w2>> \o t \o <<w3, w4>>
<1>1. PeripheralBase(c, div) = u
  BY DEF PeripheralBase
<1>2. slow \subseteq {"L4_MP", "L4_SP"}
  BY DEF L4Of
<1>3. Xed(low) /\ Xed(on)
  BY DEF Xed
<1>4. /\ w1.op = "en" /\ w1.pll = "MAIN_PLL" /\ w2.op = "en" /\ w2.pll = "PERIPHERAL_PLL"
      /\ w3.op = "en" /\ w3.pll = "MAIN_PLL" /\ w4.op = "en" /\ w4.pll = "PERIPHERAL_PLL"
      /\ w2.on = low /\ w3.on = en["MAIN_PLL"] \cup slow /\ w4.on = on
  BY DEF En
<1>5. Kept("PERIPHERAL_PLL", w4.on, b) /\ Kept("MAIN_PLL", w3.on, b)
  BY <1>2, <1>4 DEF Kept
<1>6. IsSteps(t) /\ NoGates(t)
  BY Blocks
<1> HIDE DEF w1, w2, w3, w4, t, low, on, slow
<1> DEFINE front == <<w1, w2>> \o t
<1>7. /\ IsSteps(front) /\ Len(t) \in Nat /\ Len(front) = 2 + Len(t)
      /\ front[1] = w1 /\ front[2] = w2 /\ \A k \in 1..Len(t) : front[2 + k] = t[k]
  <2>1. IsSteps(<<w1, w2>>) /\ Len(<<w1, w2>>) = 2 /\ <<w1, w2>>[1] = w1 /\ <<w1, w2>>[2] = w2
    BY TwoSteps
  <2>2. /\ IsSteps(<<w1, w2>> \o t) /\ Len(t) \in Nat
        /\ Len(<<w1, w2>> \o t) = Len(<<w1, w2>>) + Len(t)
        /\ \A k \in 1..Len(<<w1, w2>>) : (<<w1, w2>> \o t)[k] = <<w1, w2>>[k]
        /\ \A k \in 1..Len(t) : (<<w1, w2>> \o t)[Len(<<w1, w2>>) + k] = t[k]
    BY <1>6, <2>1, Concat
  <2>3. QED
    BY <2>1, <2>2
<1>8. u = front \o <<w3, w4>>
  OBVIOUS
<1> HIDE DEF front, u
<1>9. /\ IsSteps(u) /\ Len(u) = Len(t) + 4
      /\ u[1] = w1 /\ u[2] = w2 /\ u[Len(t) + 3] = w3 /\ u[Len(t) + 4] = w4
      /\ \A k \in 1..Len(t) : u[2 + k] = t[k]
  <2>1. IsSteps(<<w3, w4>>) /\ Len(<<w3, w4>>) = 2 /\ <<w3, w4>>[1] = w3 /\ <<w3, w4>>[2] = w4
    BY TwoSteps
  <2>2. /\ IsSteps(front \o <<w3, w4>>)
        /\ Len(front \o <<w3, w4>>) = Len(front) + Len(<<w3, w4>>)
        /\ \A k \in 1..Len(front) : (front \o <<w3, w4>>)[k] = front[k]
        /\ \A k \in 1..Len(<<w3, w4>>) : (front \o <<w3, w4>>)[Len(front) + k] = <<w3, w4>>[k]
    BY <1>7, <2>1, Concat
  <2>3. QED
    BY <1>7, <1>8, <2>1, <2>2
<1>10. \A k \in 1..Len(u) : \/ k = 1 \/ k = 2 \/ k = Len(t) + 3 \/ k = Len(t) + 4
                            \/ u[k].op \notin {"en", "if_locked"}
  <2> TAKE k \in 1..Len(u)
  <2>1. k = 1 \/ k = 2 \/ k = Len(t) + 3 \/ k = Len(t) + 4 \/ (k - 2 \in 1..Len(t) /\ k = 2 + (k - 2))
    BY <1>7, <1>9
  <2>2. QED
    BY <1>6, <1>9, <2>1 DEF NoGates
<1>11. XWrites(u)
  BY <1>3, <1>4, <1>9, <1>10 DEF XWrites, IsWrite
<1>12. ASSUME NEW pll \in PLLs
       PROVE  Tidy(u, pll, b)
  <2>1. \A k \in 1..Len(u) : u[k].op # "if_locked"
    BY <1>4, <1>9, <1>10
  <2>2. CASE pll = "MAIN_PLL"
    <3>1. Len(t) + 3 \in 1..Len(u) /\ IsWrite(u[Len(t) + 3], pll) /\ Kept(pll, u[Len(t) + 3].on, b)
      <4>1. Len(t) + 3 \in 1..Len(u) /\ u[Len(t) + 3] = w3
        BY <1>7, <1>9
      <4>2. QED
        BY <1>4, <1>5, <4>1, <2>2 DEF IsWrite
    <3>2. \A k \in 1..Len(u) : k > Len(t) + 3 => ~IsWrite(u[k], pll)
      BY <1>4, <1>7, <1>9, <2>2 DEF IsWrite
    <3>3. QED
      BY <1>9, <2>1, <3>1, <3>2, LastWrite
  <2>3. CASE pll = "PERIPHERAL_PLL"
    <3>1. Len(t) + 4 \in 1..Len(u) /\ IsWrite(u[Len(t) + 4], pll) /\ Kept(pll, u[Len(t) + 4].on, b)
      BY <1>4, <1>5, <1>7, <1>9, <2>3 DEF IsWrite
    <3>2. \A k \in 1..Len(u) : k > Len(t) + 4 => ~IsWrite(u[k], pll)
      BY <1>7, <1>9
    <3>3. QED
      BY <1>9, <2>1, <3>1, <3>2, LastWrite
  <2>4. CASE pll \notin {"MAIN_PLL", "PERIPHERAL_PLL"}
    BY <1>4, <1>9, <1>10, <2>4 DEF Tidy, IsWrite
  <2>5. QED
    BY <2>2, <2>3, <2>4
<1>13. QED
  BY <1>1, <1>9, <1>11, <1>12 DEF Sound
LEMMA ModesSound ==
  ASSUME NEW name, NEW about, NEW steps, NEW b, Modes(name, about, steps),
         Xed(en["PERIPHERAL_PLL"]), b.en = en
  PROVE  Sound(steps, b)
<1>p. "MAIN_PLL" \in PLLs
  BY DEF PLLs
<1>g. ASSUME NEW clks, NEW t, IsSteps(t), NoGates(t)
      PROVE  Sound(Gated(clks, "MAIN_PLL", t), b)
  BY <1>p, <1>g, GatedSound
<1>1. CASE steps = <<En("MAIN_PLL", en["MAIN_PLL"] \ {"L4_MP", "L4_SP"}), ClearSafeMode, Settle(TRUE),
                     En("MAIN_PLL", en["MAIN_PLL"])>>
  <2> DEFINE w1 == En("MAIN_PLL", en["MAIN_PLL"] \ {"L4_MP", "L4_SP"})
             w4 == En("MAIN_PLL", en["MAIN_PLL"])
             a2 == ClearSafeMode
             a3 == Settle(TRUE)
             u  == <<w1, a2, a3, w4>>
  <2>1. /\ w1.op = "en" /\ w1.pll = "MAIN_PLL" /\ w4.op = "en" /\ w4.pll = "MAIN_PLL"
        /\ w4.on = en["MAIN_PLL"] /\ a2.op = "safemod" /\ a3.op = "settle"
    BY DEF En, ClearSafeMode, Settle
  <2> HIDE DEF w1, w4, a2, a3
  <2>2. /\ IsSteps(u) /\ Len(u) = 4 /\ u[1] = w1 /\ u[2] = a2 /\ u[3] = a3 /\ u[4] = w4
    BY FourSteps
  <2>3. \A k \in 1..4 : k = 1 \/ k = 2 \/ k = 3 \/ k = 4
    OBVIOUS
  <2> HIDE DEF u
  <2>4. XWrites(u)
    BY <2>1, <2>2, <2>3 DEF XWrites, IsWrite
  <2>5. ASSUME NEW pll \in PLLs
        PROVE  Tidy(u, pll, b)
    <3>1. CASE pll = "MAIN_PLL"
      <4>1. IsWrite(u[4], pll) /\ Kept(pll, u[4].on, b) /\ 4 \in 1..Len(u)
        BY <2>1, <2>2, <3>1 DEF IsWrite, Kept
      <4>2. \A k \in 1..Len(u) : ~(k > 4) /\ u[k].op # "if_locked"
        BY <2>1, <2>2, <2>3
      <4>3. QED
        BY <2>2, <4>1, <4>2, LastWrite
    <3>2. CASE pll # "MAIN_PLL"
      BY <2>1, <2>2, <2>3, <3>2 DEF Tidy, IsWrite
    <3>3. QED
      BY <3>1, <3>2
  <2>6. QED
    BY <1>1, <2>2, <2>4, <2>5 DEF Sound, u, w1, w4, a2, a3
<1>2. ASSUME NEW pll \in PLLs, NEW use_input_mux \in BOOLEAN, steps = BypassEnable(pll, use_input_mux)
      PROVE  Sound(steps, b)
  <2>1. PICK set : steps = Gated(Slow(pll), "MAIN_PLL", Entering(pll, set))
    BY <1>2, EnableForm
  <2>2. IsSteps(Entering(pll, set)) /\ NoGates(Entering(pll, set))
    BY EnterLeave
  <2>3. QED
    BY <1>g, <2>1, <2>2
<1>3. ASSUME NEW pll \in PLLs, steps = BypassDisable(pll, TRUE)
      PROVE  Sound(steps, b)
  <2>1. steps = <<IfLocked(pll, TRUE)>> \o Gated(Slow(pll), "MAIN_PLL", Leaving(pll, TRUE))
    BY <1>3, DisableForm
  <2>2. Sound(Gated(Slow(pll), "MAIN_PLL", Leaving(pll, TRUE)), b)
    BY <1>g, EnterLeave
  <2>3. Sound(<<IfLocked(pll, TRUE)>>, b)
    <3> DEFINE a == IfLocked(pll, TRUE)
    <3>1. a.op = "if_locked"
      BY DEF IfLocked
    <3> HIDE DEF a
    <3>2. IsSteps(<<a>>) /\ \A k \in 1..Len(<<a>>) : <<a>>[k].op # "en"
      BY <3>1, OneStep
    <3>3. QED
      BY <3>2, NoGatesSound DEF a
  <2>4. QED
    BY <2>1, <2>2, <2>3, SoundConcat
<1>4. QED
  BY <1>1, <1>2, <1>3 DEF Modes

LEMMA DividersSound ==
  ASSUME NEW name, NEW about, NEW steps, NEW b, Dividers(name, about, steps),
         Xed(en["PERIPHERAL_PLL"]), b.en = en, b.about = about
  PROVE  Sound(steps, b)
<1>g. ASSUME NEW clks, NEW pll \in PLLs, NEW t, IsSteps(t), NoGates(t),
             pll = "PERIPHERAL_PLL" => "NAND_X" \notin clks
      PROVE  Sound(Gated(clks, pll, t), b)
  BY <1>g, GatedSound
<1>p. "MAIN_PLL" \in PLLs /\ "PERIPHERAL_PLL" \in PLLs
  BY DEF PLLs
<1>1. ASSUME NEW c \in Counters, NEW div \in Divs, about = c, steps = CounterSteps(c, div)
      PROVE  Sound(steps, b)
  <2>0. b.about = c
    BY <1>1
  <2>1. CASE c \in {<<"MAIN_PLL", 0>>, <<"MAIN_PLL", 2>>}
    <3>1. CounterSteps(c, div) = <<Count(c, (div \div Prediv) - 1)>>
      BY <2>1 DEF CounterSteps
    <3>2. QED
      BY <1>1, <3>1, Blocks, NoGatesSound
  <2>2. CASE c = <<"MAIN_PLL", 1>>
    <3>1. CounterSteps(c, div) = Gated(L4Of("MAIN_PLL"), "MAIN_PLL", <<Count(c, (div \div Prediv) - 1)>>)
      BY <2>2 DEF CounterSteps
    <3>2. QED
      BY <1>1, <1>p, <1>g, <3>1, Blocks
  <2>3. CASE c = <<"MAIN_PLL", 4>>
    <3>1. CounterSteps(c, div) = MainFlash(c, div)
      BY <2>3 DEF CounterSteps
    <3>2. QED
      BY <1>1, <2>0, <2>3, <3>1, MainFlashSound
  <2>4. CASE c = <<"PERIPHERAL_PLL", 3>>
    <3>1. CounterSteps(c, div) = PeripheralFlash(c, div)
      BY <2>4 DEF CounterSteps
    <3>2. QED
      BY <1>1, <2>0, <2>4, <3>1, PeripheralFlashSound
  <2>5. CASE c = <<"PERIPHERAL_PLL", 4>>
    <3>1. CounterSteps(c, div) = PeripheralBase(c, div)
      BY <2>5 DEF CounterSteps
    <3>2. QED
      BY <1>1, <2>0, <2>5, <3>1, PeripheralBaseSound
  <2>6. CASE c \notin {<<"MAIN_PLL", 0>>, <<"MAIN_PLL", 1>>, <<"MAIN_PLL", 2>>, <<"MAIN_PLL", 4>>,
                       <<"PERIPHERAL_PLL", 3>>, <<"PERIPHERAL_PLL", 4>>}
    <3> DEFINE pll == IF c = <<"MAIN_PLL", 5>> THEN "MAIN_PLL" ELSE "PERIPHERAL_PLL"
    <3>1. CounterSteps(c, div) = Gated(Fed(c), pll, CounterWrite(c, div - 1))
      BY <2>6 DEF CounterSteps
    <3>2. "NAND_X" \notin Fed(c)
      BY DEF Fed
    <3>3. pll \in PLLs
      BY <1>p
    <3> HIDE DEF pll
    <3>4. QED
      BY <1>1, <1>g, <3>1, <3>2, <3>3, Blocks
  <2>7. QED
    BY <2>1, <2>2, <2>3, <2>4, <2>5, <2>6
<1>2. ASSUME NEW x \in DOMAIN Divisors, NEW div \in Divs,
             steps = IF x = "L3_SP" THEN <<Divide(x, div)>> ELSE Gated({x}, GateOf(x), <<Divide(x, div)>>)
      PROVE  Sound(steps, b)
  <2>1. CASE x = "L3_SP"
    BY <1>2, <2>1, Blocks, NoGatesSound
  <2>2. CASE x # "L3_SP"
    <3>1. x # "NAND_X" /\ \E pll \in PLLs : x \in EnabledBy[pll]
      BY <2>2 DEF Divisors, PLLs, EnabledBy, MainClocks, PeripheralClocks
    <3>2. GateOf(x) \in PLLs
      BY <3>1 DEF GateOf
    <3>3. QED
      BY <1>2, <1>g, <2>2, <3>1, <3>2, Blocks
  <2>3. QED
    BY <2>1, <2>2
<1>3. ASSUME NEW div \in Divs,
             steps = Gated({"GPIO_DB"}, "PERIPHERAL_PLL", <<Divide("GPIO_DB", FieldOf(div))>>)
      PROVE  Sound(steps, b)
  BY <1>3, <1>p, <1>g, Blocks
<1>4. ASSUME NEW c, NEW div \in Divs,
             steps = Gated({"QSPI"}, "PERIPHERAL_PLL", CounterWrite(c, FieldOf(div)))
      PROVE  Sound(steps, b)
  BY <1>4, <1>p, <1>g, Blocks
<1>5. QED
  BY <1>1, <1>2, <1>3, <1>4 DEF Dividers

LEMMA MultipliesSound ==
  ASSUME NEW name, NEW about, NEW steps, NEW b, Multiplies(name, about, steps),
         Xed(en["PERIPHERAL_PLL"]), b.en = en
  PROVE  Sound(steps, b)
<1>1. PICK pll \in PLLs, mult \in Mults, div \in Divs :
             steps = VcoSteps(pll, mult, div, Methods(pll, mult, div))
  BY DEF Multiplies
<1> DEFINE method == Methods(pll, mult, div)
           byp    == NeedsBypass(pll, mult, div, method)
           enter  == IF byp THEN BypassEnable(pll, FALSE) ELSE <<>>
           writes == VcoWrites(pll, mult, div, method, byp)
           leave  == IF byp THEN BypassDisable(pll, FALSE) ELSE <<>>
           wait   == <<LockWait("MAIN_PLL")>>
<1>2. steps = enter \o writes \o wait \o leave
  BY <1>1 DEF VcoSteps
<1>p. "MAIN_PLL" \in PLLs
  BY DEF PLLs
<1>g. ASSUME NEW clks, NEW t, IsSteps(t), NoGates(t)
      PROVE  Sound(Gated(clks, "MAIN_PLL", t), b)
  BY <1>p, <1>g, GatedSound
<1>3. Sound(<<>>, b)
  BY Blocks, NoGatesSound
<1>4. Sound(BypassEnable(pll, FALSE), b)
  <2>1. PICK set : BypassEnable(pll, FALSE) = Gated(Slow(pll), "MAIN_PLL", Entering(pll, set))
    BY EnableForm
  <2>2. IsSteps(Entering(pll, set)) /\ NoGates(Entering(pll, set))
    BY EnterLeave
  <2>3. QED
    BY <1>g, <2>1, <2>2
<1>5. Sound(BypassDisable(pll, FALSE), b)
  <2>1. BypassDisable(pll, FALSE) =
          <<IfLocked(pll, FALSE)>> \o Gated(Slow(pll), "MAIN_PLL", Leaving(pll, FALSE))
    BY DisableForm
  <2>2. Sound(Gated(Slow(pll), "MAIN_PLL", Leaving(pll, FALSE)), b)
    BY <1>g, EnterLeave
  <2>3. Sound(<<IfLocked(pll, FALSE)>>, b)
    <3> DEFINE a == IfLocked(pll, FALSE)
    <3>1. a.op = "if_locked"
      BY DEF IfLocked
    <3> HIDE DEF a
    <3>2. IsSteps(<<a>>) /\ \A k \in 1..Len(<<a>>) : <<a>>[k].op # "en"
      BY <3>1, OneStep
    <3>3. QED
      BY <3>2, NoGatesSound DEF a
  <2>4. QED
    BY <2>1, <2>2, <2>3, SoundConcat
<1>6. Sound(writes, b)
  BY WritesForm, NoGatesSound
<1>7. Sound(wait, b)
  BY Blocks, NoGatesSound
<1>8. Sound(enter, b) /\ Sound(leave, b)
  BY <1>3, <1>4, <1>5
<1> HIDE DEF enter, writes, wait, leave
<1>9. Sound(enter \o writes, b)
  BY <1>6, <1>8, SoundConcat
<1>10. Sound(enter \o writes \o wait, b)
  BY <1>7, <1>9, SoundConcat
<1>11. QED
  BY <1>2, <1>8, <1>10, SoundConcat

LEMMA ProgramSound ==
  ASSUME NEW name, NEW about, NEW steps, NEW b, Program(name, about, steps),
         Xed(en["PERIPHERAL_PLL"]), b.en = en, b.about = about
  PROVE  /\ IsSteps(steps) /\ XWrites(steps)
         /\ name \notin {"clock_enable", "clock_disable"} => Sound(steps, b)
<1>1. CASE Modes(name, about, steps)
  BY <1>1, ModesSound DEF Sound
<1>2. CASE Switches(name, about, steps)
  <2>1. PICK clk \in Clocks :
          LET pll == GateOf(clk)
              on  == en[GateOf(clk)]
          IN \/ /\ clk = "NAND_X" /\ name = "clock_disable"
                /\ steps = <<En(pll, on \ {"NAND"}), En(pll, on \ {"NAND", "NAND_X"})>>
             \/ /\ clk \notin {"USB_MP", "NAND", "NAND_X"} /\ name = "clock_disable"
                /\ steps = <<En(pll, on \ {clk})>>
             \/ /\ clk = "NAND" /\ name = "clock_enable"
                /\ steps = <<En(pll, on \cup {"NAND_X"}), En(pll, on \cup {"NAND_X", "NAND"})>>
             \/ /\ clk # "NAND" /\ name = "clock_enable"
                /\ steps = <<En(pll, on \cup {clk})>>
    BY <1>2 DEF Switches
  <2> DEFINE pll == GateOf(clk)
             on  == en[GateOf(clk)]
  <2>2. ASSUME NEW v, pll = "PERIPHERAL_PLL" => Xed(v)
        PROVE  IsSteps(<<En(pll, v)>>) /\ XWrites(<<En(pll, v)>>)
    <3> DEFINE a == En(pll, v)
    <3>1. a.op = "en" /\ a.pll = pll /\ a.on = v
      BY DEF En
    <3> HIDE DEF a
    <3>2. IsSteps(<<a>>) /\ XWrites(<<a>>)
      BY <2>2, <3>1, OneStep DEF XWrites, IsWrite
    <3>3. QED
      BY <3>2 DEF a
  <2>3. ASSUME NEW v, NEW w, pll = "PERIPHERAL_PLL" => Xed(v) /\ Xed(w)
        PROVE  IsSteps(<<En(pll, v), En(pll, w)>>) /\ XWrites(<<En(pll, v), En(pll, w)>>)
    <3> DEFINE a == En(pll, v)
               d == En(pll, w)
    <3>1. a.op = "en" /\ a.pll = pll /\ a.on = v /\ d.op = "en" /\ d.pll = pll /\ d.on = w
      BY DEF En
    <3> HIDE DEF a, d
    <3>2. IsSteps(<<a, d>>) /\ XWrites(<<a, d>>)
      BY <2>3, <3>1, TwoSteps DEF XWrites, IsWrite
    <3>3. QED
      BY <3>2 DEF a, d
  <2>4. pll = "PERIPHERAL_PLL" => Xed(on)
    OBVIOUS
  <2> HIDE DEF pll, on
  <2>5. /\ pll = "PERIPHERAL_PLL" => Xed(on \ {"NAND"}) /\ Xed(on \ {"NAND", "NAND_X"})
        /\ pll = "PERIPHERAL_PLL" /\ clk # "NAND_X" => Xed(on \ {clk})
        /\ pll = "PERIPHERAL_PLL" => Xed(on \cup {"NAND_X"}) /\ Xed(on \cup {"NAND_X", "NAND"})
        /\ pll = "PERIPHERAL_PLL" /\ clk # "NAND" => Xed(on \cup {clk})
    BY <2>4 DEF Xed
  <2>6. name \in {"clock_enable", "clock_disable"}
    BY <2>1
  <2>7. IsSteps(steps) /\ XWrites(steps)
    BY <2>1, <2>2, <2>3, <2>5 DEF pll, on
  <2>8. QED
    BY <2>6, <2>7
<1>3. CASE Selects(name, about, steps)
  <2>1. PICK x, s : steps = <<Select(x, s)>>
    BY <1>3 DEF Selects
  <2> DEFINE a == Select(x, s)
  <2>2. a.op = "select"
    BY DEF Select
  <2> HIDE DEF a
  <2>3. IsSteps(<<a>>) /\ \A k \in 1..Len(<<a>>) : <<a>>[k].op # "en"
    BY <2>2, OneStep
  <2>4. Sound(steps, b)
    BY <2>1, <2>3, NoGatesSound DEF a
  <2>5. QED
    BY <2>4 DEF Sound
<1>4. CASE Dividers(name, about, steps)
  BY <1>4, DividersSound DEF Sound
<1>5. CASE Multiplies(name, about, steps)
  BY <1>5, MultipliesSound DEF Sound
<1>6. CASE Configures(name, about, steps)
  <2>1. PICK pll, cfg : steps = ConfigureSteps(pll, cfg)
    BY <1>6 DEF Configures, ConfigureSteps
  <2>2. IsSteps(steps) /\ \A k \in 1..Len(steps) : steps[k].op # "en"
    BY <2>1, ConfigureForm
  <2>3. Sound(steps, b)
    BY <2>2, NoGatesSound
  <2>4. QED
    BY <2>3 DEF Sound
<1>7. QED
  BY <1>1, <1>2, <1>3, <1>4, <1>5, <1>6 DEF Program
\* What a call has left to do restores the gates it has found.
GatesInv ==
  todo # <<>> /\ clk_call.name \notin {"clock_enable", "clock_disable"} =>
    \A pll \in PLLs :
      /\ Kept(pll, en[pll], clk_call) \/ Restores(todo, 1, pll, clk_call)
      /\ Tidy(todo, pll, clk_call)

EnInv == TypeOK /\ Xed(en["PERIPHERAL_PLL"]) /\ XWrites(todo) /\ GatesInv

LEMMA InitEn == ClockInit => EnInv
<1> SUFFICES ASSUME ClockInit
             PROVE  EnInv
  OBVIOUS
<1>1. en = EnabledBy /\ todo = <<>>
  BY DEF ClockInit
<1>2. EnabledBy = [pll \in PLLs |-> EnabledBy[pll]]
  BY DEF EnabledBy, PLLs
<1>3. Xed(EnabledBy["PERIPHERAL_PLL"])
  BY DEF EnabledBy, PeripheralClocks, Xed
<1>4. XWrites(<<>>)
  BY DEF XWrites
<1>5. QED
  BY <1>1, <1>2, <1>3, <1>4, NoSteps DEF EnInv, TypeOK, GatesInv

LEMMA BeginEn ==
  ASSUME NEW name, NEW about, NEW steps, EnInv, Begin(name, about, steps), Program(name, about, steps)
  PROVE  EnInv'
<1> DEFINE b == [name |-> name, about |-> about, en |-> en, bypass |-> bypass]
<1>1. todo' = steps /\ clk_call' = b /\ en' = en
  BY DEF Begin, registers
<1>2. b.name = name /\ b.about = about /\ b.en = en
  OBVIOUS
<1> HIDE DEF b
<1>3. /\ IsSteps(steps) /\ XWrites(steps)
      /\ name \notin {"clock_enable", "clock_disable"} => Sound(steps, b)
  BY <1>2, ProgramSound DEF EnInv
<1>4. \A pll \in PLLs : Kept(pll, en[pll], b)
  BY <1>2 DEF Kept
<1>5. GatesInv'
  BY <1>1, <1>2, <1>3, <1>4 DEF GatesInv, Sound
<1>6. QED
  BY <1>1, <1>3, <1>5 DEF EnInv, TypeOK

\* The rest of a program restores what the whole of it does, but for its first step.
LEMMA RestRestores ==
  ASSUME NEW s, NEW c, NEW pll, NEW i \in Nat, IsSteps(s), s # <<>>, i >= 1, Restores(s, i + 1, pll, c)
  PROVE  Restores(Tail(s), i, pll, c)
<1>1. /\ Len(s) \in Nat \ {0} /\ Len(Tail(s)) = Len(s) - 1
      /\ \A k \in 1..Len(Tail(s)) : Tail(s)[k] = s[k + 1]
  BY Rest
<1>2. PICK j \in (i + 1)..Len(s) :
             /\ IsWrite(s[j], pll) /\ Kept(pll, s[j].on, c)
             /\ \A h \in (i + 1)..j : s[h].op # "if_locked"
  BY DEF Restores
<1> DEFINE t == Tail(s)
<1> HIDE DEF t
<1>3. j - 1 \in i..Len(t) /\ t[j - 1] = s[j]
  BY <1>1 DEF t
<1>4. ASSUME NEW h \in i..(j - 1)
      PROVE  t[h].op # "if_locked"
  <2>1. h + 1 \in (i + 1)..j /\ t[h] = s[h + 1]
    BY <1>1 DEF t
  <2>2. QED
    BY <1>2, <2>1
<1>5. QED
  BY <1>2, <1>3, <1>4 DEF Restores, t

LEMMA TakenEn ==
  ASSUME EnInv, todo # <<>>, Taken(todo[1])
  PROVE  EnInv'
<1> DEFINE a == todo[1]
           t == Tail(todo)
<1>1. /\ IsSteps(t) /\ Len(todo) \in Nat \ {0} /\ Len(t) = Len(todo) - 1
      /\ \A k \in 1..Len(t) : t[k] = todo[k + 1] /\ k + 1 \in 2..Len(todo)
  BY Rest DEF EnInv, TypeOK
<1>2. /\ todo' = t /\ (t # <<>> => clk_call' = clk_call)
      /\ en' = IF a.op = "en" THEN [en EXCEPT ![a.pll] = a.on] ELSE en
  BY DEF Taken
<1> HIDE DEF a, t
<1>3. \A pll \in PLLs : en'[pll] = IF IsWrite(a, pll) THEN a.on ELSE en[pll]
  BY <1>2 DEF EnInv, TypeOK, IsWrite
<1>4. TypeOK'
  <2>1. en' = [pll \in PLLs |-> en'[pll]]
    BY <1>2 DEF EnInv, TypeOK
  <2>2. QED
    BY <1>1, <1>2, <2>1 DEF TypeOK
<1>5. Xed(en["PERIPHERAL_PLL"])' /\ XWrites(t)
  <2>1. "PERIPHERAL_PLL" \in PLLs /\ 1 \in 1..Len(todo)
    BY <1>1 DEF PLLs
  <2>2. IsWrite(a, "PERIPHERAL_PLL") => Xed(a.on)
    BY <2>1 DEF EnInv, XWrites, a
  <2>3. XWrites(t)
    BY <1>1 DEF EnInv, XWrites
  <2>4. QED
    BY <1>3, <2>1, <2>2, <2>3 DEF EnInv
<1>6. GatesInv'
  <2> SUFFICES ASSUME t # <<>>, clk_call.name \notin {"clock_enable", "clock_disable"}, NEW pll \in PLLs
               PROVE  /\ Kept(pll, en'[pll], clk_call) \/ Restores(t, 1, pll, clk_call)
                      /\ Tidy(t, pll, clk_call)
    BY <1>2 DEF GatesInv
  <2>1. /\ Kept(pll, en[pll], clk_call) \/ Restores(todo, 1, pll, clk_call)
        /\ Tidy(todo, pll, clk_call)
    BY DEF EnInv, GatesInv
  <2>2. \A i \in Nat : i >= 1 /\ Restores(todo, i + 1, pll, clk_call) => Restores(t, i, pll, clk_call)
    BY RestRestores DEF EnInv, TypeOK, t
  <2>n. Restores(todo, 1 + 1, pll, clk_call) => Restores(t, 1, pll, clk_call)
    <3>1. 1 \in Nat /\ 1 >= 1
      OBVIOUS
    <3>2. QED
      BY <2>2, <3>1
  <2>3. ASSUME IsWrite(a, pll)
        PROVE  Kept(pll, en'[pll], clk_call) \/ Restores(t, 1, pll, clk_call)
    <3>1. 1 \in 1..Len(todo) /\ IsWrite(todo[1], pll)
      BY <1>1, <2>3 DEF a
    <3>2. Kept(pll, a.on, clk_call) \/ Restores(todo, 1 + 1, pll, clk_call)
      BY <2>1, <3>1 DEF Tidy, a
    <3>3. QED
      BY <1>3, <2>n, <2>3, <3>2
  <2>4. ASSUME ~IsWrite(a, pll)
        PROVE  Kept(pll, en'[pll], clk_call) \/ Restores(t, 1, pll, clk_call)
    <3>1. Restores(todo, 1, pll, clk_call) => Restores(todo, 1 + 1, pll, clk_call)
      <4>1. ASSUME NEW j \in 1..Len(todo), IsWrite(todo[j], pll), Kept(pll, todo[j].on, clk_call),
                   \A h \in 1..j : todo[h].op # "if_locked"
            PROVE  Restores(todo, 1 + 1, pll, clk_call)
        <5>1. j # 1
          BY <2>4, <4>1 DEF a
        <5>2. j \in (1 + 1)..Len(todo) /\ \A h \in (1 + 1)..j : h \in 1..j
          BY <1>1, <5>1
        <5>3. QED
          BY <4>1, <5>2 DEF Restores
      <4>2. QED
        BY <4>1 DEF Restores
    <3>2. QED
      BY <1>3, <2>1, <2>n, <2>4, <3>1
  <2>5. Tidy(t, pll, clk_call)
    <3> SUFFICES ASSUME NEW k \in 1..Len(t), IsWrite(t[k], pll)
                 PROVE  Kept(pll, t[k].on, clk_call) \/ Restores(t, k + 1, pll, clk_call)
      BY DEF Tidy
    <3>1. k + 1 \in 1..Len(todo) /\ t[k] = todo[k + 1] /\ k + 1 \in Nat /\ k + 1 >= 1
      BY <1>1
    <3>2. Kept(pll, t[k].on, clk_call) \/ Restores(todo, (k + 1) + 1, pll, clk_call)
      BY <2>1, <3>1 DEF Tidy
    <3>3. QED
      BY <2>2, <3>1, <3>2
  <2>6. QED
    BY <2>3, <2>4, <2>5
<1>7. QED
  BY <1>2, <1>4, <1>5, <1>6 DEF EnInv

\* A call that ends here has restored the gates.
LEMMA Ended ==
  ASSUME EnInv, Returns, ClockStep, clk_call.name \notin {"clock_enable", "clock_disable"},
         NEW pll \in PLLs
  PROVE  Kept(pll, en'[pll], clk_call)
<1>0. IsSteps(todo) /\ Len(todo) \in Nat \ {0} /\ (Tail(todo) = <<>> <=> Len(todo) = 1)
  BY Rest DEF EnInv, TypeOK, Returns, ClockIdle
<1>1. todo # <<>> /\ todo' = <<>>
  BY DEF Returns, ClockIdle
<1>2. /\ Kept(pll, en[pll], clk_call) \/ Restores(todo, 1, pll, clk_call)
      /\ Tidy(todo, pll, clk_call)
  BY <1>1 DEF EnInv, GatesInv
<1>3. CASE GivenUp(todo[1])
  <2>1. todo[1].op = "if_locked" /\ en' = en
    BY <1>3 DEF GivenUp, registers
  <2>2. ~Restores(todo, 1, pll, clk_call)
    BY <1>0, <2>1 DEF Restores
  <2>3. QED
    BY <1>2, <2>1, <2>2
<1>4. CASE Taken(todo[1])
  <2>1. Len(todo) = 1
    BY <1>0, <1>1, <1>4 DEF Taken
  <2>2. en'[pll] = IF IsWrite(todo[1], pll) THEN todo[1].on ELSE en[pll]
    BY <1>4 DEF Taken, EnInv, TypeOK, IsWrite
  <2>3. ~Restores(todo, 2, pll, clk_call)
    BY <2>1 DEF Restores
  <2>4. ~IsWrite(todo[1], pll) => ~Restores(todo, 1, pll, clk_call)
    BY <2>1 DEF Restores
  <2>5. IsWrite(todo[1], pll) => Kept(pll, todo[1].on, clk_call)
    BY <1>2, <2>1, <2>3 DEF Tidy
  <2>6. QED
    BY <1>2, <2>2, <2>4, <2>5
<1>5. CASE Polled
  BY <1>1, <1>5 DEF Polled
<1>6. QED
  BY <1>0, <1>3, <1>4, <1>5, Steps

LEMMA StepEn ==
  ASSUME EnInv, [ClockNext]_clockVars
  PROVE  EnInv'
<1>0. ASSUME UNCHANGED <<en, todo, clk_call>>
      PROVE  EnInv'
  BY <1>0 DEF EnInv, TypeOK, GatesInv
<1>1. CASE ClockCall
  <2>1. CASE Refused
    BY <1>0, <2>1 DEF Refused, registers
  <2>2. CASE Begun
    BY <2>2, BeginEn DEF Begun
  <2>3. QED
    BY <1>1, <2>1, <2>2, Calls
<1>2. CASE ClockStep
  <2>1. IsSteps(todo)
    BY DEF EnInv, TypeOK
  <2>2. CASE Polled
    BY <1>0, <2>2 DEF Polled, registers
  <2>3. CASE GivenUp(todo[1])
    <3>1. XWrites(<<>>)
      BY DEF XWrites
    <3>2. todo' = <<>> /\ en' = en
      BY <2>3 DEF GivenUp, registers
    <3>3. QED
      BY <3>1, <3>2, NoSteps DEF EnInv, TypeOK, GatesInv
  <2>4. CASE todo # <<>> /\ Taken(todo[1])
    BY <2>4, TakenEn
  <2>5. QED
    BY <1>2, <2>1, <2>2, <2>3, <2>4, Steps
<1>3. CASE Hardware
  BY <1>0, <1>3 DEF Hardware, registers
<1>4. CASE UNCHANGED clockVars
  BY <1>0, <1>4 DEF clockVars, registers
<1>5. QED
  BY <1>1, <1>2, <1>3, <1>4 DEF ClockNext

\* What a call has left to do is in order, in every reachable state.
THEOREM EnInvariant == ClockSpec => []EnInv
BY InitEn, StepEn, PTL DEF ClockSpec

\* The NAND controller is never clocked without its interface (alt_clk_clock_enable and
\* _disable, and the calls that turn its clocks off for a while).
THEOREM NandNeverAlone == ClockSpec => []NandAfterX
<1>1. EnInv => NandAfterX
  BY DEF EnInv, Xed, NandAfterX
<1>2. QED
  BY <1>1, EnInvariant, PTL

\* A call leaves the clocks on or off as it has found them, also when a PLL does not lock.
THEOREM GatesAsFound == ClockSpec => GatesRestored
<1> DEFINE A == Returns /\ clk_call.name \notin {"clock_enable", "clock_disable"} =>
                  \A pll \in PLLs : \A clk \in EnabledBy[pll] :
                    \/ clk \in en'[pll] <=> clk \in clk_call.en[pll]
                    \/ clk = "NAND" /\ clk_call.about \in {<<"MAIN_PLL", 4>>, <<"PERIPHERAL_PLL", 3>>}
                    \/ clk \in {"L4_MP", "L4_SP"} /\ clk_call.about = <<"PERIPHERAL_PLL", 4>>
<1>1. ASSUME EnInv, [ClockNext]_clockVars
      PROVE  [A]_clockVars
  <2> SUFFICES ASSUME Returns, clk_call.name \notin {"clock_enable", "clock_disable"},
                      ~UNCHANGED clockVars
               PROVE  \A pll \in PLLs : Kept(pll, en'[pll], clk_call)
    BY DEF Kept
  <2>1. ClockStep
    <3>1. ~ClockIdle /\ todo' = <<>>
      BY DEF Returns
    <3>2. ~ClockCall
      BY <3>1 DEF ClockCall
    <3>3. ~Hardware
      BY <3>1 DEF Hardware, ClockIdle
    <3>4. QED
      BY <1>1, <3>2, <3>3 DEF ClockNext
  <2>2. QED
    BY <1>1, <2>1, Ended
<1>2. QED
  BY <1>1, EnInvariant, PTL DEF ClockSpec, GatesRestored
-----------------------------------------------------------------------------
(* The bypass: when a call reports success.                                *)

\* A gated part consists of the part, and of writes of EN around it.
LEMMA GatedParts ==
  ASSUME NEW clks, NEW pll, NEW t, IsSteps(t)
  PROVE  /\ IsSteps(Gated(clks, pll, t))
         /\ \A k \in 1..Len(Gated(clks, pll, t)) :
              \/ Gated(clks, pll, t)[k].op = "en"
              \/ \E i \in 1..Len(t) : Gated(clks, pll, t)[k] = t[i]
         /\ \A i \in 1..Len(t) :
              \E k \in 1..Len(Gated(clks, pll, t)) : Gated(clks, pll, t)[k] = t[i]
<1> DEFINE a == En(pll, en[pll] \ clks)
           b == En(pll, en[pll])
           s == <<a>> \o t \o <<b>>
           g == Gated(clks, pll, t)
<1>1. IsSteps(g) /\ (g = t \/ g = s)
  BY GatedForm
<1>2. a.op = "en" /\ b.op = "en"
  BY DEF En
<1> HIDE DEF a, b
<1>3. /\ IsSteps(s) /\ Len(t) \in Nat /\ Len(s) = Len(t) + 2
      /\ s[1] = a /\ s[Len(t) + 2] = b
      /\ \A k \in 1..Len(t) : s[k + 1] = t[k]
      /\ \A k \in 1..Len(s) : k = 1 \/ k = Len(t) + 2 \/ (k - 1 \in 1..Len(t) /\ k = (k - 1) + 1)
  BY ONLY IsSteps(t), Wrap
<1> HIDE DEF s, g
<1>4. ASSUME NEW k \in 1..Len(s)
      PROVE  s[k].op = "en" \/ \E i \in 1..Len(t) : s[k] = t[i]
  BY <1>2, <1>3
<1>5. ASSUME NEW i \in 1..Len(t)
      PROVE  \E k \in 1..Len(s) : s[k] = t[i]
  <2>1. i + 1 \in 1..Len(s) /\ s[i + 1] = t[i]
    BY <1>3
  <2>2. QED
    BY <2>1
<1>6. /\ \A k \in 1..Len(g) : g[k].op = "en" \/ \E i \in 1..Len(t) : g[k] = t[i]
      /\ \A i \in 1..Len(t) : \E k \in 1..Len(g) : g[k] = t[i]
  BY <1>1, <1>4, <1>5
<1>7. QED
  BY <1>1, <1>6 DEF g

\* A step of Leaving: the bypass is cleared in it, and its wait may count.
Leave(a, pll, kept) ==
  \/ a.op \in {"en", "outrstall"}
  \/ a.op = "settle" /\ (a.kept => kept)
  \/ a.op = "bypass" /\ a.set = {} /\ (pll # "SDRAM_PLL" => a.clr = {Bit[pll]})

\* The steps of alt_clk_pll_bypass_disable.
Left(s, pll, kept) ==
  /\ IsSteps(s) /\ Len(s) \in Nat \ {0}
  /\ s[1].op = "if_locked" /\ s[1].pll = pll /\ s[1].kept = kept
  /\ \A k \in 2..Len(s) : Leave(s[k], pll, kept)
  /\ \E k \in 2..Len(s) : s[k].op = "bypass"

\* The steps of alt_clk_pll_bypass_enable.
Entered(s, pll) ==
  /\ IsSteps(s)
  /\ \A k \in 1..Len(s) :
       \/ s[k].op = "en" \/ (s[k].op = "settle" /\ ~s[k].kept)
       \/ s[k].op = "bypass" /\ s[k].set = {Bit[pll]}

LEMMA DisableShape ==
  ASSUME NEW pll \in PLLs, NEW kept \in BOOLEAN
  PROVE  Left(BypassDisable(pll, kept), pll, kept)
<1> DEFINE t == Leaving(pll, kept)
           g == Gated(Slow(pll), "MAIN_PLL", t)
           a == IfLocked(pll, kept)
           s == BypassDisable(pll, kept)
<1>1. s = <<a>> \o g
  BY DisableForm
<1>2. a.op = "if_locked" /\ a.pll = pll /\ a.kept = kept
  BY DEF IfLocked
<1>3. /\ IsSteps(t) /\ Len(t) = 5 /\ t[4].op = "bypass"
      /\ \A i \in 1..5 : Leave(t[i], pll, kept)
  <2>1. pll = "MAIN_PLL" \/ pll = "PERIPHERAL_PLL" \/ pll = "SDRAM_PLL"
    BY DEF PLLs
  <2>2. IsSteps(t) /\ Len(t) = 5
    BY EnterLeave
  <2>3. \A i \in 1..5 : i = 1 \/ i = 2 \/ i = 3 \/ i = 4 \/ i = 5
    OBVIOUS
  <2>4. t[4].op = "bypass" /\ \A i \in 1..5 : Leave(t[i], pll, kept)
    BY <2>1, <2>3 DEF Leaving, Leave, OutRstAll, Settle, Bypass
  <2>5. QED
    BY <2>2, <2>4
<1> HIDE DEF t
<1>4. /\ IsSteps(g)
      /\ \A k \in 1..Len(g) : g[k].op = "en" \/ \E i \in 1..Len(t) : g[k] = t[i]
      /\ \A i \in 1..Len(t) : \E k \in 1..Len(g) : g[k] = t[i]
  <2>1. IsSteps(t)
    BY <1>3
  <2>2. QED
    BY ONLY <2>1, GatedParts
<1> HIDE DEF g, a, s
<1>5. /\ \A k \in 1..Len(g) : Leave(g[k], pll, kept)
      /\ \E k \in 1..Len(g) : g[k].op = "bypass"
  <2>1. \A k \in 1..Len(g) : Leave(g[k], pll, kept)
    <3>1. \A k \in 1..Len(g) : g[k].op = "en" => Leave(g[k], pll, kept)
      BY DEF Leave
    <3>2. QED
      BY <1>3, <1>4, <3>1
  <2>2. PICK k \in 1..Len(g) : g[k] = t[4]
    <3>1. 4 \in 1..Len(t)
      BY <1>3
    <3>2. QED
      BY <1>4, <3>1
  <2>3. t[4].op = "bypass"
    BY <1>3
  <2>4. QED
    BY <2>1, <2>2, <2>3
<1>6. /\ IsSteps(s) /\ Len(g) \in Nat /\ Len(s) = 1 + Len(g) /\ s[1] = a
      /\ \A k \in 1..Len(g) : s[1 + k] = g[k]
  <2>1. IsSteps(<<a>>) /\ Len(<<a>>) = 1 /\ <<a>>[1] = a
    BY OneStep
  <2>2. /\ IsSteps(<<a>> \o g) /\ Len(g) \in Nat /\ Len(<<a>> \o g) = Len(<<a>>) + Len(g)
        /\ \A k \in 1..Len(<<a>>) : (<<a>> \o g)[k] = <<a>>[k]
        /\ \A k \in 1..Len(g) : (<<a>> \o g)[Len(<<a>>) + k] = g[k]
    BY <1>4, <2>1, Concat
  <2>3. QED
    BY <1>1, <2>1, <2>2
<1>7. ASSUME NEW k \in 2..Len(s)
      PROVE  Leave(s[k], pll, kept)
  <2>1. k - 1 \in 1..Len(g) /\ s[k] = g[k - 1]
    BY <1>6
  <2>2. QED
    BY <1>5, <2>1
<1>8. \E k \in 2..Len(s) : s[k].op = "bypass"
  <2>1. PICK k \in 1..Len(g) : g[k].op = "bypass"
    BY <1>5
  <2>2. 1 + k \in 2..Len(s) /\ s[1 + k] = g[k]
    BY <1>6
  <2>3. QED
    BY <2>1, <2>2
<1>9. QED
  BY <1>2, <1>6, <1>7, <1>8 DEF Left, s

LEMMA EnableShape ==
  ASSUME NEW pll \in PLLs
  PROVE  Entered(BypassEnable(pll, FALSE), pll)
<1> DEFINE s == BypassEnable(pll, FALSE)
<1>1. PICK set : set = {Bit[pll]} /\ s = Gated(Slow(pll), "MAIN_PLL", Entering(pll, set))
  <2>1. FALSE \in BOOLEAN
    OBVIOUS
  <2>2. QED
    BY <2>1, EnableForm
<1> DEFINE t == Entering(pll, set)
<1>2. IsSteps(t)
  BY EnterLeave
<1>3. \A i \in 1..Len(t) : \/ t[i].op = "settle" /\ ~t[i].kept
                           \/ t[i].op = "bypass" /\ t[i].set = {Bit[pll]}
  <2> DEFINE a == Bypass({}, set)
             b == Settle(FALSE)
             d == Bypass({SrcBit[pll]}, set)
  <2>1. a.op = "bypass" /\ a.set = set /\ b.op = "settle" /\ ~b.kept /\ d.op = "bypass" /\ d.set = set
    BY DEF Bypass, Settle
  <2>2. t = <<a, b>> \/ t = <<d>>
    BY DEF Entering
  <2> HIDE DEF a, b, d, t
  <2>3. QED
    BY <1>1, <2>1, <2>2
<1> HIDE DEF t
<1> DEFINE g == Gated(Slow(pll), "MAIN_PLL", t)
<1>4. /\ IsSteps(g)
      /\ \A k \in 1..Len(g) : g[k].op = "en" \/ \E i \in 1..Len(t) : g[k] = t[i]
  BY <1>2, GatedParts
<1>5. s = g
  BY <1>1 DEF t
<1> HIDE DEF g, s
<1>6. IsSteps(s) /\ \A k \in 1..Len(s) : s[k].op = "en" \/ \E i \in 1..Len(t) : s[k] = t[i]
  BY <1>4, <1>5
<1>7. QED
  BY <1>3, <1>6 DEF Entered, s
Silent(a) == a.op # "lock" /\ (a.op = "settle" => ~a.kept)

\* The lock is waited for before step k, and what that wait returns stays.
Waited(s, k) ==
  \E j \in 1..(k - 1) :
     /\ s[j].op = "lock" /\ s[j].pll = "MAIN_PLL"
     /\ \A h \in (j + 1)..Len(s) : Silent(s[h])

\* It has been waited for: the PLL was locked then, or the call does not succeed.
KnownBy(s, plls, st) ==
  "MAIN_PLL" \in plls \/ (st = "TMO" /\ \A h \in 1..Len(s) : Silent(s[h]))

Known(s) == KnownBy(s, seen, clk_status)

\* From step i on the main PLL leaves its bypass.
Clears(s, i) == \E k \in i..Len(s) : s[k].op = "bypass" /\ s[k].clr = {"MAINPLL"} /\ s[k].set = {}

DisableInv ==
  todo # <<>> /\ clk_call.name = "bypass_disable" /\ clk_call.about # <<"SDRAM_PLL">> =>
    /\ \A k \in 1..Len(todo) :
         /\ todo[k].op = "if_locked" => todo[k].kept
         /\ todo[k].op = "bypass" => Bit[clk_call.about[1]] \notin todo[k].set
    /\ \/ Bit[clk_call.about[1]] \notin bypass
       \/ \E k \in 1..Len(todo) : todo[k].op = "bypass" /\ Bit[clk_call.about[1]] \in todo[k].clr

VcoInv ==
  todo # <<>> /\ clk_call.name = "vco_cfg_set" /\ clk_call.about = <<"MAIN_PLL">> =>
    /\ bypass \subseteq clk_call.bypass \cup {"MAINPLL"}
    /\ "MAINPLL" \in clk_call.bypass \/ "MAINPLL" \notin bypass \/ Clears(todo, 1)
    /\ \A k \in 1..Len(todo) :
         /\ todo[k].op = "bypass" =>
              /\ todo[k].set \subseteq {"MAINPLL"}
              /\ "MAINPLL" \in todo[k].set => Clears(todo, k + 1)
         /\ todo[k].op = "if_locked" =>
              /\ todo[k].pll = "MAIN_PLL" /\ ~todo[k].kept
              /\ Waited(todo, k) \/ Known(todo)

BypassInv == IsSteps(todo) /\ DisableInv /\ VcoInv

\* The steps of alt_clk_pll_vco_cfg_set for the main PLL: up to n the VCO is written, in
\* bypass if need be; its lock is waited for; then it leaves the bypass.
LEMMA VcoShape ==
  ASSUME NEW mult, NEW div, NEW s, s = VcoSteps("MAIN_PLL", mult, div, Methods("MAIN_PLL", mult, div))
  PROVE  /\ IsSteps(s) /\ Len(s) \in Nat
         /\ \E n \in Nat :
              /\ n + 1 \in 1..Len(s) /\ s[n + 1].op = "lock" /\ s[n + 1].pll = "MAIN_PLL"
              /\ \A k \in 1..n : /\ s[k].op # "if_locked"
                                 /\ s[k].op = "bypass" => /\ s[k].set = {"MAINPLL"}
                                                          /\ Clears(s, n + 2)
              /\ \A k \in (n + 2)..Len(s) :
                   \/ k = n + 2 /\ s[k].op = "if_locked" /\ s[k].pll = "MAIN_PLL" /\ ~s[k].kept
                   \/ Leave(s[k], "MAIN_PLL", FALSE)
<1> DEFINE method == Methods("MAIN_PLL", mult, div)
           byp    == NeedsBypass("MAIN_PLL", mult, div, method)
           enter  == IF byp THEN BypassEnable("MAIN_PLL", FALSE) ELSE <<>>
           writes == VcoWrites("MAIN_PLL", mult, div, method, byp)
           leave  == IF byp THEN BypassDisable("MAIN_PLL", FALSE) ELSE <<>>
           lock   == LockWait("MAIN_PLL")
<1>1. s = enter \o writes \o <<lock>> \o leave
  BY DEF VcoSteps
<1>p. "MAIN_PLL" \in PLLs /\ FALSE \in BOOLEAN /\ Bit["MAIN_PLL"] = "MAINPLL"
  BY DEF PLLs, Bit
<1>2. /\ IsSteps(enter)
      /\ \A k \in 1..Len(enter) : \/ enter[k].op \in {"en", "settle"}
                                  \/ byp /\ enter[k].op = "bypass" /\ enter[k].set = {"MAINPLL"}
  <2>1. CASE byp
    <3>1. enter = BypassEnable("MAIN_PLL", FALSE)
      BY <2>1
    <3> HIDE DEF enter
    <3>2. /\ IsSteps(enter)
          /\ \A k \in 1..Len(enter) :
               \/ enter[k].op = "en" \/ (enter[k].op = "settle" /\ ~enter[k].kept)
               \/ enter[k].op = "bypass" /\ enter[k].set = {Bit["MAIN_PLL"]}
      BY <1>p, <3>1, EnableShape DEF Entered
    <3>3. QED
      BY <1>p, <2>1, <3>2
  <2>2. CASE ~byp
    BY <2>2, NoSteps
  <2>3. QED
    BY <2>1, <2>2
<1>3. IsSteps(writes) /\ \A k \in 1..Len(writes) : writes[k].op \in {"vco", "lock"}
  BY WritesForm
<1>4. /\ IsSteps(leave) /\ Len(leave) \in Nat
      /\ \A k \in 1..Len(leave) :
           \/ k = 1 /\ leave[k].op = "if_locked" /\ leave[k].pll = "MAIN_PLL" /\ ~leave[k].kept
           \/ Leave(leave[k], "MAIN_PLL", FALSE)
      /\ byp => \E k \in 1..Len(leave) : /\ leave[k].op = "bypass" /\ leave[k].clr = {"MAINPLL"}
                                         /\ leave[k].set = {}
  <2>1. CASE byp
    <3>1. leave = BypassDisable("MAIN_PLL", FALSE)
      BY <2>1
    <3> HIDE DEF leave
    <3>2. /\ IsSteps(leave) /\ Len(leave) \in Nat \ {0}
          /\ leave[1].op = "if_locked" /\ leave[1].pll = "MAIN_PLL" /\ leave[1].kept = FALSE
          /\ \A k \in 2..Len(leave) : Leave(leave[k], "MAIN_PLL", FALSE)
          /\ \E k \in 2..Len(leave) : leave[k].op = "bypass"
      BY <1>p, <3>1, DisableShape, ZenonT(40) DEF Left
    <3>3. \A k \in 1..Len(leave) : k = 1 \/ k \in 2..Len(leave)
      BY <3>2
    <3>4. PICK k \in 2..Len(leave) : leave[k].op = "bypass"
      BY <3>2
    <3>5. leave[k].clr = {"MAINPLL"} /\ leave[k].set = {} /\ k \in 1..Len(leave)
      <4>1. Leave(leave[k], "MAIN_PLL", FALSE)
        BY <3>2
      <4>2. QED
        BY <1>p, <3>2, <3>4, <4>1 DEF Leave
    <3>6. QED
      BY <3>2, <3>3, <3>4, <3>5
  <2>2. CASE ~byp
    BY <2>2, NoSteps
  <2>3. QED
    BY <2>1, <2>2
<1>5. lock.op = "lock" /\ lock.pll = "MAIN_PLL"
  BY DEF LockWait
<1> HIDE DEF enter, writes, leave, lock, byp
<1> DEFINE front == enter \o writes
           n == Len(front)
<1>6. /\ IsSteps(front) /\ n \in Nat
      /\ \A k \in 1..n : /\ front[k].op # "if_locked"
                         /\ front[k].op = "bypass" => byp /\ front[k].set = {"MAINPLL"}
  <2>1. /\ IsSteps(front) /\ Len(enter) \in Nat /\ Len(writes) \in Nat
        /\ Len(front) = Len(enter) + Len(writes)
        /\ \A k \in 1..Len(enter) : front[k] = enter[k]
        /\ \A k \in 1..Len(writes) : front[Len(enter) + k] = writes[k]
        /\ \A k \in 1..Len(front) :
             \/ k \in 1..Len(enter)
             \/ k - Len(enter) \in 1..Len(writes) /\ k = Len(enter) + (k - Len(enter))
    <3>1. IsSteps(enter) /\ IsSteps(writes)
      BY <1>2, <1>3
    <3>2. QED
      BY ONLY <3>1, Concat
  <2> HIDE DEF front
  <2>2. ASSUME NEW k \in 1..Len(front)
        PROVE  /\ front[k].op # "if_locked"
               /\ front[k].op = "bypass" => byp /\ front[k].set = {"MAINPLL"}
    <3>1. CASE k \in 1..Len(enter)
      BY <1>2, <2>1, <3>1
    <3>2. CASE k - Len(enter) \in 1..Len(writes)
      <4>1. front[k] = writes[k - Len(enter)]
        BY <2>1, <3>2
      <4>2. front[k].op \in {"vco", "lock"}
        BY <1>3, <3>2, <4>1
      <4>3. QED
        BY <4>2
    <3>3. QED
      BY <2>1, <3>1, <3>2
  <2>3. QED
    BY <2>1, <2>2
<1>7. s = front \o <<lock>> \o leave
  BY <1>1
<1> HIDE DEF front
<1> DEFINE near == front \o <<lock>>
<1>8. /\ IsSteps(near) /\ Len(near) = n + 1 /\ near[n + 1] = lock
      /\ \A k \in 1..n : near[k] = front[k]
  <2>1. IsSteps(<<lock>>) /\ Len(<<lock>>) = 1 /\ <<lock>>[1] = lock
    BY OneStep
  <2>2. /\ IsSteps(front \o <<lock>>)
        /\ Len(front \o <<lock>>) = Len(front) + Len(<<lock>>)
        /\ \A k \in 1..Len(front) : (front \o <<lock>>)[k] = front[k]
        /\ \A k \in 1..Len(<<lock>>) : (front \o <<lock>>)[Len(front) + k] = <<lock>>[k]
    BY <1>6, <2>1, Concat
  <2>3. QED
    BY <2>1, <2>2
<1>9. s = near \o leave
  BY <1>7
<1> HIDE DEF near
<1>10. /\ IsSteps(s) /\ Len(s) = (n + 1) + Len(leave)
       /\ \A k \in 1..(n + 1) : s[k] = near[k]
       /\ \A k \in 1..Len(leave) : s[(n + 1) + k] = leave[k]
  <2>1. /\ IsSteps(near \o leave) /\ Len(near \o leave) = Len(near) + Len(leave)
        /\ \A k \in 1..Len(near) : (near \o leave)[k] = near[k]
        /\ \A k \in 1..Len(leave) : (near \o leave)[Len(near) + k] = leave[k]
    BY <1>4, <1>8, Concat
  <2>2. QED
    BY <1>8, <1>9, <2>1
<1>n. n \in Nat
  BY <1>6
<1> HIDE DEF n
<1>11. /\ Len(s) \in Nat /\ n + 1 \in 1..Len(s) /\ s[n + 1] = lock /\ \A k \in 1..n : s[k] = front[k]
  BY <1>n, <1>4, <1>8, <1>10
<1>12. ASSUME NEW k \in (n + 2)..Len(s)
       PROVE  \/ k = n + 2 /\ s[k].op = "if_locked" /\ s[k].pll = "MAIN_PLL" /\ ~s[k].kept
              \/ Leave(s[k], "MAIN_PLL", FALSE)
  <2>1. k - (n + 1) \in 1..Len(leave) /\ s[k] = leave[k - (n + 1)]
    <3>1. k - (n + 1) \in 1..Len(leave) /\ k = (n + 1) + (k - (n + 1))
      BY <1>n, <1>4, <1>10
    <3>2. QED
      BY <1>10, <3>1
  <2>2. k - (n + 1) = 1 <=> k = n + 2
    BY <1>n
  <2>3. QED
    BY <1>4, <2>1, <2>2
<1>13. byp => Clears(s, n + 2)
  <2> SUFFICES ASSUME byp
               PROVE  Clears(s, n + 2)
    OBVIOUS
  <2>1. PICK k \in 1..Len(leave) : leave[k].op = "bypass" /\ leave[k].clr = {"MAINPLL"} /\ leave[k].set = {}
    BY <1>4
  <2>2. (n + 1) + k \in (n + 2)..Len(s) /\ s[(n + 1) + k] = leave[k]
    BY <1>n, <1>4, <1>10
  <2>3. QED
    BY <2>1, <2>2 DEF Clears
<1>14. \A k \in 1..n : /\ s[k].op # "if_locked"
                       /\ s[k].op = "bypass" => s[k].set = {"MAINPLL"} /\ Clears(s, n + 2)
  BY <1>6, <1>11, <1>13 DEF n
<1>15. QED
  BY <1>n, <1>5, <1>10, <1>11, <1>12, <1>14
LEMMA BeginBypass ==
  ASSUME NEW name, NEW about, NEW steps, EnInv, Begin(name, about, steps), Program(name, about, steps)
  PROVE  BypassInv'
<1> DEFINE b == [name |-> name, about |-> about, en |-> en, bypass |-> bypass]
<1>1. todo' = steps /\ clk_call' = b /\ bypass' = bypass
  BY DEF Begin, registers
<1>2. b.name = name /\ b.about = about /\ b.en = en /\ b.bypass = bypass
  OBVIOUS
<1> HIDE DEF b
<1>3. IsSteps(steps)
  BY <1>2, ProgramSound DEF EnInv
<1>4. DisableInv'
  <2> SUFFICES ASSUME name = "bypass_disable", about # <<"SDRAM_PLL">>
               PROVE  /\ \A k \in 1..Len(steps) :
                           /\ steps[k].op = "if_locked" => steps[k].kept
                           /\ steps[k].op = "bypass" => Bit[about[1]] \notin steps[k].set
                      /\ \/ Bit[about[1]] \notin bypass
                         \/ \E k \in 1..Len(steps) :
                              steps[k].op = "bypass" /\ Bit[about[1]] \in steps[k].clr
    BY <1>1, <1>2 DEF DisableInv
  <2>1. PICK pll \in PLLs : about = <<pll>> /\ steps = BypassDisable(pll, TRUE)
    BY DEF Program, Modes, Switches, Selects, Dividers, Multiplies, Configures
  <2>2. pll # "SDRAM_PLL" /\ about[1] = pll
    BY <2>1
  <2>3. Left(steps, pll, TRUE)
    BY <2>1, DisableShape
  <2>4. \A k \in 1..Len(steps) : k = 1 \/ k \in 2..Len(steps)
    BY <2>3 DEF Left
  <2>5. ASSUME NEW k \in 1..Len(steps)
        PROVE  /\ steps[k].op = "if_locked" => steps[k].kept
               /\ steps[k].op = "bypass" => steps[k].set = {} /\ steps[k].clr = {Bit[pll]}
    BY <2>2, <2>3, <2>4 DEF Left, Leave
  <2>6. \E k \in 1..Len(steps) : steps[k].op = "bypass"
    BY <2>3 DEF Left
  <2>7. QED
    BY <2>2, <2>5, <2>6
<1>5. VcoInv'
  <2> SUFFICES ASSUME name = "vco_cfg_set", about = <<"MAIN_PLL">>
               PROVE  \A k \in 1..Len(steps) :
                        /\ steps[k].op = "bypass" =>
                             /\ steps[k].set \subseteq {"MAINPLL"}
                             /\ "MAINPLL" \in steps[k].set => Clears(steps, k + 1)
                        /\ steps[k].op = "if_locked" =>
                             steps[k].pll = "MAIN_PLL" /\ ~steps[k].kept /\ Waited(steps, k)
    BY <1>1, <1>2 DEF VcoInv
  <2>1. PICK mult, div : steps = VcoSteps("MAIN_PLL", mult, div, Methods("MAIN_PLL", mult, div))
    BY DEF Program, Modes, Switches, Selects, Dividers, Multiplies, Configures
  <2>2. PICK n \in Nat :
          /\ n + 1 \in 1..Len(steps) /\ steps[n + 1].op = "lock" /\ steps[n + 1].pll = "MAIN_PLL"
          /\ \A k \in 1..n : /\ steps[k].op # "if_locked"
                             /\ steps[k].op = "bypass" => /\ steps[k].set = {"MAINPLL"}
                                                          /\ Clears(steps, n + 2)
          /\ \A k \in (n + 2)..Len(steps) :
               \/ k = n + 2 /\ steps[k].op = "if_locked" /\ steps[k].pll = "MAIN_PLL" /\ ~steps[k].kept
               \/ Leave(steps[k], "MAIN_PLL", FALSE)
    BY <2>1, VcoShape, ZenonT(40)
  <2>0. Len(steps) \in Nat
    BY <1>3 DEF IsSteps
  <2> TAKE k \in 1..Len(steps)
  <2>3. CASE k \in 1..n
    <3>1. Clears(steps, n + 2) => Clears(steps, k + 1)
      BY <2>0, <2>3 DEF Clears
    <3>2. QED
      BY <2>2, <2>3, <3>1
  <2>4. CASE k = n + 1
    BY <2>2, <2>4
  <2>5. CASE k \in (n + 2)..Len(steps)
    <3>1. steps[k].op = "bypass" => steps[k].set = {}
      BY <2>2, <2>5 DEF Leave
    <3>2. ASSUME steps[k].op = "if_locked"
          PROVE  steps[k].pll = "MAIN_PLL" /\ ~steps[k].kept /\ Waited(steps, k)
      <4>1. k = n + 2 /\ steps[k].pll = "MAIN_PLL" /\ ~steps[k].kept
        BY <2>2, <2>5, <3>2 DEF Leave
      <4>2. \A h \in (n + 2)..Len(steps) : Silent(steps[h])
        BY <2>2 DEF Leave, Silent
      <4>3. n + 1 \in 1..(k - 1) /\ (n + 1) + 1 = n + 2 /\ \A h \in ((n + 1) + 1)..(k - 1) : FALSE
        BY <4>1
      <4>4. Waited(steps, k)
        BY <2>2, <4>2, <4>3 DEF Waited
      <4>5. QED
        BY <4>1, <4>4
    <3>3. QED
      BY <3>1, <3>2
  <2>6. k \in 1..n \/ k = n + 1 \/ k \in (n + 2)..Len(steps)
    BY <2>0
  <2>7. QED
    BY <2>3, <2>4, <2>5, <2>6
<1>6. QED
  BY <1>1, <1>3, <1>4, <1>5 DEF BypassInv

\* What one step does with the bypass of the main PLL in alt_clk_pll_vco_cfg_set.
LEMMA VcoBypass ==
  ASSUME BypassInv, todo # <<>>, Taken(todo[1]),
         clk_call.name = "vco_cfg_set", clk_call.about = <<"MAIN_PLL">>
  PROVE  /\ bypass' \subseteq clk_call.bypass \cup {"MAINPLL"}
         /\ "MAINPLL" \in clk_call.bypass \/ "MAINPLL" \notin bypass' \/ Clears(todo, 2)
<1>0. IsSteps(todo) /\ Len(todo) \in Nat \ {0} /\ 1 \in 1..Len(todo)
  BY Rest DEF BypassInv
<1>1. /\ bypass \subseteq clk_call.bypass \cup {"MAINPLL"}
      /\ "MAINPLL" \in clk_call.bypass \/ "MAINPLL" \notin bypass \/ Clears(todo, 1)
      /\ todo[1].op = "bypass" =>
           /\ todo[1].set \subseteq {"MAINPLL"}
           /\ "MAINPLL" \in todo[1].set => Clears(todo, 2)
  <2>1. 1 + 1 = 2
    OBVIOUS
  <2>2. todo[1].op = "bypass" => /\ todo[1].set \subseteq {"MAINPLL"}
                                 /\ "MAINPLL" \in todo[1].set => Clears(todo, 1 + 1)
    BY <1>0 DEF BypassInv, VcoInv
  <2>3. QED
    BY <2>1, <2>2 DEF BypassInv, VcoInv
<1>2. bypass' = IF todo[1].op = "bypass" THEN (bypass \ todo[1].clr) \cup todo[1].set ELSE bypass
  BY DEF Taken
<1>3. Clears(todo, 1) =>
        Clears(todo, 2) \/ (todo[1].op = "bypass" /\ todo[1].clr = {"MAINPLL"} /\ todo[1].set = {})
  <2>1. \A k \in 1..Len(todo) : k = 1 \/ k \in 2..Len(todo)
    BY <1>0
  <2>2. QED
    BY <2>1 DEF Clears
<1>4. QED
  BY <1>1, <1>2, <1>3

LEMMA TakenBypass ==
  ASSUME BypassInv, todo # <<>>, Taken(todo[1]), Heard(todo[1])
  PROVE  BypassInv'
<1> DEFINE a == todo[1]
           t == Tail(todo)
<1>1. /\ IsSteps(t) /\ Len(todo) \in Nat \ {0} /\ Len(t) = Len(todo) - 1
      /\ \A k \in 1..Len(t) : t[k] = todo[k + 1] /\ k + 1 \in 2..Len(todo)
  BY Rest DEF BypassInv
<1>2. /\ todo' = t /\ (t # <<>> => clk_call' = clk_call)
      /\ bypass' = IF a.op = "bypass" THEN (bypass \ a.clr) \cup a.set ELSE bypass
  BY DEF Taken
<1>h. /\ a.op \notin {"vco", "select"} => locked' = locked
      /\ a.op = "lock" => clk_status' = IF a.pll \in locked THEN "SUCCESS" ELSE "TMO"
      /\ a.op # "lock" /\ ~(a.op = "settle" /\ a.kept) => clk_status' = clk_status
      /\ todo' # <<>> => /\ seen \subseteq seen'
                         /\ a.op = "lock" /\ a.pll \in locked => a.pll \in seen'
  BY DEF Heard
<1>v. clk_call.name = "vco_cfg_set" /\ clk_call.about = <<"MAIN_PLL">> =>
        /\ bypass' \subseteq clk_call.bypass \cup {"MAINPLL"}
        /\ "MAINPLL" \in clk_call.bypass \/ "MAINPLL" \notin bypass' \/ Clears(todo, 2)
  BY VcoBypass
<1>3. DisableInv'
  <2> SUFFICES ASSUME t # <<>>, clk_call.name = "bypass_disable", clk_call.about # <<"SDRAM_PLL">>
               PROVE  /\ \A k \in 1..Len(t) :
                           /\ t[k].op = "if_locked" => t[k].kept
                           /\ t[k].op = "bypass" => Bit[clk_call.about[1]] \notin t[k].set
                      /\ \/ Bit[clk_call.about[1]] \notin bypass'
                         \/ \E k \in 1..Len(t) : t[k].op = "bypass" /\ Bit[clk_call.about[1]] \in t[k].clr
    BY <1>2 DEF DisableInv
  <2> DEFINE bit == Bit[clk_call.about[1]]
  <2>1. /\ \A k \in 1..Len(todo) :
             /\ todo[k].op = "if_locked" => todo[k].kept
             /\ todo[k].op = "bypass" => bit \notin todo[k].set
        /\ bit \notin bypass \/ \E k \in 1..Len(todo) : todo[k].op = "bypass" /\ bit \in todo[k].clr
    BY DEF BypassInv, DisableInv
  <2> HIDE DEF bit
  <2>2. a.op = "bypass" => bit \notin a.set
    BY <1>1, <2>1 DEF a
  <2>3. CASE bit \notin bypass
    BY <1>1, <1>2, <2>1, <2>2, <2>3 DEF bit
  <2>4. ASSUME NEW k \in 1..Len(todo), todo[k].op = "bypass", bit \in todo[k].clr
        PROVE  bit \notin bypass' \/ \E h \in 1..Len(t) : t[h].op = "bypass" /\ bit \in t[h].clr
    <3>1. CASE k = 1
      BY <1>2, <2>2, <2>4, <3>1 DEF a
    <3>2. CASE k # 1
      <4>1. k - 1 \in 1..Len(t) /\ (k - 1) + 1 = k
        BY <1>1, <3>2
      <4>2. t[k - 1] = todo[k]
        BY <1>1, <4>1
      <4>3. QED
        BY <2>4, <4>1, <4>2
    <3>3. QED
      BY <3>1, <3>2
  <2>5. \A k \in 1..Len(t) : /\ t[k].op = "if_locked" => t[k].kept
                             /\ t[k].op = "bypass" => bit \notin t[k].set
    BY <1>1, <2>1
  <2>6. QED
    BY <2>1, <2>3, <2>4, <2>5 DEF bit
<1>4. VcoInv'
  <2> SUFFICES ASSUME t # <<>>, clk_call.name = "vco_cfg_set", clk_call.about = <<"MAIN_PLL">>
               PROVE  /\ bypass' \subseteq clk_call.bypass \cup {"MAINPLL"}
                      /\ "MAINPLL" \in clk_call.bypass \/ "MAINPLL" \notin bypass' \/ Clears(t, 1)
                      /\ \A k \in 1..Len(t) :
                           /\ t[k].op = "bypass" =>
                                /\ t[k].set \subseteq {"MAINPLL"}
                                /\ "MAINPLL" \in t[k].set => Clears(t, k + 1)
                           /\ t[k].op = "if_locked" =>
                                /\ t[k].pll = "MAIN_PLL" /\ ~t[k].kept
                                /\ Waited(t, k) \/ KnownBy(t, seen', clk_status')
    BY <1>2 DEF VcoInv, Known
  <2>1. \A k \in 1..Len(todo) :
          /\ todo[k].op = "bypass" =>
               /\ todo[k].set \subseteq {"MAINPLL"}
               /\ "MAINPLL" \in todo[k].set => Clears(todo, k + 1)
          /\ todo[k].op = "if_locked" =>
               /\ todo[k].pll = "MAIN_PLL" /\ ~todo[k].kept
               /\ Waited(todo, k) \/ Known(todo)
    BY DEF BypassInv, VcoInv
  <2>2. ASSUME NEW i \in Nat, i >= 1, Clears(todo, i + 1)
        PROVE  Clears(t, i)
    <3>1. PICK k \in (i + 1)..Len(todo) :
                 todo[k].op = "bypass" /\ todo[k].clr = {"MAINPLL"} /\ todo[k].set = {}
      BY <2>2 DEF Clears
    <3>2. k - 1 \in i..Len(t) /\ k - 1 \in 1..Len(t) /\ (k - 1) + 1 = k
      BY <1>1, <2>2
    <3>3. t[k - 1] = todo[k]
      BY <1>1, <3>2
    <3>4. QED
      BY <3>1, <3>2, <3>3 DEF Clears
  <2>3. Clears(todo, 2) => Clears(t, 1)
    <3>1. 1 \in Nat /\ 1 >= 1 /\ 1 + 1 = 2
      OBVIOUS
    <3>2. Clears(todo, 1 + 1) => Clears(t, 1)
      BY <2>2, <3>1
    <3>3. QED
      BY <3>1, <3>2
  <2>4. ASSUME NEW k \in 1..Len(t), t[k].op = "bypass"
        PROVE  /\ t[k].set \subseteq {"MAINPLL"}
               /\ "MAINPLL" \in t[k].set => Clears(t, k + 1)
    <3>1. k + 1 \in 1..Len(todo) /\ t[k] = todo[k + 1] /\ k + 1 \in Nat /\ k + 1 >= 1
      BY <1>1
    <3>2. /\ t[k].set \subseteq {"MAINPLL"}
          /\ "MAINPLL" \in t[k].set => Clears(todo, (k + 1) + 1)
      BY <2>1, <2>4, <3>1
    <3>3. QED
      BY <2>2, <3>1, <3>2
  <2>5. ASSUME NEW k \in 1..Len(t), t[k].op = "if_locked"
        PROVE  t[k].pll = "MAIN_PLL" /\ ~t[k].kept /\ (Waited(t, k) \/ KnownBy(t, seen', clk_status'))
    <3>1. k + 1 \in 1..Len(todo) /\ t[k] = todo[k + 1] /\ (k + 1) - 1 = k
      BY <1>1
    <3>2. t[k].pll = "MAIN_PLL" /\ ~t[k].kept /\ (Waited(todo, k + 1) \/ Known(todo))
      BY <2>1, <2>5, <3>1
    <3>s. \A h \in 1..Len(t) : Silent(todo[h + 1]) => Silent(t[h])
      BY <1>1
    <3>3. ASSUME NEW j \in 1..k, todo[j].op = "lock", todo[j].pll = "MAIN_PLL",
                 \A h \in (j + 1)..Len(todo) : Silent(todo[h])
          PROVE  Waited(t, k) \/ KnownBy(t, seen', clk_status')
      <4>1. CASE j = 1
        <5>1. "MAIN_PLL" \in seen' \/ clk_status' = "TMO"
          BY <1>2, <1>h, <3>3, <4>1 DEF a
        <5>4. \A h \in 1..Len(t) : h + 1 \in (j + 1)..Len(todo)
          BY <1>1, <4>1
        <5>5. \A h \in 1..Len(t) : Silent(t[h])
          BY <3>3, <3>s, <5>4
        <5>6. QED
          BY <5>1, <5>5 DEF KnownBy
      <4>2. CASE j # 1
        <5>1. j - 1 \in 1..(k - 1) /\ j - 1 \in 1..Len(t) /\ (j - 1) + 1 = j
          BY <1>1, <4>2
        <5>2. t[j - 1] = todo[j]
          BY <1>1, <5>1
        <5>5. \A h \in ((j - 1) + 1)..Len(t) : h + 1 \in (j + 1)..Len(todo) /\ h \in 1..Len(t)
          BY <1>1, <5>1
        <5>6. \A h \in ((j - 1) + 1)..Len(t) : Silent(t[h])
          BY <3>3, <3>s, <5>5
        <5>7. QED
          BY <3>3, <5>1, <5>2, <5>6 DEF Waited
      <4>3. QED
        BY <4>1, <4>2
    <3>4. CASE Waited(todo, k + 1)
      <4>1. PICK j \in 1..k :
               /\ todo[j].op = "lock" /\ todo[j].pll = "MAIN_PLL"
               /\ \A h \in (j + 1)..Len(todo) : Silent(todo[h])
        BY <3>1, <3>4 DEF Waited
      <4>2. QED
        BY <3>2, <3>3, <4>1
    <3>5. CASE Known(todo)
      <4>1. "MAIN_PLL" \in seen \/ (clk_status = "TMO" /\ \A h \in 1..Len(todo) : Silent(todo[h]))
        BY <3>5 DEF Known, KnownBy
      <4>2. 1 \in 1..k /\ 1 \in 1..Len(todo)
        BY <1>1
      <4>3. seen \subseteq seen'
        BY <1>2, <1>h
      <4>6. ASSUME clk_status = "TMO", \A h \in 1..Len(todo) : Silent(todo[h])
            PROVE  clk_status' = "TMO" /\ \A h \in 1..Len(t) : Silent(t[h])
        <5>1. Silent(a)
          BY <4>2, <4>6 DEF a
        <5>2. \A h \in 1..Len(t) : h + 1 \in 1..Len(todo)
          BY <1>1
        <5>3. QED
          BY <1>h, <3>s, <4>6, <5>1, <5>2 DEF Silent
      <4>7. KnownBy(t, seen', clk_status')
        BY <4>1, <4>3, <4>6 DEF KnownBy
      <4>8. QED
        BY <3>2, <4>7
    <3>6. QED
      BY <3>2, <3>4, <3>5
  <2>6. QED
    BY <1>v, <2>3, <2>4, <2>5
<1>5. QED
  BY <1>1, <1>2, <1>3, <1>4 DEF BypassInv

LEMMA StepBypass ==
  ASSUME EnInv, BypassInv, [ClockNext]_clockVars
  PROVE  BypassInv'
<1>0. ASSUME UNCHANGED <<bypass, todo, clk_call, clk_status, seen>>
      PROVE  BypassInv'
  <2>1. \A s : Known(s) => Known(s)'
    BY <1>0 DEF Known, KnownBy
  <2>2. VcoInv'
    BY <1>0, <2>1 DEF BypassInv, VcoInv
  <2>3. QED
    BY <1>0, <2>2 DEF BypassInv, DisableInv
<1>e. ASSUME todo' = <<>>
      PROVE  BypassInv'
  BY <1>e, NoSteps DEF BypassInv, DisableInv, VcoInv
<1>1. CASE ClockCall
  <2>1. CASE todo = <<>> /\ Refused
    BY <1>e, <2>1 DEF Refused
  <2>2. CASE Begun
    BY <2>2, BeginBypass DEF Begun
  <2>3. QED
    BY <1>1, <2>1, <2>2, Calls
<1>2. CASE ClockStep
  <2>1. IsSteps(todo)
    BY DEF BypassInv
  <2>2. CASE Polled
    BY <1>0, <2>2 DEF Polled, registers, hardware
  <2>3. CASE GivenUp(todo[1])
    BY <1>e, <2>3 DEF GivenUp
  <2>4. CASE todo # <<>> /\ Taken(todo[1]) /\ Heard(todo[1])
    BY <2>4, TakenBypass
  <2>5. QED
    BY <1>2, <2>1, <2>2, <2>3, <2>4, Steps
<1>3. CASE Hardware
  BY <1>0, <1>3 DEF Hardware, registers
<1>4. CASE UNCHANGED clockVars
  BY <1>0, <1>4 DEF clockVars, registers, hardware
<1>5. QED
  BY <1>1, <1>2, <1>3, <1>4 DEF ClockNext

\* Until a call returns it has a step left that ends the bypass, unless the PLL is out of
\* it, and it gives up only where it cannot report success.
THEOREM BypassInvariant == ClockSpec => []BypassInv
<1>1. ClockInit => BypassInv
  BY NoSteps DEF ClockInit, BypassInv, DisableInv, VcoInv
<1>2. EnInv /\ BypassInv /\ [ClockNext]_clockVars => BypassInv'
  BY StepBypass
<1>3. QED
  BY <1>1, <1>2, EnInvariant, PTL DEF ClockSpec

\* The PLL is out of its bypass when alt_clk_pll_bypass_disable, or for the main PLL
\* alt_clk_pll_vco_cfg_set, returns success, however late the waits and whenever the lock
\* comes and goes; but for the one case that SuccessMeansRunning names, of a lock that has
\* been waited for and is lost before it is looked at again.
THEOREM RunsOnSuccess == ClockSpec => SuccessMeansRunning
<1> DEFINE A == Returns /\ clk_status' = "SUCCESS" =>
                  /\ clk_call.name = "bypass_disable" /\ clk_call.about # <<"SDRAM_PLL">> =>
                       Bit[clk_call.about[1]] \notin bypass'
                  /\ clk_call.name = "vco_cfg_set" /\ clk_call.about = <<"MAIN_PLL">> =>
                       \/ bypass' \subseteq clk_call.bypass
                       \/ At("if_locked") /\ "MAIN_PLL" \in seen \ locked
<1>1. ASSUME BypassInv, [ClockNext]_clockVars
      PROVE  [A]_clockVars
  <2> SUFFICES ASSUME Returns, clk_status' = "SUCCESS", ~UNCHANGED clockVars
               PROVE  /\ clk_call.name = "bypass_disable" /\ clk_call.about # <<"SDRAM_PLL">> =>
                           Bit[clk_call.about[1]] \notin bypass'
                      /\ clk_call.name = "vco_cfg_set" /\ clk_call.about = <<"MAIN_PLL">> =>
                           \/ bypass' \subseteq clk_call.bypass
                           \/ At("if_locked") /\ "MAIN_PLL" \in seen \ locked
    OBVIOUS
  <2>1. ClockStep
    <3>1. ~ClockIdle /\ todo' = <<>>
      BY DEF Returns
    <3>2. ~ClockCall
      BY <3>1 DEF ClockCall
    <3>3. ~Hardware
      BY <3>1 DEF Hardware, ClockIdle
    <3>4. QED
      BY <1>1, <3>2, <3>3 DEF ClockNext
  <2>2. /\ todo # <<>> /\ todo' = <<>> /\ IsSteps(todo)
        /\ Len(todo) \in Nat \ {0} /\ (Tail(todo) = <<>> <=> Len(todo) = 1) /\ 1 \in 1..Len(todo)
    BY <1>1, Rest DEF Returns, ClockIdle, BypassInv
  <2>3. CASE GivenUp(todo[1])
    <3>1. /\ todo[1].op = "if_locked" /\ todo[1].pll \notin locked
          /\ clk_status' = IF todo[1].kept THEN "ERROR" ELSE clk_status
      BY <2>3 DEF GivenUp
    <3>2. ~(clk_call.name = "bypass_disable" /\ clk_call.about # <<"SDRAM_PLL">>)
      BY <1>1, <2>2, <3>1 DEF BypassInv, DisableInv
    <3>3. ASSUME clk_call.name = "vco_cfg_set", clk_call.about = <<"MAIN_PLL">>
          PROVE  At("if_locked") /\ "MAIN_PLL" \in seen \ locked
      <4>1. todo[1].pll = "MAIN_PLL" /\ ~todo[1].kept /\ (Waited(todo, 1) \/ Known(todo))
        BY <1>1, <2>2, <3>1, <3>3 DEF BypassInv, VcoInv
      <4>2. ~Waited(todo, 1)
        BY DEF Waited
      <4>3. "MAIN_PLL" \in seen
        BY <3>1, <4>1, <4>2 DEF Known, KnownBy
      <4>4. At("if_locked")
        BY <2>2, <3>1, Rest DEF At, ClockIdle
      <4>5. QED
        BY <3>1, <4>1, <4>3, <4>4
    <3>4. QED
      BY <3>2, <3>3
  <2>4. CASE Taken(todo[1])
    <3>1. Len(todo) = 1
      BY <2>2, <2>4 DEF Taken
    <3>2. ASSUME clk_call.name = "bypass_disable", clk_call.about # <<"SDRAM_PLL">>
          PROVE  Bit[clk_call.about[1]] \notin bypass'
      <4> DEFINE bit == Bit[clk_call.about[1]]
      <4>1. /\ todo[1].op = "bypass" => bit \notin todo[1].set
            /\ bit \notin bypass \/ (todo[1].op = "bypass" /\ bit \in todo[1].clr)
        BY <1>1, <2>2, <3>1, <3>2 DEF BypassInv, DisableInv
      <4> HIDE DEF bit
      <4>2. bit \notin bypass'
        BY <2>4, <4>1 DEF Taken
      <4>3. QED
        BY <4>2 DEF bit
    <3>3. ASSUME clk_call.name = "vco_cfg_set", clk_call.about = <<"MAIN_PLL">>
          PROVE  bypass' \subseteq clk_call.bypass
      <4>1. ~Clears(todo, 2)
        BY <3>1 DEF Clears
      <4>2. QED
        BY <1>1, <2>2, <2>4, <3>3, <4>1, VcoBypass
    <3>4. QED
      BY <3>2, <3>3
  <2>5. CASE Polled
    BY <2>2, <2>5 DEF Polled
  <2>6. QED
    BY <2>1, <2>2, <2>3, <2>4, <2>5, Steps
<1>2. QED
  BY <1>1, BypassInvariant, PTL DEF ClockSpec, SuccessMeansRunning
-----------------------------------------------------------------------------
(* The slow clocks: what changes while they are off.                       *)

L4 == {"L4_MP", "L4_SP"}

PllOf(x)     == IF source[x] = "MAIN_PLL_C1" THEN "MAIN_PLL" ELSE "PERIPHERAL_PLL"
CounterOf(x) == IF source[x] = "MAIN_PLL_C1" THEN <<"MAIN_PLL", 1>> ELSE <<"PERIPHERAL_PLL", 4>>

\* The step changes what x is made from, its multiplexer aside.
Touches(a, x) ==
  \/ a.op = "bypass" /\ Bit[PllOf(x)] \in a.clr \cup a.set
  \/ a.op = "safemod"
  \/ a.op = "count" /\ a.counter = CounterOf(x)
  \/ a.op = "divide" /\ a.clk = x

OnWrite(a, x)  == IsWrite(a, "MAIN_PLL") /\ x \in a.on
OffWrite(a, x) == IsWrite(a, "MAIN_PLL") /\ x \notin a.on

\* The steps before k turn x off.
OffAt(s, k, x) ==
  \E j \in 1..(k - 1) : OffWrite(s[j], x) /\ \A h \in j..(k - 1) : ~OnWrite(s[h], x)

\* Step k finds x off, if the register is on before the steps.
Off(s, k, x, on) ==
  OffAt(s, k, x) \/ (x \notin on /\ \A h \in 1..(k - 1) : ~OnWrite(s[h], x))

\* The slow clocks that are on are turned off before a step that touches them, and those
\* that are off stay off.
Guarded(s) ==
  /\ IsSteps(s)
  /\ \A k \in 1..Len(s) : s[k].op # "select"
  /\ \A x \in L4, k \in 1..Len(s) :
       IF x \in en["MAIN_PLL"] THEN Touches(s[k], x) => OffAt(s, k, x) ELSE ~OnWrite(s[k], x)

\* No step needs a clock off, and none turns one on.
Harmless(a) ==
  /\ a.op # "select"
  /\ \A x \in L4 : ~Touches(a, x) /\ (OnWrite(a, x) => x \in en["MAIN_PLL"])

LEMMA HarmlessGuarded ==
  ASSUME NEW s, IsSteps(s), \A k \in 1..Len(s) : Harmless(s[k])
  PROVE  Guarded(s)
BY DEF Guarded, Harmless

LEMMA GuardedConcat ==
  ASSUME NEW s, NEW t, Guarded(s), Guarded(t)
  PROVE  Guarded(s \o t)
<1> DEFINE u == s \o t
<1>1. /\ IsSteps(u) /\ Len(s) \in Nat /\ Len(t) \in Nat /\ Len(u) = Len(s) + Len(t)
      /\ \A k \in 1..Len(s) : u[k] = s[k]
      /\ \A k \in 1..Len(t) : u[Len(s) + k] = t[k]
      /\ \A k \in 1..Len(u) :
           \/ k \in 1..Len(s)
           \/ k - Len(s) \in 1..Len(t) /\ k = Len(s) + (k - Len(s))
  <2>1. IsSteps(s) /\ IsSteps(t)
    BY DEF Guarded
  <2>2. QED
    BY ONLY <2>1, Concat
<1> HIDE DEF u
<1>2. \A k \in 1..Len(u) : u[k].op # "select"
  BY <1>1 DEF Guarded
<1>3. ASSUME NEW x \in L4, NEW k \in 1..Len(u)
      PROVE  IF x \in en["MAIN_PLL"] THEN Touches(u[k], x) => OffAt(u, k, x) ELSE ~OnWrite(u[k], x)
  <2>1. CASE x \notin en["MAIN_PLL"]
    BY <1>1, <2>1 DEF Guarded
  <2>2. ASSUME x \in en["MAIN_PLL"], k \in 1..Len(s), Touches(u[k], x)
        PROVE  OffAt(u, k, x)
    <3>1. OffAt(s, k, x)
      BY <1>1, <2>2 DEF Guarded
    <3>2. PICK j \in 1..(k - 1) : OffWrite(s[j], x) /\ \A h \in j..(k - 1) : ~OnWrite(s[h], x)
      BY <3>1 DEF OffAt
    <3>3. \A h \in j..(k - 1) : h \in 1..Len(s)
      BY <1>1, <2>2
    <3>4. u[j] = s[j] /\ \A h \in j..(k - 1) : u[h] = s[h]
      BY <1>1, <2>2, <3>3
    <3>5. QED
      BY <3>2, <3>4 DEF OffAt
  <2>3. ASSUME x \in en["MAIN_PLL"], k - Len(s) \in 1..Len(t), Touches(u[k], x)
        PROVE  OffAt(u, k, x)
    <3> DEFINE n == k - Len(s)
    <3>0. n \in 1..Len(t) /\ k = Len(s) + n
      BY <1>1, <2>3
    <3> HIDE DEF n
    <3>1. OffAt(t, n, x)
      BY <1>1, <2>3, <3>0 DEF Guarded
    <3>2. PICK j \in 1..(n - 1) : OffWrite(t[j], x) /\ \A h \in j..(n - 1) : ~OnWrite(t[h], x)
      BY <3>1 DEF OffAt
    <3>3. Len(s) + j \in 1..(k - 1) /\ u[Len(s) + j] = t[j]
      BY <1>1, <3>0
    <3>4. ASSUME NEW h \in (Len(s) + j)..(k - 1)
          PROVE  ~OnWrite(u[h], x)
      <4>1. h - Len(s) \in j..(n - 1) /\ h - Len(s) \in 1..Len(t) /\ Len(s) + (h - Len(s)) = h
        BY <1>1, <3>0
      <4>2. u[h] = t[h - Len(s)]
        BY <1>1, <4>1
      <4>3. QED
        BY <3>2, <4>1, <4>2
    <3>5. QED
      BY <3>2, <3>3, <3>4 DEF OffAt
  <2>4. QED
    BY <1>1, <2>1, <2>2, <2>3
<1>4. QED
  BY <1>1, <1>2, <1>3 DEF Guarded, u

\* Steps between a write that turns clks off and one that restores the register.
LEMMA BetweenGuarded ==
  ASSUME NEW clks, NEW t, IsSteps(t),
         \A k \in 1..Len(t) : /\ t[k].op \notin {"en", "select"}
                              /\ \A x \in L4 : Touches(t[k], x) => x \in clks
  PROVE  Guarded(<<En("MAIN_PLL", en["MAIN_PLL"] \ clks)>> \o t \o <<En("MAIN_PLL", en["MAIN_PLL"])>>)
<1> DEFINE a == En("MAIN_PLL", en["MAIN_PLL"] \ clks)
           b == En("MAIN_PLL", en["MAIN_PLL"])
           s == <<a>> \o t \o <<b>>
<1>1. /\ IsWrite(a, "MAIN_PLL") /\ a.on = en["MAIN_PLL"] \ clks /\ a.op = "en"
      /\ IsWrite(b, "MAIN_PLL") /\ b.on = en["MAIN_PLL"] /\ b.op = "en"
  BY DEF IsWrite, En
<1> HIDE DEF a, b
<1>2. /\ IsSteps(s) /\ Len(t) \in Nat /\ Len(s) = Len(t) + 2
      /\ s[1] = a /\ s[Len(t) + 2] = b
      /\ \A k \in 1..Len(t) : s[k + 1] = t[k]
      /\ \A k \in 1..Len(s) : k = 1 \/ k = Len(t) + 2 \/ (k - 1 \in 1..Len(t) /\ k = (k - 1) + 1)
  BY ONLY IsSteps(t), Wrap
<1> HIDE DEF s
<1>3. \A k \in 1..Len(s) : s[k].op # "select"
  BY <1>1, <1>2, ZenonT(40)
<1>4. ASSUME NEW x \in L4, NEW k \in 1..Len(s)
      PROVE  IF x \in en["MAIN_PLL"] THEN Touches(s[k], x) => OffAt(s, k, x) ELSE ~OnWrite(s[k], x)
  <2>1. CASE x \notin en["MAIN_PLL"]
    BY <1>1, <1>2, <2>1, ZenonT(40) DEF OnWrite, IsWrite
  <2>2. ASSUME Touches(s[k], x)
        PROVE  OffAt(s, k, x)
    <3>1. k # 1 /\ k # Len(t) + 2
      BY <1>1, <1>2, <2>2 DEF Touches
    <3>2. k - 1 \in 1..Len(t) /\ s[k] = t[k - 1] /\ x \in clks
      BY <1>2, <2>2, <3>1
    <3>3. OffWrite(s[1], x)
      BY <1>1, <1>2, <3>2 DEF OffWrite
    <3>4. ASSUME NEW h \in 1..(k - 1)
          PROVE  ~OnWrite(s[h], x)
      <4>1. CASE h = 1
        BY <3>3, <4>1 DEF OffWrite, OnWrite
      <4>2. CASE h # 1
        <5>1. h - 1 \in 1..Len(t) /\ s[h] = t[h - 1]
          BY <1>2, <3>2, <4>2, SMTT(30)
        <5>2. QED
          BY <5>1 DEF OnWrite, IsWrite
      <4>3. QED
        BY <4>1, <4>2
    <3>5. 1 \in 1..(k - 1)
      BY <3>2
    <3>6. QED
      BY <3>3, <3>4, <3>5 DEF OffAt
  <2>3. QED
    BY <2>1, <2>2
<1>5. QED
  BY <1>2, <1>3, <1>4 DEF Guarded, s, a, b

\* What is done while clocks are gated touches, of the slow ones, at most those.
LEMMA GatedGuarded ==
  ASSUME NEW clks, NEW pll, NEW t, IsSteps(t),
         \A k \in 1..Len(t) : /\ t[k].op \notin {"en", "select"}
                              /\ \A x \in L4 : Touches(t[k], x) => pll = "MAIN_PLL" /\ x \in clks
  PROVE  Guarded(Gated(clks, pll, t))
<1> DEFINE a == En(pll, en[pll] \ clks)
           b == En(pll, en[pll])
           s == <<a>> \o t \o <<b>>
<1>1. CASE clks \cap en[pll] = {}
  <2>1. Gated(clks, pll, t) = t
    BY <1>1 DEF Gated
  <2>2. \A x \in L4, k \in 1..Len(t) : (x \in en["MAIN_PLL"] => ~Touches(t[k], x)) /\ ~OnWrite(t[k], x)
    BY <1>1 DEF OnWrite, IsWrite
  <2>3. QED
    BY <2>1, <2>2 DEF Guarded
<1>2. CASE clks \cap en[pll] # {} /\ pll = "MAIN_PLL"
  <2>1. Gated(clks, pll, t) =
          <<En("MAIN_PLL", en["MAIN_PLL"] \ clks)>> \o t \o <<En("MAIN_PLL", en["MAIN_PLL"])>>
    BY <1>2 DEF Gated
  <2>2. QED
    BY <2>1, BetweenGuarded
<1>3. CASE clks \cap en[pll] # {} /\ pll # "MAIN_PLL"
  <2>1. Gated(clks, pll, t) = s
    BY <1>3 DEF Gated
  <2>2. a.op = "en" /\ a.pll = pll /\ b.op = "en" /\ b.pll = pll
    BY DEF En
  <2> HIDE DEF a, b
  <2>3. /\ IsSteps(s) /\ Len(t) \in Nat /\ Len(s) = Len(t) + 2
        /\ s[1] = a /\ s[Len(t) + 2] = b
        /\ \A k \in 1..Len(t) : s[k + 1] = t[k]
        /\ \A k \in 1..Len(s) : k = 1 \/ k = Len(t) + 2 \/ (k - 1 \in 1..Len(t) /\ k = (k - 1) + 1)
    BY ONLY IsSteps(t), Wrap
  <2> HIDE DEF s
  <2>4. Harmless(a) /\ Harmless(b)
    BY <1>3, <2>2 DEF Harmless, Touches, OnWrite, IsWrite
  <2>5. \A k \in 1..Len(t) : Harmless(t[k])
    BY <1>3 DEF Harmless, OnWrite, IsWrite
  <2>6. \A k \in 1..Len(s) : Harmless(s[k])
    BY <2>3, <2>4, <2>5
  <2>7. QED
    BY <2>1, <2>3, <2>6, HarmlessGuarded
<1>4. QED
  BY <1>1, <1>2, <1>3

\* Steps one after the other, each of them harmless.
Calm(s) == IsSteps(s) /\ \A k \in 1..Len(s) : Harmless(s[k])

LEMMA CalmConcat ==
  ASSUME NEW s, NEW t, Calm(s), Calm(t)
  PROVE  Calm(s \o t)
<1> DEFINE u == s \o t
<1>1. /\ IsSteps(u) /\ \A k \in 1..Len(s) : u[k] = s[k]
      /\ \A k \in 1..Len(t) : u[Len(s) + k] = t[k]
      /\ \A k \in 1..Len(u) :
           \/ k \in 1..Len(s)
           \/ k - Len(s) \in 1..Len(t) /\ k = Len(s) + (k - Len(s))
  <2>1. IsSteps(s) /\ IsSteps(t)
    BY DEF Calm
  <2>2. QED
    BY ONLY <2>1, Concat
<1> HIDE DEF u
<1>2. ASSUME NEW k \in 1..Len(u)
      PROVE  Harmless(u[k])
  <2>1. CASE k \in 1..Len(s)
    BY <1>1, <2>1 DEF Calm
  <2>2. CASE k - Len(s) \in 1..Len(t)
    <3>1. u[k] = t[k - Len(s)]
      BY <1>1, <2>2
    <3>2. QED
      BY <2>2, <3>1 DEF Calm
  <2>3. QED
    BY <1>1, <2>1, <2>2
<1>3. QED
  BY <1>1, <1>2 DEF Calm, u

\* The slow clocks come from C1 of the main PLL or from C4 of the peripheral PLL.
SourceOK == \A x \in L4 : source[x] \in {"MAIN_PLL_C1", "PERIPHERAL_PLL_C4"}

LEMMA SlowOnes ==
  ASSUME SourceOK, NEW x \in L4
  PROVE  /\ CounterOf(x) \in {<<"MAIN_PLL", 1>>, <<"PERIPHERAL_PLL", 4>>}
         /\ Bit[PllOf(x)] \in {"MAINPLL", "PERPLL"}
         /\ \A pll \in PLLs : Bit[PllOf(x)] = Bit[pll] => x \in Slow(pll)
<1>1. source[x] = "MAIN_PLL_C1" \/ source[x] = "PERIPHERAL_PLL_C4"
  BY DEF SourceOK
<1>2. CASE source[x] = "MAIN_PLL_C1"
  <2>1. PllOf(x) = "MAIN_PLL" /\ CounterOf(x) = <<"MAIN_PLL", 1>>
    BY <1>2 DEF PllOf, CounterOf
  <2>2. x \in Slow("MAIN_PLL")
    BY <1>2 DEF Slow, L4Of, L4
  <2>3. QED
    BY <2>1, <2>2 DEF PLLs, Bit
<1>3. CASE source[x] = "PERIPHERAL_PLL_C4"
  <2>1. PllOf(x) = "PERIPHERAL_PLL" /\ CounterOf(x) = <<"PERIPHERAL_PLL", 4>>
    BY <1>3 DEF PllOf, CounterOf
  <2>2. x \in Slow("PERIPHERAL_PLL")
    BY <1>3 DEF Slow, L4Of, L4
  <2>3. QED
    BY <2>1, <2>2 DEF PLLs, Bit
<1>4. QED
  BY <1>1, <1>2, <1>3

\* No other step can touch a slow clock.
LEMMA Untouched ==
  ASSUME NEW a, a.op \notin {"en", "select", "bypass", "safemod", "count", "divide"}
  PROVE  Harmless(a) /\ \A x : ~Touches(a, x)
BY DEF Harmless, Touches, OnWrite, IsWrite

LEMMA CalmParts ==
  ASSUME SourceOK
  PROVE  /\ Calm(<<>>)
         /\ \A on : Calm(<<En("PERIPHERAL_PLL", on)>>)
         /\ \A c, val : c \notin {<<"MAIN_PLL", 1>>, <<"PERIPHERAL_PLL", 4>>} =>
              Calm(<<Count(c, val)>>) /\ Calm(CounterWrite(c, val))
         /\ \A x, val : x \notin L4 => Calm(<<Divide(x, val)>>)
<1>1. Calm(<<>>)
  BY NoSteps DEF Calm
<1>2. ASSUME NEW a, Harmless(a)
      PROVE  Calm(<<a>>)
  BY <1>2, OneStep DEF Calm
<1>3. ASSUME NEW on
      PROVE  Calm(<<En("PERIPHERAL_PLL", on)>>)
  <2> DEFINE a == En("PERIPHERAL_PLL", on)
  <2>1. a.op = "en" /\ a.pll = "PERIPHERAL_PLL"
    BY DEF En
  <2> HIDE DEF a
  <2>2. Harmless(a)
    BY <2>1 DEF Harmless, Touches, OnWrite, IsWrite
  <2>3. QED
    BY <1>2, <2>2 DEF a
<1>4. ASSUME NEW c, NEW val, c \notin {<<"MAIN_PLL", 1>>, <<"PERIPHERAL_PLL", 4>>}
      PROVE  Calm(<<Count(c, val)>>) /\ Calm(CounterWrite(c, val))
  <2> DEFINE a == Count(c, val)
             d == OutRst(c, TRUE)
             e == OutRst(c, FALSE)
  <2>1. a.op = "count" /\ a.counter = c /\ d.op = "outrst" /\ e.op = "outrst"
    BY DEF Count, OutRst
  <2>2. CounterWrite(c, val) = <<d, a, e>>
    BY DEF CounterWrite
  <2> HIDE DEF a, d, e
  <2>3. Harmless(a)
    <3>1. \A x \in L4 : CounterOf(x) # c
      BY <1>4, SlowOnes
    <3>2. QED
      BY <2>1, <3>1 DEF Harmless, Touches, OnWrite, IsWrite
  <2>4. Harmless(d) /\ Harmless(e)
    BY <2>1, Untouched
  <2>5. Calm(<<a>>) /\ Calm(<<d>>) /\ Calm(<<e>>)
    BY <1>2, <2>3, <2>4
  <2>6. Calm(<<d, a, e>>)
    <3>1. IsSteps(<<d, a, e>>) /\ Len(<<d, a, e>>) = 3
      BY ThreeSteps
    <3>2. QED
      BY <2>3, <2>4, <3>1 DEF Calm
  <2>7. QED
    BY <2>2, <2>5, <2>6 DEF a
<1>5. ASSUME NEW x, NEW val, x \notin L4
      PROVE  Calm(<<Divide(x, val)>>)
  <2> DEFINE a == Divide(x, val)
  <2>1. a.op = "divide" /\ a.clk = x
    BY DEF Divide
  <2> HIDE DEF a
  <2>2. Harmless(a)
    BY <1>5, <2>1 DEF Harmless, Touches, OnWrite, IsWrite
  <2>3. QED
    BY <1>2, <2>2 DEF a
<1>6. QED
  BY <1>1, <1>3, <1>4, <1>5

LEMMA CalmGuarded ==
  ASSUME NEW s, Calm(s)
  PROVE  Guarded(s)
BY HarmlessGuarded DEF Calm

\* Harmless steps are so while something is gated.
LEMMA CalmGated ==
  ASSUME NEW clks, NEW pll, NEW t, Calm(t), NoGates(t)
  PROVE  Guarded(Gated(clks, pll, t))
<1>1. IsSteps(t)
  BY DEF Calm
<1>2. \A k \in 1..Len(t) : /\ t[k].op \notin {"en", "select"}
                           /\ \A x \in L4 : Touches(t[k], x) => pll = "MAIN_PLL" /\ x \in clks
  BY DEF Calm, NoGates, Harmless
<1>3. QED
  BY ONLY <1>1, <1>2, GatedGuarded

LEMMA EnableGuarded ==
  ASSUME SourceOK, NEW pll \in PLLs, NEW use_input_mux \in BOOLEAN, use_input_mux => pll # "MAIN_PLL"
  PROVE  Guarded(BypassEnable(pll, use_input_mux))
<1>1. PICK set : /\ set = {Bit[pll]} \cup (IF use_input_mux THEN {SrcBit[pll]} ELSE {})
                 /\ BypassEnable(pll, use_input_mux) = Gated(Slow(pll), "MAIN_PLL", Entering(pll, set))
  BY EnableForm
<1> DEFINE t == Entering(pll, set)
<1>2. IsSteps(t)
  BY EnterLeave
<1>3. pll = "MAIN_PLL" \/ pll = "PERIPHERAL_PLL" \/ pll = "SDRAM_PLL"
  BY DEF PLLs
<1>4. /\ pll # "MAIN_PLL" => SrcBit[pll] \notin {"MAINPLL", "PERPLL"}
      /\ set \subseteq {Bit[pll]} \cup (IF pll = "MAIN_PLL" THEN {} ELSE {SrcBit[pll]})
  BY <1>1, <1>3 DEF SrcBit
<1>5. ASSUME NEW k \in 1..Len(t)
      PROVE  /\ t[k].op \notin {"en", "select"}
             /\ \A x \in L4 : Touches(t[k], x) => "MAIN_PLL" = "MAIN_PLL" /\ x \in Slow(pll)
  <2> DEFINE a == Bypass({}, set)
             b == Settle(FALSE)
             d == Bypass({SrcBit[pll]}, set)
  <2>1. /\ a.op = "bypass" /\ a.clr = {} /\ a.set = set /\ b.op = "settle"
        /\ d.op = "bypass" /\ d.clr = {SrcBit[pll]} /\ d.set = set
    BY DEF Bypass, Settle
  <2>2. t = IF pll = "MAIN_PLL" THEN <<a, b>> ELSE <<d>>
    BY DEF Entering
  <2> HIDE DEF a, b, d, t
  <2>3. t[k] = a \/ t[k] = b \/ (pll # "MAIN_PLL" /\ t[k] = d)
    BY <2>2
  <2>4. ASSUME NEW x \in L4, Touches(t[k], x)
        PROVE  x \in Slow(pll)
    <3>1. t[k].op = "bypass" /\ Bit[PllOf(x)] \in t[k].clr \cup t[k].set
      BY <2>1, <2>3, <2>4 DEF Touches
    <3>2. Bit[PllOf(x)] \in {"MAINPLL", "PERPLL"}
      BY SlowOnes
    <3>3. Bit[PllOf(x)] = Bit[pll]
      BY <1>4, <2>1, <2>3, <3>1, <3>2
    <3>4. QED
      BY <3>3, SlowOnes
  <2>5. QED
    BY <2>1, <2>3, <2>4
<1> HIDE DEF t
<1>6. Guarded(Gated(Slow(pll), "MAIN_PLL", t))
  BY ONLY <1>2, <1>5, GatedGuarded
<1>7. QED
  BY <1>1, <1>6 DEF t

LEMMA DisableGuarded ==
  ASSUME SourceOK, NEW pll \in PLLs, NEW kept
  PROVE  Guarded(BypassDisable(pll, kept))
<1> DEFINE t == Leaving(pll, kept)
           a == IfLocked(pll, kept)
<1>1. BypassDisable(pll, kept) = <<a>> \o Gated(Slow(pll), "MAIN_PLL", t)
  BY DisableForm
<1>2. Guarded(<<a>>)
  <2>1. a.op = "if_locked"
    BY DEF IfLocked
  <2> HIDE DEF a
  <2>2. Harmless(a)
    BY <2>1, Untouched
  <2>3. QED
    BY <2>2, OneStep, CalmGuarded DEF Calm
<1>3. IsSteps(t) /\ Len(t) = 5
  BY EnterLeave
<1>4. pll = "MAIN_PLL" \/ pll = "PERIPHERAL_PLL" \/ pll = "SDRAM_PLL"
  BY DEF PLLs
<1>5. \A i \in 1..5 :
         \/ t[i].op \in {"outrstall", "settle"}
         \/ t[i].op = "bypass" /\ t[i].set = {} /\ (t[i].clr = {Bit[pll]} \/ t[i].clr = {"SDRPLLSRC"})
  <2>1. \A i \in 1..5 : i = 1 \/ i = 2 \/ i = 3 \/ i = 4 \/ i = 5
    OBVIOUS
  <2>2. QED
    BY <1>4, <2>1 DEF Leaving, OutRstAll, Settle, Bypass, SrcBit
<1> HIDE DEF t, a
<1>6. ASSUME NEW k \in 1..Len(t)
      PROVE  /\ t[k].op \notin {"en", "select"}
             /\ \A x \in L4 : Touches(t[k], x) => "MAIN_PLL" = "MAIN_PLL" /\ x \in Slow(pll)
  <2>1. \/ t[k].op \in {"outrstall", "settle"}
        \/ t[k].op = "bypass" /\ t[k].set = {} /\ (t[k].clr = {Bit[pll]} \/ t[k].clr = {"SDRPLLSRC"})
    BY <1>3, <1>5
  <2>2. ASSUME NEW x \in L4, Touches(t[k], x)
        PROVE  x \in Slow(pll)
    <3>1. t[k].op = "bypass" /\ Bit[PllOf(x)] \in t[k].clr \cup t[k].set
      BY <2>1, <2>2 DEF Touches
    <3>2. Bit[PllOf(x)] \in {"MAINPLL", "PERPLL"}
      BY SlowOnes
    <3>3. Bit[PllOf(x)] = Bit[pll]
      BY <2>1, <3>1, <3>2
    <3>4. QED
      BY <3>3, SlowOnes
  <2>3. QED
    BY <2>1, <2>2
<1>7. Guarded(Gated(Slow(pll), "MAIN_PLL", t))
  BY ONLY <1>3, <1>6, GatedGuarded
<1>8. QED
  BY <1>1, <1>2, <1>7, GuardedConcat

LEMMA ModesGuarded ==
  ASSUME NEW name, NEW about, NEW steps, Modes(name, about, steps), SourceOK
  PROVE  Guarded(steps)
<1>1. CASE steps = <<En("MAIN_PLL", en["MAIN_PLL"] \ {"L4_MP", "L4_SP"}), ClearSafeMode, Settle(TRUE),
                     En("MAIN_PLL", en["MAIN_PLL"])>>
  <2> DEFINE a == ClearSafeMode
             b == Settle(TRUE)
             t == <<a, b>>
  <2>1. a.op = "safemod" /\ b.op = "settle"
    BY DEF ClearSafeMode, Settle
  <2> HIDE DEF a, b
  <2>2. IsSteps(t) /\ \A k \in 1..Len(t) : /\ t[k].op \notin {"en", "select"}
                                           /\ \A x \in L4 : Touches(t[k], x) => x \in L4
    BY <2>1, TwoSteps
  <2> DEFINE w1 == En("MAIN_PLL", en["MAIN_PLL"] \ L4)
             w4 == En("MAIN_PLL", en["MAIN_PLL"])
  <2>3. Guarded(<<w1>> \o t \o <<w4>>)
    <3> HIDE DEF t
    <3>1. QED
      BY <2>2, BetweenGuarded
  <2>4. steps = <<w1, a, b, w4>>
    BY <1>1 DEF a, b, L4
  <2> HIDE DEF w1, w4
  <2>5. <<w1>> \o t \o <<w4>> = <<w1, a, b, w4>>
    <3> DEFINE s == <<w1>> \o t \o <<w4>>
               u == <<w1, a, b, w4>>
    <3>1. Len(t) = 2 /\ t[1] = a /\ t[2] = b
      OBVIOUS
    <3>2. /\ IsSteps(s) /\ Len(s) = Len(t) + 2 /\ s[1] = w1 /\ s[Len(t) + 2] = w4
          /\ \A k \in 1..Len(t) : s[k + 1] = t[k]
      BY ONLY <2>2, Wrap
    <3>3. s[2] = a /\ s[3] = b
      <4>1. 1 \in 1..Len(t) /\ 2 \in 1..Len(t) /\ 1 + 1 = 2 /\ 2 + 1 = 3
        BY <3>1
      <4>2. s[1 + 1] = t[1] /\ s[2 + 1] = t[2]
        BY <3>2, <4>1
      <4>3. QED
        BY <3>1, <4>1, <4>2
    <3>4. IsSteps(u) /\ Len(u) = 4 /\ u[1] = w1 /\ u[2] = a /\ u[3] = b /\ u[4] = w4
      BY FourSteps
    <3> HIDE DEF s, u
    <3>5. Len(s) = 4 /\ \A k \in 1..4 : s[k] = u[k]
      BY <3>1, <3>2, <3>3, <3>4
    <3>6. s = [k \in 1..4 |-> s[k]] /\ u = [k \in 1..4 |-> u[k]]
      BY <3>2, <3>4, <3>5 DEF IsSteps
    <3>7. QED
      BY <3>5, <3>6 DEF s, u
  <2>6. QED
    BY <2>3, <2>4, <2>5
<1>2. QED
  BY <1>1, EnableGuarded, DisableGuarded DEF Modes

LEMMA MainFlashGuarded ==
  ASSUME SourceOK, NEW c, NEW div, c \notin {<<"MAIN_PLL", 1>>, <<"PERIPHERAL_PLL", 4>>}
  PROVE  Guarded(MainFlash(c, div))
<1> DEFINE on    == en["PERIPHERAL_PLL"]
           off   == Flash("MAIN_PLL_C4")
           both  == {"NAND_X", "NAND"} \subseteq off
           temp  == IF both THEN on \ {"NAND"} ELSE on
           steps == CounterWrite(c, div - 1)
           first == IF both THEN <<En("PERIPHERAL_PLL", temp)>> ELSE <<>>
           gated == <<En("PERIPHERAL_PLL", temp \ (off \ {"NAND"}))>>
           again == <<En("PERIPHERAL_PLL", on \ {"NAND"})>>
           last  == IF both THEN <<En("PERIPHERAL_PLL", on)>> ELSE <<>>
<1>1. MainFlash(c, div) = IF off \cap {"SDMMC", "NAND_X"} = {} THEN steps
                          ELSE first \o gated \o steps \o again \o last
  BY DEF MainFlash
<1>2. Calm(first) /\ Calm(gated) /\ Calm(steps) /\ Calm(again) /\ Calm(last)
  BY CalmParts
<1> HIDE DEF first, gated, steps, again, last, off
<1>3. Calm(first \o gated)
  BY <1>2, CalmConcat
<1>4. Calm(first \o gated \o steps)
  BY <1>2, <1>3, CalmConcat
<1>5. Calm(first \o gated \o steps \o again)
  BY <1>2, <1>4, CalmConcat
<1>6. Calm(first \o gated \o steps \o again \o last)
  BY <1>2, <1>5, CalmConcat
<1>7. QED
  BY <1>1, <1>2, <1>6, CalmGuarded

LEMMA PeripheralFlashGuarded ==
  ASSUME SourceOK, NEW c, NEW div, c \notin {<<"MAIN_PLL", 1>>, <<"PERIPHERAL_PLL", 4>>}
  PROVE  Guarded(PeripheralFlash(c, div))
<1> DEFINE on    == en["PERIPHERAL_PLL"]
           off   == Flash("PERIPHERAL_PLL_C3")
           steps == CounterWrite(c, div - 1)
           first == <<En("PERIPHERAL_PLL", on \ (off \ {"NAND_X"}))>>
           gated == IF "NAND_X" \in off THEN <<En("PERIPHERAL_PLL", on \ off)>> ELSE <<>>
           again == <<En("PERIPHERAL_PLL", on \ {"NAND"})>>
           last  == IF "NAND" \in off THEN <<En("PERIPHERAL_PLL", on)>> ELSE <<>>
<1>1. PeripheralFlash(c, div) = first \o gated \o steps \o again \o last
  BY DEF PeripheralFlash
<1>2. Calm(first) /\ Calm(gated) /\ Calm(steps) /\ Calm(again) /\ Calm(last)
  BY CalmParts
<1> HIDE DEF first, gated, steps, again, last
<1>3. Calm(first \o gated)
  BY <1>2, CalmConcat
<1>4. Calm(first \o gated \o steps)
  BY <1>2, <1>3, CalmConcat
<1>5. Calm(first \o gated \o steps \o again)
  BY <1>2, <1>4, CalmConcat
<1>6. Calm(first \o gated \o steps \o again \o last)
  BY <1>2, <1>5, CalmConcat
<1>7. QED
  BY <1>1, <1>6, CalmGuarded

LEMMA CounterGuarded ==
  ASSUME SourceOK, NEW c \in Counters, NEW div, c # <<"PERIPHERAL_PLL", 4>>
  PROVE  Guarded(CounterSteps(c, div))
<1>1. CASE c \in {<<"MAIN_PLL", 0>>, <<"MAIN_PLL", 2>>}
  <2>1. CounterSteps(c, div) = <<Count(c, (div \div Prediv) - 1)>>
    BY <1>1 DEF CounterSteps
  <2>2. c # <<"MAIN_PLL", 1>>
    BY <1>1
  <2>3. QED
    BY <2>1, <2>2, CalmParts, CalmGuarded
<1>2. CASE c = <<"MAIN_PLL", 1>>
  <2> DEFINE a == Count(c, (div \div Prediv) - 1)
             t == <<a>>
  <2>1. CounterSteps(c, div) = Gated(L4Of("MAIN_PLL"), "MAIN_PLL", t)
    BY <1>2 DEF CounterSteps
  <2>2. a.op = "count" /\ a.counter = c
    BY DEF Count
  <2> HIDE DEF a
  <2>3. IsSteps(t) /\ Len(t) = 1 /\ t[1] = a
    BY OneStep
  <2>4. ASSUME NEW x \in L4, Touches(a, x)
        PROVE  x \in L4Of("MAIN_PLL")
    <3>1. CounterOf(x) = <<"MAIN_PLL", 1>>
      BY <1>2, <2>2, <2>4 DEF Touches
    <3>2. source[x] = "MAIN_PLL_C1"
      BY <3>1 DEF CounterOf
    <3>3. QED
      BY <3>2 DEF L4Of, L4
  <2>5. \A k \in 1..Len(t) : /\ t[k].op \notin {"en", "select"}
                             /\ \A x \in L4 : Touches(t[k], x) => "MAIN_PLL" = "MAIN_PLL" /\ x \in L4Of("MAIN_PLL")
    BY <2>2, <2>3, <2>4
  <2>6. QED
    BY <2>1, <2>3, <2>5, GatedGuarded
<1>3. CASE c = <<"MAIN_PLL", 4>>
  <2>1. CounterSteps(c, div) = MainFlash(c, div) /\ c # <<"MAIN_PLL", 1>>
    BY <1>3 DEF CounterSteps
  <2>2. QED
    BY <2>1, MainFlashGuarded
<1>4. CASE c = <<"PERIPHERAL_PLL", 3>>
  <2>1. CounterSteps(c, div) = PeripheralFlash(c, div) /\ c # <<"MAIN_PLL", 1>>
    BY <1>4 DEF CounterSteps
  <2>2. QED
    BY <2>1, PeripheralFlashGuarded
<1>5. CASE c \notin {<<"MAIN_PLL", 0>>, <<"MAIN_PLL", 1>>, <<"MAIN_PLL", 2>>, <<"MAIN_PLL", 4>>,
                     <<"PERIPHERAL_PLL", 3>>}
  <2> DEFINE pll == IF c = <<"MAIN_PLL", 5>> THEN "MAIN_PLL" ELSE "PERIPHERAL_PLL"
             t   == CounterWrite(c, div - 1)
  <2>1. CounterSteps(c, div) = Gated(Fed(c), pll, t)
    BY <1>5 DEF CounterSteps
  <2>2. Calm(t) /\ NoGates(t)
    BY <1>5, CalmParts, Blocks
  <2> HIDE DEF pll, t
  <2>3. QED
    BY <2>1, <2>2, CalmGated
<1>6. QED
  BY <1>1, <1>2, <1>3, <1>4, <1>5

LEMMA DividersGuarded ==
  ASSUME NEW name, NEW about, NEW steps, Dividers(name, about, steps), SourceOK,
         about # <<"PERIPHERAL_PLL", 4>>
  PROVE  Guarded(steps)
<1>1. ASSUME NEW x \in DOMAIN Divisors, NEW div \in Divs,
             steps = IF x = "L3_SP" THEN <<Divide(x, div)>> ELSE Gated({x}, GateOf(x), <<Divide(x, div)>>)
      PROVE  Guarded(steps)
  <2> DEFINE a == Divide(x, div)
             t == <<a>>
  <2>1. a.op = "divide" /\ a.clk = x
    BY DEF Divide
  <2>2. steps = IF x = "L3_SP" THEN t ELSE Gated({x}, GateOf(x), t)
    BY <1>1
  <2> HIDE DEF a
  <2>3. IsSteps(t) /\ Len(t) = 1 /\ t[1] = a
    BY OneStep
  <2>4. CASE x \notin L4
    <3>1. Calm(t) /\ NoGates(t)
      BY <2>4, CalmParts, Blocks DEF a
    <3>2. QED
      BY <2>2, <3>1, CalmGuarded, CalmGated
  <2>5. CASE x \in L4
    <3>1. x # "L3_SP" /\ GateOf(x) = "MAIN_PLL"
      <4>1. \A pll \in PLLs : x \in EnabledBy[pll] <=> pll = "MAIN_PLL"
        BY <2>5 DEF L4, PLLs, EnabledBy, MainClocks, PeripheralClocks, SdramClocks
      <4>2. "MAIN_PLL" \in PLLs
        BY DEF PLLs
      <4>3. GateOf(x) = "MAIN_PLL"
        BY <4>1, <4>2 DEF GateOf
      <4>4. QED
        BY <2>5, <4>3 DEF L4
    <3>2. \A k \in 1..Len(t) : /\ t[k].op \notin {"en", "select"}
                               /\ \A y \in L4 : Touches(t[k], y) => "MAIN_PLL" = "MAIN_PLL" /\ y \in {x}
      BY <2>1, <2>3 DEF Touches
    <3> HIDE DEF t
    <3>3. Guarded(Gated({x}, "MAIN_PLL", t))
      BY ONLY <2>3, <3>2, GatedGuarded
    <3>4. QED
      BY <2>2, <3>1, <3>3
  <2>6. QED
    BY <2>4, <2>5
<1>2. ASSUME NEW div, steps = Gated({"GPIO_DB"}, "PERIPHERAL_PLL", <<Divide("GPIO_DB", FieldOf(div))>>)
      PROVE  Guarded(steps)
  <2>1. "GPIO_DB" \notin L4
    BY DEF L4
  <2>2. QED
    BY <1>2, <2>1, CalmParts, Blocks, CalmGated
<1>3. ASSUME NEW c \in {<<"MAIN_PLL", 3>>, <<"PERIPHERAL_PLL", 2>>}, NEW div,
             steps = Gated({"QSPI"}, "PERIPHERAL_PLL", CounterWrite(c, FieldOf(div)))
      PROVE  Guarded(steps)
  <2>1. c \notin {<<"MAIN_PLL", 1>>, <<"PERIPHERAL_PLL", 4>>}
    BY <1>3
  <2>2. QED
    BY <1>3, <2>1, CalmParts, Blocks, CalmGated
<1>4. QED
  BY <1>1, <1>2, <1>3, CounterGuarded DEF Dividers

LEMMA MultipliesGuarded ==
  ASSUME NEW name, NEW about, NEW steps, Multiplies(name, about, steps), SourceOK
  PROVE  Guarded(steps)
<1>1. PICK pll \in PLLs, mult \in Mults, div \in Divs :
             steps = VcoSteps(pll, mult, div, Methods(pll, mult, div))
  BY DEF Multiplies
<1> DEFINE method == Methods(pll, mult, div)
           byp    == NeedsBypass(pll, mult, div, method)
           enter  == IF byp THEN BypassEnable(pll, FALSE) ELSE <<>>
           writes == VcoWrites(pll, mult, div, method, byp)
           leave  == IF byp THEN BypassDisable(pll, FALSE) ELSE <<>>
           wait   == <<LockWait("MAIN_PLL")>>
<1>2. steps = enter \o writes \o wait \o leave
  BY <1>1 DEF VcoSteps
<1>3. Guarded(<<>>)
  BY CalmParts, CalmGuarded
<1>4. Guarded(enter) /\ Guarded(leave)
  BY <1>3, EnableGuarded, DisableGuarded
<1>5. Guarded(writes)
  <2>1. IsSteps(writes) /\ \A k \in 1..Len(writes) : writes[k].op \in {"vco", "lock"}
    BY WritesForm
  <2> HIDE DEF writes
  <2>2. \A k \in 1..Len(writes) : Harmless(writes[k])
    BY <2>1, Untouched
  <2>3. QED
    BY <2>1, <2>2, HarmlessGuarded
<1>6. Guarded(wait)
  <2> DEFINE a == LockWait("MAIN_PLL")
  <2>1. a.op = "lock"
    BY DEF LockWait
  <2> HIDE DEF a
  <2>2. Harmless(a)
    BY <2>1, Untouched
  <2>3. QED
    BY <2>2, OneStep, CalmGuarded DEF Calm, a
<1> HIDE DEF enter, writes, wait, leave
<1>7. Guarded(enter \o writes)
  BY <1>4, <1>5, GuardedConcat
<1>8. Guarded(enter \o writes \o wait)
  BY <1>6, <1>7, GuardedConcat
<1>9. QED
  BY <1>2, <1>4, <1>8, GuardedConcat

\* A multiplexer of a slow clock is set to one of its choices.
Picks(a) == a.op = "select" /\ a.mux \in L4 => a.source \in {"MAIN_PLL_C1", "PERIPHERAL_PLL_C4"}

\* A step that touches a slow clock finds it off.
Ready(s, on) ==
  \A k \in 1..Len(s) : s[k].op # "select" /\ \A x \in L4 : Touches(s[k], x) => Off(s, k, x, on)

LEMMA GuardedReady ==
  ASSUME NEW s, Guarded(s)
  PROVE  Ready(s, en["MAIN_PLL"]) /\ \A k \in 1..Len(s) : Picks(s[k])
<1>1. ASSUME NEW x \in L4, NEW k \in 1..Len(s), Touches(s[k], x)
      PROVE  Off(s, k, x, en["MAIN_PLL"])
  <2>1. CASE x \in en["MAIN_PLL"]
    BY <1>1, <2>1 DEF Guarded, Off
  <2>2. CASE x \notin en["MAIN_PLL"]
    <3>1. Len(s) \in Nat
      BY DEF Guarded, IsSteps
    <3>2. \A h \in 1..(k - 1) : h \in 1..Len(s)
      BY <3>1
    <3>3. QED
      BY <2>2, <3>2 DEF Guarded, Off
  <2>3. QED
    BY <2>1, <2>2
<1>2. QED
  BY <1>1 DEF Guarded, Ready, Picks

\* C4 of the peripheral PLL does not set a multiplexer.
LEMMA PeripheralBasePicks ==
  ASSUME NEW c, NEW div
  PROVE  \A k \in 1..Len(PeripheralBase(c, div)) : PeripheralBase(c, div)[k].op # "select"
<1> DEFINE on   == en["PERIPHERAL_PLL"]
           slow == L4Of("PERIPHERAL_PLL") \cap
                     ((IF "USB_MP" \in on THEN {"L4_MP"} ELSE {}) \cup
                      (IF "SPI_M" \in on THEN {"L4_SP"} ELSE {}))
           w1 == En("MAIN_PLL", en["MAIN_PLL"] \ slow)
           w2 == En("PERIPHERAL_PLL", on \ {"USB_MP", "SPI_M", "CAN0", "CAN1", "GPIO_DB"})
           w3 == En("MAIN_PLL", en["MAIN_PLL"] \cup slow)
           w4 == En("PERIPHERAL_PLL", on)
           t  == CounterWrite(c, div - 1)
           u  == <<w1, w2>> \o t \o <<w3, w4>>
<1>1. PeripheralBase(c, div) = u
  BY DEF PeripheralBase
<1>2. w1.op = "en" /\ w2.op = "en" /\ w3.op = "en" /\ w4.op = "en"
  BY DEF En
<1>3. IsSteps(t) /\ \A k \in 1..Len(t) : t[k].op # "select"
  <2> DEFINE a == OutRst(c, TRUE)
             b == Count(c, div - 1)
             d == OutRst(c, FALSE)
  <2>1. a.op = "outrst" /\ b.op = "count" /\ d.op = "outrst"
    BY DEF OutRst, Count
  <2>2. t = <<a, b, d>>
    BY DEF CounterWrite
  <2> HIDE DEF a, b, d, t
  <2>3. QED
    BY <2>1, <2>2, ThreeSteps
<1>c. ASSUME NEW p, NEW q, IsSteps(p), IsSteps(q), \A k \in 1..Len(p) : p[k].op # "select",
             \A k \in 1..Len(q) : q[k].op # "select"
      PROVE  IsSteps(p \o q) /\ \A k \in 1..Len(p \o q) : (p \o q)[k].op # "select"
  BY <1>c, Concat
<1> HIDE DEF w1, w2, w3, w4, t
<1>4. /\ IsSteps(<<w1, w2>>) /\ \A k \in 1..Len(<<w1, w2>>) : <<w1, w2>>[k].op # "select"
      /\ IsSteps(<<w3, w4>>) /\ \A k \in 1..Len(<<w3, w4>>) : <<w3, w4>>[k].op # "select"
  BY <1>2, TwoSteps
<1> DEFINE p == <<w1, w2>> \o t
<1>5. IsSteps(p) /\ \A k \in 1..Len(p) : p[k].op # "select"
  BY <1>3, <1>4, <1>c
<1> HIDE DEF p
<1>6. \A k \in 1..Len(p \o <<w3, w4>>) : (p \o <<w3, w4>>)[k].op # "select"
  BY <1>4, <1>5, <1>c
<1>7. QED
  BY <1>1, <1>6 DEF p

\* The steps of alt_clk_pll_cfg_set.
Configured(s, pll) ==
  \A k \in 1..Len(s) :
    \/ s[k].op = "vco"
    \/ s[k].op = "select" /\ s[k].mux = pll
    \/ s[k].op = "count" /\ \E i \in 0..5 : s[k].counter = <<pll, i>>

LEMMA ProgramReady ==
  ASSUME NEW name, NEW about, NEW steps, Program(name, about, steps), SourceOK
  PROVE  /\ \A k \in 1..Len(steps) : Picks(steps[k])
         /\ name \notin {"source_set", "pll_cfg_set"} /\ about # <<"PERIPHERAL_PLL", 4>> =>
              Ready(steps, en["MAIN_PLL"])
         /\ name = "pll_cfg_set" =>
              \E pll \in {"MAIN_PLL", "PERIPHERAL_PLL"} : bypassed(pll) /\ Configured(steps, pll)
<1>1. CASE Modes(name, about, steps)
  <2>1. name # "pll_cfg_set"
    BY <1>1 DEF Modes
  <2>2. QED
    BY <1>1, <2>1, ModesGuarded, GuardedReady
<1>2. CASE Switches(name, about, steps)
  <2>1. name \in {"clock_enable", "clock_disable"}
    BY <1>2 DEF Switches
  <2>2. \A k \in 1..Len(steps) : steps[k].op = "en"
    <3>1. PICK pll, v, w : steps = <<En(pll, v)>> \/ steps = <<En(pll, v), En(pll, w)>>
      BY <1>2 DEF Switches
    <3> DEFINE a == En(pll, v)
               d == En(pll, w)
    <3>2. a.op = "en" /\ d.op = "en" /\ (steps = <<a>> \/ steps = <<a, d>>)
      BY <3>1 DEF En
    <3> HIDE DEF a, d
    <3>3. QED
      BY <3>2
  <2>3. QED
    BY <2>1, <2>2 DEF Ready, Picks, Touches
<1>3. CASE Selects(name, about, steps)
  <2>1. PICK x, s : /\ x \in DOMAIN Choices /\ s \in Choices[x]
                   /\ name = "source_set" /\ steps = <<Select(x, s)>>
    BY <1>3 DEF Selects
  <2>2. x \in L4 => s \in {"MAIN_PLL_C1", "PERIPHERAL_PLL_C4"}
    BY <2>1 DEF Choices, L4
  <2>3. Select(x, s).mux = x /\ Select(x, s).source = s
    BY DEF Select
  <2>4. Picks(Select(x, s))
    BY <2>2, <2>3 DEF Picks
  <2>5. QED
    BY <2>1, <2>4
<1>4. CASE Dividers(name, about, steps)
  <2>1. name = "divider_set"
    BY <1>4 DEF Dividers
  <2>2. CASE about # <<"PERIPHERAL_PLL", 4>>
    BY <1>4, <2>1, <2>2, DividersGuarded, GuardedReady
  <2>3. CASE about = <<"PERIPHERAL_PLL", 4>>
    <3>1. PICK div : steps = CounterSteps(about, div)
      BY <1>4, <2>3 DEF Dividers
    <3>2. steps = PeripheralBase(about, div)
      BY <2>3, <3>1 DEF CounterSteps
    <3>3. QED
      BY <2>1, <2>3, <3>2, PeripheralBasePicks DEF Picks
  <2>4. QED
    BY <2>2, <2>3
<1>5. CASE Multiplies(name, about, steps)
  <2>1. name # "pll_cfg_set"
    BY <1>5 DEF Multiplies
  <2>2. QED
    BY <1>5, <2>1, MultipliesGuarded, GuardedReady
<1>6. CASE Configures(name, about, steps)
  <2>1. PICK pll \in PLLs \ {"SDRAM_PLL"}, cfg \in Cfgs :
               name = "pll_cfg_set" /\ bypassed(pll) /\ steps = ConfigureSteps(pll, cfg)
    BY <1>6 DEF Configures, ConfigureSteps
  <2>2. Configured(steps, pll)
    BY <2>1, ConfigureForm DEF Configured
  <2>3. pll \in {"MAIN_PLL", "PERIPHERAL_PLL"} /\ pll \notin L4
    BY DEF PLLs, L4
  <2>4. \A k \in 1..Len(steps) : Picks(steps[k])
    BY <2>2, <2>3 DEF Configured, Picks
  <2>5. QED
    BY <2>1, <2>2, <2>3, <2>4
<1>7. QED
  BY <1>1, <1>2, <1>3, <1>4, <1>5, <1>6 DEF Program

LEMMA ReadyRest ==
  ASSUME NEW s, NEW on, IsSteps(s), s # <<>>, Ready(s, on)
  PROVE  Ready(Tail(s), IF IsWrite(s[1], "MAIN_PLL") THEN s[1].on ELSE on)
<1> DEFINE t == Tail(s)
           now == IF IsWrite(s[1], "MAIN_PLL") THEN s[1].on ELSE on
<1>1. /\ Len(s) \in Nat \ {0} /\ Len(t) = Len(s) - 1
      /\ \A k \in 1..Len(t) : t[k] = s[k + 1] /\ k + 1 \in 1..Len(s)
  BY Rest
<1>2. ASSUME NEW x \in L4
      PROVE  /\ OffWrite(s[1], x) => x \notin now
             /\ x \notin on /\ ~OnWrite(s[1], x) => x \notin now
  BY DEF OffWrite, OnWrite
<1> HIDE DEF t, now
<1>3. ASSUME NEW x \in L4, NEW k \in 1..Len(t), Touches(t[k], x)
      PROVE  Off(t, k, x, now)
  <2>1. k + 1 \in 1..Len(s) /\ Touches(s[k + 1], x)
    BY <1>1, <1>3
  <2>2. Off(s, k + 1, x, on)
    BY <2>1 DEF Ready
  <2>3. k \in Nat /\ (k + 1) - 1 = k
    OBVIOUS
  <2>4. \A h \in 1..(k - 1) : t[h] = s[h + 1] /\ h + 1 \in 1..k
    BY <1>1
  <2>5. CASE OffAt(s, k + 1, x)
    <3>1. PICK j \in 1..k : OffWrite(s[j], x) /\ \A h \in j..k : ~OnWrite(s[h], x)
      BY <2>3, <2>5 DEF OffAt
    <3>2. CASE j = 1
      <4>1. x \notin now
        BY <1>2, <3>1, <3>2
      <4>2. \A h \in 1..(k - 1) : ~OnWrite(t[h], x)
        BY <2>4, <3>1, <3>2
      <4>3. QED
        BY <4>1, <4>2 DEF Off
    <3>3. CASE j # 1
      <4>1. j - 1 \in 1..(k - 1) /\ t[j - 1] = s[j]
        BY <2>4, <3>3
      <4>2. \A h \in (j - 1)..(k - 1) : ~OnWrite(t[h], x)
        <5> TAKE h \in (j - 1)..(k - 1)
        <5>1. h \in 1..(k - 1) /\ h + 1 \in j..k
          BY <4>1
        <5>2. QED
          BY <2>4, <3>1, <5>1
      <4>3. QED
        BY <3>1, <4>1, <4>2 DEF Off, OffAt
    <3>4. QED
      BY <3>2, <3>3
  <2>6. CASE x \notin on /\ \A h \in 1..k : ~OnWrite(s[h], x)
    <3>1. x \notin now
      BY <1>2, <2>6
    <3>2. \A h \in 1..(k - 1) : ~OnWrite(t[h], x)
      BY <2>4, <2>6
    <3>3. QED
      BY <3>1, <3>2 DEF Off
  <2>7. QED
    BY <2>2, <2>3, <2>5, <2>6 DEF Off
<1>4. \A k \in 1..Len(t) : t[k].op # "select"
  BY <1>1 DEF Ready
<1>5. QED
  BY <1>3, <1>4 DEF Ready, t, now

SlowInv ==
  /\ L4 \subseteq DOMAIN source /\ L4 \subseteq DOMAIN divider
  /\ {<<"MAIN_PLL", 1>>, <<"PERIPHERAL_PLL", 4>>} \subseteq DOMAIN counter
  /\ SourceOK
  /\ \A k \in 1..Len(todo) : Picks(todo[k])
  /\ /\ todo # <<>> /\ clk_call.name \notin {"source_set", "pll_cfg_set"}
     /\ clk_call.about # <<"PERIPHERAL_PLL", 4>>
     => Ready(todo, en["MAIN_PLL"])
  /\ todo # <<>> /\ clk_call.name = "pll_cfg_set" =>
       \E pll \in {"MAIN_PLL", "PERIPHERAL_PLL"} : bypassed(pll) /\ Configured(todo, pll)

LEMMA InitSlow == ClockInit => SlowInv
<1> SUFFICES ASSUME ClockInit
             PROVE  SlowInv
  OBVIOUS
<1>1. /\ source \in MuxSettings /\ todo = <<>> /\ counter = [c \in Counters |-> 1]
      /\ divider = [x \in DOMAIN Divisors \cup {"GPIO_DB"} |-> 1]
  BY DEF ClockInit
<1>2. L4 \subseteq DOMAIN Choices /\ L4 \subseteq DOMAIN Divisors
  BY DEF L4, Choices, Divisors
<1>3. L4 \subseteq DOMAIN source /\ \A x \in L4 : source[x] \in Choices[x]
  <2>1. DOMAIN source = DOMAIN Choices /\ \A x \in DOMAIN Choices : source[x] \in Choices[x]
    BY <1>1, MuxAssumption
  <2>2. QED
    BY <1>2, <2>1
<1>4. SourceOK
  <2>1. \A x \in L4 : Choices[x] = {"MAIN_PLL_C1", "PERIPHERAL_PLL_C4"}
    BY DEF L4, Choices
  <2>2. QED
    BY <1>3, <2>1 DEF SourceOK
<1>5. {<<"MAIN_PLL", 1>>, <<"PERIPHERAL_PLL", 4>>} \subseteq DOMAIN counter
  BY <1>1 DEF Counters
<1>6. L4 \subseteq DOMAIN divider
  BY <1>1, <1>2
<1>7. Len(todo) = 0
  BY <1>1, NoSteps
<1>8. QED
  BY <1>1, <1>3, <1>4, <1>5, <1>6, <1>7 DEF SlowInv

LEMMA BeginSlow ==
  ASSUME NEW name, NEW about, NEW steps, SlowInv, Begin(name, about, steps), Program(name, about, steps)
  PROVE  SlowInv'
<1> DEFINE b == [name |-> name, about |-> about, en |-> en, bypass |-> bypass]
<1>1. /\ todo' = steps /\ clk_call' = b /\ en' = en /\ source' = source /\ divider' = divider
      /\ counter' = counter /\ bypass' = bypass /\ safemod' = safemod
  BY DEF Begin, registers
<1>2. b.name = name /\ b.about = about
  OBVIOUS
<1> HIDE DEF b
<1>3. /\ \A k \in 1..Len(steps) : Picks(steps[k])
      /\ name \notin {"source_set", "pll_cfg_set"} /\ about # <<"PERIPHERAL_PLL", 4>> =>
           Ready(steps, en["MAIN_PLL"])
      /\ name = "pll_cfg_set" =>
           \E pll \in {"MAIN_PLL", "PERIPHERAL_PLL"} : bypassed(pll) /\ Configured(steps, pll)
  BY ProgramReady DEF SlowInv
<1>4. ASSUME Ready(steps, en["MAIN_PLL"])
      PROVE  Ready(todo, en["MAIN_PLL"])'
  BY <1>1, <1>4 DEF Ready, Touches, PllOf, CounterOf
<1>5. ASSUME NEW pll, bypassed(pll), Configured(steps, pll)
      PROVE  bypassed(pll)' /\ Configured(todo', pll)
  BY <1>1, <1>5 DEF bypassed
<1>6. SourceOK'
  BY <1>1 DEF SlowInv, SourceOK
<1>7. QED
  BY <1>1, <1>2, <1>3, <1>4, <1>5, <1>6 DEF SlowInv

LEMMA TakenSlow ==
  ASSUME EnInv, SlowInv, todo # <<>>, Taken(todo[1])
  PROVE  SlowInv'
<1> DEFINE a == todo[1]
<1>1. /\ Len(todo) \in Nat \ {0} /\ Len(Tail(todo)) = Len(todo) - 1
      /\ \A k \in 1..Len(Tail(todo)) : Tail(todo)[k] = todo[k + 1] /\ k + 1 \in 1..Len(todo)
  BY Rest DEF EnInv, TypeOK
<1>2. /\ todo' = Tail(todo) /\ (todo' # <<>> => clk_call' = clk_call)
      /\ en' = IF a.op = "en" THEN [en EXCEPT ![a.pll] = a.on] ELSE en
      /\ bypass' = IF a.op = "bypass" THEN (bypass \ a.clr) \cup a.set ELSE bypass
      /\ safemod' = IF a.op = "safemod" THEN FALSE ELSE safemod
      /\ source' = IF a.op = "select" THEN [source EXCEPT ![a.mux] = a.source] ELSE source
      /\ counter' = IF a.op = "count" THEN [counter EXCEPT ![a.counter] = a.val] ELSE counter
      /\ divider' = IF a.op = "divide" THEN [divider EXCEPT ![a.clk] = a.val] ELSE divider
  BY DEF Taken
<1>3. 1 \in 1..Len(todo)
  BY <1>1
<1>4. Picks(a)
  BY <1>3 DEF SlowInv
<1>r. ASSUME Ready(todo, en["MAIN_PLL"])
      PROVE  a.op # "select" /\ Ready(Tail(todo), IF IsWrite(a, "MAIN_PLL") THEN a.on ELSE en["MAIN_PLL"])
  BY <1>3, <1>r, ReadyRest DEF EnInv, TypeOK, Ready
<1> HIDE DEF a
<1>5. DOMAIN source' = DOMAIN source /\ DOMAIN divider' = DOMAIN divider /\ DOMAIN counter' = DOMAIN counter
  BY <1>2
<1>6. SourceOK'
  BY <1>2, <1>4 DEF SlowInv, SourceOK, Picks
<1>7. \A k \in 1..Len(Tail(todo)) : Picks(Tail(todo)[k])
  BY <1>1 DEF SlowInv
<1>8. ASSUME Ready(todo, en["MAIN_PLL"])
      PROVE  Ready(todo, en["MAIN_PLL"])'
  <2>1. en'["MAIN_PLL"] = IF IsWrite(a, "MAIN_PLL") THEN a.on ELSE en["MAIN_PLL"]
    BY <1>2 DEF EnInv, TypeOK, IsWrite, PLLs
  <2>2. source' = source
    BY <1>2, <1>8, <1>r
  <2> DEFINE rest == Tail(todo)
             now  == IF IsWrite(a, "MAIN_PLL") THEN a.on ELSE en["MAIN_PLL"]
  <2>3. Ready(rest, now)
    BY <1>8, <1>r
  <2>4. todo' = rest /\ en'["MAIN_PLL"] = now
    BY <1>2, <2>1
  <2> HIDE DEF rest, now
  <2>5. QED
    BY <2>2, <2>3, <2>4 DEF Ready, Touches, PllOf, CounterOf
<1>9. ASSUME NEW pll, bypassed(pll), Configured(todo, pll)
      PROVE  bypassed(pll)' /\ Configured(Tail(todo), pll)
  <2>1. a.op \notin {"bypass", "safemod"}
    BY <1>3, <1>9 DEF Configured, a
  <2>2. bypassed(pll)'
    BY <1>2, <1>9, <2>1 DEF bypassed
  <2>3. Configured(Tail(todo), pll)
    BY <1>1, <1>9 DEF Configured
  <2>4. QED
    BY <2>2, <2>3
<1>10. /\ todo' # <<>> /\ clk_call'.name \notin {"source_set", "pll_cfg_set"}
       /\ clk_call'.about # <<"PERIPHERAL_PLL", 4>>
       => Ready(todo, en["MAIN_PLL"])'
  BY <1>2, <1>8 DEF SlowInv
<1>11. todo' # <<>> /\ clk_call'.name = "pll_cfg_set" =>
         \E pll \in {"MAIN_PLL", "PERIPHERAL_PLL"} : bypassed(pll)' /\ Configured(todo', pll)
  BY <1>2, <1>9 DEF SlowInv
<1>12. QED
  BY <1>2, <1>5, <1>6, <1>7, <1>10, <1>11 DEF SlowInv

LEMMA StepSlow ==
  ASSUME EnInv, SlowInv, [ClockNext]_clockVars
  PROVE  SlowInv'
<1>0. ASSUME UNCHANGED <<registers, todo, clk_call>>
      PROVE  SlowInv'
  BY <1>0 DEF SlowInv, registers, SourceOK, Ready, Touches, PllOf, CounterOf, bypassed
<1>1. CASE ClockCall
  <2>1. CASE Refused
    BY <1>0, <2>1 DEF Refused
  <2>2. CASE Begun
    BY <2>2, BeginSlow DEF Begun
  <2>3. QED
    BY <1>1, <2>1, <2>2, Calls
<1>2. CASE ClockStep
  <2>1. IsSteps(todo)
    BY DEF EnInv, TypeOK
  <2>2. CASE Polled
    BY <1>0, <2>2 DEF Polled
  <2>3. CASE GivenUp(todo[1])
    <3>1. todo' = <<>> /\ Len(<<>>) = 0 /\ UNCHANGED registers
      BY <2>3, NoSteps DEF GivenUp
    <3>2. SourceOK'
      BY <3>1 DEF SlowInv, SourceOK, registers
    <3>3. QED
      BY <3>1, <3>2 DEF SlowInv, registers
  <2>4. CASE todo # <<>> /\ Taken(todo[1])
    BY <2>4, TakenSlow
  <2>5. QED
    BY <1>2, <2>1, <2>2, <2>3, <2>4, Steps
<1>3. CASE Hardware
  BY <1>0, <1>3 DEF Hardware
<1>4. CASE UNCHANGED clockVars
  BY <1>0, <1>4 DEF clockVars
<1>5. QED
  BY <1>1, <1>2, <1>3, <1>4 DEF ClockNext

\* A slow clock is off before a step that touches it, whatever call is under way, but for
\* those that leave it to their caller and for C4 of the peripheral PLL.
THEOREM SlowInvariant == ClockSpec => []SlowInv
<1>1. EnInv /\ SlowInv /\ [ClockNext]_clockVars => SlowInv'
  BY StepSlow
<1>2. QED
  BY <1>1, InitSlow, EnInvariant, PTL DEF ClockSpec

\* What x is made from is the same after a step that changes none of its parts.
LEMMA PathKept ==
  ASSUME NEW x, source'[x] = source[x], divider'[x] = divider[x],
         bypassed(CounterOf(x)[1])' <=> bypassed(CounterOf(x)[1]),
         bypassed(CounterOf(x)[1]) \/ counter'[CounterOf(x)] = counter[CounterOf(x)]
  PROVE  Path(x)' = Path(x)
<1> DEFINE c == CounterOf(x)
<1>1. /\ Path(x) = <<divider[x], IF bypassed(c[1]) THEN <<>> ELSE <<c, counter[c]>> >>
      /\ CounterOf(x)' = CounterOf(x)
  BY DEF Path, CounterOf
<1>2. Path(x)' = <<divider'[x], IF bypassed(CounterOf(x)[1])' THEN <<>>
                                ELSE <<CounterOf(x)', counter'[CounterOf(x)']>> >>
  BY DEF Path, CounterOf
<1>3. QED
  BY <1>1, <1>2

LEMMA TakenPath ==
  ASSUME NEW x \in L4, SlowInv, Taken(todo[1]), Path(x)' # Path(x)
  PROVE  \/ todo[1].op = "select" /\ todo[1].mux = x
         \/ Touches(todo[1], x) /\ (todo[1].op = "count" => ~bypassed(CounterOf(x)[1]))
<1> DEFINE a == todo[1]
<1>1. /\ bypass' = IF a.op = "bypass" THEN (bypass \ a.clr) \cup a.set ELSE bypass
      /\ safemod' = IF a.op = "safemod" THEN FALSE ELSE safemod
      /\ source' = IF a.op = "select" THEN [source EXCEPT ![a.mux] = a.source] ELSE source
      /\ counter' = IF a.op = "count" THEN [counter EXCEPT ![a.counter] = a.val] ELSE counter
      /\ divider' = IF a.op = "divide" THEN [divider EXCEPT ![a.clk] = a.val] ELSE divider
  BY DEF Taken
<1> HIDE DEF a
<1> SUFFICES ASSUME ~(a.op = "select" /\ a.mux = x),
                    Touches(a, x) => a.op = "count" /\ bypassed(CounterOf(x)[1])
             PROVE  FALSE
  BY DEF a
<1>2. x \in DOMAIN source /\ x \in DOMAIN divider /\ CounterOf(x) \in DOMAIN counter
  BY SlowOnes DEF SlowInv
<1>3. source'[x] = source[x]
  BY <1>1, <1>2
<1>4. divider'[x] = divider[x]
  <2>1. ~(a.op = "divide" /\ a.clk = x)
    BY DEF Touches
  <2>2. QED
    BY <1>1, <1>2, <2>1
<1>5. CounterOf(x)[1] = PllOf(x) /\ CounterOf(x)' = CounterOf(x)
  BY <1>3 DEF CounterOf, PllOf
<1>6. bypassed(CounterOf(x)[1])' <=> bypassed(CounterOf(x)[1])
  <2>1. a.op # "safemod" /\ (a.op = "bypass" => Bit[PllOf(x)] \notin a.clr \cup a.set)
    BY DEF Touches
  <2>2. safemod' = safemod /\ (Bit[PllOf(x)] \in bypass' <=> Bit[PllOf(x)] \in bypass)
    BY <1>1, <2>1
  <2>3. QED
    BY <1>5, <2>2 DEF bypassed
<1>7. bypassed(CounterOf(x)[1]) \/ counter'[CounterOf(x)] = counter[CounterOf(x)]
  <2>1. bypassed(CounterOf(x)[1]) \/ ~(a.op = "count" /\ a.counter = CounterOf(x))
    BY DEF Touches
  <2>2. QED
    BY <1>1, <1>2, <2>1
<1>8. QED
  BY <1>3, <1>4, <1>6, <1>7, PathKept

\* Whatever a slow clock is made from changes while the clock is off, in every call but
\* alt_clk_source_set and the change of C4 of the peripheral PLL.
THEOREM SlowClocksOff == ClockSpec => GlitchFree
<1> DEFINE A == \A x \in {"L4_MP", "L4_SP"} :
                  Path(x)' # Path(x) =>
                    \/ x \notin en["MAIN_PLL"]
                    \/ clk_call.name = "source_set"
                    \/ clk_call.about = <<"PERIPHERAL_PLL", 4>>
<1>1. ASSUME EnInv, SlowInv, [ClockNext]_clockVars
      PROVE  [A]_clockVars
  <2> SUFFICES ASSUME NEW x \in L4, Path(x)' # Path(x), clk_call.name # "source_set",
                      clk_call.about # <<"PERIPHERAL_PLL", 4>>
               PROVE  x \notin en["MAIN_PLL"]
    BY DEF L4
  <2>0. ~UNCHANGED registers
    <3>1. UNCHANGED registers => Path(x)' = Path(x)
      BY DEF registers, Path, bypassed
    <3>2. QED
      BY <3>1
  <2>1. ClockStep
    <3>1. ClockCall => UNCHANGED registers
      BY Calls DEF Refused, Begun, Begin
    <3>2. Hardware => UNCHANGED registers
      BY DEF Hardware
    <3>3. UNCHANGED clockVars => UNCHANGED registers
      BY DEF clockVars
    <3>4. QED
      BY <1>1, <2>0, <3>1, <3>2, <3>3 DEF ClockNext
  <2>2. IsSteps(todo)
    BY <1>1 DEF EnInv, TypeOK
  <2>3. todo # <<>> /\ Taken(todo[1])
    BY <2>0, <2>1, <2>2, Steps DEF Polled, GivenUp
  <2>4. 1 \in 1..Len(todo)
    BY <2>2, <2>3, Rest
  <2>5. \/ todo[1].op = "select" /\ todo[1].mux = x
        \/ Touches(todo[1], x) /\ (todo[1].op = "count" => ~bypassed(CounterOf(x)[1]))
    BY <1>1, <2>3, TakenPath
  <2>6. CASE clk_call.name # "pll_cfg_set"
    <3>1. Ready(todo, en["MAIN_PLL"])
      BY <1>1, <2>3, <2>6 DEF SlowInv
    <3>2. Off(todo, 1, x, en["MAIN_PLL"])
      BY <2>4, <2>5, <3>1 DEF Ready
    <3>3. ~OffAt(todo, 1, x)
      BY DEF OffAt
    <3>4. QED
      BY <3>2, <3>3 DEF Off
  <2>7. CASE clk_call.name = "pll_cfg_set"
    <3>1. PICK pll \in {"MAIN_PLL", "PERIPHERAL_PLL"} : bypassed(pll) /\ Configured(todo, pll)
      BY <1>1, <2>3, <2>7 DEF SlowInv
    <3>2. \/ todo[1].op = "vco"
          \/ todo[1].op = "select" /\ todo[1].mux = pll
          \/ todo[1].op = "count" /\ \E i \in 0..5 : todo[1].counter = <<pll, i>>
      BY <2>4, <3>1 DEF Configured
    <3>3. pll # x
      BY <3>1 DEF L4
    <3>4. todo[1].op = "count" /\ todo[1].counter = CounterOf(x) /\ ~bypassed(CounterOf(x)[1])
      BY <2>5, <3>2, <3>3 DEF Touches
    <3>5. CounterOf(x)[1] = pll
      BY <3>2, <3>4
    <3>6. QED
      BY <3>1, <3>4, <3>5
  <2>8. QED
    BY <2>6, <2>7
<1>2. QED
  BY <1>1, EnInvariant, SlowInvariant, PTL DEF ClockSpec, GlitchFree
=============================================================================
