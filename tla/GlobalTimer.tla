---------------------------- MODULE GlobalTimer -----------------------------
(***************************************************************************)
(* alt_globaltmr.c: a counter and a comparator of two words each, read and *)
(* written half by half while the counter runs.  The timer itself is       *)
(* external; the prescaler only changes how fast it runs, which is left    *)
(* open.  The calls that read one register, or the comparator, are left    *)
(* out: they change nothing.                                               *)
(***************************************************************************)
EXTENDS Integers, Sequences

CONSTANTS Half,        \* what a word counts up to
          Times,       \* comparator values of the callers
          Increments,  \* arguments of autoinc_set
          Prescalers,  \* arguments of prescaler_set
          MaxTime,     \* bound: the counter
          MaxTimerCalls \* bound: the calls

ASSUME TimerAssumption ==
  /\ Half \in Nat \ {0}
  /\ Times \subseteq Nat /\ Increments \subseteq Nat /\ Prescalers \subseteq Nat
  /\ MaxTime \in Nat /\ MaxTimerCalls \in Nat

VARIABLES now,      \* the counter
          tmr,      \* the other registers
          writes,   \* the accesses left of a call that writes
          reading,  \* a call that reads the counter
          value,    \* what the last of them has returned, or nothing
          asked,    \* history: the comparator as the program has set it
          made      \* the calls so far

timerVars == <<now, tmr, writes, reading, value, asked, made>>

NotReading == [at |-> "idle", from |-> 0, hi |-> 0, lo |-> 0, cnt |-> 0]

\* Who has started the counter before, if anybody, has left it running; its high word is
\* about to change.
TimerInit ==
  /\ now = Half - 1 /\ asked = 0
  /\ tmr \in {[ctrl |-> c, comp_lo |-> 0, comp_hi |-> 0, inc |-> 0, ps |-> 0, pending |-> FALSE] :
                c \in {{}, {"enable"}}}
  /\ writes = <<>> /\ reading = NotReading /\ value = {} /\ made = 0
-----------------------------------------------------------------------------
(* The timer, external.                                                    *)

Comparator == tmr.comp_hi * Half + tmr.comp_lo

Tick ==
  /\ "enable" \in tmr.ctrl /\ now < MaxTime
  /\ now' = now + 1
  /\ UNCHANGED <<tmr, writes, reading, value, asked, made>>

\* The comparator moves on by itself in the mode with increments.
Event ==
  LET inc == IF "autoinc" \in tmr.ctrl THEN tmr.inc ELSE 0 IN
    /\ {"enable", "comp"} \subseteq tmr.ctrl /\ now >= Comparator
    /\ tmr' = [tmr EXCEPT !.pending = TRUE, !.comp_lo = (Comparator + inc) % Half,
                          !.comp_hi = (Comparator + inc) \div Half]
    /\ asked' = asked + inc
    /\ UNCHANGED <<now, writes, reading, value, made>>
-----------------------------------------------------------------------------
(* The calls that write, as the sequence of their accesses.                *)

Ctrl(off, on) == [op |-> "ctrl", off |-> off, on |-> on]
Put(reg, val) == [op |-> "put", reg |-> reg, val |-> val]
Clear         == [op |-> "clear"]

When(cond, accesses) == IF cond THEN accesses ELSE <<>>

alt_globaltmr_uninit ==
  <<Ctrl({"comp", "int", "autoinc"}, {}), Put("comp_lo", 0), Put("comp_hi", 0), Put("inc", 0), Clear>>

alt_globaltmr_init  == alt_globaltmr_uninit \o <<Ctrl({}, {"enable"})>>
alt_globaltmr_stop  == <<Ctrl({"comp"}, {})>>
alt_globaltmr_start == <<Ctrl({}, {"comp", "enable"})>>

alt_globaltmr_comp_mode_start == <<Ctrl({}, {"comp"})>>
alt_globaltmr_comp_mode_stop  == <<Ctrl({"comp"}, {})>>
alt_globaltmr_is_comp_mode    == "comp" \in tmr.ctrl

\* Mutant of NotComparing: the comparison goes on.
StillComparing(accesses) == accesses

\* The comparison is off while a value is written.
NotComparing(accesses) ==
  When(alt_globaltmr_is_comp_mode, alt_globaltmr_comp_mode_stop) \o accesses
    \o When(alt_globaltmr_is_comp_mode, alt_globaltmr_comp_mode_start)

\* alt_globaltmr_comp_set and alt_globaltmr_comp_set64.
alt_globaltmr_comp_set(t) ==
  NotComparing(<<Put("comp_lo", t % Half), Put("comp_hi", t \div Half)>>)

alt_globaltmr_autoinc_set(inc)     == NotComparing(<<Put("inc", inc)>>)
alt_globaltmr_autoinc_mode_start   == <<Ctrl({}, {"autoinc"})>>
alt_globaltmr_autoinc_mode_stop    == <<Ctrl({"autoinc"}, {})>>
alt_globaltmr_prescaler_set(ps)    == When(ps < 256, <<Put("ps", ps)>>)
alt_globaltmr_int_disable          == <<Ctrl({"int"}, {})>>
alt_globaltmr_int_clear_pending    == <<Clear>>
alt_globaltmr_int_if_pending_clear == When(tmr.pending, <<Clear>>)

\* A timer that does not run is started, and so is its comparison.
alt_globaltmr_int_enable ==
  When("enable" \notin tmr.ctrl, alt_globaltmr_start) \o <<Ctrl({}, {"int"})>>

Idle == writes = <<>> /\ reading.at = "idle"

Call(accesses) ==
  /\ Idle /\ made < MaxTimerCalls
  /\ accesses # <<>>
  /\ writes' = accesses /\ made' = made + 1
  /\ UNCHANGED <<now, tmr, reading, value, asked>>

WriteCall ==
  \/ Call(alt_globaltmr_init) \/ Call(alt_globaltmr_uninit)
  \/ Call(alt_globaltmr_start) \/ Call(alt_globaltmr_stop)
  \/ Call(alt_globaltmr_comp_mode_start) \/ Call(alt_globaltmr_comp_mode_stop)
  \/ Call(alt_globaltmr_autoinc_mode_start) \/ Call(alt_globaltmr_autoinc_mode_stop)
  \/ Call(alt_globaltmr_int_enable) \/ Call(alt_globaltmr_int_disable)
  \/ Call(alt_globaltmr_int_clear_pending) \/ Call(alt_globaltmr_int_if_pending_clear)
  \/ \E t \in Times : Call(alt_globaltmr_comp_set(t))
  \/ \E inc \in Increments : Call(alt_globaltmr_autoinc_set(inc))
  \/ \E ps \in Prescalers : Call(alt_globaltmr_prescaler_set(ps))

\* Nobody else writes the control register, so that its read, change and write are one.
Access ==
  /\ writes # <<>>
  /\ LET a == Head(writes) IN
       tmr' = CASE a.op = "ctrl"  -> [tmr EXCEPT !.ctrl = (@ \ a.off) \cup a.on]
                [] a.op = "put"   -> [tmr EXCEPT ![a.reg] = a.val]
                [] a.op = "clear" -> [tmr EXCEPT !.pending = FALSE]
  /\ asked' = IF Head(writes).op = "put" /\ Head(writes).reg = "comp_hi" THEN Comparator' ELSE asked
  /\ writes' = Tail(writes)
  /\ UNCHANGED <<now, reading, value, made>>
-----------------------------------------------------------------------------
(* alt_globaltmr_get and alt_globaltmr_get64: high word, low word, and the *)
(* high word again, until it has not changed.                              *)

ReadCall ==
  /\ Idle /\ made < MaxTimerCalls
  /\ reading' = [at |-> "lo", from |-> now, hi |-> now \div Half, lo |-> 0, cnt |-> 3]
  /\ made' = made + 1
  /\ UNCHANGED <<now, tmr, writes, value, asked>>

ReadLo ==
  /\ reading.at = "lo"
  /\ reading' = [reading EXCEPT !.at = "hi", !.lo = now % Half]
  /\ UNCHANGED <<now, tmr, writes, value, asked, made>>

\* cnt is tested and then decremented, and wraps.
Wrapped == -1

ReadHi ==
  /\ reading.at = "hi"
  /\ LET hi == now \div Half
         cnt == IF hi = reading.hi THEN reading.cnt
                ELSE IF reading.cnt = 0 THEN Wrapped ELSE reading.cnt - 1
     IN IF hi # reading.hi /\ reading.cnt # 0
        THEN reading' = [reading EXCEPT !.at = "lo", !.hi = hi, !.cnt = cnt] /\ UNCHANGED value
        ELSE /\ reading' = NotReading
             /\ value' = IF cnt # 0 THEN {hi * Half + reading.lo} ELSE {}
  /\ UNCHANGED <<now, tmr, writes, asked, made>>

TimerNext == Tick \/ Event \/ WriteCall \/ Access \/ ReadCall \/ ReadLo \/ ReadHi

TimerSpec == TimerInit /\ [][TimerNext]_timerVars
-----------------------------------------------------------------------------
\* The halves of a value belong together.  An event comes when the counter has reached
\* what the program has set, never half of it and half of the value before; and the time
\* that is returned is one the counter had during the call, unless its high word has
\* changed in each of the four rounds: then cnt has wrapped and no longer says so.
HalvesTogether ==
  [][/\ ~tmr.pending /\ tmr'.pending => now >= asked
     /\ reading.at = "hi" /\ reading'.at = "idle" =>
          \/ value' \subseteq reading.from..now
          \/ now \div Half - reading.from \div Half >= 4]_timerVars
=============================================================================
