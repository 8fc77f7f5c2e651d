------------------------ MODULE InterruptController -------------------------
(***************************************************************************)
(* alt_interrupt.c: the calls of the driver, its interrupt handler, and    *)
(* the generic interrupt controller behind them (external), as one         *)
(* processor sees it.                                                      *)
(*                                                                         *)
(* A call is the sequence of its accesses to registers and static          *)
(* variables; one that is refused is the empty sequence, as nobody looks   *)
(* at a result.  A register with a bit for each interrupt is the set of    *)
(* the interrupts whose bit is set, a control register the set of its      *)
(* bits.                                                                   *)
(***************************************************************************)
EXTENDS Integers, Sequences

CONSTANTS Provision,   \* ALT_INT_PROVISION_INT_COUNT
          Implemented, \* the interrupts the hardware has
          Processors,  \* their number
          Preloaders   \* what a preloader may have left in the registers

\* Whole banks; the numbers from 1020 on stand for no interrupt.
ASSUME InterruptsAssumption ==
  /\ Provision \in 32..1020 /\ Provision % 32 = 0
  /\ Implemented \subseteq 0..(Provision - 1)
  /\ \A p \in Preloaders : p.icdiser \subseteq Implemented

VARIABLES gic,      \* the registers of the distributor and of the CPU interface
          irq,      \* the processor takes interrupts: the I bit of CPSR is clear
          driver,   \* alt_int_flag, alt_int_dispatch, alt_int_count_cpu
          isr       \* alt_int_handler_irq: where it is, and ackintid

interruptVars == <<gic, irq, driver, isr>>

NoCallback == [callback |-> "0", context |-> "0"]

\* After a reset, but for what the preloader has done.
GicReset ==
  [icddcr |-> {}, icdisr |-> {}, icdiser |-> {}, icdispr |-> {}, icdabr |-> {},
   icdipr |-> [i \in Implemented |-> 0], icdiptr |-> [i \in Implemented |-> 0], icdicfr |-> {},
   iccicr |-> {}, iccpmr |-> 0, iccbpr |-> 0, iccabpr |-> 0]

InterruptInit ==
  /\ gic \in {[GicReset EXCEPT !.icddcr = p.icddcr, !.icdiser = p.icdiser, !.iccicr = p.iccicr,
                               !.iccpmr = p.iccpmr,
                               !.icdiptr = [i \in Implemented |-> IF i \in p.icdiser THEN 1 ELSE 0]] :
                p \in Preloaders}
  /\ irq = FALSE
  /\ driver = [flag |-> {}, dispatch |-> [i \in Implemented |-> NoCallback], count_cpu |-> 0]
  /\ isr = [at |-> "none"]
-----------------------------------------------------------------------------
(* An access.                                                              *)

Bits(reg, clr, set)  == [dev |-> "gic", op |-> "bits", reg |-> reg, clr |-> clr, set |-> set]
Ctl(reg, off, on)    == [dev |-> "gic", op |-> "ctl", reg |-> reg, off |-> off, on |-> on]
Put(reg, id, val)    == [dev |-> "gic", op |-> "put", reg |-> reg, id |-> id, val |-> val]
Word(reg, val)       == [dev |-> "gic", op |-> "word", reg |-> reg, val |-> val]

\* The table of callbacks is cleared in one step, for it makes no difference to an interrupt
\* that comes in between: the callback goes before its context, and without one the handler
\* calls nothing.
Static               == [dev |-> "gic", op |-> "static"]
Discover(bank)       == [dev |-> "gic", op |-> "discover", bank |-> bank]
Dispatch(id, f, val) == [dev |-> "gic", op |-> "dispatch", id |-> id, field |-> f, val |-> val]
Cpsr(b)              == [dev |-> "gic", op |-> "cpsr", irq |-> b]

\* An access that reads, modifies and writes a register is one step: the handler has no
\* business with these registers.
GicAccess(a) ==
  \/ /\ a.op = "bits"
     /\ gic' = [gic EXCEPT ![a.reg] = (@ \ a.clr) \cup a.set]
     /\ UNCHANGED <<irq, driver>>
  \/ /\ a.op = "ctl"
     /\ gic' = [gic EXCEPT ![a.reg] = (@ \ a.off) \cup a.on]
     /\ UNCHANGED <<irq, driver>>
  \/ /\ a.op = "put"
     /\ gic' = [gic EXCEPT ![a.reg][a.id] = a.val]
     /\ UNCHANGED <<irq, driver>>
  \/ /\ a.op = "word"
     /\ gic' = [gic EXCEPT ![a.reg] = a.val]
     /\ UNCHANGED <<irq, driver>>
  \/ /\ a.op = "static"
     /\ driver' = [flag |-> {}, dispatch |-> [i \in Implemented |-> NoCallback],
                   count_cpu |-> Processors]
     /\ UNCHANGED <<gic, irq>>
  \/ /\ a.op = "discover"
     /\ driver' = [driver EXCEPT !.flag = @ \cup (gic.icdiser \cap a.bank)]
     /\ UNCHANGED <<gic, irq>>
  \/ /\ a.op = "dispatch"
     /\ driver' = [driver EXCEPT !.dispatch[a.id][a.field] = a.val]
     /\ UNCHANGED <<gic, irq>>
  \/ /\ a.op = "cpsr"
     /\ irq' = a.irq
     /\ UNCHANGED <<gic, driver>>
-----------------------------------------------------------------------------
(* The calls.                                                              *)

\* A call that is refused does nothing.
When(cond, accesses) == IF cond THEN accesses ELSE <<>>

alt_int_global_enable      == <<Ctl("icddcr", {}, {"secure"})>>
alt_int_global_disable     == <<Ctl("icddcr", {"secure"}, {})>>
alt_int_global_enable_ns   == <<Ctl("icddcr", {}, {"ns"})>>
alt_int_global_disable_ns  == <<Ctl("icddcr", {"ns"}, {})>>
alt_int_global_enable_all  == <<Ctl("icddcr", {}, {"secure", "ns"})>>
alt_int_global_disable_all == <<Ctl("icddcr", {"secure", "ns"}, {})>>

\* A bank of 32 interrupts: they are all enabled to see which there are.
Bank(n) == {i \in Implemented : i \div 32 = n}

\* Mutant of DiscoverBank: the bank is left enabled.
DiscoverBankLeft(n) == <<Bits("icdiser", {}, Bank(n)), Discover(Bank(n))>>

DiscoverBank(n) ==
  <<Bits("icdiser", {}, Bank(n)), Discover(Bank(n)), Bits("icdiser", Bank(n), {})>>

\* The banks from n on; those without an interrupt are left out.
Banks[n \in 0..(Provision \div 32)] ==
  IF n = Provision \div 32 THEN <<>>
  ELSE When(Bank(n) # {}, DiscoverBank(n)) \o Banks[n + 1]

alt_int_global_init == <<Static>> \o alt_int_global_disable \o Banks[0]

Valid(id) == id < Provision /\ id \in driver.flag

alt_int_dist_secure_enable(id)  == When(Valid(id), <<Bits("icdisr", {id}, {})>>)
alt_int_dist_secure_disable(id) == When(Valid(id), <<Bits("icdisr", {}, {id})>>)
alt_int_dist_enable(id)         == When(Valid(id), <<Bits("icdiser", {}, {id})>>)
alt_int_dist_disable(id)        == When(Valid(id), <<Bits("icdiser", {id}, {})>>)
alt_int_dist_pending_set(id)    == When(Valid(id) /\ id >= 16, <<Bits("icdispr", {}, {id})>>)
alt_int_dist_pending_clear(id)  == When(Valid(id) /\ id >= 16, <<Bits("icdispr", {id}, {})>>)

alt_int_dist_priority_set(id, priority) ==
  When(Valid(id) /\ priority < 256, <<Put("icdipr", id, priority)>>)

\* Before alt_int_global_init has counted the processors no target is in range.
alt_int_dist_target_set(id, target) ==
  When(Valid(id) /\ target < 2 ^ driver.count_cpu /\ id >= 32, <<Put("icdiptr", id, target)>>)

\* The interrupts of the FPGA have no trigger to detect.
Autodetected(id) ==
  IF id \in 72..135 THEN "AUTODETECT"
  ELSE IF id <= 40 \/ id \in (48..56) \cup (64..69) THEN "EDGE"
  ELSE "LEVEL"

alt_int_dist_trigger_set(id, trigger_type) ==
  LET type == IF trigger_type = "AUTODETECT" THEN Autodetected(id) ELSE trigger_type
  IN When(Valid(id) /\ id >= 16 /\ type \in {"LEVEL", "EDGE"},
         <<IF type = "EDGE" THEN Bits("icdicfr", {}, {id}) ELSE Bits("icdicfr", {id}, {})>>)

\* Processor 0 runs this.  The software interrupt is forwarded if its security is the one
\* that is asked for.
alt_int_sgi_trigger(id, target_filter, target_list, secure_only) ==
  When(/\ target_list < 2 ^ driver.count_cpu
       /\ id \in (0..15) \cap Implemented
       /\ \/ target_filter = "LIST" /\ target_list % 2 = 1
          \/ target_filter = "SENDER_ONLY"
       /\ secure_only <=> id \notin gic.icdisr,
       <<Bits("icdispr", {}, {id})>>)

alt_int_cpu_priority_mask_set(mask) == When(mask < 256, <<Word("iccpmr", mask)>>)
alt_int_cpu_binary_point_set(point) == When(point < 8, <<Word("iccbpr", point)>>)
alt_int_cpu_binary_point_set_ns(point) == When(point < 8, <<Word("iccabpr", point)>>)

\* On processor 0; the vectors are set up here as well.
alt_int_cpu_init == alt_int_cpu_priority_mask_set(255) \o alt_int_cpu_binary_point_set(0)

alt_int_cpu_enable      == <<Ctl("iccicr", {}, {"secure"}), Cpsr(TRUE)>>
alt_int_cpu_disable     == <<Ctl("iccicr", {"secure"}, {}), Cpsr(FALSE)>>
alt_int_cpu_enable_ns   == <<Ctl("iccicr", {}, {"ns"})>>
alt_int_cpu_disable_ns  == <<Ctl("iccicr", {"ns"}, {})>>
alt_int_cpu_enable_all  == <<Ctl("iccicr", {}, {"secure", "ns"})>>
alt_int_cpu_disable_all == <<Ctl("iccicr", {"secure", "ns"}, {})>>

\* The bits: the secure binary point for all, FIQ for secure interrupts, and all
\* interrupts acknowledged by a secure read.
alt_int_cpu_config_set(set) == <<Ctl("iccicr", {"sbpr", "fiq", "ack"}, set)>>

\* Mutant of alt_int_isr_register: the context is that of the callback before.
alt_int_isr_register_callback(id, callback, context) ==
  When(id < Provision, <<Dispatch(id, "callback", callback)>>)

\* Two assignments.
alt_int_isr_register(id, callback, context) ==
  When(id < Provision, <<Dispatch(id, "callback", callback), Dispatch(id, "context", context)>>)

alt_int_isr_unregister(id) == alt_int_isr_register(id, "0", "0")
-----------------------------------------------------------------------------
(* The controller, and the handler.  asserted: the interrupts whose lines  *)
(* are high.                                                               *)

Group(id) == IF id \in gic.icdisr THEN "ns" ELSE "secure"

\* Those that can be signalled to this processor.
Signalled(asserted) ==
  {i \in gic.icdiser \ gic.icdabr :
     /\ i \in gic.icdispr \cup (asserted \ gic.icdicfr)
     /\ Group(i) \in gic.icddcr \cap gic.iccicr
     /\ gic.icdipr[i] < gic.iccpmr
     /\ i < 32 \/ gic.icdiptr[i] % 2 = 1}

Highest(asserted) ==
  CHOOSE i \in Signalled(asserted) :
    \A j \in Signalled(asserted) \ {i} :
      gic.icdipr[i] < gic.icdipr[j] \/ (gic.icdipr[i] = gic.icdipr[j] /\ i < j)

\* FIQ is never unmasked.
Interrupted(asserted) ==
  /\ irq /\ isr.at = "none"
  /\ Signalled(asserted) # {}
  /\ ~(Group(Highest(asserted)) = "secure" /\ "fiq" \in gic.iccicr)

\* The handler runs with interrupts masked.
Interrupt(asserted) ==
  /\ Interrupted(asserted)
  /\ isr' = [at |-> "acknowledge"]
  /\ UNCHANGED <<gic, irq, driver>>

\* An edge, or a software interrupt, is no longer pending then.  1023: there is no
\* interrupt any more; 1022: it is one that a secure read may not acknowledge.
Acknowledge(asserted) ==
  /\ isr.at = "acknowledge"
  /\ LET none == Signalled(asserted) = {}
         id == Highest(asserted)
         refused == Group(id) = "ns" /\ "ack" \notin gic.iccicr
     IN IF none \/ refused
        THEN isr' = [at |-> "end", id |-> IF none THEN 1023 ELSE 1022] /\ UNCHANGED gic
        ELSE /\ isr' = [at |-> IF driver.dispatch[id].callback # "0" THEN "callback" ELSE "end",
                        id |-> id]
             /\ gic' = [gic EXCEPT !.icdabr = @ \cup {id}, !.icdispr = @ \ {id}]
  /\ UNCHANGED <<irq, driver>>

EndOfInterrupt ==
  /\ isr.at = "end"
  /\ gic' = [gic EXCEPT !.icdabr = @ \ {isr.id}]
  /\ isr' = [at |-> "none"]
  /\ UNCHANGED <<irq, driver>>
=============================================================================
