------------------------------ MODULE Managers -------------------------------
(***************************************************************************)
(* The drivers a program brings the SoC up with: the clock manager, the    *)
(* FPGA manager with the bridges, and the global timer.  They share no     *)
(* register: part is the one that is looked at, the others rest.  That a   *)
(* bridge finds its clock gated is a choice of BridgeManager!BridgeCheck.  *)
(***************************************************************************)
EXTENDS BridgeManager, GlobalTimer, ClockManager

VARIABLE part

AnyOf(S) == CHOOSE x \in S : TRUE

\* What rests is in one of its states.
ClocksRest == source = AnyOf(MuxSettings) /\ ~safemod
FpgaRests  == fpga.msel = AnyOf(Msels) /\ brgmodrst = {}
TimerRests == tmr.ctrl = {}

ManagersInit ==
  /\ BMInit /\ ClockInit /\ TimerInit
  /\ \/ part = "clocks" /\ FpgaRests /\ TimerRests
     \/ part = "fpga" /\ ClocksRest /\ TimerRests
     \/ part = "timer" /\ ClocksRest /\ FpgaRests

ManagersNext ==
  \/ part = "clocks" /\ ClockNext /\ UNCHANGED <<part, vars, timerVars>>
  \/ part = "fpga" /\ Next /\ UNCHANGED <<part, clockVars, timerVars>>
  \/ part = "timer" /\ TimerNext /\ UNCHANGED <<part, vars, clockVars>>

ManagersSpec == ManagersInit /\ [][ManagersNext]_<<part, vars, clockVars, timerVars>>
=============================================================================
