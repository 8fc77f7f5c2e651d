--------------------------- MODULE BridgeManager ----------------------------
(***************************************************************************)
(* alt_bridge_manager.c on top of the FPGA manager: a bridge between the   *)
(* processor and the FPGA is taken out of reset, or put back into it, by   *)
(* the same program that configures the FPGA.                              *)
(***************************************************************************)
EXTENDS FpgaManager

CONSTANT Bridges       \* LWH2F, H2F and F2H, or some of them

VARIABLES brgmodrst,   \* the bridges held in reset
          f2s_ports,   \* the ports of the SDRAM controller, for the bridge F2S
          bridge       \* the bridge call under way

vars == <<manager, brgmodrst, f2s_ports, bridge>>

NoBridge == [at |-> "Idle", id |-> ""]

BMInit ==
  /\ Init
  /\ brgmodrst \in SUBSET Bridges
  /\ f2s_ports = FALSE
  /\ bridge = NoBridge

\* What a callback of the caller, if there is one, may return.
CallbackResult == {"SUCCESS", "ERROR"}

BridgeReturn(s) == status' = s /\ bridge' = NoBridge

\* alt_bridge_init puts the bridge into reset before it looks at anything.
alt_bridge_init(b) ==
  /\ call.at = "Idle" /\ bridge.at = "Idle"
  /\ brgmodrst' = brgmodrst \cup {b}
  /\ bridge' = [at |-> "Check", id |-> b]
  /\ status' = "Running"
  /\ UNCHANGED <<ctl, fpga, call, f2s_ports>>

\* Mutant of BridgeCheck: that the FPGA is powered on is enough.
BridgeCheckPower ==
  /\ bridge.at = "Check"
  /\ IF alt_fpga_state_get = "POWER_OFF" THEN BridgeReturn("FPGA_PWR_OFF")
     ELSE bridge' = [bridge EXCEPT !.at = "Ready"] /\ UNCHANGED status
  /\ UNCHANGED <<ctl, fpga, call, brgmodrst, f2s_ports>>

\* The clock l4_mp_clk, then the state of the FPGA, which is read once.
BridgeCheck ==
  /\ bridge.at = "Check"
  /\ \/ BridgeReturn("BAD_CLK")
     \/ alt_fpga_state_get = "POWER_OFF" /\ BridgeReturn("FPGA_PWR_OFF")
     \/ alt_fpga_state_get \notin {"POWER_OFF", "USER_MODE"} /\ BridgeReturn("FPGA_NOT_USER_MODE")
     \/ /\ alt_fpga_state_get = "USER_MODE"
        /\ bridge' = [bridge EXCEPT !.at = "Ready"]
        /\ UNCHANGED status
  /\ UNCHANGED <<ctl, fpga, call, brgmodrst, f2s_ports>>

\* fpga_is_ready, or no callback at all, and the release.
BridgeReady ==
  /\ bridge.at = "Ready"
  /\ \E s \in CallbackResult :
       /\ BridgeReturn(s)
       /\ brgmodrst' = IF s = "SUCCESS" THEN brgmodrst \ {bridge.id} ELSE brgmodrst
  /\ UNCHANGED <<ctl, fpga, call, f2s_ports>>

\* A bridge that is not in reset is torn down with the handshake of the caller.
alt_bridge_uninit(b) ==
  /\ call.at = "Idle" /\ bridge.at = "Idle"
  /\ \E s \in CallbackResult :
       /\ b \in brgmodrst => s = "SUCCESS"
       /\ brgmodrst' = IF s = "SUCCESS" THEN brgmodrst \cup {b} ELSE brgmodrst
       /\ status' = s
  /\ UNCHANGED <<ctl, fpga, call, bridge, f2s_ports>>

\* The bridge F2S has ports in place of a reset.  The helper runs from on-chip memory
\* with the caches off; memory and caches are as before when it has returned.
alt_bridge_f2s(open) ==
  /\ call.at = "Idle" /\ bridge.at = "Idle"
  /\ \E s \in CallbackResult :
       /\ f2s_ports' = IF s = "SUCCESS" THEN open ELSE f2s_ports
       /\ status' = s
  /\ UNCHANGED <<ctl, fpga, call, bridge, brgmodrst>>

BridgeNext ==
  \/ \E b \in Bridges : alt_bridge_init(b) \/ alt_bridge_uninit(b)
  \/ BridgeCheck \/ BridgeReady
  \/ \E open \in BOOLEAN : alt_bridge_f2s(open)

\* The program makes one call at a time.
ManagerStep ==
  /\ ControlBlock \/ (bridge.at = "Idle" /\ ManagerNext)
  /\ UNCHANGED <<brgmodrst, f2s_ports, bridge>>

Next == BridgeNext \/ ManagerStep

Spec == BMInit /\ [][Next]_vars
-----------------------------------------------------------------------------
\* No bridge is opened into an FPGA that is not configured, unless its power fails
\* between the look and the release, or the program has asked for its reset without
\* waiting for it; one that could not be opened is held in reset, also if it was open
\* before.
BridgeGuarded ==
  [][\A b \in Bridges :
       /\ b \in brgmodrst /\ b \notin brgmodrst' =>
            fpga.conf_done \/ ~fpga.power \/ ctl.ncfgpull
       /\ bridge = [at |-> "Check", id |-> b] /\ bridge'.at = "Idle" => b \in brgmodrst'
       /\ bridge = [at |-> "Ready", id |-> b] /\ bridge'.at = "Idle" /\ status' # "SUCCESS" =>
            b \in brgmodrst']_vars
=============================================================================
