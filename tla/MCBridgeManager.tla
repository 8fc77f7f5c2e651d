--------------------------- MODULE MCBridgeManager --------------------------
(* The FPGA and the bridges alone, for what the FPGA manager does not keep. *)
EXTENDS BridgeManager

MCMsels == {1, 3, 10}
=============================================================================
