--------------------------- MODULE MCControlPath ----------------------------
(* ControlPath on a small image, at two possible places in memory. *)
EXTENDS ControlPath

MCAddress == {64, 4096}
=============================================================================
