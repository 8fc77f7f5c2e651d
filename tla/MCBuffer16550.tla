--------------------------- MODULE MCBuffer16550 ---------------------------
(* Rings, FIFOs and the caller's output array of two or three bytes, so that a few *)
(* bytes fill and wrap them; one received and one written line end, and in front  *)
(* of the one that is received a byte that is zero.  The transmit interrupt comes *)
(* when there is room for a byte.                                                 *)
EXTENDS Buffer16550

MCLineEnds  == {2, -2}
MCNuls      == {1}
MCNoEcho    == {}
MCEchoModes == BOOLEAN \X BOOLEAN
=============================================================================
