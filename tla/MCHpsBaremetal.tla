--------------------------- MODULE MCHpsBaremetal ---------------------------
(* Images of five bytes through FIFOs of four, with a trigger of two. *)
EXTENDS HpsBaremetal
=============================================================================
