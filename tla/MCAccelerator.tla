--------------------------- MODULE MCAccelerator ----------------------------
(* The accelerator on an image of 4 rows of 3 words, the narrowest rows the
   threshold component can filter. *)
EXTENDS Accelerator
=============================================================================
