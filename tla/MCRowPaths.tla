----------------------------- MODULE MCRowPaths ------------------------------
(* Bursts of five words, to and from two addresses; rows of five words: the first,      *)
(* three in the middle, the last.  Pixels that are black, white, and a third of white,  *)
(* which gives ties of unequal pixels.                                                  *)
EXTENDS RowPaths

MCBurstAddress == {0, 64}
MCBorder == <<0, 0>>
MCPixels == {0, 85, 255}
=============================================================================
