---------------------------- MODULE ImageFilter -----------------------------
(***************************************************************************)
(* What the accelerator promises to the program: between the request and   *)
(* the moment the program is told it is done, every word of the image is   *)
(* replaced, first word first, by its filtered form computed from the      *)
(* ORIGINAL image.  No FIFO, no bus, no clock.                             *)
(*                                                                         *)
(* A pixel of the image is <<frame, offset>>; offset runs on into the      *)
(* memory behind the image, which belongs to frame 0.  A filtered pixel is *)
(* the 3x3 window of pixels it was computed from.                          *)
(***************************************************************************)
EXTENDS Integers, Sequences

CONSTANTS RowCount,    \* rows of the image
          ColCount     \* words in a row

VARIABLES image,       \* the words of the image in memory
          frame,       \* which image was loaded last
          requested,   \* the program waits for the accelerator
          aborted      \* the board was reset since the request

vars == <<image, frame, requested, aborted>>

Width  == 4 * ColCount                     \* pixels in a row
Words  == 0 .. RowCount * ColCount - 1
Border == <<0, 0>>

Pixel(f, row, col) ==
  IF row < 0 \/ col < 0 \/ col >= Width THEN Border
  ELSE <<IF row < RowCount THEN f ELSE 0, row * Width + col>>

OriginalWord(f, w) ==
  [p \in 1..4 |-> Pixel(f, w \div ColCount, 4 * (w % ColCount) + p - 1)]

\* The left neighbour the hardware uses.  It is not always the adjacent pixel:
\* see Accelerator!LeftNeighbourAdjacent.
LeftOf(col) == IF col % 4 = 0 /\ col > 0 THEN col - 2 ELSE col - 1

\* The row below the last row of the image is whatever follows it in memory:
\* see ControlPath!ReadsInsideImage.
Window(f, row, col) ==
  LET Slice(r) == << Pixel(f, r, LeftOf(col)), Pixel(f, r, col), Pixel(f, r, col + 1) >>
  IN  << Slice(row - 1), Slice(row), Slice(row + 1) >>

FilteredWord(f, w) ==
  [p \in 1..4 |-> Window(f, w \div ColCount, 4 * (w % ColCount) + p - 1)]
-----------------------------------------------------------------------------
Init ==
  /\ image = [w \in Words |-> OriginalWord(1, w)]
  /\ frame = 1
  /\ requested = FALSE
  /\ aborted = FALSE

\* The program fills the buffer with the next image.
Load ==
  /\ ~requested
  /\ frame' = frame + 1
  /\ image' = [w \in Words |-> OriginalWord(frame + 1, w)]
  /\ UNCHANGED <<requested, aborted>>

Request ==
  /\ ~requested
  /\ \A w \in Words : image[w] = OriginalWord(frame, w)
  /\ requested' = TRUE
  /\ aborted' = FALSE
  /\ UNCHANGED <<image, frame>>

FilterWord(w) ==
  /\ requested /\ ~aborted
  /\ \A v \in 0 .. w - 1 : image[v] = FilteredWord(frame, v)
  /\ image[w] = OriginalWord(frame, w)
  /\ image' = [image EXCEPT ![w] = FilteredWord(frame, w)]
  /\ UNCHANGED <<frame, requested, aborted>>

\* The program learns that the image is done.
Finish ==
  /\ requested
  /\ aborted \/ \A w \in Words : image[w] = FilteredWord(frame, w)
  /\ requested' = FALSE
  /\ UNCHANGED <<image, frame, aborted>>

Abort ==
  /\ aborted' = TRUE
  /\ UNCHANGED <<image, frame, requested>>

Next ==
  \/ Load
  \/ Request
  \/ \E w \in Words : FilterWord(w)
  \/ Finish
  \/ Abort

Spec == Init /\ [][Next]_vars
=============================================================================
