------------------------- MODULE ThresholdOperator --------------------------
(***************************************************************************)
(* The arithmetic of the filter, which AdaptiveThreshold leaves out:       *)
(* do_computation of adaptive_threshold.vhd on a 3x3 window of pixels,     *)
(* and the same decision as do_adaptive_threshold_hps takes it in          *)
(* software.                                                               *)
(*                                                                         *)
(* The window slides over a row: at every step a column of three pixels    *)
(* enters on the right and one leaves on the left.                         *)
(***************************************************************************)
EXTENDS Naturals

CONSTANT Pixels        \* the values of a pixel

ASSUME PixelsAssumption == Pixels \subseteq 0..255 /\ 0 \in Pixels

VARIABLE window        \* the pixels row1, row2, row3, each left, centre, right

\* Mutant of Add12: a sum of eleven bits.
Add11(sum, pixel) == (sum + pixel) % 2048

\* region_sum is unsigned(11 downto 0).
Add12(sum, pixel) == (sum + pixel) % 4096

AddRow(sum, row) == Add12(Add12(Add12(sum, row[3]), row[2]), row[1])

RegionSum(w) == AddRow(AddRow(AddRow(0, w[1]), w[2]), w[3])

\* 9*unsigned(row2(15 downto 8)): the product of two 8-bit numbers has 16 bits.
NineTimes(pixel) == (9 * pixel) % 65536

DoComputation(w) == IF RegionSum(w) < NineTimes(w[2][2]) THEN 255 ELSE 0

\* sum is uint16_t in the software filter.
Add16(sum, pixel) == (sum + pixel) % 65536

AddRow16(sum, row) == Add16(Add16(Add16(sum, row[1]), row[2]), row[3])

\* Mutant of Software: ties are black.
SoftwareOrEqual(w) ==
  IF AddRow16(AddRow16(AddRow16(0, w[1]), w[2]), w[3]) >= 9 * w[2][2] THEN 0 ELSE 255

\* The software filter decides after each of the three rows; the last decision
\* overwrites the others.
Software(w) ==
  IF AddRow16(AddRow16(AddRow16(0, w[1]), w[2]), w[3]) > 9 * w[2][2] THEN 0 ELSE 255
-----------------------------------------------------------------------------
Init == window = [i \in 1..3 |-> [j \in 1..3 |-> 0]]

Slide(column) ==
  window' = [i \in 1..3 |-> [j \in 1..3 |-> IF j = 3 THEN column[i] ELSE window[i][j + 1]]]

Next == \E column \in [1..3 -> Pixels] : Slide(column)

Spec == Init /\ [][Next]_window
-----------------------------------------------------------------------------
TypeOK == window \in [1..3 -> [1..3 -> Pixels]]

\* The exact sum of the window, and the mean compared with its centre.
RowSum(row) == row[1] + row[2] + row[3]
Sum(w) == RowSum(w[1]) + RowSum(w[2]) + RowSum(w[3])

\* The 12-bit sum and the 16-bit product never wrap: a pixel comes out white
\* exactly when it is brighter than the mean of its window.
BrighterThanMean == DoComputation(window) = 255 <=> 9 * window[2][2] > Sum(window)

\* The software filter decides the same, but for a pixel that is exactly as
\* bright as the mean: black in hardware (adaptive_threshold.vhd:113), white in
\* software (hps_baremetal.c:213).
DiffersOnTiesOnly ==
  DoComputation(window) = Software(window) <=> Sum(window) # 9 * window[2][2]
=============================================================================
