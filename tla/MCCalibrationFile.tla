------------------------- MODULE MCCalibrationFile -------------------------
(* Instances of CalibrationFile for TLC. *)
EXTENDS CalibrationFile

MCTemperature(pad) == [c0 |-> 3, c1 |-> 2, pad_ref |-> pad]

MCVignette == [width |-> 4, height |-> 4, cx |-> 2, r2_max |-> 3, coeffs |-> <<3, 2>>]

\* Complete ones, some with less, and one that was made without a pad.
MCSaved ==
  {[temperature |-> MCTemperature(3), vignette |-> MCVignette, dead_pixels |-> {1, 3}],
   [temperature |-> MCTemperature(NaN), vignette |-> Unset, dead_pixels |-> {}],
   [temperature |-> Unset, vignette |-> MCVignette, dead_pixels |-> Unset]}
=============================================================================
