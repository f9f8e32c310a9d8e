------------------------- MODULE CalibrationValues -------------------------
(* What a CameraCalibration holds in place of what it does not have: the   *)
(* optional sections, and the pad_ref of a temperature section.            *)

CONSTANTS Unset, NaN
=============================================================================
