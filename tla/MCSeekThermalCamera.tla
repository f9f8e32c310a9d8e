------------------------ MODULE MCSeekThermalCamera ------------------------
(* Instances of SeekThermalCamera for TLC. *)
EXTENDS SeekThermalCamera

\* A calibration pinned to a pad the camera may also read, and an unpinned one.
MCHostCals == {[c0 |-> 7, c1 |-> 3, padRef |-> 2], [c0 |-> 9, c1 |-> 1, padRef |-> NaN]}
MCPinnedOnly == {[c0 |-> 7, c1 |-> 3, padRef |-> 2]}
=============================================================================
