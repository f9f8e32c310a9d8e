-------------------------- MODULE MCColorizeRange --------------------------
(* Instances of ColorizeRange for TLC. *)
EXTENDS ColorizeRange

\* Frames as the camera makes them, and frames stretched to the range of values, as the
\* source element's normalisation does it, and cut off there.
MCTransforms == {[scale |-> 1, offset |-> 0], [scale |-> 2, offset |-> 1]}

\* A bound on the exploration: a limit takes at most two values during a transform, and
\* with a window of three frames only one of the limits does.
FewChanges ==
  /\ Cardinality(lowHad) <= 2 /\ Cardinality(highHad) <= 2
  /\ count > 2 => Cardinality(lowHad) <= 1 \/ Cardinality(highHad) <= 1
=============================================================================
