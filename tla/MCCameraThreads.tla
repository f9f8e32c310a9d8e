-------------------------- MODULE MCCameraThreads --------------------------
(* Instances of CameraThreads for TLC. *)
EXTENDS CameraThreads, TLC

\* The grabbers are interchangeable, and so are the setters.
Symmetric == Permutations(Grabbers) \cup Permutations(Setters)
=============================================================================
