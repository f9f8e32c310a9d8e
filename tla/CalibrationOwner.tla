-------------------------- MODULE CalibrationOwner --------------------------
(***************************************************************************)
(* What the life cycle of a camera promises about the ownership of the     *)
(* temperature mapping: the firmware owns it until a boot hands it to the  *)
(* camera or the application to itself, the camera never takes it outside  *)
(* of open(), and nobody takes it from the application.                    *)
(***************************************************************************)
VARIABLES phase, owner

vars == <<phase, owner>>

Init == phase = "closed" /\ owner = "Firmware"

Open == phase # "opening" /\ phase' = "opening" /\ UNCHANGED owner

\* Only a boot makes the camera the owner, and never instead of the host.
CameraTakes ==
  /\ phase = "opening" /\ owner # "Host"
  /\ owner' = "CameraAuto" /\ UNCHANGED phase

Ready == phase = "opening" /\ phase' = "streaming" /\ UNCHANGED owner

HostTakes == phase # "opening" /\ owner' = "Host" /\ UNCHANGED phase

Close == phase' = "closed" /\ UNCHANGED owner

Next == Open \/ CameraTakes \/ Ready \/ HostTakes \/ Close

Spec == Init /\ [][Next]_vars
=============================================================================
