------------------------- MODULE CalibrationSession -------------------------
(***************************************************************************)
(* The calibration tool with the captures its menu entries make: each      *)
(* entry prepares the camera, captures frame by frame, and goes on with    *)
(* what was captured or undoes what it prepared.  Shutter frames come in   *)
(* between; those that pass the frame pipeline of the camera move a c0     *)
(* that the camera owns.                                                   *)
(***************************************************************************)
EXTENDS CaptureLoops, CalibrationTool

VARIABLE mappings  \* history: <<c0, anchor>> of the frames measured in this capture

captureVars == <<kind, pc, got, attempts, skipped, result, thermal, useless, stale>>
sessionVars == <<captureVars, toolVars, mappings>>

SessionInit == Init /\ ToolInit /\ mappings = {}

\* Nothing is being captured.
Between(phases) == pc = "idle" /\ phase \in phases /\ UNCHANGED <<captureVars, mappings>>

\* The steps of the tool, and of its user, that grab nothing, or only a preview.
Menu ==
  \/ Between({"off"}) /\ Boot
  \/ Between({"booted"}) /\ LoadCalibration
  \/ Between({"menu", "known"}) /\ Shutter
  \/ Between({"menu"}) /\ (KnownBegin \/ (\E o \in Offsets : doManualOffset(o)) \/ doSave)
  \/ Between({"known"}) /\ KnownAborted
  \/ Between({"booted", "menu", "known"}) /\ Quit

\* An entry prepares the camera and begins its capture.  captureAnchorLive() belongs to
\* no entry yet; whoever calls it calls it like this.
BeginCapture ==
  /\ mappings' = {}
  /\ \/ VignetteBegin /\ Begin("average")
     \/ KnownInstall /\ Begin("average")
     \/ DeadPixelsBegin /\ Begin("welford")
     \/ phase = "menu" /\ Begin("anchor") /\ UNCHANGED toolVars

\* Does the frame that is grabbed now go through the camera's pipeline?
Pipeline == pc = "warmup" \/ kind \notin Raw

\* doKnownTemperature() keeps the temperatures of the thermal frames.
Measure(type) ==
  mappings' = IF phase = "measuring" /\ pc = "capture" /\ type = "thermal"
              THEN mappings \cup {<<c0, anchor>>} ELSE mappings

GrabFrame(type) ==
  /\ Drain(type) \/ \E usable \in BOOLEAN : Grab(type, usable)
  /\ Measure(type)
  /\ IF type = "shutter" /\ Pipeline /\ c0Source = "CameraAuto" THEN Shutter
     ELSE UNCHANGED toolVars

GrabNone ==
  /\ Drained \/ Retry \/ GrabFails \/ RawThrows \/ Throws \/ GiveUp \/ Finish
  /\ UNCHANGED <<toolVars, mappings>>

\* What a capture counted is gone when its entry is over.
Forget ==
  /\ pc = "idle" /\ result # "none" /\ result' = "none" /\ mappings' = {}
  /\ kind' = "average" /\ got' = 0 /\ attempts' = 0 /\ skipped' = 0 /\ thermal' = 0 /\ useless' = 0
  /\ UNCHANGED <<pc, stale>>

Captured == result = "ok"

\* The entry goes on with what was captured, if anything was and, for a vignette, if it
\* can be fitted.
EndCapture ==
  /\ Forget
  /\ \/ Captured /\ (KnownDone \/ \E v \in Versions : VignetteDone(v) \/ DeadPixelsDone(v))
     \/ VignetteFails
     \/ ~Captured /\ (KnownFails \/ DeadPixelsFail)
     \/ phase = "menu" /\ UNCHANGED toolVars

\* grabFrame() threw, and nobody catches it: the program is gone.
Terminate == Quit /\ Restart /\ mappings' = {}

Capturing == (\E type \in Types : GrabFrame(type)) \/ GrabNone \/ EndCapture \/ Terminate

SessionNext == Menu \/ BeginCapture \/ Capturing

\* Every transfer has a timeout: a capture under way goes on.
SessionSpec == SessionInit /\ [][SessionNext]_sessionVars /\ WF_sessionVars(Capturing)

-----------------------------------------------------------------------------
\* "The additive c0 identity": the difference between the known and the measured
\* temperature is added to the c0 the measurement started with.  That holds only if all
\* frames were mapped with that c0, and one anchor: whatever shutter cycles come in
\* while it warms up and measures, and whoever owned c0 before.
MeasuredUnderSeed ==
  phase = "measuring" => \A m \in mappings : m = <<seed, anchor>>

\* The detection of dead pixels, warm-up and all, comes back to the menu, whatever the
\* device sends; or the tool ends.
DeadPixelsReturn == phase = "deadPixels" ~> phase # "deadPixels"
=============================================================================
