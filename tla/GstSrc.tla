------------------------------- MODULE GstSrc -------------------------------
(***************************************************************************)
(* The GStreamer source element openseekthermalsrc: its state changes, and *)
(* the retry loop of create() on the streaming thread while an application *)
(* thread sets properties.  What create() does to a frame that it delivers *)
(* is the subject of NormalizationWindow.                                  *)
(***************************************************************************)
EXTENDS Integers

CONSTANTS
  MaxTries,  \* MAX_TRIES
  MaxSkips   \* bound on the non-thermal frames a camera sends in one create()

ASSUME SrcAssumption == MaxTries \in Nat /\ MaxTries > 2 /\ MaxSkips \in Nat

VARIABLES
  element,      \* the state of the element: "NULL", "READY" or "PLAYING"
  camera,       \* "none", "closed" or "open"; "left": not open, but has its handle
  path,         \* is a calibration configured?
  calibrated,   \* did the camera get the configured calibration?
  skipInvalid,  \* skip_invalid_frames
  firstFrame,   \* first_frame
  step, tries,    \* is create() running, and its counter of tries
  flow          \* what the last create() returned: "none" while it runs

\* History variables, all about the running or last create().
VARIABLES
  failed, skipped,  \* the number of grabs that failed, and that were skipped
  valid,            \* did it grab a frame to deliver?
  emitted           \* the type of the frame it delivered

grabs == <<failed, skipped, valid, emitted>>
srcVars  == <<element, camera, path, calibrated, skipInvalid, firstFrame, step, tries, flow, grabs>>

SrcInit ==
  /\ element = "NULL" /\ camera = "none" /\ path = FALSE /\ calibrated = FALSE
  /\ skipInvalid = TRUE /\ firstFrame = TRUE
  /\ step = "idle" /\ tries = 1 /\ flow = "none"
  /\ failed = 0 /\ skipped = 0 /\ valid = FALSE /\ emitted = "none"

-----------------------------------------------------------------------------
\* Nothing is known of a create() yet.
Fresh ==
  /\ tries' = 1 /\ flow' = "none"
  /\ failed' = 0 /\ skipped' = 0 /\ valid' = FALSE /\ emitted' = "none"

\* What opening and closing leave alone.
Aside == UNCHANGED <<path, skipInvalid, step, tries, flow, grabs>>

\* NULL to READY: a new camera replaces the old one and is opened; then the
\* configured calibration is loaded and installed.
ToReady ==
  /\ element = "NULL" /\ element' = "READY"
  /\ camera' = "open" /\ firstFrame' = TRUE /\ calibrated' = path
  /\ Aside

\* No such device leaves the old camera; an exception leaves the new one.
ToReadyFails ==
  /\ element = "NULL" /\ camera' \in {camera, "closed", "left"}
  /\ calibrated' = FALSE
  /\ UNCHANGED <<element, firstFrame>> /\ Aside

\* A mutant: the camera stays open.
MutCalibrationOpen ==
  /\ element = "NULL" /\ path /\ camera' = "open"
  /\ firstFrame' = TRUE /\ calibrated' = FALSE
  /\ UNCHANGED element /\ Aside

\* The camera opened, but its calibration does not load.
CalibrationFails ==
  /\ element = "NULL" /\ path /\ camera' = "closed"
  /\ firstFrame' = TRUE /\ calibrated' = FALSE
  /\ UNCHANGED element /\ Aside

Play ==
  /\ element = "READY" /\ element' = "PLAYING"
  /\ UNCHANGED <<camera, calibrated, firstFrame>> /\ Aside

\* The base class waits for create() to return; what it did is over.
Stop ==
  /\ element = "PLAYING" /\ step = "idle" /\ element' = "READY"
  /\ Fresh /\ UNCHANGED <<camera, path, calibrated, skipInvalid, firstFrame, step>>

ToNull ==
  /\ element = "READY" /\ element' = "NULL" /\ camera' = "closed"
  /\ UNCHANGED <<calibrated, firstFrame>> /\ Aside

\* set_property() on the application's thread: a path is used when the camera is
\* opened the next time, skip-invalid-frames at once.
SetProperties ==
  /\ path' \in BOOLEAN /\ skipInvalid' \in BOOLEAN
  /\ UNCHANGED <<element, camera, calibrated, firstFrame, step, tries, flow, grabs>>

-----------------------------------------------------------------------------
Create ==
  /\ element = "PLAYING" /\ step = "idle" /\ step' = "loop" /\ Fresh
  /\ UNCHANGED <<element, camera, path, calibrated, skipInvalid, firstFrame>>

\* What grabbing leaves alone.
Beside == UNCHANGED <<element, camera, path, calibrated, skipInvalid>>

\* A mutant: failed grabs are not counted.
MutCountTry == tries' = tries

CountTry == tries' = tries + 1

GrabFails ==
  /\ step = "grabbing" /\ CountTry /\ step' = "loop"
  /\ failed' = IF failed < MaxTries THEN failed + 1 ELSE failed
  /\ UNCHANGED <<firstFrame, flow, skipped, valid, emitted>> /\ Beside

\* A skipped frame costs no try.
GrabSkipped ==
  /\ step = "grabbing" /\ skipInvalid /\ step' = "loop"
  /\ skipped < MaxSkips /\ skipped' = skipped + 1
  /\ UNCHANGED <<firstFrame, tries, flow, failed, valid, emitted>> /\ Beside

Loop ==
  /\ step = "loop"
  /\ IF tries < MaxTries THEN step' = "grabbing" /\ UNCHANGED flow
                         ELSE step' = "idle" /\ flow' = "error"
  /\ UNCHANGED <<firstFrame, tries, grabs>> /\ Beside

\* The frame to deliver costs a try, too, unless it is the first one.
TriesAfter == IF firstFrame THEN tries ELSE tries + 1

GrabAccepted(type) ==
  /\ step = "grabbing" /\ (skipInvalid => type = "thermal")
  /\ valid' = TRUE /\ tries' = TriesAfter /\ step' = "idle"
  /\ \/ tries' < MaxTries /\ flow' = "ok" /\ emitted' = type /\ firstFrame' = FALSE
     \/ tries' >= MaxTries /\ flow' = "error" /\ UNCHANGED <<emitted, firstFrame>>
  /\ UNCHANGED <<failed, skipped>> /\ Beside

CreateStep ==
  \/ Loop \/ GrabFails \/ GrabSkipped
  \/ \E type \in {"thermal", "other"} : GrabAccepted(type)

SrcNext ==
  \/ ToReady \/ ToReadyFails \/ CalibrationFails \/ Play \/ Stop \/ ToNull
  \/ SetProperties \/ Create \/ CreateStep

SrcSpec == SrcInit /\ [][SrcNext]_srcVars

\* A grab is bounded by the timeouts of its transfers, so create() runs on.
SrcFairSpec == SrcSpec /\ WF_srcVars(CreateStep)

-----------------------------------------------------------------------------
SrcTypeOK ==
  /\ element \in {"NULL", "READY", "PLAYING"}
  /\ camera \in {"none", "closed", "left", "open"}
  /\ path \in BOOLEAN /\ calibrated \in BOOLEAN /\ skipInvalid \in BOOLEAN
  /\ firstFrame \in BOOLEAN /\ valid \in BOOLEAN
  /\ step \in {"idle", "loop", "grabbing"} /\ (step = "grabbing" => tries < MaxTries)
  /\ tries \in 1 .. MaxTries /\ flow \in {"none", "ok", "error"}
  /\ failed \in 0 .. MaxTries /\ skipped \in 0 .. MaxSkips
  /\ emitted \in {"none", "thermal", "other"}

\* create() gives up only after MAX_TRIES - 1 failed grabs, or MAX_TRIES - 2 when
\* the frame that came at last is not the first one; skipped frames do not count.
GivesUpLate ==
  flow = "error" => failed = IF valid THEN MaxTries - 2 ELSE MaxTries - 1

\* The camera is open from the first to the last moment the element is not NULL,
\* whichever step of opening failed before.
OpenWhileReady == camera = "open" <=> element # "NULL"

\* An element that was given a calibration never gets ready without it.
ReadyIsCalibrated == [][element = "NULL" /\ element' = "READY" /\ path => calibrated']_srcVars

\* create() returns, if the camera sends finitely many frames to skip in a row.
CreateReturns == step # "idle" ~> step = "idle"

-----------------------------------------------------------------------------
(* What documentation and messages say, and what the code does otherwise.  *)

\* "Failed to get a valid frame in %d tries.": an element that gives up did not get
\* a frame that it could have delivered.
GaveUpWithoutFrame == flow = "error" => ~valid
=============================================================================
