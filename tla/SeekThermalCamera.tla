------------------------- MODULE SeekThermalCamera -------------------------
(***************************************************************************)
(* The calibration life cycle of SeekThermalCamera: open() with its setup  *)
(* attempts and startup frames, the shutter cycles of a running stream,    *)
(* setCalibration() and close(), as one caller sees them (the locks are    *)
(* the subject of CameraThreads).  What is followed is who owns the       *)
(* offset c0 of the count-to-temperature mapping and which pad reading the *)
(* drift anchor holds, because a delivered temperature is                  *)
(*     c0 + c1 * (raw - KPad * (pad - anchor))                             *)
(* and is right only if c0 and the anchor belong together.                 *)
(*                                                                         *)
(* Numbers are integers: a temperature, a slope, a mean count and a pad    *)
(* reading are only added, subtracted, multiplied and compared.  A pad or  *)
(* mean of 0 is what the code computes when a frame has no valid pixel.    *)
(***************************************************************************)
EXTENDS Integers

CONSTANTS
  Pads,          \* usable readings of the pad column
  Means,         \* usable means of a shutter frame
  HeaderSlopes,  \* slopes 100/counts a header may carry; 0: it carries none
  HostCals,      \* temperature sections an application may install
  TRef,          \* factory_T_ref_, read by setupCamera()
  KPad,          \* substrate_drift_coefficient_; 0 switches the term off
  Reopens,       \* does setupCamera() reopen the device it closed to retry?
  Attempts,      \* kSetupAttempts
  Budget,        \* kBudget
  NaN, NoTemp, NoFrame

Calibrations == [c0 : Int, c1 : Int, padRef : Int \cup {NaN}]

ASSUME CameraAssumption ==
  /\ Pads \subseteq Nat \ {0} /\ Means \subseteq Nat \ {0}
  /\ HeaderSlopes \subseteq Nat
  /\ HostCals \subseteq Calibrations
  /\ TRef \in Nat /\ KPad \in Nat
  /\ Reopens \in BOOLEAN
  /\ Attempts \in Nat \ {0} /\ Budget \in Nat \ {0}
  /\ NaN \notin Int /\ NoTemp \notin Calibrations
  /\ NoFrame \notin [mean : Nat, pad : Nat]

VARIABLES
  pc,           \* "idle": no call of open() is running
  device,       \* the libusb handle: "closed", "unclaimed" or "claimed"
  anchor,       \* drift_reference_anchor_, NaN when drift_anchor_set_ is false
  shutter,      \* the frame last_shutter_mean_ and shutter_offset_ come from
  temperature,  \* calibration_.temperature
  c0Source,     \* c0_source_
  attempt,      \* open(): the attempt under way
  used,         \* tryConsumeStartupFrames(): transfers consumed so far
  ft8Seen,      \* tryConsumeStartupFrames(): ft8_seen
  bootPad,      \* tryConsumeStartupFrames(): boot_shutter_pad
  result        \* how the last open() ended

\* History variables: the code does not keep them, the properties need them.
VARIABLES
  c0Ref,        \* the shutter mean and pad c0 was computed from, this session
  pinned,       \* was the anchor put there by setCalibration()?
  tried,        \* did the last open() get past openDevice(), into its try block?
  hostTemp      \* the temperature section setCalibration() installed last

session  == <<anchor, shutter, c0Ref, pinned>>
mapping  == <<temperature, c0Source, hostTemp>>
startup  == <<attempt, used, ft8Seen, bootPad>>
outcome  == <<result, tried>>
vars     == <<pc, device, session, mapping, startup, outcome>>

Frames == [type : {"ft8", "ft1", "ft3", "other"},
           mean : Means \cup {0}, pad : Pads \cup {0}, slope : HeaderSlopes]

Identity == [c0 |-> -273, c1 |-> 0, padRef |-> NaN]

\* The last open() succeeded and the device was not closed since.
Streaming == pc = "idle" /\ result = "ok" /\ device # "closed"

-----------------------------------------------------------------------------
ShutterMean(s) == IF s = NoFrame THEN 0 ELSE s.mean

\* A frame without a valid pixel leaves the reference as it was.
applyShutterReference(f) ==
  IF f.mean = 0 THEN shutter ELSE [mean |-> f.mean, pad |-> f.pad]

ShutterC0(mean, pad, a, c1) == TRef - c1 * (mean - KPad * (pad - a))

CanUpdate(t, a, pad) ==
  TRef > 0 /\ t # NoTemp /\ KPad > 0 /\ a # NaN /\ pad > 0

\* The mapping t and its history after a call with this mean and pad.
updateTemperatureCalibration(t, a, s, pad) ==
  IF CanUpdate(t, a, pad)
  THEN /\ temperature' = [t EXCEPT !.c0 = ShutterC0(ShutterMean(s), pad, a, t.c1)]
       /\ c0Ref' = [mean |-> ShutterMean(s), pad |-> pad,
                    meanPad |-> IF s = NoFrame THEN 0 ELSE s.pad]
  ELSE temperature' = t /\ c0Ref' = c0Ref

\* close(): the session state goes with the handle; without a handle, nothing.
close ==
  /\ device' = "closed"
  /\ IF device = "closed" THEN UNCHANGED session
     ELSE anchor' = NaN /\ shutter' = NoFrame /\ c0Ref' = NoFrame /\ pinned' = FALSE

\* A mutant: the catch block catches SeekSetupError only.
MutThrow(e) ==
  /\ IF e = "SeekSetupError" THEN close ELSE UNCHANGED <<device, session>>
  /\ result' = e /\ pc' = "idle"
  /\ UNCHANGED <<mapping, startup, tried>>

\* open(): the catch block closes the device and rethrows.
Throw(e) ==
  /\ close /\ result' = e /\ pc' = "idle"
  /\ UNCHANGED <<mapping, startup, tried>>

-----------------------------------------------------------------------------
Init ==
  /\ pc = "idle" /\ device = "closed"
  /\ anchor = NaN /\ shutter = NoFrame /\ c0Ref = NoFrame /\ pinned = FALSE
  /\ temperature = NoTemp /\ c0Source = "Firmware" /\ hostTemp = NoTemp
  /\ attempt = 0 /\ used = 0 /\ ft8Seen = FALSE /\ bootPad = 0
  /\ result = "none" /\ tried = FALSE

\* open() reaches setupCamera(): the device was found, configured and claimed,
\* or there already was a handle.
OpenDevice ==
  /\ pc = "idle"
  /\ device' = IF device = "closed" THEN "claimed" ELSE device
  /\ pc' = "setup" /\ attempt' = 0 /\ result' = "none" /\ tried' = TRUE
  /\ UNCHANGED <<session, mapping, used, ft8Seen, bootPad>>

\* openDevice() throws, before libusb_open() or after it.  It runs outside
\* the try block of open(), so nothing is closed.
OpenDeviceFails ==
  /\ pc = "idle" /\ device = "closed"
  /\ \/ result' \in {"USBError", "SeekSetupError"} /\ UNCHANGED device
     \/ result' = "USBError" /\ device' = "unclaimed"
  /\ tried' = FALSE
  /\ UNCHANGED <<pc, session, mapping, startup>>

BeginStartup ==
  /\ pc' = "startup" /\ used' = 0 /\ ft8Seen' = FALSE /\ bootPad' = 0
  /\ UNCHANGED <<mapping, attempt, outcome>>

SetupCamera ==
  /\ pc = "setup" /\ BeginStartup
  /\ UNCHANGED <<device, session>>

\* The first command fails: the device is closed, to be opened anew.
SetupCameraCloses ==
  /\ pc = "setup" /\ pc' = "reopen" /\ close
  /\ UNCHANGED <<mapping, startup, outcome>>

\* It is opened and obeys.
SetupCameraReopens ==
  /\ pc = "reopen" /\ Reopens /\ BeginStartup
  /\ device' = "claimed" /\ UNCHANGED session

\* A command fails, or the device is not found or claimed again; the Nano 300 does
\* not open it and writes to no handle.
SetupCameraFails ==
  /\ pc \in {"setup", "reopen"}
  /\ Throw("SeekSetupError") \/ Throw("USBError")

-----------------------------------------------------------------------------
\* One transfer of tryConsumeStartupFrames().  Every frame may seed the slope.
SeededSlope(f) ==
  IF temperature = NoTemp /\ f.slope # 0
  THEN [c0 |-> 0, c1 |-> f.slope, padRef |-> NaN]
  ELSE temperature

\* ft8_seen only asks whether there are offsets, not whether f gave them.
BootShutter(f) ==
  /\ ~ft8Seen /\ f.type = "ft8"
  /\ shutter' = applyShutterReference(f)
  /\ ft8Seen' = (shutter' # NoFrame)
  /\ bootPad' = IF ft8Seen' THEN f.pad ELSE bootPad
  /\ temperature' = SeededSlope(f)
  /\ UNCHANGED <<anchor, pinned, c0Ref, c0Source>>

\* A mutant: every thermal frame of the boot moves the anchor.
MutGivesAnchor(f) == f.type = "ft3" /\ f.pad > 0

GivesAnchor(f) == anchor = NaN /\ f.type = "ft3" /\ f.pad > 0

\* A mutant: the boot does not ask who owns c0.
MutSeedsC0(t) == TRef > 0 /\ t # NoTemp /\ KPad > 0 /\ bootPad > 0

SeedsC0(t) == TRef > 0 /\ t # NoTemp /\ c0Source # "Host" /\ KPad > 0 /\ bootPad > 0

FirstThermal(f) ==
  /\ GivesAnchor(f)
  /\ anchor' = f.pad /\ pinned' = FALSE
  /\ IF SeedsC0(SeededSlope(f))
     THEN /\ c0Source' = "CameraAuto"
          /\ updateTemperatureCalibration(SeededSlope(f), f.pad, shutter, bootPad)
     ELSE temperature' = SeededSlope(f) /\ UNCHANGED <<c0Source, c0Ref>>
  /\ UNCHANGED <<shutter, ft8Seen, bootPad>>

OtherStartupFrame(f) ==
  /\ ~(~ft8Seen /\ f.type = "ft8")
  /\ ~GivesAnchor(f)
  /\ temperature' = SeededSlope(f)
  /\ UNCHANGED <<session, c0Source, ft8Seen, bootPad>>

StartupFrame(f) ==
  /\ pc = "startup" /\ used < Budget
  /\ ~(ft8Seen /\ anchor # NaN)
  /\ used' = used + 1
  /\ BootShutter(f) \/ FirstThermal(f) \/ OtherStartupFrame(f)
  /\ UNCHANGED <<pc, device, attempt, hostTemp, outcome>>

\* A mutant: no mapping is installed when no header had a slope.
MutStartupDone ==
  /\ pc = "startup" /\ used > 0 /\ ft8Seen /\ anchor # NaN
  /\ pc' = "idle" /\ result' = "ok"
  /\ UNCHANGED <<device, session, mapping, startup, tried>>

\* The test at the end of the loop body, after at least one transfer: both
\* references are there, and a mapping is installed if no header had a slope.
StartupDone ==
  /\ pc = "startup" /\ used > 0
  /\ ft8Seen /\ anchor # NaN
  /\ temperature' = IF temperature = NoTemp THEN Identity ELSE temperature
  /\ pc' = "idle" /\ result' = "ok"
  /\ UNCHANGED <<device, session, c0Source, hostTemp, startup, tried>>

\* A mutant: attempts are not counted.
MutAttemptAgain ==
  pc' = "setup" /\ UNCHANGED <<device, session, mapping, startup, outcome>>

AttemptFails ==
  \/ /\ attempt + 1 < Attempts
     /\ attempt' = attempt + 1 /\ pc' = "setup"
     /\ UNCHANGED <<device, session, mapping, used, ft8Seen, bootPad, outcome>>
  \/ attempt + 1 = Attempts /\ Throw("SeekSetupError")

StartupTransferFails ==
  /\ pc = "startup" /\ used < Budget
  /\ ~(ft8Seen /\ anchor # NaN)
  /\ AttemptFails

StartupBudgetSpent ==
  /\ pc = "startup" /\ used = Budget
  /\ ~(ft8Seen /\ anchor # NaN)
  /\ AttemptFails

-----------------------------------------------------------------------------
\* grabRawCountsFrame() receives a periodic shutter frame.  The other frames of
\* a running stream change nothing here and are left out.
GrabShutter(f) ==
  /\ pc = "idle" /\ device # "closed" /\ f.type = "ft1"
  /\ shutter' = applyShutterReference(f)
  /\ IF c0Source = "CameraAuto"
     THEN updateTemperatureCalibration(temperature, anchor, shutter', f.pad)
     ELSE UNCHANGED <<temperature, c0Ref>>
  /\ UNCHANGED <<pc, device, anchor, pinned, c0Source, hostTemp, startup, outcome>>

\* A calibration without a temperature section keeps the mapping, and changes
\* nothing here.
SetCalibration(cal) ==
  /\ pc = "idle"
  /\ temperature' = cal /\ hostTemp' = cal /\ c0Source' = "Host"
  /\ IF cal.padRef # NaN THEN anchor' = cal.padRef /\ pinned' = TRUE
                         ELSE UNCHANGED <<anchor, pinned>>
  /\ UNCHANGED <<pc, device, shutter, c0Ref, startup, outcome>>

Close ==
  /\ pc = "idle" /\ device # "closed" /\ close
  /\ UNCHANGED <<pc, mapping, startup, outcome>>

\* The steps open() takes by itself once it has the device.
OpenStep ==
  \/ SetupCamera \/ SetupCameraCloses \/ SetupCameraReopens \/ SetupCameraFails
  \/ \E f \in Frames : StartupFrame(f)
  \/ StartupDone \/ StartupTransferFails \/ StartupBudgetSpent

Next ==
  \/ OpenDevice \/ OpenDeviceFails \/ OpenStep
  \/ \E f \in Frames : GrabShutter(f)
  \/ \E cal \in HostCals : SetCalibration(cal)
  \/ Close

Spec == Init /\ [][Next]_vars

\* Every libusb call in open() has a timeout of one second, so open() runs on.
FairSpec == Spec /\ WF_vars(OpenStep)

-----------------------------------------------------------------------------
Temps == Calibrations \cup {NoTemp}

\* Every variable holds a value of its C++ counterpart.
TypeOK ==
  /\ pc \in {"idle", "setup", "reopen", "startup"}
  /\ device \in {"closed", "unclaimed", "claimed"}
  /\ anchor \in Int \cup {NaN} /\ pinned \in BOOLEAN
  /\ shutter \in [mean : Nat \ {0}, pad : Nat] \cup {NoFrame}
  /\ temperature \in Temps /\ hostTemp \in Temps
  /\ c0Source \in {"Firmware", "CameraAuto", "Host"}
  /\ attempt \in 0 .. Attempts - 1 /\ used \in 0 .. Budget
  /\ ft8Seen \in BOOLEAN /\ bootPad \in Nat
  /\ result \in {"none", "ok", "USBError", "SeekSetupError"} /\ tried \in BOOLEAN
  /\ c0Ref \in [mean : Nat, pad : Nat, meanPad : Nat] \cup {NoFrame}

\* Whatever boot frames were lost or unusable, whatever attempts failed before:
\* a camera that open() handed out has a drift anchor, shutter offsets and a
\* temperature mapping, so that grabFrame() may dereference the latter unchecked.
StreamingSeeded ==
  Streaming => anchor # NaN /\ shutter # NoFrame /\ temperature # NoTemp

\* A temperature section installed by the host stays exactly as installed, over
\* boots, shutter cycles and reopenings; without one the driver owns the mapping.
HostOwnsMapping ==
  /\ c0Source = "Host" <=> hostTemp # NoTemp
  /\ c0Source = "Host" => temperature = hostTemp

\* The c0 maintained by the camera is the one its shutter reference gives under
\* the anchor that grabRawCountsFrame() compensates with: the anchor cancels.
\* c0Ref is empty again after close(); SeededEveryBoot asks about the reopening.
C0Coherent ==
  c0Source = "CameraAuto" /\ c0Ref # NoFrame =>
    /\ anchor # NaN
    /\ temperature.c0 = ShutterC0(c0Ref.mean, c0Ref.pad, anchor, temperature.c1)

\* An anchor pinned by the host never meets a c0 that the camera maintains, and
\* no anchor of an earlier session is left when a closed camera is opened.
PinnedOnlyByHost ==
  /\ pinned => c0Source = "Host" /\ anchor # NaN
  /\ device = "closed" /\ anchor # NaN => pinned

\* However an open() fails, it leaves nothing of a session for the next one: no
\* shutter reference, no anchor but the host's, and no handle if it got past
\* openDevice().  That holds of a command or read that is refused, of a handle lost
\* while the device is reopened, of startup frames that do not come, and of an open()
\* that took over the unclaimed handle of one before; only openDevice() leaves that.
FailedOpenReleases ==
  result \in {"USBError", "SeekSetupError"} =>
    /\ anchor # NaN => pinned
    /\ \/ device = "closed" /\ shutter = NoFrame /\ c0Ref = NoFrame
       \/ device = "unclaimed" /\ ~tried

\* Within a session no shutter cycle, boot retry or later thermal frame moves the
\* anchor: only setCalibration() replaces it, by the pad_ref it installs.
AnchorMovesOnlyByPin ==
  [][anchor # NaN /\ anchor' # anchor =>
       \/ anchor' = NaN /\ shutter' = NoFrame
       \/ pinned' /\ anchor' = hostTemp'.padRef]_vars

\* open() returns or throws, however the device answers.
OpenReturns == pc # "idle" ~> pc = "idle"

\* Who owns the mapping, and in which phase the owner may change: the life
\* cycle implements CalibrationOwner.
Phase ==
  IF pc # "idle" THEN "opening" ELSE IF Streaming THEN "streaming" ELSE "closed"

Owner == INSTANCE CalibrationOwner WITH phase <- Phase, owner <- c0Source

ImplementsOwner == Owner!Spec

-----------------------------------------------------------------------------
(***************************************************************************)
(* What comments in the source say, and what the code does otherwise.      *)
(***************************************************************************)

\* "keeping a fixed c0 valid across reboots": while a calibration with a pad_ref
\* is installed, the stream is compensated against that pad_ref.
PinSurvivesReopen ==
  Streaming /\ temperature.padRef # NaN => anchor = temperature.padRef

\* "Unset pad_ref keeps that per-boot anchor": a calibration without pad_ref is
\* not compensated against the pad_ref of one it replaced.
UnsetPadRefUsesBootAnchor ==
  Streaming /\ c0Source = "Host" /\ temperature.padRef = NaN => ~pinned

\* The Firmware mapping is only for a camera without factory T_ref, without drift
\* coefficient or with an unusable boot shutter pad.
SeededAtBoot ==
  Streaming /\ TRef > 0 /\ KPad > 0 /\ bootPad > 0 => c0Source # "Firmware"

\* "seeded at boot": a c0 the camera maintains was computed in this session, so
\* that the anchor it refers to is the one in use.
SeededEveryBoot ==
  Streaming /\ c0Source = "CameraAuto" => c0Ref # NoFrame

\* c0 is recomputed "from a shutter frame": its mean and pad are of one frame.
C0FromOneFrame ==
  c0Ref # NoFrame => c0Ref.pad = c0Ref.meanPad

\* "so a stray transfer error doesn't immediately force a setupCamera() retry":
\* startup is retried only after the whole frame budget.
StrayErrorTolerated ==
  [][pc = "startup" /\ pc' = "setup" => used = Budget]_vars

\* "Clean up device before throwing.": no open() that threw leaves a handle.
ThrowingOpenCloses ==
  result \in {"USBError", "SeekSetupError"} => device = "closed"
=============================================================================
