-------------------------- MODULE CalibrationTool --------------------------
(***************************************************************************)
(* The interactive calibration program: its menu actions on the            *)
(* calibration being edited, what each leaves installed in the camera, and *)
(* the file that calibrations are saved to and loaded from, over several   *)
(* runs of the program.  It runs in one thread; shutter cycles come in     *)
(* while it grabs frames.                                                  *)
(*                                                                         *)
(* The gain c1 and the drift coefficient are 1 here (or the coefficient is *)
(* 0, without Drift), and the substrate shifts the counts of a surface by  *)
(* what it shifts the pad: compensated counts of the surface of known      *)
(* temperature equal the drift anchor, or 0 without Drift.                 *)
(***************************************************************************)
EXTENDS Integers, CalibrationValues

CONSTANTS
  Anchors,   \* what a boot may set the drift anchor to
  Errors,    \* what the camera alone may read at the known surface
  Known,     \* the known temperature
  Offsets,   \* what a user may enter as manual offset
  MaxDegrees,  \* bound on what manual offsets add up to
  Versions,  \* results of vignette and dead-pixel captures
  Drift,     \* does the camera have a drift coefficient?
  DiskFull,  \* may writing an opened file fail?
  NoFile, Torn

ASSUME ToolAssumption ==
  /\ Anchors \subseteq Nat \ {0} /\ Errors \subseteq Int /\ Known \in Int
  /\ Offsets \subseteq Int \ {0} /\ Unset \notin Versions
  /\ MaxDegrees \in Nat /\ Drift \in BOOLEAN /\ DiskFull \in BOOLEAN /\ NaN \notin Int

\* due is history: what the known surface is meant to read.
Temperatures == [c0 : Int, padRef : Int \cup {NaN}, due : Int]

Calibrations ==
  [temperature : Temperatures \cup {Unset},
   vignette : Versions \cup {Unset}, dead_pixels : Versions \cup {Unset}]

Empty == [temperature |-> Unset, vignette |-> Unset, dead_pixels |-> Unset]

ASSUME ToolValues ==
  Unset \notin Temperatures /\ {NoFile, Torn} \cap Calibrations = {} /\ NoFile # Torn

VARIABLES
  phase,   \* "off", at the "menu", or what a menu action is doing
  cal,     \* the calibration being edited
  dirty,   \* does it have unsaved changes?
  file,    \* the content of the calibration file, or NoFile, or Torn
  seed,    \* doKnownTemperature(): c0_start
  c0, anchor, c0Source,  \* the camera's mapping, drift anchor and owner of c0
  vignette, dead_pixels, \* the camera's corrections
  drift    \* is the camera's drift compensation enabled?

camera == <<c0, anchor, c0Source, vignette, dead_pixels, drift>>
toolVars == <<phase, cal, dirty, file, seed, camera>>

Base(a) == IF Drift THEN a ELSE 0

\* What grabFrame() delivers for the known surface.
Reading == c0 + Base(anchor)

Loads(f) ==
  f \in Calibrations /\ (f.temperature # Unset => f.temperature.padRef # NaN)

\* A mutant: the anchor is left to the boot.
MutSetUnpinned(new) ==
  /\ vignette' = new.vignette /\ dead_pixels' = new.dead_pixels /\ anchor' = anchor
  /\ IF new.temperature = Unset THEN UNCHANGED <<c0, c0Source>>
     ELSE c0' = new.temperature.c0 /\ c0Source' = "Host"

\* setCalibration() on the camera; a missing temperature keeps the mapping.
SetCalibration(new) ==
  /\ vignette' = new.vignette /\ dead_pixels' = new.dead_pixels
  /\ IF new.temperature = Unset THEN UNCHANGED <<c0, anchor, c0Source>>
     ELSE /\ c0' = new.temperature.c0 /\ c0Source' = "Host"
          /\ anchor' = IF new.temperature.padRef = NaN THEN anchor
                       ELSE new.temperature.padRef

ToolInit ==
  /\ phase = "off" /\ cal = Empty /\ dirty = FALSE /\ file = NoFile /\ seed = 0
  /\ c0 = 0 /\ anchor = 0 /\ c0Source = "Firmware"
  /\ vignette = Unset /\ dead_pixels = Unset /\ drift = TRUE

-----------------------------------------------------------------------------
\* main(): the camera boots, and seeds c0 by itself if it has a coefficient.
Boot ==
  /\ phase = "off" /\ phase' = "booted"
  /\ \E a \in Anchors, e \in Errors :
       /\ anchor' = a /\ c0' = e - Base(a)
       /\ c0Source' = (IF Drift THEN "CameraAuto" ELSE "Firmware")
  /\ vignette' = Unset /\ dead_pixels' = Unset /\ drift' = TRUE
  /\ cal' = Empty /\ dirty' = FALSE /\ UNCHANGED <<file, seed>>

\* A file that is there and loads may be taken; else the user starts fresh.
\* Either way the calibration is installed.
LoadCalibration ==
  /\ phase = "booted" /\ phase' = "menu"
  /\ cal' \in {Empty} \cup (IF Loads(file) THEN {file} ELSE {})
  /\ SetCalibration(cal') /\ UNCHANGED <<drift, dirty, file, seed>>

\* A shutter cycle in the course of any grab, of a capture or of the preview that
\* every entry begins with; only the camera's own c0 moves.
Shutter ==
  /\ phase \notin {"off", "booted"} /\ c0Source = "CameraAuto"
  /\ \E e \in Errors : c0' = e - Base(anchor)
  /\ UNCHANGED <<phase, cal, dirty, file, seed, anchor, c0Source,
                 vignette, dead_pixels, drift>>

-----------------------------------------------------------------------------
\* doVignette(): the capture runs without vignette and drift compensation.
VignetteBegin ==
  /\ phase = "menu" /\ phase' = "vignette"
  /\ SetCalibration([cal EXCEPT !.vignette = Unset]) /\ drift' = FALSE
  /\ UNCHANGED <<cal, dirty, file, seed>>

\* A mutant: a capture that fails restores nothing.
MutRestore == UNCHANGED camera

\* restore_calibration(), with the calibration as edited until then.
Restore == drift' = TRUE /\ SetCalibration(cal')

VignetteDone(v) ==
  /\ phase = "vignette" /\ phase' = "menu"
  /\ cal' = [cal EXCEPT !.vignette = v] /\ dirty' = TRUE
  /\ Restore /\ UNCHANGED <<file, seed>>

VignetteFails ==
  /\ phase = "vignette" /\ phase' = "menu"
  /\ cal' = cal /\ Restore /\ UNCHANGED <<dirty, file, seed>>

\* doDeadPixels() captures raw transfers.
DeadPixelsBegin ==
  /\ phase = "menu" /\ phase' = "deadPixels"
  /\ UNCHANGED <<cal, dirty, file, seed, camera>>

DeadPixelsFail ==
  /\ phase = "deadPixels" /\ phase' = "menu"
  /\ UNCHANGED <<cal, dirty, file, seed, camera>>

\* A mutant: the change is not noted as unsaved.
MutDeadPixelsDone(v) ==
  /\ phase = "deadPixels" /\ phase' = "menu" /\ cal' = [cal EXCEPT !.dead_pixels = v]
  /\ UNCHANGED <<dirty, file, seed, camera>>

\* The new mask is not installed in the camera.
DeadPixelsDone(v) ==
  /\ phase = "deadPixels" /\ phase' = "menu"
  /\ cal' = [cal EXCEPT !.dead_pixels = v] /\ dirty' = TRUE
  /\ UNCHANGED <<file, seed, camera>>

-----------------------------------------------------------------------------
\* pinDriftAnchor(): the pad_ref of a calibration fit now.
pinDriftAnchor == IF drift /\ Drift THEN anchor ELSE NaN

\* cal gets this temperature section and is installed.
InstallTemperature(offset, due) ==
  /\ cal' = [cal EXCEPT !.temperature =
               [c0 |-> offset, padRef |-> pinDriftAnchor, due |-> due]]
  /\ dirty' = TRUE /\ SetCalibration(cal')

\* doKnownTemperature() takes its seed, and shows a preview.
KnownBegin ==
  /\ phase = "menu" /\ phase' = "known" /\ seed' = c0
  /\ UNCHANGED <<cal, dirty, file, camera>>

\* The preview is left, or the seed is installed for the measurement.
KnownAborted ==
  /\ phase = "known" /\ phase' = "menu"
  /\ UNCHANGED <<cal, dirty, file, seed, camera>>

\* A mutant: the measurement runs with the mapping the camera has.
MutKnownInstall ==
  /\ phase = "known" /\ phase' = "measuring"
  /\ UNCHANGED <<cal, dirty, file, seed, camera>>

KnownInstall ==
  /\ phase = "known" /\ phase' = "measuring"
  /\ SetCalibration([cal EXCEPT !.temperature = [c0 |-> seed, padRef |-> NaN, due |-> 0]])
  /\ UNCHANGED <<drift, cal, dirty, file, seed>>

KnownFails ==
  /\ phase = "measuring" /\ phase' = "menu"
  /\ UNCHANGED <<cal, dirty, file, seed, camera>>

\* The measurement maps with the seed, so the difference is added to the seed.
NewC0 == seed + (Known - Reading)

KnownDone ==
  /\ phase = "measuring" /\ phase' = "menu"
  /\ InstallTemperature(NewC0, Known)
  /\ UNCHANGED <<drift, file, seed>>

doManualOffset(o) ==
  /\ phase = "menu" /\ Reading + o \in -MaxDegrees .. MaxDegrees
  /\ InstallTemperature(c0 + o, Reading + o)
  /\ UNCHANGED <<phase, drift, file, seed>>

-----------------------------------------------------------------------------
\* What may be left of a calibration when the disk is full: a file that does not load,
\* one that ends before its first section, or lacks its last ones.
Cut ==
  {Torn, Empty, [Empty EXCEPT !.temperature = cal.temperature], [cal EXCEPT !.dead_pixels = Unset]}

\* doSave(): an opened file counts as written; whether it was is not asked.
doSave ==
  /\ phase = "menu" /\ dirty' = FALSE
  /\ file' \in {cal} \cup (IF DiskFull THEN Cut ELSE {})
  /\ UNCHANGED <<phase, cal, seed, camera>>

\* The program ends: by the user's choice, at the end of its input, or by an
\* exception of grabFrame() that nobody catches.
Quit ==
  /\ phase # "off" /\ phase' = "off" /\ cal' = Empty /\ dirty' = FALSE
  /\ c0' = 0 /\ anchor' = 0 /\ c0Source' = "Firmware"
  /\ vignette' = Unset /\ dead_pixels' = Unset /\ drift' = TRUE
  /\ seed' = 0 /\ UNCHANGED file

ToolNext ==
  \/ Boot \/ LoadCalibration \/ Shutter
  \/ VignetteBegin \/ \E v \in Versions : VignetteDone(v)
  \/ VignetteFails
  \/ DeadPixelsBegin \/ \E v \in Versions : DeadPixelsDone(v)
  \/ DeadPixelsFail
  \/ KnownBegin \/ KnownAborted \/ KnownInstall \/ KnownFails \/ KnownDone
  \/ \E o \in Offsets : doManualOffset(o)
  \/ doSave \/ Quit

ToolSpec == ToolInit /\ [][ToolNext]_toolVars

-----------------------------------------------------------------------------
ToolTypeOK ==
  /\ phase \in {"off", "booted", "menu", "vignette", "deadPixels", "known", "measuring"}
  /\ cal \in Calibrations /\ dirty \in BOOLEAN
  /\ file \in Calibrations \cup {NoFile, Torn}
  /\ seed \in Int /\ c0 \in Int /\ anchor \in Int
  /\ c0Source \in {"Firmware", "CameraAuto", "Host"}
  /\ vignette \in Versions \cup {Unset} /\ dead_pixels \in Versions \cup {Unset}
  /\ drift \in BOOLEAN

\* Whatever was captured, offset or broken off before, and over saving, rebooting
\* with another anchor and loading: the known surface reads what the temperature
\* section in hand was made for.
KnownSurfaceReads ==
  phase \notin {"off", "booted"} /\ cal.temperature # Unset =>
    Reading = cal.temperature.due

\* A vignette is captured without vignette and drift compensation, and every way
\* out of it puts both back; a measurement runs with the corrections in hand.
CapturesSetUp ==
  /\ drift <=> phase # "vignette"
  /\ phase = "vignette" => vignette = Unset /\ dead_pixels = cal.dead_pixels
  /\ phase \in {"menu", "deadPixels", "known", "measuring"} => vignette = cal.vignette
  /\ phase = "measuring" => dead_pixels = cal.dead_pixels

\* What quitting would lose is announced: without unsaved changes, the calibration in hand
\* is in the file, or nothing was calibrated yet, or the last save met a full disk
\* (calibration_tool.cpp:568 clears the mark although nobody asked the stream), and then
\* the file has the beginning of what is in hand and nothing else.
UnsavedIsCut == ~dirty => cal \in {Empty, file} \/ (DiskFull /\ file \in Cut)

-----------------------------------------------------------------------------
(* What comments say of the file, and what the code does otherwise.        *)

\* "Write a unified calibration file in the format consumed by
\* loadCameraCalibration": what was written whole can be loaded.
SavedFileLoads == file \notin {NoFile, Torn} => Loads(file)

\* "Round-trip self-check." (calibration_tool.cpp:570): a file that doSave() has written
\* and loaded again without complaint holds the calibration in hand, of which nothing is
\* marked as unsaved.  It does not hold on a full disk: a file that ends before its first
\* section, or its last, loads.
SavedRoundTrips == ~dirty /\ Loads(file) => cal \in {Empty, file}
=============================================================================
