--------------------------- MODULE FramePipeline ---------------------------
(***************************************************************************)
(* What grabRawCountsFrame() makes of the transfers of a streaming camera. *)
(* A shutter frame refreshes the offsets of the pixels; a thermal frame is *)
(* extracted, corrected with them, inpainted (DeadPixelMask), freed of its *)
(* vignette and compensated for the drift of the substrate.  The sensor    *)
(* has a fixed pattern, pixels that are stuck, a lens that shades the      *)
(* scene but not the shutter, and a substrate that drifts under both and   *)
(* under the pad.  The drift coefficient and the counts are integers.      *)
(***************************************************************************)
EXTENDS DeadPixelMask

CONSTANTS
  Sensors,    \* records: the pattern of a sensor, its stuck pixels, the shading
  Levels,     \* what a uniform scene, and the shutter blade, may read
  Drifts,     \* what the substrate may add to pad and, times Gain, to pixels
  Gain,       \* substrate_drift_coefficient_
  Pad,        \* what the pad reads without drift
  Noise,      \* other transfers that a sensor may send
  Vignettes,  \* vignette models a calibration may bring: model and mean_model
  Unset

ASSUME PipelineAssumption ==
  /\ \A s \in Sensors :
       /\ {s.pattern, s.shading} \subseteq [Pixels -> Int]
       /\ \A p \in s.stuck : Neighbours(p) \ s.stuck # {}
  /\ Levels \subseteq Nat /\ Drifts \subseteq Int /\ Gain \in Nat /\ Pad \in Nat
  /\ \A d \in Drifts : Pad + d > 0
  /\ Noise \subseteq [Pixels -> 0 .. Saturated]
  /\ \A v \in Vignettes : v.model \in [Pixels -> Int] /\ v.mean_model \in Int

VARIABLES
  sensor,   \* the sensor of this camera
  offsets,  \* shutter_offset_
  vignette, \* the installed vignette model, or Unset
  anchor,   \* drift_reference_anchor_
  driftOn,  \* drift_compensation_enabled_
  ffcOn,    \* shutter_correction_enabled_
  pad,      \* the pad signal of the frame in hand, 0 if no row was valid
  counts,   \* the frame that is delivered
  scene     \* history: level and drift of the frame in hand, Unset for Noise

pipelineVars == <<vars, sensor, offsets, vignette, anchor, driftOn, ffcOn, pad, counts, scene>>

-----------------------------------------------------------------------------
\* The transfer of a uniform scene by a sensor, under this shading and drift.
Wire(s, level, shading, d) ==
  [p \in Pixels |->
    IF p \in s.stuck THEN Saturated
    ELSE level + shading[p] - s.pattern[p] + Gain * d]

Blade(s, level, d) == Wire(s, level, Black, d)

Valid(f) == {p \in Pixels : f[p] \notin Sentinels}

ShutterMean(f) == SumFunction(Restrict(f, Valid(f))) \div Cardinality(Valid(f))

\* applyShutterReference(), on a frame that is extracted; one without a valid pixel
\* keeps the offsets.
applyShutterReference(f, old) ==
  IF Valid(f) = {} THEN old
  ELSE [p \in Pixels |-> IF p \in Valid(f) THEN ShutterMean(f) - f[p] ELSE 0]

\* VignetteCorrection::apply()
Flattened(f) ==
  IF vignette = Unset THEN f
  ELSE [p \in Pixels |-> Clamp(f[p] - vignette.model[p] + vignette.mean_model)]

\* A mutant: the drift is taken to be the other way round.
MutCompensated(f) ==
  IF driftOn /\ pad > 0 THEN [p \in Pixels |-> Clamp(f[p] + Gain * (pad - anchor))] ELSE f

Compensated(f) ==
  IF driftOn /\ pad > 0 THEN [p \in Pixels |-> Clamp(f[p] - Gain * (pad - anchor))] ELSE f

-----------------------------------------------------------------------------
\* The fixed pattern is gone, what it averages to is left.
PatternMean(s, level) == ShutterMean(extractFrame(Blade(s, level, 0))) - level

\* What a pixel of a uniform scene is to read if the lens shades it like this and this
\* drift is left, freed of a vignette model or of none.
Reading(s, level, d, v, p, shading) ==
  level + PatternMean(s, level) + Gain * d + shading
    + (IF v = Unset THEN 0 ELSE v.mean_model - v.model[p])

\* The levels are those that a sensor can tell: no pixel that works reads a sentinel, and
\* no corrected one leaves the 16 bits, where it would be clamped.
ASSUME RangeAssumption ==
  \A s \in Sensors, level \in Levels, d \in Drifts \cup {0}, p \in Pixels :
    /\ p \notin s.stuck =>
         {Blade(s, level, d)[p], Wire(s, level, s.shading, d)[p]} \subseteq 1 .. Saturated - 1
    /\ \A v \in Vignettes \cup {Unset}, q \in Pixels :
         Reading(s, level, d, v, p, s.shading[q]) \in 0 .. Saturated

-----------------------------------------------------------------------------
\* open() has returned: it has seen a shutter frame and a first thermal frame.
PipelineInit ==
  /\ Init /\ sensor \in Sensors /\ vignette = Unset /\ driftOn = TRUE /\ ffcOn = TRUE
  /\ \E level \in Levels, d \in Drifts :
       offsets = applyShutterReference(extractFrame(Blade(sensor, level, d)), Black)
  /\ anchor \in {Pad + d : d \in Drifts}
  /\ pad = 0 /\ counts = Black /\ scene = Unset

\* setCalibration(), which may pin the anchor, and the two switches.
SetCorrections ==
  /\ \E m \in Masks : SetMask(m)
  /\ vignette' \in Vignettes \cup {Unset}
  /\ anchor' \in {anchor} \cup {Pad + d : d \in Drifts}
  /\ driftOn' \in BOOLEAN /\ ffcOn' \in BOOLEAN
  /\ UNCHANGED <<sensor, offsets, pad, counts, scene>>

\* A shutter frame of the blade, or of something else.  It is delivered as extracted;
\* the mapping it may refresh is in SeekThermalCamera.
ShutterFrame ==
  /\ stage = "idle"
  /\ \E w \in {Blade(sensor, level, d) : level \in Levels, d \in Drifts} \cup {Black} :
       offsets' = applyShutterReference(extractFrame(w), offsets)
  /\ UNCHANGED <<vars, sensor, vignette, anchor, driftOn, ffcOn, pad, counts, scene>>

\* A thermal frame of a uniform scene, whose pad may read nothing, or of anything.
ThermalFrame ==
  /\ \/ \E level \in Levels, d \in Drifts :
          /\ Extract(Wire(sensor, level, sensor.shading, d))
          /\ scene' = [level |-> level, drift |-> d] /\ pad' \in {0, Pad + d}
     \/ \E w \in Noise : Extract(w) /\ scene' = Unset /\ pad' = 0
  /\ UNCHANGED <<sensor, offsets, vignette, anchor, driftOn, ffcOn, counts>>

CorrectAndInpaint ==
  /\ (ffcOn /\ Correct(offsets)) \/ (~ffcOn /\ Correct(Black)) \/ Inpaint
  /\ UNCHANGED <<sensor, offsets, vignette, anchor, driftOn, ffcOn, pad, counts, scene>>

DeliverCounts ==
  /\ Deliver /\ counts' = Compensated(Flattened(frame))
  /\ UNCHANGED <<sensor, offsets, vignette, anchor, driftOn, ffcOn, pad, scene>>

TakeCounts ==
  /\ Take /\ pad' = 0 /\ counts' = Black /\ scene' = Unset
  /\ UNCHANGED <<sensor, offsets, vignette, anchor, driftOn, ffcOn>>

PipelineNext ==
  \/ SetCorrections \/ ShutterFrame \/ ThermalFrame
  \/ CorrectAndInpaint \/ DeliverCounts \/ TakeCounts

PipelineSpec == PipelineInit /\ [][PipelineNext]_pipelineVars

-----------------------------------------------------------------------------
\* Every pixel that is computed fits the 16 bits it is stored in.
PipelineTypeOK ==
  /\ dead \subseteq Pixels /\ todo \subseteq dead
  /\ stage \in {"idle", "extracted", "inpainting", "delivered"}
  /\ sensor \in Sensors /\ offsets \in [Pixels -> Int] /\ pad \in Nat
  /\ {driftOn, ffcOn} \subseteq BOOLEAN
  /\ {wire, frame, entered, counts} \subseteq [Pixels -> 0 .. Saturated]

\* What is left of the drift: that of the anchor, or of the frame.
DriftLeft == IF driftOn /\ pad > 0 THEN anchor - Pad ELSE scene.drift

\* What a pixel of the uniform scene is to read if the lens shades it like this.
Reads(p, shading) == Reading(sensor, scene.level, DriftLeft, vignette, p, shading)

\* With the shutter correction on, a uniform scene comes out uniform, but for what the
\* vignette model gets wrong, and the same under every drift of the substrate, whatever
\* blade temperatures and drifts the shutter cycles before it saw, and whichever pixels
\* are stuck, masked, or next to such.  Those are off by no more than the shading differs
\* over the sensor.
UniformSceneIsUniform ==
  stage = "delivered" /\ ffcOn /\ scene # Unset =>
    \A p \in Pixels :
      IF p \notin dead \cup sensor.stuck THEN counts[p] = Reads(p, sensor.shading[p])
      ELSE /\ \E q \in Pixels : Reads(p, sensor.shading[q]) <= counts[p]
           /\ \E q \in Pixels : counts[p] <= Reads(p, sensor.shading[q])
=============================================================================
