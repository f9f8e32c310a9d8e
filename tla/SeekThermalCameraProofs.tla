----------------------- MODULE SeekThermalCameraProofs -----------------------
(***************************************************************************)
(* Theorems about SeekThermalCamera, for every value of its constants.     *)
(* IInv strengthens the invariants the runs check with what they need      *)
(* between the steps of open(): a running open() has no result yet and,    *)
(* unless it is to reopen it, a device, ft8_seen means that there are      *)
(* offsets, and the session state of a closed device is gone.              *)
(***************************************************************************)
EXTENDS SeekThermalCamera, TLAPS

\* Everywhere the result of an open() and its history come together.
USE DEF outcome

Between ==
  /\ pc # "idle" => result = "none"
  /\ pc \in {"setup", "startup"} => device # "closed"
  /\ pc = "startup" /\ ft8Seen => shutter # NoFrame
  /\ device = "closed" => shutter = NoFrame /\ c0Ref = NoFrame
  /\ c0Source = "CameraAuto" => temperature # NoTemp

IInv == /\ TypeOK /\ Between
        /\ StreamingSeeded /\ HostOwnsMapping /\ C0Coherent
        /\ PinnedOnlyByHost /\ FailedOpenReleases

-----------------------------------------------------------------------------
\* c0 is a number whatever the shutter showed.
LEMMA ShutterC0Type ==
  ASSUME NEW m \in Int, NEW p \in Int, NEW a \in Int, NEW c \in Int
  PROVE  ShutterC0(m, p, a, c) \in Int
  BY CameraAssumption DEF ShutterC0

\* The counters of open() start within their bounds.
LEMMA CountersStart == 0 \in 0 .. Attempts - 1 /\ 0 \in 0 .. Budget
<1>1. Attempts \in Nat /\ Attempts # 0 /\ Budget \in Nat
  BY CameraAssumption
<1> QED BY <1>1

\* The constants the actions install are calibrations.
LEMMA InstalledTypes ==
  /\ Identity \in Calibrations /\ HostCals \subseteq Calibrations
  /\ NoTemp \notin Calibrations
  /\ \A s \in HeaderSlopes : [c0 |-> 0, c1 |-> s, padRef |-> NaN] \in Calibrations
  BY CameraAssumption DEF Identity, Calibrations

\* The fields of a frame.
LEMMA FrameTypes ==
  ASSUME NEW f \in Frames
  PROVE  /\ f.mean \in Nat /\ f.pad \in Nat /\ f.slope \in HeaderSlopes
         /\ [mean |-> f.mean, pad |-> f.pad] # NoFrame
<1>1. f.mean \in Means \cup {0} /\ f.pad \in Pads \cup {0} /\ f.slope \in HeaderSlopes
  BY DEF Frames
<1> HIDE DEF Frames
<1>2. /\ \A x \in Means \cup {0} : x \in Nat
      /\ \A x \in Pads \cup {0} : x \in Nat
  BY CameraAssumption
<1>3. [mean |-> f.mean, pad |-> f.pad] \in [mean : Nat, pad : Nat]
  BY <1>1, <1>2
<1> QED BY <1>1, <1>2, <1>3, CameraAssumption

\* A slope seeded from a header never replaces a mapping that is there.
LEMMA SeededSlopeFacts ==
  ASSUME TypeOK, NEW f \in Frames
  PROVE  /\ SeededSlope(f) \in Temps
         /\ temperature # NoTemp => SeededSlope(f) = temperature
  BY FrameTypes, InstalledTypes DEF SeededSlope, TypeOK, Temps

\* A shutter frame either gives a reference or leaves the old one.
LEMMA ShutterReferenceFacts ==
  ASSUME TypeOK, NEW f \in Frames
  PROVE  /\ applyShutterReference(f) \in [mean : Nat \ {0}, pad : Nat] \cup {NoFrame}
         /\ shutter # NoFrame => applyShutterReference(f) # NoFrame
  BY FrameTypes DEF applyShutterReference, TypeOK

\* What a call of updateTemperatureCalibration() leaves: a mapping with the slope
\* it had and, if the call was no no-op, the c0 of the shutter reference it used.
LEMMA UpdateFacts ==
  ASSUME TypeOK, NEW t \in Temps, NEW a \in Int \cup {NaN},
         NEW s \in [mean : Nat \ {0}, pad : Nat] \cup {NoFrame}, NEW p \in Nat,
         updateTemperatureCalibration(t, a, s, p)
  PROVE  /\ temperature' \in Temps
         /\ t # NoTemp => temperature' # NoTemp
         /\ c0Ref' \in [mean : Nat, pad : Nat, meanPad : Nat] \cup {NoFrame}
         /\ IF CanUpdate(t, a, p)
            THEN /\ a # NaN
                 /\ temperature'.c0 = ShutterC0(c0Ref'.mean, c0Ref'.pad, a, temperature'.c1)
            ELSE temperature' = t /\ c0Ref' = c0Ref
<1>1. CASE CanUpdate(t, a, p)
  <2>1. t \in Calibrations /\ a \in Int
    BY <1>1 DEF CanUpdate, Temps
  <2>2. ShutterMean(s) \in Nat /\ (IF s = NoFrame THEN 0 ELSE s.pad) \in Nat
    BY DEF ShutterMean
  <2>3. ShutterC0(ShutterMean(s), p, a, t.c1) \in Int
    BY <2>1, <2>2, ShutterC0Type DEF Calibrations
  <2>4. temperature' = [t EXCEPT !.c0 = ShutterC0(ShutterMean(s), p, a, t.c1)]
    BY <1>1 DEF updateTemperatureCalibration
  <2>5. temperature' \in Calibrations /\ temperature'.c1 = t.c1
        /\ temperature'.c0 = ShutterC0(ShutterMean(s), p, a, t.c1)
    BY <2>1, <2>3, <2>4 DEF Calibrations
  <2>6. c0Ref' = [mean |-> ShutterMean(s), pad |-> p,
                  meanPad |-> IF s = NoFrame THEN 0 ELSE s.pad]
    BY <1>1 DEF updateTemperatureCalibration
  <2>7. a # NaN
    BY <2>1, CameraAssumption
  <2> QED
    BY <1>1, <2>1, <2>2, <2>5, <2>6, <2>7, InstalledTypes DEF Temps
<1>2. CASE ~CanUpdate(t, a, p)
  BY <1>2 DEF updateTemperatureCalibration, TypeOK
<1> QED BY <1>1, <1>2

-----------------------------------------------------------------------------
\* The catch block and close() drop the session state of an open device, and keep
\* the mapping: every part of the invariant survives them.
LEMMA CloseFacts ==
  ASSUME IInv, close
  PROVE  /\ device' = "closed" /\ shutter' = NoFrame /\ c0Ref' = NoFrame
         /\ anchor' \in Int \cup {NaN} /\ pinned' \in BOOLEAN
         /\ anchor' # NaN => pinned'
         /\ pinned' => c0Source = "Host" /\ anchor' # NaN
         /\ anchor' = anchor \/ anchor' = NaN
<1>1. CASE device = "closed"
  BY <1>1 DEF close, session, IInv, TypeOK, Between, PinnedOnlyByHost
<1>2. CASE device # "closed"
  BY <1>2 DEF close
<1> QED BY <1>1, <1>2

\* An open() that throws closes the device first.
LEMMA ThrowKeepsIInv ==
  ASSUME IInv, NEW e \in {"USBError", "SeekSetupError"}, Throw(e)
  PROVE  IInv'
<1> USE DEF Throw, mapping, startup
<1>1. TypeOK'
  BY CloseFacts DEF IInv, TypeOK
<1>2. Between' /\ StreamingSeeded' /\ HostOwnsMapping'
  BY CloseFacts DEF IInv, Between, StreamingSeeded, Streaming, HostOwnsMapping
<1>3. C0Coherent' /\ PinnedOnlyByHost' /\ FailedOpenReleases'
  BY CloseFacts DEF C0Coherent, PinnedOnlyByHost, FailedOpenReleases
<1> QED BY <1>1, <1>2, <1>3 DEF IInv

\* An attempt that fails is followed by another, or throws if it was the last.
LEMMA AttemptFailsKeepsIInv ==
  ASSUME IInv, pc = "startup", AttemptFails
  PROVE  IInv'
<1>1. ASSUME attempt + 1 < Attempts, attempt' = attempt + 1, pc' = "setup",
             UNCHANGED <<device, session, mapping, used, ft8Seen, bootPad, outcome>>
      PROVE  IInv'
  <2>1. attempt' \in 0 .. Attempts - 1
    BY <1>1, CameraAssumption DEF IInv, TypeOK
  <2> QED
    BY <1>1, <2>1 DEF session, mapping, IInv, TypeOK, Between, StreamingSeeded, Streaming,
      HostOwnsMapping, C0Coherent, PinnedOnlyByHost, FailedOpenReleases
<1>2. CASE Throw("SeekSetupError")
  BY <1>2, ThrowKeepsIInv
<1> QED BY <1>1, <1>2 DEF AttemptFails

\* A shutter frame of the boot makes offsets, and may bring the slope of the mapping.
LEMMA BootShutterKeepsIInv ==
  ASSUME IInv, NEW f \in Frames, StartupFrame(f), BootShutter(f)
  PROVE  IInv'
<1>1. /\ pc = "startup" /\ used < Budget /\ used' = used + 1
      /\ UNCHANGED <<pc, device, attempt, hostTemp, outcome>>
  BY DEF StartupFrame
<1>2. /\ shutter' = applyShutterReference(f) /\ ft8Seen' = (shutter' # NoFrame)
      /\ bootPad' = IF ft8Seen' THEN f.pad ELSE bootPad
      /\ temperature' = SeededSlope(f)
      /\ UNCHANGED <<anchor, pinned, c0Ref, c0Source>>
  BY DEF BootShutter
<1>3. TypeOK'
  BY <1>1, <1>2, FrameTypes, SeededSlopeFacts, ShutterReferenceFacts, CameraAssumption
  DEF IInv, TypeOK
<1>4. temperature # NoTemp => temperature' = temperature
  BY <1>2, SeededSlopeFacts DEF IInv
<1>5. Between' /\ StreamingSeeded' /\ HostOwnsMapping'
  BY <1>1, <1>2, <1>4 DEF IInv, Between, StreamingSeeded, Streaming, HostOwnsMapping
<1>6. C0Coherent' /\ PinnedOnlyByHost' /\ FailedOpenReleases'
  BY <1>1, <1>2, <1>4 DEF IInv, Between, C0Coherent, PinnedOnlyByHost, FailedOpenReleases
<1> QED BY <1>3, <1>5, <1>6 DEF IInv

\* The first thermal frame brings the anchor, and with it c0 unless the host owns
\* it: before, there was no anchor and so no c0 that could disagree with it.
LEMMA FirstThermalKeepsIInv ==
  ASSUME IInv, NEW f \in Frames, StartupFrame(f), FirstThermal(f)
  PROVE  IInv'
<1>1. /\ pc = "startup" /\ used < Budget /\ used' = used + 1
      /\ UNCHANGED <<pc, device, attempt, hostTemp, outcome>>
  BY DEF StartupFrame
<1>2. /\ anchor = NaN /\ anchor' = f.pad /\ pinned' = FALSE
      /\ UNCHANGED <<shutter, ft8Seen, bootPad>>
  BY DEF FirstThermal, GivesAnchor
<1>3. /\ anchor' \in Int /\ anchor' # NaN
      /\ f.pad \in Int \cup {NaN}
  BY <1>2, FrameTypes, CameraAssumption
<1>4. /\ SeededSlope(f) \in Temps
      /\ temperature # NoTemp => SeededSlope(f) = temperature
  BY SeededSlopeFacts DEF IInv
<1>5. CASE SeedsC0(SeededSlope(f))
  <2>1. /\ c0Source' = "CameraAuto" /\ c0Source # "Host" /\ SeededSlope(f) # NoTemp
        /\ updateTemperatureCalibration(SeededSlope(f), f.pad, shutter, bootPad)
    BY <1>5 DEF FirstThermal, SeedsC0
  <2>2. CanUpdate(SeededSlope(f), f.pad, bootPad)
    BY <1>2, <1>3, <1>5 DEF SeedsC0, CanUpdate
  <2>3. /\ temperature' \in Temps /\ temperature' # NoTemp
        /\ c0Ref' \in [mean : Nat, pad : Nat, meanPad : Nat] \cup {NoFrame}
        /\ temperature'.c0 = ShutterC0(c0Ref'.mean, c0Ref'.pad, f.pad, temperature'.c1)
    BY <1>3, <1>4, <2>1, <2>2, UpdateFacts DEF IInv, TypeOK
  <2>4. TypeOK'
    BY <1>1, <1>2, <1>3, <2>1, <2>3, CameraAssumption DEF IInv, TypeOK
  <2>5. Between' /\ StreamingSeeded' /\ HostOwnsMapping'
    BY <1>1, <1>2, <2>1, <2>3 DEF IInv, Between, StreamingSeeded, Streaming, HostOwnsMapping
  <2>6. C0Coherent' /\ PinnedOnlyByHost' /\ FailedOpenReleases'
    BY <1>1, <1>2, <1>3, <2>3
    DEF IInv, Between, C0Coherent, PinnedOnlyByHost, FailedOpenReleases, ShutterC0
  <2> QED BY <2>4, <2>5, <2>6 DEF IInv
<1>6. CASE ~SeedsC0(SeededSlope(f))
  <2>1. temperature' = SeededSlope(f) /\ UNCHANGED <<c0Source, c0Ref>>
    BY <1>6 DEF FirstThermal
  <2>2. TypeOK'
    <3>1. used' \in 0 .. Budget
      BY <1>1, CameraAssumption DEF IInv, TypeOK
    <3>2. tried' \in BOOLEAN /\ result' = result
      BY <1>1 DEF IInv, TypeOK
    <3> QED BY <1>1, <1>2, <1>3, <1>4, <2>1, <3>1, <3>2 DEF IInv, TypeOK
  <2>3. Between' /\ StreamingSeeded' /\ HostOwnsMapping'
    BY <1>1, <1>2, <1>4, <2>1 DEF IInv, Between, StreamingSeeded, Streaming, HostOwnsMapping
  <2>4. C0Coherent' /\ PinnedOnlyByHost' /\ FailedOpenReleases'
    BY <1>1, <1>2, <2>1 DEF IInv, Between, C0Coherent, PinnedOnlyByHost, FailedOpenReleases
  <2> QED BY <2>2, <2>3, <2>4 DEF IInv
<1> QED BY <1>5, <1>6

\* Of the other startup frames only the first thermal one leaves something.
LEMMA OtherStartupFrameKeepsIInv ==
  ASSUME IInv, NEW f \in Frames, StartupFrame(f), OtherStartupFrame(f)
  PROVE  IInv'
<1>1. /\ pc = "startup" /\ used < Budget /\ used' = used + 1
      /\ UNCHANGED <<pc, device, attempt, hostTemp, outcome>>
      /\ UNCHANGED <<session, c0Source, ft8Seen, bootPad>>
      /\ temperature' = SeededSlope(f)
  BY DEF StartupFrame, OtherStartupFrame
<1>2. /\ SeededSlope(f) \in Temps
      /\ temperature # NoTemp => SeededSlope(f) = temperature
  BY SeededSlopeFacts DEF IInv
<1>3. TypeOK'
  BY <1>1, <1>2, CameraAssumption DEF IInv, TypeOK, session
<1>4. Between' /\ StreamingSeeded' /\ HostOwnsMapping'
  BY <1>1, <1>2 DEF IInv, Between, StreamingSeeded, Streaming, HostOwnsMapping, session
<1>5. C0Coherent' /\ PinnedOnlyByHost' /\ FailedOpenReleases'
  BY <1>1, <1>2 DEF IInv, Between, C0Coherent, PinnedOnlyByHost, FailedOpenReleases, session
<1> QED BY <1>3, <1>4, <1>5 DEF IInv

\* A shutter cycle of a running stream: c0 follows the new reference under the
\* anchor in use, or stays what it was.
LEMMA GrabShutterKeepsIInv ==
  ASSUME IInv, NEW f \in Frames, GrabShutter(f)
  PROVE  IInv'
<1>1. /\ pc = "idle" /\ device # "closed" /\ shutter' = applyShutterReference(f)
      /\ UNCHANGED <<pc, device, anchor, pinned, c0Source, hostTemp, outcome>>
      /\ UNCHANGED <<attempt, used, ft8Seen, bootPad>>
  BY DEF GrabShutter, startup
<1>2. /\ shutter' \in [mean : Nat \ {0}, pad : Nat] \cup {NoFrame}
      /\ shutter # NoFrame => shutter' # NoFrame
  BY <1>1, ShutterReferenceFacts DEF IInv
<1>3. CASE c0Source = "CameraAuto"
  <2>1. updateTemperatureCalibration(temperature, anchor, shutter', f.pad)
    BY <1>3 DEF GrabShutter
  <2>2. /\ temperature' \in Temps
        /\ temperature # NoTemp => temperature' # NoTemp
        /\ c0Ref' \in [mean : Nat, pad : Nat, meanPad : Nat] \cup {NoFrame}
        /\ IF CanUpdate(temperature, anchor, f.pad)
           THEN /\ anchor # NaN
                /\ temperature'.c0 = ShutterC0(c0Ref'.mean, c0Ref'.pad, anchor, temperature'.c1)
           ELSE temperature' = temperature /\ c0Ref' = c0Ref
    BY <1>2, <2>1, UpdateFacts, FrameTypes DEF IInv, TypeOK
  <2>3. TypeOK'
    BY <1>1, <1>2, <2>2 DEF IInv, TypeOK
  <2>4. Between' /\ StreamingSeeded' /\ HostOwnsMapping'
    BY <1>1, <1>2, <1>3, <2>2 DEF IInv, Between, StreamingSeeded, Streaming, HostOwnsMapping
  <2>5. C0Coherent'
    BY <1>1, <2>2 DEF IInv, C0Coherent, ShutterC0
  <2>6. PinnedOnlyByHost' /\ FailedOpenReleases'
    BY <1>1 DEF IInv, PinnedOnlyByHost, FailedOpenReleases
  <2> QED BY <2>3, <2>4, <2>5, <2>6 DEF IInv
<1>4. CASE c0Source # "CameraAuto"
  <2>1. UNCHANGED <<temperature, c0Ref>>
    BY <1>4 DEF GrabShutter
  <2> QED
    BY <1>1, <1>2, <1>4, <2>1 DEF IInv, TypeOK, Between, StreamingSeeded, Streaming,
      HostOwnsMapping, C0Coherent, PinnedOnlyByHost, FailedOpenReleases
<1> QED BY <1>3, <1>4

\* setCalibration() installs a mapping together with its owner, and its pin if it has one.
LEMMA SetCalibrationKeepsIInv ==
  ASSUME IInv, NEW cal \in HostCals, SetCalibration(cal)
  PROVE  IInv'
<1>1. cal \in Calibrations /\ cal # NoTemp /\ cal.padRef \in Int \cup {NaN}
  BY InstalledTypes DEF Calibrations
<1>2. TypeOK'
  BY <1>1 DEF SetCalibration, startup, IInv, TypeOK, Temps
<1>3. Between' /\ StreamingSeeded' /\ HostOwnsMapping'
  BY <1>1 DEF SetCalibration, startup, IInv, Between, StreamingSeeded, Streaming, HostOwnsMapping
<1>4. C0Coherent' /\ PinnedOnlyByHost' /\ FailedOpenReleases'
  BY <1>1 DEF SetCalibration, IInv, Between, C0Coherent, PinnedOnlyByHost, FailedOpenReleases
<1> QED BY <1>2, <1>3, <1>4 DEF IInv

-----------------------------------------------------------------------------
\* The steps of open() that touch no frame, and the public close().
LEMMA OpenStepsKeepIInv ==
  ASSUME IInv, \/ OpenDevice \/ OpenDeviceFails \/ SetupCamera \/ SetupCameraCloses
               \/ SetupCameraReopens
               \/ StartupDone \/ Close
  PROVE  IInv'
<1> USE DEF session, mapping, startup
<1>1. CASE OpenDevice \/ OpenDeviceFails
  <2>1. TypeOK'
    BY <1>1, CountersStart DEF OpenDevice, OpenDeviceFails, IInv, TypeOK
  <2> QED
    BY <1>1, <2>1 DEF OpenDevice, OpenDeviceFails, IInv, Between, StreamingSeeded, Streaming,
      HostOwnsMapping, C0Coherent, PinnedOnlyByHost, FailedOpenReleases
<1>2. CASE SetupCamera \/ SetupCameraReopens
  <2>1. /\ pc \in {"setup", "reopen"} /\ pc' = "startup" /\ used' = 0 /\ ft8Seen' = FALSE /\ bootPad' = 0
        /\ UNCHANGED <<temperature, c0Source, hostTemp, attempt, outcome>>
    BY <1>2 DEF SetupCamera, SetupCameraReopens, BeginStartup
  <2>2. /\ UNCHANGED <<anchor, shutter, c0Ref, pinned>>
        /\ device' = "claimed" \/ (pc = "setup" /\ UNCHANGED device)
    BY <1>2 DEF SetupCamera, SetupCameraReopens
  <2>3. TypeOK'
    BY <2>1, <2>2, CountersStart DEF IInv, TypeOK
  <2> QED
    BY <2>1, <2>2, <2>3 DEF IInv, Between, StreamingSeeded, Streaming, HostOwnsMapping,
      C0Coherent, PinnedOnlyByHost, FailedOpenReleases
<1>3. CASE StartupDone
  <2>1. /\ temperature' \in Temps /\ temperature' # NoTemp
        /\ temperature # NoTemp => temperature' = temperature
    BY <1>3, InstalledTypes DEF StartupDone, IInv, TypeOK, Temps
  <2>2. TypeOK'
    BY <1>3, <2>1 DEF StartupDone, IInv, TypeOK
  <2> QED
    BY <1>3, <2>1, <2>2 DEF StartupDone, IInv, Between, StreamingSeeded, Streaming,
      HostOwnsMapping, C0Coherent, PinnedOnlyByHost, FailedOpenReleases
<1>4. CASE Close
  <2>1. close /\ device # "closed" /\ pc = "idle"
        /\ UNCHANGED <<pc, mapping, startup, outcome>>
    BY <1>4 DEF Close
  <2>2. TypeOK'
    BY <2>1, CloseFacts DEF IInv, TypeOK
  <2> QED
    BY <2>1, <2>2, CloseFacts DEF IInv, Between, StreamingSeeded, Streaming,
      HostOwnsMapping, C0Coherent, PinnedOnlyByHost, FailedOpenReleases
<1>5. CASE SetupCameraCloses
  <2>1. close /\ pc = "setup" /\ pc' = "reopen" /\ UNCHANGED <<mapping, startup, outcome>>
    BY <1>5 DEF SetupCameraCloses
  <2>2. TypeOK'
    BY <2>1, CloseFacts DEF IInv, TypeOK
  <2> QED
    BY <2>1, <2>2, CloseFacts DEF IInv, Between, StreamingSeeded, Streaming,
      HostOwnsMapping, C0Coherent, PinnedOnlyByHost, FailedOpenReleases
<1> QED BY <1>1, <1>2, <1>3, <1>4, <1>5

\* IInv holds initially and no step of the driver breaks it.
THEOREM Inductive == Spec => []IInv
<1>1. Init => IInv
  <2>1. Init => TypeOK
    <3>1. Init => attempt \in 0 .. Attempts - 1 /\ used \in 0 .. Budget
      BY CountersStart DEF Init
    <3>2. Init => ft8Seen \in BOOLEAN
      BY DEF Init
    <3>3. Init => bootPad \in Nat
      BY DEF Init
    <3>4. Init => /\ pc \in {"idle", "setup", "startup"}
                  /\ device \in {"closed", "unclaimed", "claimed"}
                  /\ c0Source \in {"Firmware", "CameraAuto", "Host"}
                  /\ result \in {"none", "ok", "USBError", "SeekSetupError"}
      BY DEF Init
    <3>5. Init => /\ anchor \in Int \cup {NaN} /\ pinned \in BOOLEAN
                  /\ temperature \in Temps /\ hostTemp \in Temps
      BY DEF Init, Temps
    <3> QED BY <3>1, <3>2, <3>3, <3>4, <3>5 DEF Init, TypeOK
  <2> QED
    BY <2>1 DEF Init, IInv, Between, StreamingSeeded, Streaming, HostOwnsMapping, C0Coherent,
      PinnedOnlyByHost, FailedOpenReleases
<1>2. IInv /\ [Next]_vars => IInv'
  <2> SUFFICES ASSUME IInv, [Next]_vars PROVE IInv'
    OBVIOUS
  <2>1. CASE OpenDevice \/ OpenDeviceFails \/ Close
    BY <2>1, OpenStepsKeepIInv
  <2>2. CASE SetupCamera \/ SetupCameraCloses \/ SetupCameraReopens \/ StartupDone
    BY <2>2, OpenStepsKeepIInv
  <2>3. CASE SetupCameraFails
    BY <2>3, ThrowKeepsIInv DEF SetupCameraFails
  <2>4. ASSUME NEW f \in Frames, StartupFrame(f) PROVE IInv'
    BY <2>4, BootShutterKeepsIInv, FirstThermalKeepsIInv, OtherStartupFrameKeepsIInv
    DEF StartupFrame
  <2>5. CASE StartupTransferFails \/ StartupBudgetSpent
    BY <2>5, AttemptFailsKeepsIInv DEF StartupTransferFails, StartupBudgetSpent
  <2>6. ASSUME NEW f \in Frames, GrabShutter(f) PROVE IInv'
    BY <2>6, GrabShutterKeepsIInv
  <2>7. ASSUME NEW cal \in HostCals, SetCalibration(cal) PROVE IInv'
    BY <2>7, SetCalibrationKeepsIInv
  <2>8. CASE UNCHANGED vars
    BY <2>8 DEF vars, session, mapping, startup, IInv, TypeOK, Between, StreamingSeeded,
      Streaming, HostOwnsMapping, C0Coherent, PinnedOnlyByHost, FailedOpenReleases
  <2> QED
    BY <2>1, <2>2, <2>3, <2>4, <2>5, <2>6, <2>7, <2>8 DEF Next, OpenStep
<1> QED BY <1>1, <1>2, PTL DEF Spec

\* Every variable keeps its type.
THEOREM TypeCorrect == Spec => []TypeOK
  BY Inductive, PTL DEF IInv

\* A camera that open() handed out is anchored, flat-fielded and mappable.
THEOREM SeededWhenStreaming == Spec => []StreamingSeeded
  BY Inductive, PTL DEF IInv

\* The driver never touches a mapping the host installed.
THEOREM HostMappingKept == Spec => []HostOwnsMapping
  BY Inductive, PTL DEF IInv

\* A c0 computed in this session belongs to the anchor in use.
THEOREM AnchorCancels == Spec => []C0Coherent
  BY Inductive, PTL DEF IInv

\* A pinned anchor is the host's, and a closed camera has no other.
THEOREM PinsAreTheHosts == Spec => []PinnedOnlyByHost
  BY Inductive, PTL DEF IInv

\* However an open() fails, it leaves no session state, and if it got past openDevice()
\* no handle.
THEOREM FailedOpenIsClean == Spec => []FailedOpenReleases
  BY Inductive, PTL DEF IInv

-----------------------------------------------------------------------------
\* No step but setCalibration() moves an anchor that is set, other than to drop it
\* with the session.
THEOREM AnchorStays == Spec => AnchorMovesOnlyByPin
<1> DEFINE Moves == anchor # NaN /\ anchor' # anchor =>
                      \/ anchor' = NaN /\ shutter' = NoFrame
                      \/ pinned' /\ anchor' = hostTemp'.padRef
<1>1. IInv /\ [Next]_vars => Moves
  <2> SUFFICES ASSUME IInv, [Next]_vars PROVE Moves
    OBVIOUS
  <2> USE DEF session
  <2>1. ASSUME close PROVE Moves
    BY <2>1 DEF close
  <2>2. CASE OpenDevice \/ OpenDeviceFails \/ StartupDone
    BY <2>2 DEF OpenDevice, OpenDeviceFails, StartupDone
  <2>3. CASE SetupCamera \/ SetupCameraReopens
    BY <2>3 DEF SetupCamera, SetupCameraReopens
  <2>4. CASE SetupCameraCloses \/ SetupCameraFails \/ Close
    BY <2>1, <2>4 DEF SetupCameraCloses, SetupCameraFails, Throw, Close
  <2>5. CASE StartupTransferFails \/ StartupBudgetSpent
    BY <2>1, <2>5 DEF StartupTransferFails, StartupBudgetSpent, AttemptFails, Throw
  <2>6. ASSUME NEW f \in Frames, StartupFrame(f) PROVE Moves
    BY <2>6 DEF StartupFrame, BootShutter, FirstThermal, GivesAnchor, OtherStartupFrame
  <2>7. ASSUME NEW f \in Frames, GrabShutter(f) PROVE Moves
    BY <2>7 DEF GrabShutter
  <2>8. ASSUME NEW cal \in HostCals, SetCalibration(cal) PROVE Moves
    BY <2>8 DEF SetCalibration
  <2>9. CASE UNCHANGED vars
    BY <2>9 DEF vars
  <2> QED
    BY <2>2, <2>3, <2>4, <2>5, <2>6, <2>7, <2>8, <2>9 DEF Next, OpenStep
<1>2. Moves => (anchor # NaN /\ anchor' # anchor =>
                  \/ anchor' = NaN /\ shutter' = NoFrame
                  \/ pinned' /\ anchor' = hostTemp'.padRef)
  OBVIOUS
<1> QED BY <1>1, <1>2, Inductive, PTL DEF Spec, AnchorMovesOnlyByPin

\* The life cycle implements CalibrationOwner: the mapping changes hands only as
\* promised there.
THEOREM OwnershipImplemented == Spec => ImplementsOwner
<1> USE DEF Phase, Streaming, Owner!vars
<1>1. Init => Owner!Init
  BY DEF Init, Owner!Init
<1>2. IInv /\ [Next]_vars => [Owner!Next]_(Owner!vars)
  <2> SUFFICES ASSUME IInv, [Next]_vars PROVE [Owner!Next]_(Owner!vars)
    OBVIOUS
  <2> USE DEF mapping, Between
  <2>1. CASE OpenDevice
    BY <2>1 DEF OpenDevice, Owner!Next, Owner!Open
  <2>2. CASE OpenDeviceFails
    BY <2>2 DEF OpenDeviceFails
  <2>3. CASE SetupCamera \/ SetupCameraCloses \/ SetupCameraReopens
    BY <2>3 DEF SetupCamera, SetupCameraCloses, SetupCameraReopens, BeginStartup
  <2>4. ASSUME NEW e \in {"USBError", "SeekSetupError"}, Throw(e)
        PROVE  [Owner!Next]_(Owner!vars)
    BY <2>4 DEF Throw, Owner!Next, Owner!Close
  <2>5. CASE SetupCameraFails
    BY <2>4, <2>5 DEF SetupCameraFails
  <2>6. ASSUME NEW f \in Frames, StartupFrame(f) PROVE [Owner!Next]_(Owner!vars)
    <3>1. pc = "startup" /\ UNCHANGED <<pc, device, result>>
      BY <2>6 DEF StartupFrame
    <3>2. UNCHANGED c0Source \/ (c0Source # "Host" /\ c0Source' = "CameraAuto")
      BY <2>6 DEF StartupFrame, BootShutter, FirstThermal, SeedsC0, OtherStartupFrame
    <3> QED BY <3>1, <3>2 DEF Owner!Next, Owner!CameraTakes
  <2>7. CASE StartupDone
    BY <2>7 DEF StartupDone, IInv, Owner!Next, Owner!Ready
  <2>8. CASE StartupTransferFails \/ StartupBudgetSpent
    BY <2>4, <2>8 DEF StartupTransferFails, StartupBudgetSpent, AttemptFails
  <2>9. ASSUME NEW f \in Frames, GrabShutter(f) PROVE [Owner!Next]_(Owner!vars)
    BY <2>9 DEF GrabShutter
  <2>10. ASSUME NEW cal \in HostCals, SetCalibration(cal)
         PROVE  [Owner!Next]_(Owner!vars)
    BY <2>10 DEF SetCalibration, Owner!Next, Owner!HostTakes
  <2>11. CASE Close
    BY <2>11 DEF Close, close, Owner!Next, Owner!Close
  <2>12. CASE UNCHANGED vars
    BY <2>12 DEF vars
  <2> QED
    BY <2>1, <2>2, <2>3, <2>5, <2>6, <2>7, <2>8, <2>9, <2>10, <2>11, <2>12 DEF Next, OpenStep
<1> QED BY <1>1, <1>2, Inductive, PTL DEF Spec, ImplementsOwner, Owner!Spec
=============================================================================
