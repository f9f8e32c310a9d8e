---------------------- MODULE CalibrationSessionProofs ----------------------
(***************************************************************************)
(* The captures, for every number of frames and every bound on the         *)
(* attempts: the counters that the code keeps are related to what was      *)
(* received by the inductive invariant.                                    *)
(*                                                                         *)
(* The calibration tool, for every anchor, error and offset: what the      *)
(* temperature section in hand was made for is what the known surface      *)
(* reads, which rests on what every section that is made, saved and loaded *)
(* says of its own anchor.                                                 *)
(*                                                                         *)
(* The session: each of its steps is a step of the tool, or leaves it      *)
(* alone, and the captures go on as they do by themselves.                 *)
(*                                                                         *)
(* The file that the tool saves and others load: what the parser makes of  *)
(* it, whoever wrote, tore or edited it.  Of a file that was saved, the    *)
(* lines are laid out in the order of the sections; what is on disk is the *)
(* beginning of them, its last line cut or not; so the parser has found in *)
(* each section the keys whose lines are there, and what is loaded of them *)
(* is what was saved, up to the line that was cut.                         *)
(***************************************************************************)
EXTENDS CalibrationSession, CalibrationFile, TLAPS, FiniteSetTheorems, WellFoundedInduction

Received ==
  /\ kind \in Kinds /\ pc \in {"idle", "warmup", "capture", "terminated"}
  /\ got \in Nat /\ attempts \in Nat /\ thermal \in Nat /\ useless \in Nat
  /\ result \in {"none", "ok", "gave up", "threw", "grab failed"}

\* While it captures, the code's counters are what was received, and a raw
\* capture is within its bound.
Counted ==
  pc = "capture" =>
    /\ thermal = got /\ got <= Frames /\ result = "none"
    /\ kind \in Raw => attempts = thermal + useless /\ attempts <= MaxAttempts

Draining ==
  pc = "warmup" => thermal = 0 /\ useless = 0 /\ attempts = 0 /\ result = "none"

LInv == Received /\ Counted /\ Draining /\ SuccessIsFull /\ GivesUpLate

\* The bound on the attempts of a raw capture is a number.
LEMMA MaxAttemptsIsNat == MaxAttempts \in Nat
BY CaptureAssumption DEF MaxAttempts

\* A step of a capture keeps the relation of the counters to what was received.
LEMMA CaptureKeeps ==
  ASSUME LInv, [Next]_captureVars
  PROVE  LInv'
<1> USE CaptureAssumption, MaxAttemptsIsNat
<1> USE DEF LInv, Received, Counted, Draining, SuccessIsFull, GivesUpLate
<1> MaxAttempts' = MaxAttempts
  BY DEF MaxAttempts
<1>1. ASSUME NEW k \in Kinds, Begin(k) PROVE LInv'
  BY <1>1 DEF Begin
<1>2. ASSUME NEW type \in Types, Drain(type) PROVE LInv'
  BY <1>2 DEF Drain
<1>3. ASSUME NEW type \in Types, NEW usable \in BOOLEAN, Grab(type, usable) PROVE LInv'
  <2>1. CASE Accumulates(type, usable)
    BY <1>3, <2>1 DEF Grab, Accumulates, AttemptsLeft, CountAttempt
  <2>2. CASE ~Accumulates(type, usable)
    BY <1>3, <2>2 DEF Grab, Accumulates, AttemptsLeft, CountAttempt
  <2> QED BY <2>1, <2>2
<1>4. ASSUME Drained PROVE LInv'
  BY <1>4 DEF Drained
<1>5. ASSUME Retry PROVE LInv'
  BY <1>5 DEF Retry, AttemptsLeft, CountAttempt
<1>6. ASSUME GrabFails PROVE LInv'
  BY <1>6 DEF GrabFails, End
<1>7. ASSUME RawThrows PROVE LInv'
  BY <1>7 DEF RawThrows, End, CountAttempt
<1>8. ASSUME Throws PROVE LInv'
  BY <1>8 DEF Throws
<1>9. ASSUME GiveUp PROVE LInv'
  <2>0. pc = "capture" /\ kind \in Raw /\ got < Frames /\ ~(attempts < MaxAttempts)
    BY <1>9 DEF GiveUp, AttemptsLeft
  <2>1. attempts = MaxAttempts /\ useless + thermal = MaxAttempts /\ thermal < Frames
    BY <2>0
  <2>2. attempts' = attempts + 1
    BY <1>9 DEF GiveUp, CountAttempt
  <2>3. /\ pc' = "idle" /\ result' = "gave up" /\ UNCHANGED <<kind, got, thermal, useless>>
    BY <1>9 DEF GiveUp, End
  <2>4. Received'
    <3>1. kind' \in Kinds /\ got' \in Nat /\ thermal' \in Nat /\ useless' \in Nat
      BY <2>3
    <3>2. attempts \in Nat
      OBVIOUS
    <3>3. attempts' \in Nat
      BY ONLY <2>2, <3>2
    <3> QED BY <2>3, <3>1, <3>3
  <2>5. GivesUpLate'
    BY <2>1, <2>3
  <2>6. Counted' /\ Draining' /\ SuccessIsFull'
    BY <2>3
  <2> QED BY <2>4, <2>5, <2>6
<1>10. ASSUME Finish PROVE LInv'
  BY <1>10 DEF Finish, End
<1>11. ASSUME Restart PROVE LInv'
  BY <1>11 DEF Restart
<1>12. ASSUME UNCHANGED captureVars PROVE LInv'
  BY <1>12 DEF captureVars
<1> QED
  BY <1>1, <1>2, <1>3, <1>4, <1>5, <1>6, <1>7, <1>8, <1>9, <1>10, <1>11, <1>12
  DEF Next, CaptureStep

\* At first nothing was received and nothing is counted.
LEMMA CaptureStarts == Init => LInv
BY CaptureAssumption
DEF Init, Kinds, LInv, Received, Counted, Draining, SuccessIsFull, GivesUpLate

\* The relation of the counters to what was received holds throughout.
THEOREM LoopsInductive == Spec => []LInv
<1>1. [Next]_vars => [Next]_captureVars
  BY DEF vars, captureVars
<1>2. LInv /\ [Next]_vars => LInv'
  BY <1>1, CaptureKeeps
<1> QED BY <1>2, CaptureStarts, PTL DEF Spec

\* The sum that is divided by the number of frames is that of so many frames.
THEOREM AveragesAreWhole == Spec => []SuccessIsFull
<1>1. LInv => SuccessIsFull
  BY DEF LInv
<1> QED BY <1>1, LoopsInductive, PTL

\* No raw capture gives up early, nor with all its frames in hand.
THEOREM AllAttemptsMade == Spec => []GivesUpLate
<1>1. LInv => GivesUpLate
  BY DEF LInv
<1> QED BY <1>1, LoopsInductive, PTL

-----------------------------------------------------------------------------
(* The tool.                                                               *)

Typed ==
  /\ cal \in Calibrations /\ file \in Calibrations \cup {NoFile, Torn}
  /\ c0 \in Int /\ anchor \in Int /\ seed \in Int

\* What a temperature section says: with its own anchor, the known surface reads what it
\* was made for; and it has one if the camera compensates the drift.
Right(f) ==
  f.temperature # Unset =>
    /\ f.temperature.c0 + Base(f.temperature.padRef) = f.temperature.due
    /\ Drift => f.temperature.padRef # NaN

\* That is true of what is in hand and of what is on disk.
Sections == Right(cal) /\ (file \in Calibrations => Right(file))

\* What is in hand is installed, so that no shutter cycle moves c0.
InForce ==
  phase \notin {"off", "booted"} /\ cal.temperature # Unset =>
    c0Source = "Host" /\ Reading = cal.temperature.due

\* The measurement of a known temperature maps with its seed.
SeedInForce ==
  /\ phase = "known" /\ cal.temperature # Unset => c0 = seed
  /\ phase = "measuring" => c0 = seed /\ c0Source = "Host"

TInv == Typed /\ Sections /\ InForce /\ SeedInForce /\ CapturesSetUp


\* The c0 that the camera would seed is a number.
LEMMA BaseIsInt ==
  ASSUME NEW a \in Int
  PROVE  Base(a) \in Int
BY DEF Base

\* A temperature of a calibration is a record of its fields.
LEMMA TemperatureFields ==
  ASSUME NEW f \in Calibrations, f.temperature # Unset
  PROVE  /\ f.temperature.c0 \in Int /\ f.temperature.due \in Int
         /\ f.temperature.padRef \in Int \cup {NaN}
<1>1. f.temperature \in Temperatures
  BY DEF Calibrations
<1> QED
  BY <1>1 DEF Temperatures

\* Installing a right section makes the known surface read what it is due, whatever the
\* camera had before.
LEMMA Installs ==
  ASSUME NEW f \in Calibrations, f.temperature # Unset, Right(f), anchor \in Int,
         SetCalibration(f)
  PROVE  /\ c0' \in Int /\ anchor' \in Int /\ c0Source' = "Host"
         /\ Reading' = f.temperature.due
<1>1. c0' = f.temperature.c0 /\ c0Source' = "Host"
  BY DEF SetCalibration
<1>2. anchor' = IF f.temperature.padRef = NaN THEN anchor ELSE f.temperature.padRef
  BY DEF SetCalibration
<1>3. c0' \in Int /\ anchor' \in Int
  BY <1>1, <1>2, TemperatureFields
<1>4. Base(anchor') = Base(f.temperature.padRef)
  BY <1>2 DEF Right, Base
<1> QED
  BY <1>1, <1>3, <1>4 DEF Right, Reading

\* A section that is made now is right, whatever it is due.
LEMMA MadeRight ==
  ASSUME Typed, CapturesSetUp, phase # "vignette", NEW offset \in Int, NEW due \in Int,
         offset + Base(anchor) = due, InstallTemperature(offset, due)
  PROVE  /\ cal' \in Calibrations /\ cal'.temperature # Unset /\ cal'.temperature.due = due
         /\ cal'.vignette = cal.vignette /\ cal'.dead_pixels = cal.dead_pixels
         /\ Right(cal') /\ SetCalibration(cal')
<1> DEFINE section == [c0 |-> offset, padRef |-> pinDriftAnchor, due |-> due]
<1>0. pinDriftAnchor = IF Drift THEN anchor ELSE NaN
  BY DEF pinDriftAnchor, CapturesSetUp
<1>1. section \in Temperatures
  BY <1>0 DEF Temperatures, Typed
<1>2. section # Unset
  BY <1>1, ToolValues
<1>3. cal' = [cal EXCEPT !.temperature = section] /\ SetCalibration(cal')
  BY DEF InstallTemperature
<1>4. cal' = [temperature |-> section, vignette |-> cal.vignette, dead_pixels |-> cal.dead_pixels]
  BY <1>3 DEF Typed, Calibrations
<1>5. cal' \in Calibrations
  BY <1>1, <1>4 DEF Typed, Calibrations
<1>6. Right(cal')
  <2>1. cal'.temperature = section
    BY <1>4
  <2>2. Base(pinDriftAnchor) = Base(anchor) /\ (Drift => pinDriftAnchor # NaN)
    BY <1>0, ToolAssumption DEF Base, Typed
  <2> QED BY <2>1, <2>2 DEF Right
<1> QED
  BY <1>2, <1>3, <1>4, <1>5, <1>6


\* Whatever is installed, the camera keeps numbers; without a temperature section its
\* mapping stays.
LEMMA InstallsNumbers ==
  ASSUME NEW f \in Calibrations, Typed, SetCalibration(f)
  PROVE  /\ c0' \in Int /\ anchor' \in Int
         /\ vignette' = f.vignette /\ dead_pixels' = f.dead_pixels
         /\ f.temperature = Unset => UNCHANGED <<c0, anchor, c0Source>>
BY TemperatureFields DEF SetCalibration, Typed

\* To come back to the menu with a right calibration installed is all it takes.
LEMMA BackInstalled ==
  ASSUME Typed, Sections, cal' \in Calibrations, Right(cal'), SetCalibration(cal'),
         drift' = TRUE, phase' = "menu", UNCHANGED <<file, seed>>
  PROVE  TInv'
<1>1. /\ c0' \in Int /\ anchor' \in Int
      /\ vignette' = cal'.vignette /\ dead_pixels' = cal'.dead_pixels
  BY InstallsNumbers
<1>2. Typed'
  BY <1>1 DEF Typed
<1>3. Sections'
  BY DEF Sections, Right, Base
<1>4. InForce'
  <2>1. CASE cal'.temperature = Unset
    BY <2>1 DEF InForce
  <2>2. CASE cal'.temperature # Unset
    <3>1. c0Source' = "Host" /\ Reading' = cal'.temperature.due
      BY <2>2, Installs DEF Typed
    <3> QED BY <3>1 DEF InForce
  <2> QED BY <2>1, <2>2
<1>5. SeedInForce' /\ CapturesSetUp'
  BY <1>1 DEF SeedInForce, CapturesSetUp
<1> QED BY <1>2, <1>3, <1>4, <1>5 DEF TInv

\* The other steps leave the sections alone, and the camera as well.
LEMMA MenuSteps ==
  ASSUME TInv, UNCHANGED <<file, seed, camera>>,
         \/ DeadPixelsBegin \/ DeadPixelsFail \/ KnownAborted \/ KnownFails
         \/ UNCHANGED toolVars
  PROVE  TInv'
<1>1. cal' = cal
  BY DEF DeadPixelsBegin, DeadPixelsFail, KnownAborted, KnownFails, toolVars
<1>2. \/ phase = "menu" /\ phase' = "deadPixels"
      \/ phase = "deadPixels" /\ phase' = "menu"
      \/ phase = "known" /\ phase' = "menu"
      \/ phase = "measuring" /\ phase' = "menu"
      \/ phase' = phase
  BY DEF DeadPixelsBegin, DeadPixelsFail, KnownAborted, KnownFails, toolVars
<1>3. UNCHANGED <<c0, anchor, c0Source, vignette, dead_pixels, drift>>
  BY DEF camera
<1>4. Typed' /\ Sections'
  BY <1>1, <1>3 DEF TInv, Typed, Sections, Right, Base
<1>5. InForce' /\ SeedInForce'
  BY <1>1, <1>2, <1>3 DEF TInv, InForce, SeedInForce, Reading, Base
<1>6. CapturesSetUp'
  BY <1>1, <1>2, <1>3 DEF TInv, CapturesSetUp
<1> QED BY <1>4, <1>5, <1>6 DEF TInv


\* A cut file is as right as the calibration it was to hold.
LEMMA CutRight ==
  ASSUME Typed, Right(cal), NEW f \in Cut
  PROVE  f \in Calibrations \cup {NoFile, Torn} /\ (f \in Calibrations => Right(f))
<1>1. CASE f = Torn
  BY <1>1, ToolValues
<1>2. CASE f = Empty
  BY <1>2 DEF Empty, Calibrations, Right
<1>3. CASE f = [Empty EXCEPT !.temperature = cal.temperature]
  <2>1. f = [temperature |-> cal.temperature, vignette |-> Unset, dead_pixels |-> Unset]
    BY <1>3 DEF Empty
  <2> QED BY <2>1 DEF Typed, Calibrations, Right
<1>4. CASE f = [cal EXCEPT !.dead_pixels = Unset]
  <2>1. f = [temperature |-> cal.temperature, vignette |-> cal.vignette, dead_pixels |-> Unset]
    BY <1>4 DEF Typed, Calibrations
  <2> QED BY <2>1 DEF Typed, Calibrations, Right
<1> QED
  BY <1>1, <1>2, <1>3, <1>4 DEF Cut

\* Booting the camera, loading a file and quitting keep the invariant.
LEMMA StartKeeps ==
  ASSUME TInv, Boot \/ LoadCalibration \/ Quit
  PROVE  TInv'
<1>1. Empty \in Calibrations /\ Empty.temperature = Unset
  BY DEF Empty, Calibrations
<1>2. CASE Boot
  <2>1. PICK a \in Anchors, e \in Errors : anchor' = a /\ c0' = e - Base(a)
    BY <1>2 DEF Boot
  <2>2. anchor' \in Int /\ c0' \in Int
    BY <2>1, ToolAssumption DEF Base
  <2>3. Typed' /\ Sections'
    BY <1>1, <1>2, <2>2 DEF Boot, TInv, Typed, Sections, Right, Base
  <2>4. InForce' /\ SeedInForce' /\ CapturesSetUp'
    BY <1>2 DEF Boot, InForce, SeedInForce, CapturesSetUp
  <2> QED BY <2>3, <2>4 DEF TInv
<1>3. CASE LoadCalibration
  <2>1. cal' \in Calibrations /\ Right(cal')
    BY <1>1, <1>3 DEF LoadCalibration, Loads, TInv, Sections, Right
  <2>2. /\ c0' \in Int /\ anchor' \in Int
        /\ vignette' = cal'.vignette /\ dead_pixels' = cal'.dead_pixels
    BY <1>3, <2>1, InstallsNumbers DEF LoadCalibration, TInv
  <2>3. Typed' /\ Sections'
    BY <1>3, <2>1, <2>2 DEF LoadCalibration, TInv, Typed, Sections, Right, Base
  <2>4. cal'.temperature # Unset => c0Source' = "Host" /\ Reading' = cal'.temperature.due
    BY <1>3, <2>1, Installs DEF LoadCalibration, TInv, Typed
  <2>5. InForce' /\ SeedInForce' /\ CapturesSetUp'
    BY <1>3, <2>2, <2>4 DEF LoadCalibration, TInv, InForce, SeedInForce, CapturesSetUp
  <2> QED BY <2>3, <2>5 DEF TInv
<1>4. CASE Quit
  <2>1. Typed' /\ Sections'
    BY <1>1, <1>4 DEF Quit, TInv, Typed, Sections, Right, Base
  <2>2. InForce' /\ SeedInForce' /\ CapturesSetUp'
    BY <1>4 DEF Quit, InForce, SeedInForce, CapturesSetUp
  <2> QED BY <2>1, <2>2 DEF TInv
<1> QED
  BY <1>2, <1>3, <1>4

\* A shutter cycle finds the mapping its own, so that no section is in force.
LEMMA ShutterKeeps ==
  ASSUME TInv, Shutter
  PROVE  TInv'
<1>1. cal.temperature = Unset /\ phase # "measuring"
  BY DEF Shutter, TInv, InForce, SeedInForce
<1>2. PICK e \in Errors : c0' = e - Base(anchor)
  BY DEF Shutter
<1>3. c0' \in Int
  BY <1>2, ToolAssumption DEF TInv, Typed, Base
<1>4. UNCHANGED <<phase, cal, file, seed, anchor, vignette, dead_pixels, drift>>
  BY DEF Shutter
<1>5. Typed' /\ Sections'
  BY <1>3, <1>4 DEF TInv, Typed, Sections, Right, Base
<1>6. InForce' /\ SeedInForce' /\ CapturesSetUp'
  BY <1>1, <1>4 DEF TInv, InForce, SeedInForce, CapturesSetUp
<1> QED BY <1>5, <1>6 DEF TInv

\* So does the vignette entry, finished or failed: both ways it installs what it found.
LEMMA VignetteKeeps ==
  ASSUME TInv, VignetteBegin \/ VignetteFails \/ \E v \in Versions : VignetteDone(v)
  PROVE  TInv'
<1>1. CASE VignetteBegin
  <2> DEFINE f == [cal EXCEPT !.vignette = Unset]
  <2>1. f = [temperature |-> cal.temperature, vignette |-> Unset, dead_pixels |-> cal.dead_pixels]
    BY DEF TInv, Typed, Calibrations
  <2>2. f \in Calibrations
    BY <2>1 DEF TInv, Typed, Calibrations
  <2>3. f.temperature = cal.temperature /\ f.vignette = Unset /\ f.dead_pixels = cal.dead_pixels
    BY <2>1
  <2>4. Right(f)
    BY <2>3 DEF TInv, Sections, Right
  <2>5. SetCalibration(f) /\ phase' = "vignette" /\ drift' = FALSE /\ UNCHANGED <<cal, file, seed>>
    BY <1>1 DEF VignetteBegin
  <2> HIDE DEF f
  <2>6. /\ c0' \in Int /\ anchor' \in Int /\ vignette' = Unset /\ dead_pixels' = cal.dead_pixels
    BY <2>2, <2>3, <2>5, InstallsNumbers DEF TInv
  <2>7. cal.temperature # Unset => c0Source' = "Host" /\ Reading' = cal.temperature.due
    BY <2>2, <2>3, <2>4, <2>5, Installs DEF TInv, Typed
  <2>8. Typed' /\ Sections'
    BY <2>5, <2>6 DEF TInv, Typed, Sections, Right, Base
  <2>9. InForce' /\ SeedInForce' /\ CapturesSetUp'
    BY <2>5, <2>6, <2>7 DEF InForce, SeedInForce, CapturesSetUp
  <2> QED BY <2>8, <2>9 DEF TInv
<1>2. CASE VignetteFails
  <2>1. cal' \in Calibrations /\ Right(cal')
    BY <1>2 DEF VignetteFails, TInv, Typed, Sections, Right
  <2> QED
    BY <1>2, <2>1, BackInstalled DEF VignetteFails, Restore, TInv
<1>3. ASSUME NEW v \in Versions, VignetteDone(v) PROVE TInv'
  <2>1. cal' = [temperature |-> cal.temperature, vignette |-> v, dead_pixels |-> cal.dead_pixels]
    BY <1>3 DEF VignetteDone, TInv, Typed, Calibrations
  <2>2. cal' \in Calibrations /\ Right(cal')
    BY <2>1 DEF TInv, Typed, Calibrations, Sections, Right
  <2> QED
    BY <1>3, <2>2, BackInstalled DEF VignetteDone, Restore, TInv
<1> QED
  BY <1>1, <1>2, <1>3

\* The new mask is not installed: it waits in the calibration in hand.
LEMMA DeadPixelsKeep ==
  ASSUME TInv, NEW v \in Versions, DeadPixelsDone(v)
  PROVE  TInv'
<1>1. cal' = [temperature |-> cal.temperature, vignette |-> cal.vignette, dead_pixels |-> v]
  BY DEF DeadPixelsDone, TInv, Typed, Calibrations
<1>2. phase = "deadPixels" /\ phase' = "menu" /\ UNCHANGED <<file, seed, camera>>
  BY DEF DeadPixelsDone
<1>3. Typed' /\ Sections'
  BY <1>1, <1>2 DEF TInv, Typed, Calibrations, Sections, Right, Base, camera
<1>4. InForce' /\ SeedInForce' /\ CapturesSetUp'
  BY <1>1, <1>2 DEF TInv, InForce, SeedInForce, CapturesSetUp, camera, Reading, Base
<1> QED BY <1>3, <1>4 DEF TInv


\* So does the known-temperature entry: it measures under the camera's own mapping.
LEMMA KnownKeeps ==
  ASSUME TInv, KnownBegin \/ KnownInstall \/ KnownDone
  PROVE  TInv'
<1>1. CASE KnownBegin
  <2>1. phase = "menu" /\ phase' = "known" /\ seed' = c0 /\ UNCHANGED <<cal, file, camera>>
    BY <1>1 DEF KnownBegin
  <2>2. Typed' /\ Sections'
    BY <2>1 DEF TInv, Typed, Sections, Right, Base, camera
  <2>3. InForce' /\ SeedInForce' /\ CapturesSetUp'
    BY <2>1 DEF TInv, InForce, SeedInForce, CapturesSetUp, camera, Reading, Base
  <2> QED BY <2>2, <2>3 DEF TInv
<1>2. CASE KnownInstall
  <2> DEFINE section == [c0 |-> seed, padRef |-> NaN, due |-> 0]
             f == [cal EXCEPT !.temperature = section]
  <2>1. section \in Temperatures /\ section # Unset
    <3>1. section \in Temperatures
      BY DEF Temperatures, TInv, Typed
    <3> QED BY <3>1, ToolValues
  <2>2. f = [temperature |-> section, vignette |-> cal.vignette, dead_pixels |-> cal.dead_pixels]
    BY DEF TInv, Typed, Calibrations
  <2>3. f \in Calibrations /\ f.temperature = section
    BY <2>1, <2>2 DEF TInv, Typed, Calibrations
  <2>4. f.vignette = cal.vignette /\ f.dead_pixels = cal.dead_pixels
    BY <2>2
  <2>5. SetCalibration(f)
    BY <1>2 DEF KnownInstall
  <2>6. f.temperature.c0 = seed /\ f.temperature.padRef = NaN
    BY <2>3
  <2> HIDE DEF f, section
  <2>7. /\ c0' = seed /\ anchor' = anchor /\ c0Source' = "Host"
        /\ vignette' = cal.vignette /\ dead_pixels' = cal.dead_pixels
    BY <2>1, <2>3, <2>4, <2>5, <2>6 DEF SetCalibration
  <2>8. phase = "known" /\ phase' = "measuring" /\ UNCHANGED <<drift, cal, file, seed>>
    BY <1>2 DEF KnownInstall
  <2>9. Typed' /\ Sections'
    BY <2>7, <2>8 DEF TInv, Typed, Sections, Right, Base
  <2>10. InForce'
    BY <2>7, <2>8 DEF TInv, InForce, SeedInForce, Reading, Base
  <2>11. SeedInForce' /\ CapturesSetUp'
    BY <2>7, <2>8 DEF TInv, SeedInForce, CapturesSetUp
  <2> QED BY <2>9, <2>10, <2>11 DEF TInv
<1>3. CASE KnownDone
  <2>1. c0 = seed /\ phase # "vignette"
    BY <1>3 DEF KnownDone, TInv, SeedInForce
  <2>2. NewC0 \in Int /\ NewC0 + Base(anchor) = Known
    BY <2>1, ToolAssumption DEF NewC0, Reading, Base, TInv, Typed
  <2>3. InstallTemperature(NewC0, Known) /\ phase' = "menu" /\ UNCHANGED <<drift, file, seed>>
    BY <1>3 DEF KnownDone
  <2>4. cal' \in Calibrations /\ Right(cal') /\ SetCalibration(cal')
    BY <2>1, <2>2, <2>3, MadeRight, ToolAssumption DEF TInv
  <2>5. drift' = TRUE
    BY <2>1, <2>3 DEF TInv, CapturesSetUp
  <2> QED BY <2>3, <2>4, <2>5, BackInstalled DEF TInv
<1> QED
  BY <1>1, <1>2, <1>3

\* So does a manual offset: it moves the surface as far as its due reading.
LEMMA OffsetKeeps ==
  ASSUME TInv, NEW o \in Offsets, doManualOffset(o)
  PROVE  TInv'
<1>1. phase = "menu" /\ phase' = "menu" /\ UNCHANGED <<drift, file, seed>>
  BY DEF doManualOffset
<1>2. c0 + o \in Int /\ Reading + o \in Int /\ (c0 + o) + Base(anchor) = Reading + o
  BY ToolAssumption DEF Reading, Base, TInv, Typed
<1>3. cal' \in Calibrations /\ Right(cal') /\ SetCalibration(cal')
  BY <1>1, <1>2, MadeRight DEF TInv, doManualOffset
<1>4. drift' = TRUE
  BY <1>1 DEF TInv, CapturesSetUp
<1> QED
  BY <1>1, <1>3, <1>4, BackInstalled DEF TInv

\* So does saving, to the end or not.
LEMMA SaveKeeps ==
  ASSUME TInv, doSave
  PROVE  TInv'
<1>1. file' \in {cal} \cup Cut /\ UNCHANGED <<phase, cal, seed, camera>>
  BY DEF doSave
<1>2. file' \in Calibrations \cup {NoFile, Torn} /\ (file' \in Calibrations => Right(file'))
  BY <1>1, CutRight DEF TInv, Typed, Sections
<1>3. Typed' /\ Sections'
  BY <1>1, <1>2 DEF TInv, Typed, Sections, Right, Base, camera
<1>4. InForce' /\ SeedInForce' /\ CapturesSetUp'
  BY <1>1 DEF TInv, InForce, SeedInForce, CapturesSetUp, camera, Reading, Base
<1> QED BY <1>3, <1>4 DEF TInv

\* A tool that starts has nothing in hand and nothing installed.
LEMMA ToolStarts == ToolInit => TInv
<1> SUFFICES ASSUME ToolInit PROVE TInv
  OBVIOUS
<1>1. cal = Empty /\ Empty \in Calibrations /\ Empty.temperature = Unset
  BY DEF ToolInit, Empty, Calibrations
<1>2. Typed /\ Sections
  BY <1>1, ToolValues DEF ToolInit, Typed, Sections, Right
<1>3. InForce /\ SeedInForce /\ CapturesSetUp
  BY DEF ToolInit, InForce, SeedInForce, CapturesSetUp
<1> QED BY <1>2, <1>3 DEF TInv

\* Every step of the tool keeps the invariant.
LEMMA ToolKeeps ==
  ASSUME TInv, [ToolNext]_toolVars
  PROVE  TInv'
<1>1. CASE DeadPixelsBegin \/ DeadPixelsFail \/ KnownAborted \/ KnownFails \/ UNCHANGED toolVars
  <2>1. UNCHANGED <<file, seed, camera>>
    BY <1>1 DEF DeadPixelsBegin, DeadPixelsFail, KnownAborted, KnownFails, toolVars
  <2> QED BY <1>1, <2>1, MenuSteps
<1>2. CASE Boot \/ LoadCalibration \/ Quit
  BY <1>2, StartKeeps
<1>3. CASE Shutter
  BY <1>3, ShutterKeeps
<1>4. CASE VignetteBegin \/ VignetteFails \/ \E v \in Versions : VignetteDone(v)
  BY <1>4, VignetteKeeps
<1>5. CASE \E v \in Versions : DeadPixelsDone(v)
  BY <1>5, DeadPixelsKeep
<1>6. CASE KnownBegin \/ KnownInstall \/ KnownDone
  BY <1>6, KnownKeeps
<1>7. CASE \E o \in Offsets : doManualOffset(o)
  BY <1>7, OffsetKeeps
<1>8. CASE doSave
  BY <1>8, SaveKeeps
<1> QED
  BY <1>1, <1>2, <1>3, <1>4, <1>5, <1>6, <1>7, <1>8 DEF ToolNext


\* The known surface reads what the section in hand was made for, over captures, offsets,
\* shutter cycles, saves, reboots with another anchor and loads.
THEOREM ToolReadsKnown == ToolSpec => []TInv
BY ToolStarts, ToolKeeps, PTL DEF ToolSpec

\* Quitting loses nothing unannounced but the end that a full disk cut off the last save.
THEOREM ToolAnnouncesUnsaved == ToolSpec => []UnsavedIsCut
<1>1. ToolInit => UnsavedIsCut
  BY DEF ToolInit, UnsavedIsCut
<1>2. UnsavedIsCut /\ [ToolNext]_toolVars => UnsavedIsCut'
  <2> SUFFICES ASSUME UnsavedIsCut, [ToolNext]_toolVars PROVE UnsavedIsCut'
    OBVIOUS
  <2>1. CASE UNCHANGED <<cal, dirty, file>>
    BY <2>1 DEF UnsavedIsCut, Cut
  <2>2. CASE dirty' = TRUE
    BY <2>2 DEF UnsavedIsCut
  <2>3. CASE doSave
    <3>1. cal' = cal /\ (file' = cal \/ (DiskFull /\ file' \in Cut))
      BY <2>3 DEF doSave
    <3>2. Cut' = Cut
      BY <3>1 DEF Cut
    <3> QED BY <3>1, <3>2 DEF UnsavedIsCut
  <2>4. CASE Boot \/ LoadCalibration \/ Quit
    BY <2>4 DEF Boot, LoadCalibration, Quit, UnsavedIsCut
  <2>5. \/ UNCHANGED <<cal, dirty, file>>
        \/ dirty' = TRUE
        \/ Boot \/ LoadCalibration \/ doSave \/ Quit
    BY DEF ToolNext, Shutter, VignetteBegin, VignetteDone, VignetteFails, DeadPixelsBegin,
           DeadPixelsDone, DeadPixelsFail, KnownBegin, KnownAborted, KnownInstall, KnownFails,
           KnownDone, doManualOffset, InstallTemperature, toolVars
  <2> QED BY <2>1, <2>2, <2>3, <2>4, <2>5
<1> QED BY <1>1, <1>2, PTL DEF ToolSpec

-----------------------------------------------------------------------------
(* The session.                                                            *)

\* A session is a run of the tool whose entries take as long as their captures: what the
\* tool promises with captures of one step, it keeps with captures frame by frame.
LEMMA SessionSteps ==
  ASSUME [SessionNext]_sessionVars
  PROVE  [ToolNext]_toolVars
<1>1. CASE Menu
  BY <1>1 DEF Menu, ToolNext
<1>2. CASE BeginCapture
  BY <1>2 DEF BeginCapture, ToolNext
<1>3. ASSUME NEW type \in Types, GrabFrame(type) PROVE Shutter \/ UNCHANGED toolVars
  BY <1>3 DEF GrabFrame
<1>4. CASE GrabNone
  BY <1>4 DEF GrabNone
<1>5. CASE EndCapture
  BY <1>5 DEF EndCapture, ToolNext
<1>6. CASE Terminate
  BY <1>6 DEF Terminate, ToolNext
<1>7. CASE UNCHANGED sessionVars
  BY <1>7 DEF sessionVars
<1>8. Shutter => ToolNext
  BY DEF ToolNext
<1> QED
  BY <1>1, <1>2, <1>3, <1>4, <1>5, <1>6, <1>7, <1>8 DEF SessionNext, Capturing

\* A session of entries and captures, frame by frame, is a session of the tool.
THEOREM SessionIsTool == SessionSpec => ToolSpec
<1>1. SessionInit => ToolInit
  BY DEF SessionInit
<1> QED BY <1>1, SessionSteps, PTL DEF SessionSpec, ToolSpec

\* The user of the tool can rely on the known surface, on the corrections during a
\* capture and after it, and on being told of unsaved changes.
THEOREM SessionReadsKnown == SessionSpec => []KnownSurfaceReads
<1>1. TInv => KnownSurfaceReads
  BY DEF TInv, InForce, KnownSurfaceReads
<1> QED BY <1>1, SessionIsTool, ToolReadsKnown, PTL

\* Every capture of a session runs under the corrections its entry set up.
THEOREM SessionSetsUp == SessionSpec => []CapturesSetUp
<1>1. TInv => CapturesSetUp
  BY DEF TInv
<1> QED BY <1>1, SessionIsTool, ToolReadsKnown, PTL

\* On a disk that may be full or not: what a session has not saved is marked as unsaved,
\* or a save of it was cut off, and the file holds the beginning of it.
THEOREM SessionAnnouncesUnsaved == SessionSpec => []UnsavedIsCut
BY SessionIsTool, ToolAnnouncesUnsaved, PTL

\* What the captures of a session count is what they received: the entries of the tool
\* begin and forget captures, and otherwise leave them alone.
THEOREM SessionCounts == SessionSpec => []LInv
<1>1. SessionInit => LInv
  BY CaptureStarts DEF SessionInit
<1>2. LInv /\ [SessionNext]_sessionVars => LInv'
  <2> SUFFICES ASSUME LInv, [SessionNext]_sessionVars PROVE LInv'
    OBVIOUS
  <2>1. CASE Forget
    BY <2>1, CaptureAssumption
    DEF Forget, LInv, Received, Counted, Draining, SuccessIsFull, GivesUpLate, Kinds
  <2>2. CASE [Next]_captureVars
    BY <2>2, CaptureKeeps
  <2>3. Forget \/ [Next]_captureVars
    <3>1. CASE Menu
      BY <3>1 DEF Menu, Between
    <3>2. CASE BeginCapture
      BY <3>2 DEF BeginCapture, Next, Kinds, Raw
    <3>3. ASSUME NEW type \in Types, GrabFrame(type) PROVE Next
      BY <3>3 DEF GrabFrame, Next, CaptureStep
    <3>4. CASE GrabNone
      BY <3>4 DEF GrabNone, Next, CaptureStep
    <3>5. CASE EndCapture
      BY <3>5 DEF EndCapture
    <3>6. CASE Terminate
      BY <3>6 DEF Terminate, Next
    <3>7. CASE UNCHANGED sessionVars
      BY <3>7 DEF sessionVars
    <3> QED
      BY <3>1, <3>2, <3>3, <3>4, <3>5, <3>6, <3>7 DEF SessionNext, Capturing
  <2> QED BY <2>1, <2>2, <2>3
<1> QED BY <1>1, <1>2, PTL DEF SessionSpec

\* A capture of a session that succeeds averaged the frames it wanted.
THEOREM SessionAveragesWhole == SessionSpec => []SuccessIsFull
<1>1. LInv => SuccessIsFull
  BY DEF LInv
<1> QED BY <1>1, SessionCounts, PTL

\* Every frame of a measurement was mapped with the seed of c0 and one anchor, whatever
\* shutter cycles came in, and whoever owned c0 before.
THEOREM SessionMeasuresUnderSeed == SessionSpec => []MeasuredUnderSeed
<1>1. SessionInit => MeasuredUnderSeed
  BY DEF SessionInit, MeasuredUnderSeed
<1>2. TInv /\ MeasuredUnderSeed /\ [SessionNext]_sessionVars => MeasuredUnderSeed'
  <2> SUFFICES ASSUME TInv, MeasuredUnderSeed, [SessionNext]_sessionVars,
                      phase' = "measuring"
               PROVE  \A m \in mappings' : m = <<seed', anchor'>>
    BY DEF MeasuredUnderSeed
  <2>1. CASE mappings' = {}
    BY <2>1
  <2>2. CASE phase = "measuring" /\ UNCHANGED <<toolVars, mappings>>
    BY <2>2 DEF MeasuredUnderSeed, toolVars, camera
  <2>3. ASSUME NEW type \in Types, GrabFrame(type)
        PROVE  \A m \in mappings' : m = <<seed', anchor'>>
    <3>1. phase = "measuring"
      BY <2>3 DEF GrabFrame, Shutter, toolVars
    <3>2. ~Shutter /\ c0 = seed
      BY <3>1 DEF TInv, SeedInForce, Shutter
    <3>3. UNCHANGED <<seed, anchor>>
      BY <2>3, <3>2 DEF GrabFrame, toolVars, camera
    <3>4. mappings' \subseteq mappings \cup {<<c0, anchor>>}
      BY <2>3 DEF GrabFrame, Measure
    <3> QED BY <3>1, <3>2, <3>3, <3>4 DEF MeasuredUnderSeed
  <2>4. CASE Menu
    BY <2>4 DEF Menu, Between, Boot, LoadCalibration, Shutter, KnownBegin, doManualOffset, doSave,
                KnownAborted, Quit
  <2>5. CASE BeginCapture \/ EndCapture \/ Terminate
    BY <2>1, <2>5 DEF BeginCapture, EndCapture, Forget, Terminate
  <2>6. CASE GrabNone \/ UNCHANGED sessionVars
    BY <2>2, <2>6 DEF GrabNone, sessionVars, toolVars
  <2> QED
    BY <2>3, <2>4, <2>5, <2>6 DEF SessionNext, Capturing
<1> QED BY <1>1, <1>2, SessionIsTool, ToolReadsKnown, PTL DEF SessionSpec

-----------------------------------------------------------------------------
(* The file.  The invariant is about the lines that were parsed; nothing   *)
(* is assumed of what they hold.                                           *)

\* Some of the first n lines, if any, have a last one.
LEMMA LastLine ==
  ASSUME NEW n \in Nat, NEW S, S \subseteq 1 .. n, S # {}
  PROVE  Max(S) \in S /\ \A y \in S : y <= Max(S)
<1> DEFINE Behind == {n - x : x \in S}
<1>1. Behind \subseteq Nat /\ Behind # {}
  <2>1. \A x \in S : n - x \in Nat
    OBVIOUS
  <2> QED BY <2>1
<1>2. PICK b \in Behind : \A c \in Behind : <<c, b>> \notin OpToRel(<, Nat)
  BY <1>1, WFMin, NatLessThanWellFounded
<1>3. \A c \in Behind : ~(c < b)
  BY <1>1, <1>2 DEF OpToRel
<1>4. PICK m \in S : b = n - m
  OBVIOUS
<1>5. \A y \in S : m >= y
  BY <1>3, <1>4
<1> QED BY <1>4, <1>5 DEF Max

-----------------------------------------------------------------------------
(* One line more.                                                          *)

\* A section line puts its section in force.
LEMMA HeaderOpens ==
  ASSUME NEW n \in Nat, lines[n + 1].kind = "section"
  PROVE  SectionAt(n + 1) = lines[n + 1].name
<1> DEFINE H == Headers(n + 1)
<1>1. n + 1 \in H /\ H \subseteq 1 .. n + 1 /\ n + 1 \in Nat
  BY DEF Headers
<1> HIDE DEF H
<1>2. Max(H) \in H /\ n + 1 <= Max(H)
  BY <1>1, LastLine
<1>3. Max(H) = n + 1
  <2>1. Max(H) \in 1 .. n + 1
    BY <1>1, <1>2
  <2> QED BY <1>2, <2>1
<1> QED BY <1>1, <1>3 DEF SectionAt, H

\* One line more is one section line more, or none.
LEMMA HeadersGrow ==
  ASSUME NEW n \in Nat
  PROVE  Headers(n + 1) = Headers(n) \cup (IF lines[n + 1].kind = "section" THEN {n + 1} ELSE {})
BY DEF Headers

\* Any other line leaves the section in force.
LEMMA OtherStays ==
  ASSUME NEW n \in Nat, lines[n + 1].kind # "section"
  PROVE  SectionAt(n + 1) = SectionAt(n)
BY HeadersGrow DEF SectionAt

\* The section in force was opened by a line.
LEMMA OpenedByLine ==
  ASSUME NEW n \in Nat, SectionAt(n) # ""
  PROVE  SectionAt(n) \in Opened(n)
<1>1. Headers(n) # {} /\ Headers(n) \subseteq 1 .. n
  BY DEF SectionAt, Headers
<1>2. Max(Headers(n)) \in Headers(n)
  BY <1>1, LastLine
<1> QED BY <1>1, <1>2 DEF SectionAt, Opened

\* One line more is one line more for its key in the section in force.
LEMMA LinesGrow ==
  ASSUME NEW n \in Nat, NEW s, NEW k
  PROVE  \A i : i \in LinesFor(n + 1, s, k) <=>
                \/ i \in LinesFor(n, s, k)
                \/ /\ i = n + 1 /\ lines[n + 1].kind = "entry" /\ lines[n + 1].name = k
                   /\ SectionAt(n + 1) = s
<1>1. \A i : i \in 1 .. n + 1 <=> i \in 1 .. n \/ i = n + 1
  OBVIOUS
<1> QED BY <1>1 DEF LinesFor

\* An entry is a line of its key.
LEMMA LineAdds ==
  ASSUME NEW n \in Nat, lines[n + 1].kind = "entry"
  PROVE  n + 1 \in LinesFor(n + 1, SectionAt(n + 1), lines[n + 1].name)
BY LinesGrow

\* It is a line of no other key, and of no other section.
LEMMA LineAddsNoOther ==
  ASSUME NEW n \in Nat, NEW s, NEW k, s # SectionAt(n + 1) \/ k # lines[n + 1].name
  PROVE  LinesFor(n + 1, s, k) = LinesFor(n, s, k)
<1>1. \A i : i \in LinesFor(n + 1, s, k) <=> i \in LinesFor(n, s, k)
  BY LinesGrow
<1> QED BY <1>1

\* A line without an entry is a line of no key.
LEMMA LinesStay ==
  ASSUME NEW n \in Nat, lines[n + 1].kind # "entry", NEW s, NEW k
  PROVE  LinesFor(n + 1, s, k) = LinesFor(n, s, k)
<1>1. \A i : i \in LinesFor(n + 1, s, k) <=> i \in LinesFor(n, s, k)
  BY LinesGrow
<1> QED BY <1>1

\* The newest line of a key is its last.
LEMMA LastIsNew ==
  ASSUME NEW n \in Nat, NEW s, NEW k, n + 1 \in LinesFor(n + 1, s, k)
  PROVE  Max(LinesFor(n + 1, s, k)) = n + 1
<1> DEFINE L == LinesFor(n + 1, s, k)
<1>1. n + 1 \in L /\ L \subseteq 1 .. n + 1 /\ n + 1 \in Nat
  BY DEF LinesFor
<1> HIDE DEF L
<1>2. Max(L) \in L /\ n + 1 <= Max(L)
  BY <1>1, LastLine
<1>3. Max(L) = n + 1
  <2>1. Max(L) \in 1 .. n + 1
    BY <1>1, <1>2
  <2> QED BY <1>2, <2>1
<1> QED BY <1>3 DEF L

\* The line numbers up to n, and those before each of them.
LEMMA LinesBefore ==
  ASSUME NEW n \in Nat
  PROVE  /\ n + 1 \in Nat
         /\ \A j \in 1 .. n : j \in Nat /\ 1 .. j \subseteq 1 .. n
         /\ \A j \in 1 .. n + 1 : j = n + 1 \/ j \in 1 .. n
OBVIOUS

\* A section that no line opened has no lines.
LEMMA NoLinesUnopened ==
  ASSUME NEW n \in Nat, NEW s, NEW k, s \notin Opened(n),
         \A i \in 1 .. n : lines[i].kind = "entry" => SectionAt(i) # ""
  PROVE  LinesFor(n, s, k) = {}
<1>0. \A j \in 1 .. n : j \in Nat /\ 1 .. j \subseteq 1 .. n
  BY LinesBefore
<1> SUFFICES ASSUME NEW i \in LinesFor(n, s, k) PROVE FALSE
  OBVIOUS
<1>1. i \in 1 .. n /\ i \in Nat /\ SectionAt(i) = s /\ s # ""
  <2>1. i \in 1 .. n /\ lines[i].kind = "entry" /\ SectionAt(i) = s
    BY DEF LinesFor
  <2>2. i \in Nat
    BY <1>0, <2>1
  <2>3. SectionAt(i) # ""
    BY <2>1
  <2> QED BY <2>1, <2>2, <2>3
<1>2. s \in Opened(i)
  BY <1>1, OpenedByLine
<1>3. Opened(i) \subseteq Opened(n)
  <2>1. Headers(i) \subseteq Headers(n)
    BY <1>0, <1>1 DEF Headers
  <2> QED BY <2>1 DEF Opened
<1> QED BY <1>2, <1>3

-----------------------------------------------------------------------------
(* The parser.                                                             *)

\* A key without a section has thrown, and a key of a section has its last value.
InSections(n) == \A i \in 1 .. n : lines[i].kind = "entry" => SectionAt(i) # ""

LastValue(s, key, n) ==
  /\ key \in DOMAIN sections[s] <=> LinesFor(n, s, key) # {}
  /\ LinesFor(n, s, key) # {} => sections[s][key] = lines[Max(LinesFor(n, s, key))].value

FileInv ==
  reader \in {"parsing", "loaded"} =>
    /\ pos \in Nat /\ current_section = SectionAt(pos)
    /\ DOMAIN sections = Opened(pos) /\ InSections(pos)
    /\ \A s \in DOMAIN sections : \A key : LastValue(s, key, pos)

\* What the definitions say of the file, they say of it after a step that leaves it.
LEMMA SameFile ==
  ASSUME lines' = lines
  PROVE  /\ \A n : SectionAt(n)' = SectionAt(n)
         /\ \A n : Opened(n)' = Opened(n)
         /\ \A n : InSections(n)' <=> InSections(n)
         /\ \A n, s, key : LinesFor(n, s, key)' = LinesFor(n, s, key)
<1>1. \A n : Headers(n)' = Headers(n)
  BY DEF Headers
<1>2. \A n : SectionAt(n)' = SectionAt(n)
  BY <1>1 DEF SectionAt
<1>3. \A n : Opened(n)' = Opened(n)
  BY <1>1 DEF Opened
<1>4. \A n : InSections(n)' <=> InSections(n)
  BY <1>2 DEF InSections
<1>5. \A n, s, key : LinesFor(n, s, key)' = LinesFor(n, s, key)
  BY <1>2 DEF LinesFor
<1> QED BY <1>2, <1>3, <1>4, <1>5

\* Parsing a section line keeps the invariant: its map may be new, and is empty then.
LEMMA HeaderKeeps ==
  ASSUME FileInv, ParseHeader
  PROVE  FileInv'
<1> DEFINE n == pos
           h == lines[n + 1].name
<1>1. /\ n \in Nat /\ pos' = n + 1 /\ lines' = lines /\ reader = "parsing" /\ reader' = reader
      /\ lines[n + 1].kind = "section" /\ current_section' = h
      /\ sections' = IF h \in DOMAIN sections THEN sections ELSE Put(sections, h, EmptyMap)
  BY DEF ParseHeader, Parses, FileInv, writeVars
<1>0. n \in Nat /\ n + 1 \in Nat /\ \A j \in 1 .. n + 1 : j = n + 1 \/ j \in 1 .. n
  <2>1. n \in Nat
    BY <1>1
  <2> QED BY <2>1, LinesBefore
<1>2. /\ DOMAIN sections = Opened(n) /\ InSections(n)
      /\ \A s \in DOMAIN sections : \A key : LastValue(s, key, n)
  BY <1>1 DEF FileInv
<1> HIDE DEF n, h
<1>3. SectionAt(n + 1) = h
  BY <1>1, HeaderOpens DEF h
<1>4. Opened(n + 1) = Opened(n) \cup {h}
  <2>1. Headers(n + 1) = Headers(n) \cup {n + 1}
    BY <1>1, HeadersGrow
  <2> QED BY <2>1 DEF Opened, h
<1>5. DOMAIN sections' = Opened(n + 1)
  BY <1>1, <1>2, <1>4 DEF Put
<1>6. InSections(n + 1)
  <2> SUFFICES ASSUME NEW i \in 1 .. n + 1, lines[i].kind = "entry" PROVE SectionAt(i) # ""
    BY DEF InSections
  <2>1. i # n + 1
    BY <1>1
  <2>2. i \in 1 .. n
    BY <1>0, <2>1
  <2> QED BY <1>2, <2>2 DEF InSections
<1>7. \A s, key : LinesFor(n + 1, s, key) = LinesFor(n, s, key)
  BY <1>1, LinesStay
<1>8. ASSUME NEW s \in DOMAIN sections', NEW key
      PROVE  /\ key \in DOMAIN sections'[s] <=> LinesFor(n + 1, s, key) # {}
             /\ LinesFor(n + 1, s, key) # {} =>
                  sections'[s][key] = lines[Max(LinesFor(n + 1, s, key))].value
  <2>1. CASE s \in DOMAIN sections
    <3>1. sections'[s] = sections[s]
      BY <1>1, <2>1 DEF Put
    <3> QED BY <1>2, <1>7, <2>1, <3>1 DEF LastValue
  <2>2. CASE s \notin DOMAIN sections
    <3>1. s = h /\ sections'[s] = EmptyMap
      BY <1>1, <2>2 DEF Put
    <3>2. LinesFor(n, s, key) = {}
      BY <1>1, <1>2, <2>2, NoLinesUnopened DEF InSections
    <3>3. DOMAIN sections'[s] = {}
      BY <3>1 DEF EmptyMap
    <3> QED BY <1>7, <3>2, <3>3
  <2> QED BY <2>1, <2>2
<1> QED BY <1>0, <1>1, <1>3, <1>5, <1>6, <1>8, SameFile DEF FileInv, LastValue

\* Parsing an entry keeps it: the key's value is now that of its last line.
LEMMA EntryKeeps ==
  ASSUME FileInv, ParseEntry
  PROVE  FileInv'
<1> DEFINE n == pos
           c == current_section
           k == lines[n + 1].name
           v == lines[n + 1].value
<1>1. /\ n \in Nat /\ pos' = n + 1 /\ lines' = lines /\ reader = "parsing" /\ reader' = reader
      /\ lines[n + 1].kind = "entry" /\ c # "" /\ current_section' = c
      /\ sections' = [sections EXCEPT ![c] = Put(@, k, v)]
  BY DEF ParseEntry, Parses, FileInv, writeVars
<1>0. n \in Nat /\ n + 1 \in Nat /\ \A j \in 1 .. n + 1 : j = n + 1 \/ j \in 1 .. n
  <2>1. n \in Nat
    BY <1>1
  <2> QED BY <2>1, LinesBefore
<1>2. /\ DOMAIN sections = Opened(n) /\ InSections(n) /\ c = SectionAt(n)
      /\ \A s \in DOMAIN sections : \A key : LastValue(s, key, n)
  BY <1>1 DEF FileInv
<1> HIDE DEF n, c, k, v
<1>3. SectionAt(n + 1) = c
  BY <1>1, <1>2, OtherStays
<1>4. Opened(n + 1) = Opened(n)
  BY <1>1, HeadersGrow DEF Opened
<1>5. DOMAIN sections' = Opened(n + 1) /\ c \in DOMAIN sections
  BY <1>1, <1>2, <1>4, OpenedByLine
<1>6. InSections(n + 1)
  <2> SUFFICES ASSUME NEW i \in 1 .. n + 1, lines[i].kind = "entry" PROVE SectionAt(i) # ""
    BY DEF InSections
  <2>1. CASE i = n + 1
    BY <1>1, <1>3, <2>1
  <2>2. CASE i # n + 1
    <3>1. i \in 1 .. n
      BY <1>0, <2>2
    <3> QED BY <1>2, <3>1 DEF InSections
  <2> QED BY <2>1, <2>2
<1>7. ASSUME NEW s \in DOMAIN sections', NEW key
      PROVE  /\ key \in DOMAIN sections'[s] <=> LinesFor(n + 1, s, key) # {}
             /\ LinesFor(n + 1, s, key) # {} =>
                  sections'[s][key] = lines[Max(LinesFor(n + 1, s, key))].value
  <2>0. s \in DOMAIN sections
    BY <1>2, <1>4, <1>5
  <2>1. CASE s = c /\ key = k
    <3>1. n + 1 \in LinesFor(n + 1, s, key)
      BY <1>1, <1>3, <2>1, LineAdds DEF k
    <3>2. Max(LinesFor(n + 1, s, key)) = n + 1
      BY <1>1, <3>1, LastIsNew
    <3>3. sections'[s] = Put(sections[s], k, v)
      BY <1>1, <2>0, <2>1
    <3>4. key \in DOMAIN sections'[s] /\ sections'[s][key] = v
      BY <2>1, <3>3 DEF Put
    <3> QED BY <3>1, <3>2, <3>4 DEF v
  <2>2. CASE s # c \/ key # k
    <3>1. LinesFor(n + 1, s, key) = LinesFor(n, s, key)
      BY <1>1, <1>3, <2>2, LineAddsNoOther DEF k
    <3>2. /\ key \in DOMAIN sections'[s] <=> key \in DOMAIN sections[s]
          /\ key \in DOMAIN sections[s] => sections'[s][key] = sections[s][key]
      <4>1. CASE s = c
        <5>1. sections'[s] = Put(sections[s], k, v) /\ key # k
          BY <1>1, <2>0, <2>2, <4>1
        <5> QED BY <5>1 DEF Put
      <4>2. CASE s # c
        BY <1>1, <2>0, <4>2
      <4> QED BY <4>1, <4>2
    <3> QED BY <1>2, <2>0, <3>1, <3>2 DEF LastValue
  <2> QED BY <2>1, <2>2
<1>8. pos' = n + 1 /\ lines' = lines /\ current_section' = c
  BY <1>1
<1> QED BY <1>0, <1>3, <1>5, <1>6, <1>7, <1>8, SameFile DEF FileInv, LastValue

\* Parsing a line that says nothing keeps it.
LEMMA BlankKeeps ==
  ASSUME FileInv, ParseBlank
  PROVE  FileInv'
<1> DEFINE n == pos
<1>1. /\ n \in Nat /\ pos' = n + 1 /\ lines' = lines /\ reader = "parsing" /\ reader' = reader
      /\ lines[n + 1].kind = "blank" /\ UNCHANGED <<current_section, sections>>
  BY DEF ParseBlank, Parses, FileInv, writeVars
<1>0. n \in Nat /\ n + 1 \in Nat /\ \A j \in 1 .. n + 1 : j = n + 1 \/ j \in 1 .. n
  <2>1. n \in Nat
    BY <1>1
  <2> QED BY <2>1, LinesBefore
<1>2. /\ DOMAIN sections = Opened(n) /\ InSections(n) /\ current_section = SectionAt(n)
      /\ \A s \in DOMAIN sections : \A key : LastValue(s, key, n)
  BY <1>1 DEF FileInv
<1> HIDE DEF n
<1>3. SectionAt(n + 1) = SectionAt(n)
  BY <1>1, OtherStays
<1>4. Opened(n + 1) = Opened(n)
  BY <1>1, HeadersGrow DEF Opened
<1>5. \A s, key : LinesFor(n + 1, s, key) = LinesFor(n, s, key)
  BY <1>1, LinesStay
<1>6. InSections(n + 1)
  <2> SUFFICES ASSUME NEW i \in 1 .. n + 1, lines[i].kind = "entry" PROVE SectionAt(i) # ""
    BY DEF InSections
  <2>1. i # n + 1
    BY <1>1
  <2>2. i \in 1 .. n
    BY <1>0, <2>1
  <2> QED BY <1>2, <2>2 DEF InSections
<1> QED BY <1>0, <1>1, <1>2, <1>3, <1>4, <1>5, <1>6, SameFile DEF FileInv, LastValue

\* Before the first line there are no sections.
LEMMA EmptyIsEmpty == DOMAIN EmptyMap = {}
<1>1. DOMAIN <<>> = 1 .. 0 /\ 1 .. 0 = {}
  OBVIOUS
<1> QED BY <1>1 DEF EmptyMap

\* Steps that parse no line: those of whoever writes the file wait for the reader.
LEMMA OthersKeep ==
  ASSUME FileInv,
         \/ \E c \in Saved : SaveBegins(c)
         \/ WriteLine \/ SaveStops \/ Edit \/ LoadBegins \/ ParseThrows
         \/ Load \/ LoadThrows \/ LoadEnds \/ UNCHANGED fileVars
  PROVE  FileInv'
<1>1. CASE reader' \notin {"parsing", "loaded"}
  BY <1>1 DEF FileInv
<1>2. CASE LoadBegins
  <2>1. pos' = 0 /\ current_section' = "" /\ sections' = EmptyMap /\ lines' = lines
    BY <1>2 DEF LoadBegins, writeVars
  <2>2. Headers(0) = {} /\ Opened(0) = {} /\ SectionAt(0) = "" /\ InSections(0)
    BY DEF Headers, Opened, SectionAt, InSections
  <2>3. DOMAIN sections' = {}
    BY <2>1, EmptyIsEmpty
  <2> QED BY <2>1, <2>2, <2>3, SameFile DEF FileInv
<1>3. CASE reader' \in {"parsing", "loaded"} /\ ~LoadBegins
  <2>1. /\ reader \in {"parsing", "loaded"}
        /\ UNCHANGED <<lines, pos, current_section, sections>>
    BY <1>3 DEF SaveBegins, WriteLine, SaveStops, Edit, ParseThrows, Parses, Load, LoadThrows,
       LoadEnds, Quiet, Parsed, fileVars, readVars, writeVars
  <2> QED BY <2>1, SameFile DEF FileInv, LastValue
<1> QED BY <1>1, <1>2, <1>3

\* However a file came about: while it is read, and when it is loaded, each key of each
\* section that was opened has the value of its last line.
THEOREM ParsedLastValues == FileSpec => []ParsedIsLastValue
<1>1. FileInit => FileInv
  BY DEF FileInit, FileInv
<1>2. FileInv /\ [FileNext]_fileVars => FileInv'
  BY HeaderKeeps, EntryKeeps, BlankKeeps, OthersKeep DEF FileNext
<1>3. FileInv => ParsedIsLastValue
  BY DEF FileInv, ParsedIsLastValue, LastValue
<1> QED BY <1>1, <1>2, <1>3, PTL DEF FileSpec

-----------------------------------------------------------------------------
(* A file that is written: where each of its lines lies.                   *)

\* The lines of a section of a calibration, and the keys in it.
Part(c, name) ==
  CASE name = "temperature" -> IfSet(c.temperature, writeTemperatureSection(c.temperature))
    [] name = "vignette" -> IfSet(c.vignette, writeVignetteSection(c.vignette))
    [] name = "dead_pixels" -> IfSet(c.dead_pixels, writeDeadPixelsSection(c.dead_pixels))

Keys(c, name) ==
  CASE name = "temperature" -> IF c.temperature.pad_ref = NaN THEN <<"c0", "c1">>
                                                              ELSE <<"c0", "c1", "pad_ref">>
    [] name = "vignette" -> <<"width", "height", "cx", "r2_max", "coeffs">>
    [] name = "dead_pixels" -> <<"pixels">>

\* A section is its header, the entries of its keys and a blank line.
Section(lns, name, keys) ==
  /\ (\E U : lns \in Seq(U)) /\ Len(keys) \in Nat /\ Len(lns) = Len(keys) + 2
  /\ lns[1].kind = "section" /\ lns[1].name = name
  /\ \A j \in 1 .. Len(keys) : lns[j + 1].kind = "entry" /\ lns[j + 1].name = keys[j]
  /\ lns[Len(keys) + 2].kind = "blank"
  /\ \A j, k \in 1 .. Len(keys) : keys[j] = keys[k] => j = k

\* What a line holds.
LEMMA LinesHold ==
  /\ \A k, n, v : Line(k, n, v).kind = k /\ Line(k, n, v).name = n /\ Line(k, n, v).value = v
  /\ Blank.kind = "blank"
  /\ \A s : Header(s).kind = "section" /\ Header(s).name = s
  /\ \A k, v : Entry(k, v).kind = "entry" /\ Entry(k, v).name = k /\ Entry(k, v).value = v
  /\ \A k, x : /\ Scalar(k, x).kind = "entry" /\ Scalar(k, x).name = k
               /\ Scalar(k, x).value = <<Written(x)>>
<1>1. \A k, n, v : Line(k, n, v).kind = k /\ Line(k, n, v).name = n /\ Line(k, n, v).value = v
  BY DEF Line
<1>2. Blank.kind = "blank"
  BY ONLY <1>1, Zenon DEF Blank
<1>3. \A s : Header(s).kind = "section" /\ Header(s).name = s
  BY ONLY <1>1 DEF Header
<1>4. \A k, v : Entry(k, v).kind = "entry" /\ Entry(k, v).name = k /\ Entry(k, v).value = v
  BY ONLY <1>1 DEF Entry
<1>5. \A k, x : /\ Scalar(k, x).kind = "entry" /\ Scalar(k, x).name = k
                /\ Scalar(k, x).value = <<Written(x)>>
  BY ONLY <1>4 DEF Scalar
<1> QED BY <1>1, <1>2, <1>3, <1>4, <1>5

\* One line behind others, and lines behind lines.
LEMMA OneBehind ==
  ASSUME NEW U, NEW q \in Seq(U), NEW x \in U
  PROVE  /\ Append(q, x) \in Seq(U) /\ Len(q) \in Nat /\ Len(Append(q, x)) = Len(q) + 1
         /\ \A i \in 1 .. Len(q) : Append(q, x)[i] = q[i]
         /\ Append(q, x)[Len(q) + 1] = x
OBVIOUS

LEMMA Behind ==
  ASSUME NEW U, NEW q \in Seq(U), NEW r \in Seq(U)
  PROVE  /\ q \o r \in Seq(U) /\ Len(q) \in Nat /\ Len(r) \in Nat /\ Len(q \o r) = Len(q) + Len(r)
         /\ \A i \in 1 .. Len(q) : (q \o r)[i] = q[i]
         /\ \A i \in 1 .. Len(r) : (q \o r)[Len(q) + i] = r[i]
OBVIOUS

\* The temperature section of a calibration is one, with its two or three keys.
LEMMA TemperaturePart ==
  ASSUME NEW c \in Saved, c.temperature # Unset
  PROVE  /\ Section(Part(c, "temperature"), "temperature", Keys(c, "temperature"))
         /\ LET t == c.temperature  p == Part(c, "temperature")
            IN  /\ p[2].value = <<Written(t.c0)>> /\ p[3].value = <<Written(t.c1)>>
                /\ t.pad_ref # NaN => p[4].value = <<Written(t.pad_ref)>>
<1> DEFINE t == c.temperature
           H == Header("temperature")  A == Scalar("c0", t.c0)  B == Scalar("c1", t.c1)
           P == Scalar("pad_ref", t.pad_ref)  U == {H, A, B, P, Blank}
           Q == <<H, A, B>>
           R == IF t.pad_ref = NaN THEN <<>> ELSE <<P>>
           S == Append(Q \o R, Blank)
           ks == Keys(c, "temperature")
<1>1. /\ H.kind = "section" /\ H.name = "temperature" /\ Blank.kind = "blank"
      /\ A.kind = "entry" /\ A.name = "c0" /\ A.value = <<Written(t.c0)>>
      /\ B.kind = "entry" /\ B.name = "c1" /\ B.value = <<Written(t.c1)>>
      /\ P.kind = "entry" /\ P.name = "pad_ref" /\ P.value = <<Written(t.pad_ref)>>
  BY LinesHold
<1>2. Part(c, "temperature") = S
  BY DEF Part, IfSet, writeTemperatureSection
<1> HIDE DEF H, A, B, P
<1>3. Q \in Seq(U) /\ Len(Q) = 3 /\ Q[1] = H /\ Q[2] = A /\ Q[3] = B
  OBVIOUS
<1>4. R \in Seq(U) /\ Len(R) = (IF t.pad_ref = NaN THEN 0 ELSE 1) /\ (t.pad_ref # NaN => R[1] = P)
  <2>1. CASE t.pad_ref = NaN
    BY <2>1
  <2>2. CASE t.pad_ref # NaN
    <3>1. R = <<P>>
      BY <2>2
    <3> HIDE DEF R
    <3> QED BY <2>2, <3>1
  <2> QED BY <2>1, <2>2
<1>5. Blank \in U
  OBVIOUS
<1> HIDE DEF Q, R, U, t
<1>6. /\ Q \o R \in Seq(U) /\ Len(Q \o R) = 3 + Len(R)
      /\ (Q \o R)[1] = H /\ (Q \o R)[2] = A /\ (Q \o R)[3] = B
      /\ t.pad_ref # NaN => (Q \o R)[4] = P
  <2>1. /\ Q \o R \in Seq(U) /\ Len(Q \o R) = 3 + Len(R)
        /\ \A i \in 1 .. 3 : (Q \o R)[i] = Q[i]
        /\ \A i \in 1 .. Len(R) : (Q \o R)[3 + i] = R[i]
    <3>1. Q \in Seq(U) /\ R \in Seq(U)
      BY <1>3, <1>4
    <3>2. /\ Q \o R \in Seq(U) /\ Len(Q \o R) = Len(Q) + Len(R)
          /\ \A i \in 1 .. Len(Q) : (Q \o R)[i] = Q[i]
          /\ \A i \in 1 .. Len(R) : (Q \o R)[Len(Q) + i] = R[i]
      BY <3>1, Behind
    <3>3. Len(Q) = 3
      BY <1>3
    <3> QED BY <3>2, <3>3
  <2>2. t.pad_ref # NaN => (Q \o R)[3 + 1] = P
    BY <1>4, <2>1
  <2>3. 1 \in 1 .. 3 /\ 2 \in 1 .. 3 /\ 3 \in 1 .. 3 /\ 3 + 1 = 4
    OBVIOUS
  <2>4. Q[1] = H /\ Q[2] = A /\ Q[3] = B
    BY <1>3
  <2> QED BY <2>1, <2>2, <2>3, <2>4
<1>7. /\ S \in Seq(U) /\ Len(S) = 4 + Len(R) /\ S[4 + Len(R)] = Blank
      /\ S[1] = H /\ S[2] = A /\ S[3] = B /\ (t.pad_ref # NaN => S[4] = P)
  <2>1. /\ S \in Seq(U) /\ Len(S) = Len(Q \o R) + 1 /\ S[Len(Q \o R) + 1] = Blank
        /\ \A i \in 1 .. Len(Q \o R) : S[i] = (Q \o R)[i]
    BY <1>5, <1>6, OneBehind
  <2> QED BY <1>4, <1>6, <2>1
<1>8. /\ Len(ks) = 2 + Len(R) /\ ks[1] = "c0" /\ ks[2] = "c1"
      /\ t.pad_ref # NaN => ks[3] = "pad_ref"
  BY <1>4 DEF Keys, t
<1> HIDE DEF S, ks
<1>9. \A j \in 1 .. Len(ks) : j = 1 \/ j = 2 \/ (j = 3 /\ t.pad_ref # NaN)
  BY <1>4, <1>8
<1>10. \A j \in 1 .. Len(ks) : S[j + 1].kind = "entry" /\ S[j + 1].name = ks[j]
  <2> TAKE j \in 1 .. Len(ks)
  <2>1. 1 + 1 = 2 /\ 2 + 1 = 3 /\ 3 + 1 = 4
    OBVIOUS
  <2> QED BY <1>1, <1>7, <1>8, <1>9, <2>1
<1>11. \A j, k \in 1 .. Len(ks) : ks[j] = ks[k] => j = k
  BY <1>8, <1>9
<1>12. Section(S, "temperature", ks)
  BY <1>1, <1>4, <1>7, <1>8, <1>10, <1>11 DEF Section
<1> QED BY <1>1, <1>2, <1>7, <1>12 DEF ks, t

\* The vignette section of a calibration is one, with its five keys.
LEMMA VignettePart ==
  ASSUME NEW c \in Saved, c.vignette # Unset
  PROVE  /\ Section(Part(c, "vignette"), "vignette", Keys(c, "vignette"))
         /\ LET v == c.vignette  p == Part(c, "vignette")
            IN  /\ p[2].value = <<v.width>> /\ p[3].value = <<v.height>>
                /\ p[4].value = <<Written(v.cx)>> /\ p[5].value = <<Written(v.r2_max)>>
                /\ p[6].value = [i \in DOMAIN v.coeffs |-> Written(v.coeffs[i])]
<1> DEFINE v == c.vignette
           ks == <<"width", "height", "cx", "r2_max", "coeffs">>
           W == [i \in DOMAIN v.coeffs |-> Written(v.coeffs[i])]
           H == Header("vignette")  A == Entry("width", <<v.width>>)
           B == Entry("height", <<v.height>>)  C == Scalar("cx", v.cx)
           D == Scalar("r2_max", v.r2_max)  E == Entry("coeffs", W)
           U == {H, A, B, C, D, E, Blank}
           Q == <<H, A, B, C, D, E>>
           S == Append(Q, Blank)
<1>1. /\ H.kind = "section" /\ H.name = "vignette" /\ Blank.kind = "blank"
      /\ A.kind = "entry" /\ A.name = "width" /\ A.value = <<v.width>>
      /\ B.kind = "entry" /\ B.name = "height" /\ B.value = <<v.height>>
      /\ C.kind = "entry" /\ C.name = "cx" /\ C.value = <<Written(v.cx)>>
      /\ D.kind = "entry" /\ D.name = "r2_max" /\ D.value = <<Written(v.r2_max)>>
      /\ E.kind = "entry" /\ E.name = "coeffs" /\ E.value = W
  BY LinesHold
<1>2. Part(c, "vignette") = S
  BY DEF Part, IfSet, writeVignetteSection
<1> HIDE DEF H, A, B, C, D, E, W, v
<1>3. /\ Q \in Seq(U) /\ Len(Q) = 6 /\ Blank \in U
      /\ Q[1] = H /\ Q[2] = A /\ Q[3] = B /\ Q[4] = C /\ Q[5] = D /\ Q[6] = E
  OBVIOUS
<1> HIDE DEF Q, U
<1>4. /\ S \in Seq(U) /\ Len(S) = 7 /\ S[7] = Blank
      /\ S[1] = H /\ S[2] = A /\ S[3] = B /\ S[4] = C /\ S[5] = D /\ S[6] = E
  <2>1. /\ S \in Seq(U) /\ Len(S) = Len(Q) + 1 /\ S[Len(Q) + 1] = Blank
        /\ \A i \in 1 .. Len(Q) : S[i] = Q[i]
    <3>1. Q \in Seq(U) /\ Blank \in U
      BY <1>3
    <3> QED BY <3>1, OneBehind
  <2> QED BY <1>3, <2>1
<1>5. /\ Len(ks) = 5 /\ Len(ks) + 2 = 7
      /\ ks[1] = "width" /\ ks[2] = "height" /\ ks[3] = "cx" /\ ks[4] = "r2_max" /\ ks[5] = "coeffs"
  OBVIOUS
<1>6. Keys(c, "vignette") = ks
  BY DEF Keys
<1> HIDE DEF S, ks
<1>7. \A j \in 1 .. Len(ks) : j = 1 \/ j = 2 \/ j = 3 \/ j = 4 \/ j = 5
  BY <1>5
<1>8. \A j \in 1 .. Len(ks) : S[j + 1].kind = "entry" /\ S[j + 1].name = ks[j]
  <2> TAKE j \in 1 .. Len(ks)
  <2>1. 1 + 1 = 2 /\ 2 + 1 = 3 /\ 3 + 1 = 4 /\ 4 + 1 = 5 /\ 5 + 1 = 6
    OBVIOUS
  <2> QED BY <1>1, <1>4, <1>5, <1>7, <2>1
<1>9. \A j, k \in 1 .. Len(ks) : ks[j] = ks[k] => j = k
  BY <1>5, <1>7
<1>10. Section(S, "vignette", ks)
  BY <1>1, <1>4, <1>5, <1>8, <1>9 DEF Section
<1> QED BY <1>1, <1>2, <1>4, <1>6, <1>10 DEF v, W

\* The dead pixel section of a calibration is one, with its one key.
LEMMA DeadPixelsPart ==
  ASSUME NEW c \in Saved, c.dead_pixels # Unset
  PROVE  /\ Section(Part(c, "dead_pixels"), "dead_pixels", Keys(c, "dead_pixels"))
         /\ Part(c, "dead_pixels")[2].value = InOrder(c.dead_pixels)
<1> DEFINE H == Header("dead_pixels")  A == Entry("pixels", InOrder(c.dead_pixels))
           U == {H, A, Blank}  Q == <<H, A>>  S == Append(Q, Blank)
<1>1. /\ H.kind = "section" /\ H.name = "dead_pixels" /\ Blank.kind = "blank"
      /\ A.kind = "entry" /\ A.name = "pixels" /\ A.value = InOrder(c.dead_pixels)
  BY LinesHold
<1>2. Part(c, "dead_pixels") = S
  BY DEF Part, IfSet, writeDeadPixelsSection
<1> HIDE DEF H, A
<1>3. Q \in Seq(U) /\ Len(Q) = 2 /\ Q[1] = H /\ Q[2] = A /\ Blank \in U
  OBVIOUS
<1> HIDE DEF Q, U
<1>4. S \in Seq(U) /\ Len(S) = 3 /\ S[3] = Blank /\ S[1] = H /\ S[2] = A
  <2>1. /\ S \in Seq(U) /\ Len(S) = Len(Q) + 1 /\ S[Len(Q) + 1] = Blank
        /\ \A i \in 1 .. Len(Q) : S[i] = Q[i]
    <3>1. Q \in Seq(U) /\ Blank \in U
      BY <1>3
    <3> QED BY <3>1, OneBehind
  <2> QED BY <1>3, <2>1
<1> HIDE DEF S
<1>5. Section(S, "dead_pixels", <<"pixels">>)
  BY <1>1, <1>4 DEF Section
<1>6. Keys(c, "dead_pixels") = <<"pixels">>
  BY DEF Keys
<1> QED BY <1>1, <1>2, <1>4, <1>5, <1>6

\* The lines of a section, none if the calibration has no such section.
Has(c, name)   == c[name] # Unset
Size(c, name)  == IF Has(c, name) THEN Len(Keys(c, name)) + 2 ELSE 0
Start(c, name) ==
  CASE name = "temperature" -> Comments
    [] name = "vignette" -> Comments + Size(c, "temperature")
    [] name = "dead_pixels" -> Comments + Size(c, "temperature") + Size(c, "vignette")

\* How many lines a section takes: none if the calibration lacks it.
LEMMA PartSizes ==
  ASSUME NEW c \in Saved, NEW name \in Names
  PROVE  /\ (\E U : Part(c, name) \in Seq(U)) /\ Len(Part(c, name)) = Size(c, name)
         /\ Size(c, name) \in Nat
         /\ Has(c, name) => Section(Part(c, name), name, Keys(c, name))
<1>1. ASSUME Has(c, name) PROVE Section(Part(c, name), name, Keys(c, name))
  BY <1>1, TemperaturePart, VignettePart, DeadPixelsPart DEF Has, Names
<1>2. ASSUME ~Has(c, name) PROVE Part(c, name) = <<>>
  BY <1>2 DEF Has, Names, Part, IfSet
<1>3. <<>> \in Seq({}) /\ Len(<<>>) = 0
  OBVIOUS
<1>4. CASE ~Has(c, name)
  <2>1. Size(c, name) = 0 /\ Part(c, name) = <<>>
    BY <1>2, <1>4 DEF Size
  <2> QED BY <1>3, <1>4, <2>1
<1>5. CASE Has(c, name)
  BY <1>1, <1>5 DEF Section, Size
<1> QED BY <1>4, <1>5

\* The sections lie one behind the other, behind the comments.
LaidOut(f, c) ==
  /\ (\E U : f \in Seq(U)) /\ Len(f) = Start(c, "dead_pixels") + Size(c, "dead_pixels")
  /\ \A i \in 1 .. Comments : f[i].kind = "blank"
  /\ \A name \in Names : \A j \in 1 .. Size(c, name) : f[Start(c, name) + j] = Part(c, name)[j]

\* Every file that is written lies so: the comments, then the sections that are set.
LEMMA FileLaidOut ==
  ASSUME NEW c \in Saved
  PROVE  LaidOut(FileLines(c), c)
<1> DEFINE C == [i \in 1 .. Comments |-> Blank]
           T == Part(c, "temperature")  V == Part(c, "vignette")  D == Part(c, "dead_pixels")
<1>0. Comments \in Nat
  BY FileAssumption
<1>1. FileLines(c) = ((C \o T) \o V) \o D
  BY DEF FileLines, Part
<1>2. C \in Seq({Blank}) /\ Len(C) = Comments /\ \A i \in 1 .. Comments : C[i] = Blank
  BY <1>0
<1>3. /\ "temperature" \in Names /\ "vignette" \in Names /\ "dead_pixels" \in Names
  BY DEF Names
<1>4. PICK X : T \in Seq(X)
  BY <1>3, PartSizes
<1>5. PICK Y : V \in Seq(Y)
  BY <1>3, PartSizes
<1>6. PICK Z : D \in Seq(Z)
  BY <1>3, PartSizes
<1> DEFINE t == Size(c, "temperature")  v == Size(c, "vignette")  d == Size(c, "dead_pixels")
           U == {Blank} \cup X \cup Y \cup Z
<1>7. Len(T) = t /\ Len(V) = v /\ Len(D) = d /\ t \in Nat /\ v \in Nat /\ d \in Nat
  BY <1>3, PartSizes
<1>8. C \in Seq(U) /\ T \in Seq(U) /\ V \in Seq(U) /\ D \in Seq(U)
  BY <1>2, <1>4, <1>5, <1>6
<1> HIDE DEF C, T, V, D, t, v, d, U
<1> DEFINE K == C \o T  L == K \o V  F == L \o D
<1>9. /\ K \in Seq(U) /\ Len(K) = Len(C) + Len(T)
      /\ \A i \in 1 .. Len(C) : K[i] = C[i]
      /\ \A i \in 1 .. Len(T) : K[Len(C) + i] = T[i]
  BY <1>8, Behind
<1> HIDE DEF K
<1>10. /\ L \in Seq(U) /\ Len(L) = Len(K) + Len(V)
       /\ \A i \in 1 .. Len(K) : L[i] = K[i]
       /\ \A i \in 1 .. Len(V) : L[Len(K) + i] = V[i]
  <2>1. K \in Seq(U) /\ V \in Seq(U)
    BY <1>8, <1>9
  <2> QED BY <2>1, Behind
<1> HIDE DEF L
<1>11. /\ F \in Seq(U) /\ Len(F) = Len(L) + Len(D)
       /\ \A i \in 1 .. Len(L) : F[i] = L[i]
       /\ \A i \in 1 .. Len(D) : F[Len(L) + i] = D[i]
  <2>1. L \in Seq(U) /\ D \in Seq(U)
    BY <1>8, <1>10
  <2> QED BY <2>1, Behind
<1> HIDE DEF F
<1> DEFINE m == Comments
<1>12. Len(K) = m + t /\ Len(L) = m + t + v /\ Len(F) = m + t + v + d /\ m \in Nat
  BY <1>0, <1>2, <1>7, <1>9, <1>10, <1>11
<1>13. \A i \in 1 .. m : F[i] = Blank
  <2> TAKE i \in 1 .. m
  <2>1. i \in 1 .. m + t /\ i \in 1 .. m + t + v
    BY <1>7, <1>12
  <2> QED BY <1>2, <1>9, <1>10, <1>11, <1>12, <2>1
<1>14. \A j \in 1 .. t : F[m + j] = T[j]
  <2> TAKE j \in 1 .. t
  <2>1. m + j \in 1 .. m + t /\ m + j \in 1 .. m + t + v
    BY <1>7, <1>12
  <2> QED BY <1>2, <1>7, <1>9, <1>10, <1>11, <1>12, <2>1
<1>15. \A j \in 1 .. v : F[m + t + j] = V[j]
  <2> TAKE j \in 1 .. v
  <2>1. m + t + j \in 1 .. m + t + v
    BY <1>7, <1>12
  <2> QED BY <1>7, <1>10, <1>11, <1>12, <2>1
<1>16. \A j \in 1 .. d : F[m + t + v + j] = D[j]
  BY <1>7, <1>11, <1>12
<1>17. /\ Start(c, "temperature") = m /\ Start(c, "vignette") = m + t
       /\ Start(c, "dead_pixels") = m + t + v
  BY DEF Start, t, v
<1>18. FileLines(c) = F
  BY <1>1 DEF F, L, K
<1>19. \A i \in 1 .. m : F[i].kind = "blank"
  BY <1>13, LinesHold
<1>20. \A name \in Names : \A j \in 1 .. Size(c, name) : F[Start(c, name) + j] = Part(c, name)[j]
  BY <1>14, <1>15, <1>16, <1>17 DEF Names, T, V, D, t, v, d
<1> QED BY <1>11, <1>12, <1>17, <1>18, <1>19, <1>20 DEF LaidOut, d

-----------------------------------------------------------------------------
(* What the parser finds in it.                                            *)

\* The first n lines are of the kinds, and under the names, that were written.
Follows(n, c) ==
  /\ n \in 0 .. Len(FileLines(c))
  /\ \A i \in 1 .. n : lines[i].kind = FileLines(c)[i].kind
  /\ \A i \in 1 .. n : FileLines(c)[i].kind # "blank" => lines[i].name = FileLines(c)[i].name

\* A line is a comment or one of a section.
LEMMA StartsAreNumbers ==
  ASSUME NEW c \in Saved, NEW name \in Names
  PROVE  Start(c, name) \in Nat /\ Start(c, name) + Size(c, name) <= Len(FileLines(c))
<1>1. /\ Size(c, "temperature") \in Nat /\ Size(c, "vignette") \in Nat
      /\ Size(c, "dead_pixels") \in Nat /\ Comments \in Nat
  BY PartSizes, FileAssumption DEF Names
<1>2. /\ name = "temperature" \/ name = "vignette" \/ name = "dead_pixels"
      /\ Start(c, "temperature") = Comments
      /\ Start(c, "vignette") = Comments + Size(c, "temperature")
      /\ Start(c, "dead_pixels") = Comments + Size(c, "temperature") + Size(c, "vignette")
  BY DEF Names, Start
<1>3. Len(FileLines(c)) = Start(c, "dead_pixels") + Size(c, "dead_pixels")
  BY FileLaidOut DEF LaidOut
<1> QED BY <1>1, <1>2, <1>3

\* A line that is not of the comments is in one of the sections.
LEMMA LinePlaces ==
  ASSUME NEW c \in Saved, NEW i \in 1 .. Len(FileLines(c)), i \notin 1 .. Comments
  PROVE  \E name \in Names : \E j \in 1 .. Size(c, name) : i = Start(c, name) + j
<1> DEFINE t == Size(c, "temperature")  v == Size(c, "vignette")  d == Size(c, "dead_pixels")
<1>1. t \in Nat /\ v \in Nat /\ d \in Nat /\ Comments \in Nat
  BY PartSizes, FileAssumption DEF Names
<1>2. /\ Start(c, "temperature") = Comments /\ Start(c, "vignette") = Comments + t
      /\ Start(c, "dead_pixels") = Comments + t + v
      /\ "temperature" \in Names /\ "vignette" \in Names /\ "dead_pixels" \in Names
  BY DEF Names, Start
<1>3. Len(FileLines(c)) = Comments + t + v + d
  BY <1>2, FileLaidOut DEF LaidOut
<1> HIDE DEF t, v, d
<1>4. i \in Int /\ 1 <= i /\ i <= Comments + t + v + d /\ i > Comments
  BY <1>1, <1>3
<1>5. CASE i <= Comments + t
  <2>1. i - Comments \in 1 .. t /\ i = Comments + (i - Comments)
    BY <1>1, <1>4, <1>5
  <2> QED BY <1>2, <2>1 DEF t
<1>6. CASE i > Comments + t /\ i <= Comments + t + v
  <2>1. i - (Comments + t) \in 1 .. v /\ i = Comments + t + (i - (Comments + t))
    BY <1>1, <1>4, <1>6
  <2> QED BY <1>2, <2>1 DEF v
<1>7. CASE i > Comments + t + v
  <2>1. i - (Comments + t + v) \in 1 .. d /\ i = Comments + t + v + (i - (Comments + t + v))
    BY <1>1, <1>4, <1>7
  <2> QED BY <1>2, <2>1 DEF d
<1> QED BY <1>1, <1>4, <1>5, <1>6, <1>7

\* The kind of a line tells which of its section it is.
LEMMA LineKinds ==
  ASSUME NEW c \in Saved, NEW name \in Names, NEW j \in 1 .. Size(c, name)
  PROVE  LET line == FileLines(c)[Start(c, name) + j]
         IN  /\ Has(c, name) /\ Len(Keys(c, name)) \in Nat /\ Size(c, name) = Len(Keys(c, name)) + 2
             /\ line = Part(c, name)[j]
             /\ line.kind \in {"blank", "section", "entry"}
             /\ line.kind = "section" <=> j = 1
             /\ line.kind = "entry" <=> j \in 2 .. Len(Keys(c, name)) + 1
             /\ j = 1 => line.name = name
             /\ j \in 2 .. Len(Keys(c, name)) + 1 => line.name = Keys(c, name)[j - 1]
<1> DEFINE l == Len(Keys(c, name))
<1>1. Has(c, name)
  BY DEF Size
<1>2. FileLines(c)[Start(c, name) + j] = Part(c, name)[j]
  BY FileLaidOut DEF LaidOut
<1>3. Section(Part(c, name), name, Keys(c, name)) /\ Size(c, name) = l + 2
  BY <1>1, PartSizes DEF Size
<1>4. l \in Nat /\ j \in 1 .. l + 2
  BY <1>3 DEF Section
<1> HIDE DEF l
<1>5. CASE j = 1
  <2>1. j \notin 2 .. l + 1
    BY <1>4, <1>5
  <2> QED BY <1>1, <1>2, <1>3, <1>4, <1>5, <2>1 DEF Section, l
<1>6. CASE j \in 2 .. l + 1
  <2>1. j # 1 /\ j - 1 \in 1 .. l /\ (j - 1) + 1 = j
    BY <1>4, <1>6
  <2>2. Part(c, name)[j].kind = "entry" /\ Part(c, name)[j].name = Keys(c, name)[j - 1]
    BY <1>3, <2>1 DEF Section, l
  <2> QED BY <1>1, <1>2, <1>3, <1>4, <1>6, <2>1, <2>2 DEF l
<1>7. CASE j = l + 2
  <2>1. j # 1 /\ j \notin 2 .. l + 1
    BY <1>4, <1>7
  <2>2. Part(c, name)[j].kind = "blank"
    BY <1>3, <1>7 DEF Section, l
  <2> QED BY <1>1, <1>2, <1>3, <1>4, <2>1, <2>2 DEF l
<1> QED BY <1>4, <1>5, <1>6, <1>7

\* The lines of a comment say nothing.
LEMMA CommentKinds ==
  ASSUME NEW c \in Saved, NEW i \in 1 .. Comments
  PROVE  FileLines(c)[i].kind = "blank"
BY FileLaidOut DEF LaidOut

\* A section is in force from its header to its end.
LEMMA SectionInForce ==
  ASSUME NEW c \in Saved, NEW n, Follows(n, c), NEW name \in Names, NEW j \in 1 .. Size(c, name),
         Start(c, name) + j <= n
  PROVE  SectionAt(Start(c, name) + j) = name
<1> DEFINE s == Start(c, name)  i == s + j  m == s + 1  H == Headers(i)
<1>1. s \in Nat /\ Size(c, name) \in Nat /\ s + Size(c, name) <= Len(FileLines(c)) /\ n \in Nat
  BY StartsAreNumbers, PartSizes, FileLaidOut DEF Follows, LaidOut
<1> HIDE DEF s
<1>2. /\ i \in Nat /\ m \in 1 .. i /\ m \in 1 .. n /\ 1 \in 1 .. Size(c, name)
      /\ \A y \in 1 .. i : y \in 1 .. n
  BY <1>1 DEF s
<1>3. lines[m].kind = "section" /\ lines[m].name = name
  <2>1. FileLines(c)[m].kind = "section" /\ FileLines(c)[m].name = name
    BY <1>2, LineKinds DEF s
  <2> QED BY <1>2, <2>1 DEF Follows
<1>4. ASSUME NEW y \in 1 .. i, y > m PROVE lines[y].kind # "section"
  <2>1. PICK k \in 1 .. Size(c, name) : y = s + k /\ k # 1
    <3>1. y - s \in 1 .. Size(c, name) /\ y = s + (y - s) /\ y - s # 1
      BY <1>1, <1>4
    <3> QED BY <3>1
  <2>2. FileLines(c)[y].kind # "section"
    BY <2>1, LineKinds DEF s
  <2> QED BY <1>2, <2>2 DEF Follows
<1>5. m \in H /\ H \subseteq 1 .. i
  BY <1>2, <1>3 DEF Headers
<1>6. \A y \in H : ~(y > m)
  BY <1>4 DEF Headers
<1> HIDE DEF H, i
<1>7. Max(H) \in H /\ m <= Max(H)
  BY <1>2, <1>5, LastLine
<1>8. Max(H) = m
  <2>1. Max(H) \in 1 .. i
    BY <1>5, <1>7
  <2> QED BY <1>1, <1>2, <1>6, <1>7, <2>1
<1>9. SectionAt(i) = lines[Max(H)].name
  BY <1>5 DEF SectionAt, H
<1> QED BY <1>3, <1>8, <1>9 DEF i, s

\* A section line is the header of its section.
LEMMA SectionsOpened ==
  ASSUME NEW c \in Saved, NEW n, Follows(n, c), NEW name \in Names
  PROVE  name \in Opened(n) <=> Has(c, name) /\ Start(c, name) < n
<1>1. /\ Start(c, name) \in Nat /\ Size(c, name) \in Nat /\ n \in Nat
      /\ n <= Len(FileLines(c)) /\ Len(FileLines(c)) \in Nat
  BY StartsAreNumbers, PartSizes, FileLaidOut DEF Follows, LaidOut
<1>2. ASSUME Has(c, name), Start(c, name) < n PROVE name \in Opened(n)
  <2>1. 1 \in 1 .. Size(c, name) /\ Start(c, name) + 1 \in 1 .. n
    BY <1>1, <1>2, PartSizes DEF Size, Section
  <2>2. /\ FileLines(c)[Start(c, name) + 1].kind = "section"
        /\ FileLines(c)[Start(c, name) + 1].name = name
    BY <2>1, LineKinds
  <2>3. lines[Start(c, name) + 1].kind = "section" /\ lines[Start(c, name) + 1].name = name
    BY <2>1, <2>2 DEF Follows
  <2> QED BY <2>1, <2>3 DEF Opened, Headers
<1>3. ASSUME name \in Opened(n) PROVE Has(c, name) /\ Start(c, name) < n
  <2>1. PICK i \in 1 .. n : lines[i].kind = "section" /\ lines[i].name = name
    BY <1>3 DEF Opened, Headers
  <2>2. /\ FileLines(c)[i].kind = "section" /\ FileLines(c)[i].name = name
        /\ i \in 1 .. Len(FileLines(c))
    BY <1>1, <2>1 DEF Follows
  <2>3. i \notin 1 .. Comments
    BY <2>2, CommentKinds
  <2>4. PICK s \in Names : \E j \in 1 .. Size(c, s) : i = Start(c, s) + j
    BY <2>2, <2>3, LinePlaces
  <2>5. PICK j \in 1 .. Size(c, s) : i = Start(c, s) + j
    BY <2>4
  <2>6. j = 1 /\ s = name /\ Has(c, s)
    BY <2>2, <2>5, LineKinds
  <2> QED BY <1>1, <2>5, <2>6
<1> QED BY <1>2, <1>3

\* A key of a section has its one line, if that was reached; no other key has any.
LEMMA KeyLines ==
  ASSUME NEW c \in Saved, NEW n, Follows(n, c), NEW name \in Names, Has(c, name)
  PROVE  /\ \A j \in 1 .. Len(Keys(c, name)) :
              /\ Start(c, name) + 1 + j <= n =>
                   LinesFor(n, name, Keys(c, name)[j]) = {Start(c, name) + 1 + j}
              /\ Start(c, name) + 1 + j > n => LinesFor(n, name, Keys(c, name)[j]) = {}
         /\ \A key : LinesFor(n, name, key) # {} =>
              \E j \in 1 .. Len(Keys(c, name)) : key = Keys(c, name)[j]
<1> DEFINE ks == Keys(c, name)  s == Start(c, name)  l == Len(ks)
<1>1. /\ s \in Nat /\ n \in Nat /\ n <= Len(FileLines(c)) /\ Len(FileLines(c)) \in Nat
      /\ l \in Nat /\ Size(c, name) = l + 2 /\ \A j, k \in 1 .. l : ks[j] = ks[k] => j = k
  BY StartsAreNumbers, PartSizes, FileLaidOut DEF Follows, LaidOut, Size, Section
<1>2. ASSUME NEW key, NEW i \in LinesFor(n, name, key)
      PROVE  \E j \in 1 .. l : i = s + 1 + j /\ key = ks[j]
  <2>1. i \in 1 .. n /\ lines[i].kind = "entry" /\ lines[i].name = key /\ SectionAt(i) = name
    BY <1>2 DEF LinesFor
  <2>2. FileLines(c)[i].kind = "entry" /\ FileLines(c)[i].name = key /\ i \in 1 .. Len(FileLines(c))
    BY <1>1, <2>1 DEF Follows
  <2>3. i \notin 1 .. Comments
    BY <2>2, CommentKinds
  <2>4. PICK t \in Names : \E j \in 1 .. Size(c, t) : i = Start(c, t) + j
    BY <2>2, <2>3, LinePlaces
  <2>5. PICK j \in 1 .. Size(c, t) : i = Start(c, t) + j
    BY <2>4
  <2>6. t = name
    <3>1. Start(c, t) + j <= n
      BY <1>1, <2>1, <2>5
    <3>2. SectionAt(Start(c, t) + j) = t
      BY <3>1, SectionInForce
    <3> QED BY <2>1, <2>5, <3>2
  <2>7. j \in 2 .. l + 1 /\ key = ks[j - 1]
    BY <2>2, <2>5, <2>6, LineKinds
  <2>8. j - 1 \in 1 .. l /\ i = s + 1 + (j - 1)
    BY <1>1, <2>5, <2>6, <2>7
  <2> QED BY <2>7, <2>8
<1>3. ASSUME NEW j \in 1 .. l, s + 1 + j <= n PROVE s + 1 + j \in LinesFor(n, name, ks[j])
  <2>1. /\ j + 1 \in 1 .. Size(c, name) /\ j + 1 \in 2 .. l + 1 /\ (j + 1) - 1 = j
        /\ s + (j + 1) = s + 1 + j /\ s + 1 + j \in 1 .. n
    BY <1>1, <1>3
  <2>2. FileLines(c)[s + (j + 1)].kind = "entry" /\ FileLines(c)[s + (j + 1)].name = ks[j]
    BY <2>1, LineKinds
  <2>3. lines[s + 1 + j].kind = "entry" /\ lines[s + 1 + j].name = ks[j]
    BY <2>1, <2>2 DEF Follows
  <2>4. SectionAt(s + (j + 1)) = name
    BY <1>3, <2>1, SectionInForce
  <2> QED BY <2>1, <2>3, <2>4 DEF LinesFor
<1> HIDE DEF ks, s, l
<1>4. ASSUME NEW j \in 1 .. l
      PROVE  /\ s + 1 + j <= n => LinesFor(n, name, ks[j]) = {s + 1 + j}
             /\ s + 1 + j > n => LinesFor(n, name, ks[j]) = {}
  <2>0. n \in Nat /\ s + 1 + j \in Int
    BY <1>1
  <2>1. ASSUME NEW i \in LinesFor(n, name, ks[j]) PROVE i = s + 1 + j /\ i \in 1 .. n
    <3>1. PICK k \in 1 .. l : i = s + 1 + k /\ ks[j] = ks[k]
      BY <1>2
    <3>2. k = j
      BY <1>1, <3>1
    <3> QED BY <3>1, <3>2 DEF LinesFor
  <2>2. CASE s + 1 + j <= n
    <3>1. s + 1 + j \in LinesFor(n, name, ks[j])
      BY <1>3, <2>2
    <3>2. LinesFor(n, name, ks[j]) = {s + 1 + j}
      BY <2>1, <3>1
    <3> QED BY <2>0, <2>2, <3>2
  <2>3. CASE s + 1 + j > n
    <3>1. \A i \in LinesFor(n, name, ks[j]) : FALSE
      BY <2>0, <2>1, <2>3
    <3>2. LinesFor(n, name, ks[j]) = {}
      BY <3>1
    <3> QED BY <2>0, <2>3, <3>2
  <2> QED BY <2>0, <2>2, <2>3
<1>5. \A key : LinesFor(n, name, key) # {} => \E j \in 1 .. l : key = ks[j]
  BY <1>2
<1> QED BY <1>4, <1>5 DEF ks, s, l
-----------------------------------------------------------------------------
(* The pixels of a mask, as they are written.                              *)

\* What holds of 0 and of every successor holds of every number.
LEMMA EveryNumber ==
  ASSUME NEW T, 0 \in T, \A n \in Nat : n \in T => n + 1 \in T
  PROVE  Nat \subseteq T
<1> SUFFICES ASSUME Nat \ T # {} PROVE FALSE
  OBVIOUS
<1> DEFINE Rest == Nat \ T
<1>1. PICK n \in Rest : \A k \in Rest : <<k, n>> \notin OpToRel(<, Nat)
  BY WFMin, NatLessThanWellFounded
<1>2. \A k \in Rest : ~(k < n)
  BY <1>1 DEF OpToRel
<1>3. n \in Nat /\ n \notin T /\ n # 0
  OBVIOUS
<1>4. n - 1 \in Nat /\ n - 1 < n /\ (n - 1) + 1 = n
  BY <1>3
<1>5. n - 1 \in T
  BY <1>2, <1>4
<1> QED BY <1>3, <1>4, <1>5

\* Some numbers up to n, if any, have a greatest one.
LEMMA Greatest ==
  ASSUME NEW n \in Nat, NEW S, S \subseteq 0 .. n, S # {}
  PROVE  \E m \in S : \A y \in S : y <= m
<1>0. \A x \in S : x \in Int
  OBVIOUS
<1> DEFINE Below == {n - x : x \in S}
<1>1. Below \subseteq Nat /\ Below # {}
  <2>1. \A x \in S : n - x \in Nat
    OBVIOUS
  <2> QED BY <2>1
<1>2. PICK b \in Below : \A c \in Below : <<c, b>> \notin OpToRel(<, Nat)
  BY <1>1, WFMin, NatLessThanWellFounded
<1>3. \A c \in Below : ~(c < b)
  BY <1>1, <1>2 DEF OpToRel
<1>4. PICK m \in S : b = n - m
  OBVIOUS
<1>5. ASSUME NEW y \in S PROVE y <= m
  <2>1. y \in Int /\ m \in Int
    BY <1>0
  <2>2. ~(n - y < n - m)
    BY <1>3, <1>4
  <2> QED BY ONLY <2>1, <2>2, n \in Nat
<1> QED BY <1>5

Increasing(s, n) == \A i, j \in 1 .. n : i < j => s[i] < s[j]

\* Numbers can be put in order.
LEMMA OrderExists ==
  ASSUME NEW top \in Nat, NEW S \in SUBSET (0 .. top)
  PROVE  /\ IsFiniteSet(S) /\ Cardinality(S) \in Nat
         /\ \E s \in [1 .. Cardinality(S) -> S] : Increasing(s, Cardinality(S))
<1> DEFINE Ordered == {n \in Nat : \A R \in SUBSET (0 .. top) :
                        Cardinality(R) = n => \E s \in [1 .. n -> R] : Increasing(s, n)}
<1>0. ASSUME NEW R \in SUBSET (0 .. top) PROVE IsFiniteSet(R) /\ Cardinality(R) \in Nat
  <2>1. IsFiniteSet(0 .. top)
    BY FS_Interval
  <2> QED BY <2>1, FS_Subset, FS_CardinalityType
<1>1. 0 \in Ordered
  <2>1. ASSUME NEW R PROVE [i \in 1 .. 0 |-> 0] \in [1 .. 0 -> R]
    OBVIOUS
  <2>2. Increasing([i \in 1 .. 0 |-> 0], 0)
    BY DEF Increasing
  <2> QED BY <2>1, <2>2
<1>2. ASSUME NEW n \in Nat, n \in Ordered PROVE n + 1 \in Ordered
  <2> SUFFICES ASSUME NEW R \in SUBSET (0 .. top), Cardinality(R) = n + 1
               PROVE  \E s \in [1 .. n + 1 -> R] : Increasing(s, n + 1)
    OBVIOUS
  <2>1. IsFiniteSet(R) /\ R # {}
    BY <1>0, FS_EmptySet
  <2>0. \A y \in R : y \in Int
    OBVIOUS
  <2>2. PICK m \in R : \A y \in R : y <= m
    BY <2>1, Greatest
  <2>3. Cardinality(R \ {m}) = n /\ R \ {m} \in SUBSET (0 .. top)
    <3>1. Cardinality(R \ {m}) = Cardinality(R) - 1
      BY <2>1, <2>2, FS_RemoveElement
    <3> QED BY <3>1
  <2>4. PICK s \in [1 .. n -> R \ {m}] : Increasing(s, n)
    BY <1>2, <2>3
  <2> DEFINE t == [i \in 1 .. n + 1 |-> IF i = n + 1 THEN m ELSE s[i]]
  <2>5. \A i \in 1 .. n + 1 : i = n + 1 \/ i \in 1 .. n
    OBVIOUS
  <2>6. \A i \in 1 .. n : t[i] = s[i] /\ s[i] \in R /\ s[i] < m
    <3> TAKE i \in 1 .. n
    <3>1. i \in 1 .. n + 1 /\ i # n + 1
      OBVIOUS
    <3>2. s[i] \in R /\ s[i] # m
      BY <2>4
    <3>3. s[i] <= m /\ s[i] \in Int /\ m \in Int
      BY <2>0, <2>2, <3>2
    <3> QED BY <3>1, <3>2, <3>3
  <2>7. t[n + 1] = m /\ t \in [1 .. n + 1 -> R]
    BY <2>5, <2>6
  <2> HIDE DEF t
  <2>8. Increasing(t, n + 1)
    <3> SUFFICES ASSUME NEW i \in 1 .. n + 1, NEW j \in 1 .. n + 1, i < j PROVE t[i] < t[j]
      BY DEF Increasing
    <3>1. i \in 1 .. n
      OBVIOUS
    <3>2. CASE j = n + 1
      BY <2>6, <2>7, <3>1, <3>2
    <3>3. CASE j \in 1 .. n
      BY <2>4, <2>6, <3>1, <3>3 DEF Increasing
    <3> QED BY <2>5, <3>2, <3>3
  <2> QED BY <2>7, <2>8
<1>3. Nat \subseteq Ordered
  <2> HIDE DEF Ordered
  <2> QED BY <1>1, <1>2, EveryNumber
<1> QED BY <1>0, <1>3

\* The list of the dead pixels has each of them, and nothing else.
LEMMA InOrderLists ==
  ASSUME NEW mask \in SavedMasks
  PROVE  InOrder(mask) \in Seq(mask) /\ ToSet(InOrder(mask)) = mask
<1> DEFINE n == Cardinality(mask)  s == InOrder(mask)
<1>1. mask \in SUBSET (0 .. FrameSize) /\ FrameSize \in Nat
  <2>1. \A x \in mask : x \in Nat /\ x < FrameSize
    BY FileAssumption DEF SavedMasks
  <2>2. FrameSize \in Nat
    BY FileAssumption
  <2> QED BY <2>1, <2>2
<1>2. /\ IsFiniteSet(mask) /\ n \in Nat
      /\ \E f \in [1 .. n -> mask] : Increasing(f, n)
  BY <1>1, OrderExists
<1>3. s \in [1 .. n -> mask] /\ \A i, j \in DOMAIN s : i < j => s[i] < s[j]
  <2>1. \E f \in [1 .. n -> mask] : \A i, j \in DOMAIN f : i < j => f[i] < f[j]
    BY <1>2 DEF Increasing
  <2> QED BY <2>1 DEF InOrder
<1> HIDE DEF s
<1>4. \A i, j \in 1 .. n : s[i] = s[j] => i = j
  <2> SUFFICES ASSUME NEW i \in 1 .. n, NEW j \in 1 .. n, s[i] = s[j], i # j PROVE FALSE
    OBVIOUS
  <2>1. s[i] \in Int
    <3>1. \A y \in mask : y \in Int
      BY <1>1
    <3> QED BY <1>3, <3>1
  <2>2. CASE i < j
    BY <1>3, <2>1, <2>2
  <2>3. CASE j < i
    BY <1>3, <2>1, <2>3
  <2> QED BY <1>2, <2>2, <2>3
<1>5. s \in Injection(1 .. n, mask)
  BY <1>3, <1>4 DEF Injection, IsInjective
<1>6. Cardinality(1 .. n) = n
  BY <1>2, FS_Interval
<1>7. s \in Surjection(1 .. n, mask)
  BY <1>2, <1>5, <1>6, FS_Injection
<1>8. ToSet(s) = mask
  BY <1>3, <1>7 DEF ToSet, Surjection
<1>9. s \in Seq(mask)
  BY <1>2, <1>3
<1> QED BY <1>8, <1>9 DEF s
-----------------------------------------------------------------------------
(* What sections that were written read as.                                *)

\* A number that was written is written the same again.
LEMMA WrittenOnce ==
  ASSUME NEW x \in Nat
  PROVE  Written(x) \in Nat /\ Written(Written(x)) = Written(x)
<1>1. x % 2 = 0 \/ x % 2 = 1
  OBVIOUS
<1>2. (x - (x % 2)) % 2 = 0 /\ x - (x % 2) \in Nat
  BY <1>1
<1> QED BY <1>2 DEF Written

\* What is written of a writable number is a number, and writable.
LEMMA WritableNumbers ==
  ASSUME NEW x \in Writable
  PROVE  /\ x \in Numbers /\ Written(x) \in Numbers /\ Written(x) \in Writable
         /\ Written(Written(x)) = Written(x)
<1>1. x \in Nat /\ Written(x) \in Numbers /\ x \in Numbers
  BY FileAssumption DEF Writable
<1> QED BY <1>1, WrittenOnce DEF Writable

\* The parts of a calibration that is saved, each of which may be missing.
LEMMA SavedParts ==
  ASSUME NEW c \in Saved
  PROVE  /\ c # Unset
         /\ c.temperature # Unset => c.temperature \in SavedTemperatures
         /\ c.vignette # Unset => c.vignette \in SavedVignettes
         /\ c.dead_pixels # Unset => c.dead_pixels \in SavedMasks
         /\ c = [temperature |-> c.temperature, vignette |-> c.vignette,
                 dead_pixels |-> c.dead_pixels]
BY SavedAssumption

\* The keys of a section, with the values that were written.
ReadsAll(sec, c, name) ==
  /\ \A key \in DOMAIN sec : \E j \in 1 .. Len(Keys(c, name)) : key = Keys(c, name)[j]
  /\ \A j \in 1 .. Len(Keys(c, name)) :
       /\ Keys(c, name)[j] \in DOMAIN sec
       /\ sec[Keys(c, name)[j]] = Part(c, name)[j + 1].value

\* A list that is another one but for its last element, or ends before it.
EndLost(x, v) ==
  /\ x \in Seq(Numbers \cup {Garbage}) /\ Len(x) <= Len(v)
  /\ \A i \in 1 .. Len(x) - 1 : x[i] = v[i]

\* The keys up to some key, with the values that were written but for the last.
ReadsSome(sec, c, name) ==
  /\ \A key \in DOMAIN sec : \E j \in 1 .. Len(Keys(c, name)) : key = Keys(c, name)[j]
  /\ \A j \in 1 .. Len(Keys(c, name)) : Keys(c, name)[j] \in DOMAIN sec =>
       /\ EndLost(sec[Keys(c, name)[j]], Part(c, name)[j + 1].value)
       /\ \A k \in 1 .. j - 1 : /\ Keys(c, name)[k] \in DOMAIN sec
                                /\ sec[Keys(c, name)[k]] = Part(c, name)[k + 1].value

\* The temperature section.
LEMMA TemperatureAll ==
  ASSUME NEW c \in Saved, c.temperature # Unset, NEW sec, ReadsAll(sec, c, "temperature")
  PROVE  /\ TemperatureLoads(sec) <=> c.temperature.pad_ref # NaN
         /\ TemperatureLoads(sec) =>
              parseTemperatureSection(sec) = RoundedTemperature(c.temperature)
<1> DEFINE t == c.temperature  pad == t.pad_ref  ks == Keys(c, "temperature")  n == Len(ks)
           p == Part(c, "temperature")
<1>1. /\ t.c0 \in Writable /\ t.c1 \in Writable /\ pad \in Writable \cup {NaN}
  BY SavedParts DEF SavedTemperatures
<1>2. /\ Written(t.c0) \in Numbers /\ Written(t.c1) \in Numbers
      /\ pad # NaN => Written(pad) \in Numbers
  BY <1>1, WritableNumbers
<1>3. /\ ks[1] = "c0" /\ ks[2] = "c1" /\ n = (IF pad = NaN THEN 2 ELSE 3)
      /\ pad # NaN => ks[3] = "pad_ref"
  BY DEF Keys
<1>4. /\ p[2].value = <<Written(t.c0)>> /\ p[3].value = <<Written(t.c1)>>
      /\ pad # NaN => p[4].value = <<Written(pad)>>
  BY TemperaturePart
<1>5. /\ \A key \in DOMAIN sec : \E j \in 1 .. n : key = ks[j]
      /\ \A j \in 1 .. n : ks[j] \in DOMAIN sec /\ sec[ks[j]] = p[j + 1].value
  BY DEF ReadsAll
<1>6. /\ parseTemperatureSection(sec) =
           [c0 |-> sec["c0"][1], c1 |-> sec["c1"][1], pad_ref |-> sec["pad_ref"][1]]
      /\ RoundedTemperature(t) =
           [c0 |-> Written(t.c0), c1 |-> Written(t.c1),
            pad_ref |-> IF pad = NaN THEN NaN ELSE Written(pad)]
  BY DEF parseTemperatureSection, RoundedTemperature
<1> DEFINE a == Written(t.c0)  b == Written(t.c1)
<1> HIDE DEF a, b, pad, ks, n, p
<1>7. 1 \in 1 .. n /\ 2 \in 1 .. n /\ (pad # NaN => 3 \in 1 .. n)
      /\ 1 + 1 = 2 /\ 2 + 1 = 3 /\ 3 + 1 = 4
  BY <1>3
<1>8. /\ "c0" \in DOMAIN sec /\ sec["c0"] = <<a>> /\ "c1" \in DOMAIN sec /\ sec["c1"] = <<b>>
  BY <1>3, <1>4, <1>5, <1>7 DEF a, b
<1>9. pad # NaN => "pad_ref" \in DOMAIN sec /\ sec["pad_ref"] = <<Written(pad)>>
  BY <1>3, <1>4, <1>5, <1>7
<1>10. pad = NaN => "pad_ref" \notin DOMAIN sec
  <2> SUFFICES ASSUME pad = NaN, "pad_ref" \in DOMAIN sec PROVE FALSE
    OBVIOUS
  <2>1. PICK j \in 1 .. n : "pad_ref" = ks[j]
    BY <1>5
  <2>2. j = 1 \/ j = 2
    BY <1>3
  <2> QED BY <1>3, <2>1, <2>2
<1>11. \A x : Len(<<x>>) = 1 /\ <<x>>[1] = x
  OBVIOUS
<1>12. TemperatureLoads(sec) <=> pad # NaN
  BY <1>2, <1>8, <1>9, <1>10, <1>11 DEF TemperatureLoads, HasNumber, a, b
<1>13. pad # NaN => parseTemperatureSection(sec) = RoundedTemperature(t)
  BY <1>6, <1>8, <1>9, <1>11 DEF a, b
<1> QED BY <1>12, <1>13 DEF pad

\* A temperature section cut short that loads has its pad_ref begun, and all before it.
LEMMA TemperatureSome ==
  ASSUME NEW c \in Saved, c.temperature # Unset, NEW sec, ReadsSome(sec, c, "temperature"),
         TemperatureLoads(sec)
  PROVE  /\ c.temperature.pad_ref # NaN
         /\ parseTemperatureSection(sec).c0 = RoundedTemperature(c.temperature).c0
         /\ parseTemperatureSection(sec).c1 = RoundedTemperature(c.temperature).c1
<1> DEFINE t == c.temperature  pad == t.pad_ref  ks == Keys(c, "temperature")  n == Len(ks)
           p == Part(c, "temperature")
<1>1. "pad_ref" \in DOMAIN sec
  BY DEF TemperatureLoads, HasNumber
<1>2. ks[1] = "c0" /\ ks[2] = "c1" /\ n = (IF pad = NaN THEN 2 ELSE 3)
  BY DEF Keys
<1>3. p[2].value = <<Written(t.c0)>> /\ p[3].value = <<Written(t.c1)>>
  BY TemperaturePart
<1>4. /\ \A key \in DOMAIN sec : \E j \in 1 .. n : key = ks[j]
      /\ \A j \in 1 .. n : ks[j] \in DOMAIN sec =>
           \A k \in 1 .. j - 1 : sec[ks[k]] = p[k + 1].value
  BY DEF ReadsSome
<1> HIDE DEF pad, ks, n, p
<1>5. PICK j \in 1 .. n : "pad_ref" = ks[j]
  BY <1>1, <1>4
<1>6. j # 1 /\ j # 2
  BY <1>2, <1>5
<1>7. pad # NaN /\ j = 3
  BY <1>2, <1>6
<1>8. 1 \in 1 .. j - 1 /\ 2 \in 1 .. j - 1 /\ 1 + 1 = 2 /\ 2 + 1 = 3
  BY <1>7
<1>9. sec["c0"] = <<Written(t.c0)>> /\ sec["c1"] = <<Written(t.c1)>>
  BY <1>1, <1>2, <1>3, <1>4, <1>5, <1>8
<1>10. \A x : <<x>>[1] = x
  OBVIOUS
<1> QED BY <1>7, <1>9, <1>10 DEF pad, parseTemperatureSection, RoundedTemperature

\* The numbers that a list begins with.
LEMMA NumbersLead ==
  ASSUME NEW x \in Seq(Numbers \cup {Garbage})
  PROVE  /\ \E k \in 0 .. Len(x) : NumbersOf(x) = SubSeq(x, 1, k)
         /\ (\A i \in 1 .. Len(x) : x[i] \in Numbers) => NumbersOf(x) = x
<1> DEFINE n == Len(x)  good == {k \in 0 .. n : \A i \in 1 .. k : x[i] \in Numbers}
<1>1. n \in Nat
  OBVIOUS
<1>2. 0 \in good /\ good \subseteq 0 .. n
  <2>1. 0 \in 0 .. n /\ 1 .. 0 = {}
    BY <1>1
  <2> QED BY <2>1
<1>3. NumbersOf(x) = SubSeq(x, 1, Max(good))
  BY DEF NumbersOf
<1> HIDE DEF good
<1>4. \E m \in good : \A y \in good : y <= m
  BY <1>1, <1>2, Greatest
<1>5. Max(good) \in good /\ \A y \in good : Max(good) >= y
  <2>1. \A y \in good : y \in Int
    <3>1. \A y \in 0 .. n : y \in Int
      BY <1>1
    <3> QED BY <1>2, <3>1
  <2>2. \E m \in good : \A y \in good : m >= y
    BY <1>4, <2>1
  <2> QED BY <2>2 DEF Max
<1>6. ASSUME \A i \in 1 .. n : x[i] \in Numbers PROVE NumbersOf(x) = x
  <2>1. n \in good
    BY <1>1, <1>6 DEF good
  <2>2. Max(good) \in 0 .. n /\ Max(good) >= n
    BY <1>2, <1>5, <2>1
  <2>3. Max(good) = n
    BY <1>1, <2>2
  <2>4. SubSeq(x, 1, n) = x
    OBVIOUS
  <2> QED BY <1>3, <2>3, <2>4
<1>7. Max(good) \in 0 .. n
  BY <1>2, <1>5
<1> QED BY <1>3, <1>6, <1>7

\* The vignette section.
LEMMA CoeffsWritten ==
  ASSUME NEW v \in SavedVignettes
  PROVE  LET w == RoundedVignette(v).coeffs
         IN  w \in Seq(Numbers) /\ w # <<>> /\ Len(w) = Len(v.coeffs)
<1>1. v.coeffs \in Seq(Writable) /\ v.coeffs # <<>>
  BY DEF SavedVignettes
<1>2. RoundedVignette(v).coeffs = [i \in DOMAIN v.coeffs |-> Written(v.coeffs[i])]
  BY DEF RoundedVignette
<1> DEFINE q == v.coeffs  w == RoundedVignette(v).coeffs
<1> HIDE DEF q, w
<1>3. q \in Seq(Writable) /\ q # <<>> /\ w = [i \in DOMAIN q |-> Written(q[i])]
  BY <1>1, <1>2 DEF q, w
<1>4. \A i \in 1 .. Len(q) : Written(q[i]) \in Numbers
  BY <1>3, WritableNumbers
<1>5. DOMAIN q = 1 .. Len(q) /\ Len(q) \in Nat /\ Len(q) # 0
  BY <1>3
<1>6. w \in [1 .. Len(q) -> Numbers]
  BY <1>3, <1>4, <1>5
<1>7. w \in Seq(Numbers) /\ Len(w) = Len(q) /\ w # <<>>
  BY <1>5, <1>6
<1> QED BY <1>7 DEF q, w

\* A vignette section that was written reads as the rounded vignette.
LEMMA VignetteAll ==
  ASSUME NEW c \in Saved, c.vignette # Unset, NEW sec, ReadsAll(sec, c, "vignette")
  PROVE  VignetteLoads(sec) /\ parseVignetteSection(sec) = RoundedVignette(c.vignette)
<1> DEFINE v == c.vignette  ks == Keys(c, "vignette")  p == Part(c, "vignette")
           w == RoundedVignette(v).coeffs
<1>1. /\ v \in SavedVignettes /\ v.width = FrameSize /\ v.height = FrameSize
      /\ v.cx \in Writable /\ v.r2_max \in Writable
  <2>1. v \in SavedVignettes
    BY SavedParts
  <2> QED BY <2>1 DEF SavedVignettes
<1>2. /\ Written(v.cx) \in Numbers /\ Written(v.r2_max) \in Numbers /\ FrameSize \in Numbers
  BY <1>1, WritableNumbers, SavedAssumption
<1>3. /\ ks[1] = "width" /\ ks[2] = "height" /\ ks[3] = "cx" /\ ks[4] = "r2_max"
      /\ ks[5] = "coeffs" /\ Len(ks) = 5
  BY DEF Keys
<1>4. /\ p[2].value = <<FrameSize>> /\ p[3].value = <<FrameSize>>
      /\ p[4].value = <<Written(v.cx)>> /\ p[5].value = <<Written(v.r2_max)>>
      /\ p[6].value = w
  BY <1>1, VignettePart DEF RoundedVignette
<1>5. \A j \in 1 .. Len(ks) : ks[j] \in DOMAIN sec /\ sec[ks[j]] = p[j + 1].value
  BY DEF ReadsAll
<1>6. w \in Seq(Numbers) /\ w # <<>>
  BY <1>1, CoeffsWritten
<1>7. RoundedVignette(v) = [width |-> FrameSize, height |-> FrameSize, cx |-> Written(v.cx),
                            r2_max |-> Written(v.r2_max), coeffs |-> w]
  BY <1>1 DEF RoundedVignette
<1> DEFINE a == Written(v.cx)  b == Written(v.r2_max)
<1> HIDE DEF ks, p, w, a, b, v
<1>8. /\ 1 \in 1 .. Len(ks) /\ 2 \in 1 .. Len(ks) /\ 3 \in 1 .. Len(ks)
      /\ 4 \in 1 .. Len(ks) /\ 5 \in 1 .. Len(ks)
      /\ 1 + 1 = 2 /\ 2 + 1 = 3 /\ 3 + 1 = 4 /\ 4 + 1 = 5 /\ 5 + 1 = 6
  BY <1>3
<1>9. /\ "width" \in DOMAIN sec /\ sec["width"] = <<FrameSize>>
      /\ "height" \in DOMAIN sec /\ sec["height"] = <<FrameSize>>
      /\ "cx" \in DOMAIN sec /\ sec["cx"] = <<a>>
      /\ "r2_max" \in DOMAIN sec /\ sec["r2_max"] = <<b>>
      /\ "coeffs" \in DOMAIN sec /\ sec["coeffs"] = w
  BY <1>3, <1>4, <1>5, <1>8 DEF a, b
<1>10. NumbersOf(sec["coeffs"]) = w
  <2>1. w \in Seq(Numbers \cup {Garbage}) /\ \A i \in 1 .. Len(w) : w[i] \in Numbers
    BY <1>6
  <2>2. NumbersOf(w) = w
    BY <2>1, NumbersLead
  <2> QED BY <1>9, <2>2
<1>11. \A x : Len(<<x>>) = 1 /\ <<x>>[1] = x
  OBVIOUS
<1>12. a \in Numbers /\ b \in Numbers
  BY <1>2 DEF a, b
<1>13. VignetteLoads(sec)
  BY <1>2, <1>6, <1>9, <1>10, <1>11, <1>12 DEF VignetteLoads, HasNumber
<1>14. parseVignetteSection(sec) = [width |-> FrameSize, height |-> FrameSize, cx |-> a,
                                    r2_max |-> b, coeffs |-> w]
  BY <1>9, <1>10, <1>11 DEF parseVignetteSection
<1> QED BY <1>7, <1>13, <1>14 DEF v, a, b

\* Of a list that lost its end, what loads is, but for its last number, as written.
LEMMA FrontIsKept ==
  ASSUME NEW w \in Seq(Numbers), NEW x, EndLost(x, w), NumbersOf(x) # <<>>
  PROVE  IsPrefix(Front(NumbersOf(x)), w)
<1>1. /\ x \in Seq(Numbers \cup {Garbage}) /\ Len(x) <= Len(w)
      /\ \A i \in 1 .. Len(x) - 1 : x[i] = w[i]
  BY DEF EndLost
<1>2. PICK k \in 0 .. Len(x) : NumbersOf(x) = SubSeq(x, 1, k)
  BY <1>1, NumbersLead
<1>3. k # 0
  <2>1. SubSeq(x, 1, 0) = <<>>
    BY <1>1
  <2> QED BY <1>2, <2>1
<1> DEFINE m == k - 1
<1>4. Len(x) \in Nat /\ Len(w) \in Nat /\ k \in 1 .. Len(x) /\ m \in Nat /\ m <= Len(w)
  BY <1>1, <1>3
<1> DEFINE y == SubSeq(x, 1, k)  z == SubSeq(y, 1, m)
<1>5. y = [i \in 1 .. k |-> x[i]] /\ Len(y) = k
  BY <1>1, <1>4
<1>6. z = [i \in 1 .. m |-> x[i]] /\ Len(z) = m
  <2>1. z = [i \in 1 .. m |-> y[i]] /\ Len(z) = m
    <3>1. y \in Seq(Numbers \cup {Garbage})
      BY <1>1, <1>4
    <3> HIDE DEF y
    <3> QED BY <1>4, <1>5, <3>1
  <2>2. \A i \in 1 .. m : y[i] = x[i]
    BY <1>4, <1>5
  <2> HIDE DEF y, z
  <2> QED BY <2>1, <2>2
<1>7. Front(NumbersOf(x)) = z
  BY <1>2, <1>5 DEF Front
<1>8. \A i \in 1 .. m : x[i] = w[i]
  BY <1>1, <1>4
<1>9. z = [i \in 1 .. m |-> w[i]]
  <2> HIDE DEF z
  <2> QED BY <1>6, <1>8
<1>10. SubSeq(w, 1, m) = [i \in 1 .. m |-> w[i]]
  BY <1>4
<1>11. SubSeq(z, 1, Len(z)) = [i \in 1 .. m |-> z[i]] /\ [i \in 1 .. m |-> z[i]] = z
  <2>1. z \in Seq(Numbers \cup {Garbage})
    BY <1>1, <1>4
  <2> HIDE DEF z
  <2> QED BY <1>4, <1>6, <2>1
<1> HIDE DEF z, y, m
<1> QED BY <1>4, <1>6, <1>7, <1>9, <1>10, <1>11 DEF IsPrefix

\* Of a vignette section cut short, what is made differs in the last coefficients only.
LEMMA VignetteSome ==
  ASSUME NEW c \in Saved, c.vignette # Unset, NEW sec, ReadsSome(sec, c, "vignette"),
         VignetteLoads(sec)
  PROVE  LET l == parseVignetteSection(sec)  r == RoundedVignette(c.vignette)
         IN  /\ [l EXCEPT !.coeffs = <<>>] = [r EXCEPT !.coeffs = <<>>]
             /\ IsPrefix(Front(l.coeffs), r.coeffs)
<1> DEFINE v == c.vignette  ks == Keys(c, "vignette")  p == Part(c, "vignette")
           w == RoundedVignette(v).coeffs  q == NumbersOf(sec["coeffs"])
<1>1. v \in SavedVignettes /\ v.width = FrameSize /\ v.height = FrameSize
  <2>1. v \in SavedVignettes
    BY SavedParts
  <2> QED BY <2>1 DEF SavedVignettes
<1>2. /\ ks[1] = "width" /\ ks[2] = "height" /\ ks[3] = "cx" /\ ks[4] = "r2_max"
      /\ ks[5] = "coeffs" /\ Len(ks) = 5
  BY DEF Keys
<1>3. /\ p[2].value = <<FrameSize>> /\ p[3].value = <<FrameSize>>
      /\ p[4].value = <<Written(v.cx)>> /\ p[5].value = <<Written(v.r2_max)>>
      /\ p[6].value = w
  BY <1>1, VignettePart DEF RoundedVignette
<1>4. \A j \in 1 .. Len(ks) : ks[j] \in DOMAIN sec =>
        /\ EndLost(sec[ks[j]], p[j + 1].value)
        /\ \A k \in 1 .. j - 1 : sec[ks[k]] = p[k + 1].value
  BY DEF ReadsSome
<1>5. "coeffs" \in DOMAIN sec /\ q # <<>>
  BY DEF VignetteLoads
<1>6. RoundedVignette(v) = [width |-> FrameSize, height |-> FrameSize, cx |-> Written(v.cx),
                            r2_max |-> Written(v.r2_max), coeffs |-> w]
  BY <1>1 DEF RoundedVignette
<1>7. parseVignetteSection(sec) =
        [width |-> sec["width"][1], height |-> sec["height"][1], cx |-> sec["cx"][1],
         r2_max |-> sec["r2_max"][1], coeffs |-> q]
  BY DEF parseVignetteSection
<1>8. w \in Seq(Numbers)
  BY <1>1, CoeffsWritten
<1> DEFINE a == Written(v.cx)  b == Written(v.r2_max)
<1> HIDE DEF ks, p, w, a, b, v
<1>9. /\ 5 \in 1 .. Len(ks) /\ 1 \in 1 .. 5 - 1 /\ 2 \in 1 .. 5 - 1 /\ 3 \in 1 .. 5 - 1
      /\ 4 \in 1 .. 5 - 1
      /\ 1 + 1 = 2 /\ 2 + 1 = 3 /\ 3 + 1 = 4 /\ 4 + 1 = 5 /\ 5 + 1 = 6
  BY <1>2
<1>10. /\ sec["width"] = <<FrameSize>> /\ sec["height"] = <<FrameSize>>
       /\ sec["cx"] = <<a>> /\ sec["r2_max"] = <<b>> /\ EndLost(sec["coeffs"], w)
  BY <1>2, <1>3, <1>4, <1>5, <1>9 DEF a, b
<1>11. IsPrefix(Front(q), w)
  BY <1>5, <1>8, <1>10, FrontIsKept
<1> HIDE DEF q
<1>12. \A x : <<x>>[1] = x
  OBVIOUS
<1>13. parseVignetteSection(sec) =
        [width |-> FrameSize, height |-> FrameSize, cx |-> a, r2_max |-> b, coeffs |-> q]
  BY <1>7, <1>10, <1>12
<1> QED BY <1>6, <1>11, <1>13 DEF v, a, b, w

\* The dead pixels.
LEMMA DeadPixelsAll ==
  ASSUME NEW c \in Saved, c.dead_pixels # Unset, NEW sec, ReadsAll(sec, c, "dead_pixels")
  PROVE  DeadPixelsLoad(sec) /\ parseDeadPixelsSection(sec) = c.dead_pixels
<1> DEFINE mask == c.dead_pixels  ks == Keys(c, "dead_pixels")
<1>1. mask \in SavedMasks
  BY SavedParts
<1>2. InOrder(mask) \in Seq(mask) /\ ToSet(InOrder(mask)) = mask
  BY <1>1, InOrderLists
<1>3. "pixels" \in DOMAIN sec /\ sec["pixels"] = InOrder(mask)
  <2>1. ks[1] = "pixels" /\ 1 \in 1 .. Len(ks) /\ 1 + 1 = 2
    BY DEF Keys
  <2> HIDE DEF ks
  <2> QED BY <2>1, DeadPixelsPart DEF ReadsAll, ks
<1>4. \A x \in mask : x \in Numbers /\ x < FrameSize
  BY <1>1 DEF SavedMasks
<1>5. DeadPixelsLoad(sec)
  BY <1>2, <1>3, <1>4 DEF DeadPixelsLoad
<1> QED BY <1>2, <1>3, <1>5 DEF parseDeadPixelsSection

\* Of a dead pixel section cut short, at most the pixel that was cut is another one.
LEMMA DeadPixelsSome ==
  ASSUME NEW c \in Saved, c.dead_pixels # Unset, NEW sec, ReadsSome(sec, c, "dead_pixels")
  PROVE  Cardinality(parseDeadPixelsSection(sec) \ c.dead_pixels) <= 1
<1> DEFINE mask == c.dead_pixels  ks == Keys(c, "dead_pixels")  x == sec["pixels"]
           y == InOrder(mask)  more == parseDeadPixelsSection(sec) \ mask
<1>1. y \in Seq(mask) /\ ToSet(y) = mask
  BY SavedParts, InOrderLists
<1>2. CASE "pixels" \notin DOMAIN sec
  <2>1. more = {}
    BY <1>2 DEF parseDeadPixelsSection
  <2> QED BY <2>1, FS_EmptySet
<1>3. CASE "pixels" \in DOMAIN sec
  <2>1. EndLost(x, y)
    <3>1. ks[1] = "pixels" /\ 1 \in 1 .. Len(ks) /\ 1 + 1 = 2
      BY DEF Keys
    <3> HIDE DEF ks
    <3> QED BY <1>3, <3>1, DeadPixelsPart DEF ReadsSome, ks
  <2>2. /\ x \in Seq(Numbers \cup {Garbage}) /\ Len(x) <= Len(y)
        /\ \A i \in 1 .. Len(x) - 1 : x[i] = y[i]
    BY <2>1 DEF EndLost
  <2>3. Len(x) \in Nat /\ DOMAIN x = 1 .. Len(x) /\ Len(y) \in Nat
    BY <1>1, <2>2
  <2>4. more = ToSet(x) \ mask
    BY <1>3 DEF parseDeadPixelsSection
  <2>5. \A i \in 1 .. Len(x) - 1 : x[i] \in mask
    BY <1>1, <2>2, <2>3
  <2>6. \A i \in 1 .. Len(x) : i = Len(x) \/ i \in 1 .. Len(x) - 1
    BY <2>3
  <2>7. ToSet(x) = {x[i] : i \in 1 .. Len(x)}
    BY <2>3 DEF ToSet
  <2> HIDE DEF x, y, more
  <2>8. more \in SUBSET {x[Len(x)]}
    BY <2>4, <2>5, <2>6, <2>7
  <2>9. Cardinality(more) <= 1
    <3>1. IsFiniteSet({x[Len(x)]}) /\ Cardinality({x[Len(x)]}) = 1
      BY FS_Singleton
    <3>2. Cardinality(more) <= Cardinality({x[Len(x)]})
      BY <2>8, <3>1, FS_Subset
    <3> QED BY <3>1, <3>2
  <2> QED BY <2>9 DEF more
<1> QED BY <1>2, <1>3

-----------------------------------------------------------------------------
(* A save, finished or not.                                                *)

\* The values of the lines of a file that is written are numbers.
LEMMA ValuesAreNumbers ==
  ASSUME NEW c \in Saved, NEW name \in Names, Has(c, name), NEW j \in 1 .. Len(Keys(c, name))
  PROVE  Part(c, name)[j + 1].value \in Seq(Numbers)
<1> DEFINE p == Part(c, name)  ks == Keys(c, name)
<1>0. ASSUME NEW x \in Numbers PROVE <<x>> \in Seq(Numbers)
  OBVIOUS
<1>1. ASSUME NEW x \in Writable PROVE <<Written(x)>> \in Seq(Numbers)
  BY <1>0, WritableNumbers
<1>2. CASE name = "temperature"
  <2> DEFINE t == c.temperature  pad == t.pad_ref
  <2>1. t \in SavedTemperatures
    BY <1>2, SavedParts DEF Has
  <2>2. t.c0 \in Writable /\ t.c1 \in Writable /\ pad \in Writable \cup {NaN}
    BY <2>1 DEF SavedTemperatures
  <2>3. /\ p[2].value = <<Written(t.c0)>> /\ p[3].value = <<Written(t.c1)>>
        /\ pad # NaN => p[4].value = <<Written(pad)>>
    BY <1>2, TemperaturePart DEF Has
  <2>4. Len(ks) = IF pad = NaN THEN 2 ELSE 3
    BY <1>2 DEF Keys
  <2> HIDE DEF p, ks, t, pad
  <2>5. j \in 1 .. Len(ks)
    BY DEF ks
  <2>6. j + 1 = 2 \/ j + 1 = 3 \/ (j + 1 = 4 /\ pad # NaN)
    BY <2>4, <2>5
  <2>7. p[j + 1].value \in Seq(Numbers)
    BY <1>1, <2>2, <2>3, <2>6
  <2> QED BY <2>7 DEF p
<1>3. CASE name = "vignette"
  <2> DEFINE v == c.vignette
  <2>1. v \in SavedVignettes
    BY <1>3, SavedParts DEF Has
  <2>2. /\ v.cx \in Writable /\ v.r2_max \in Writable
        /\ v.width \in Numbers /\ v.height \in Numbers
    BY <2>1, SavedAssumption DEF SavedVignettes
  <2>3. /\ p[2].value = <<v.width>> /\ p[3].value = <<v.height>>
        /\ p[4].value = <<Written(v.cx)>> /\ p[5].value = <<Written(v.r2_max)>>
        /\ p[6].value = RoundedVignette(v).coeffs
    BY <1>3, VignettePart DEF Has, RoundedVignette
  <2>4. RoundedVignette(v).coeffs \in Seq(Numbers)
    BY <2>1, CoeffsWritten
  <2>5. Len(ks) = 5
    BY <1>3 DEF Keys
  <2> HIDE DEF p, ks, v
  <2>6. j \in 1 .. Len(ks)
    BY DEF ks
  <2>7. j + 1 = 2 \/ j + 1 = 3 \/ j + 1 = 4 \/ j + 1 = 5 \/ j + 1 = 6
    BY <2>5, <2>6
  <2>8. p[j + 1].value \in Seq(Numbers)
    BY <1>0, <1>1, <2>2, <2>3, <2>4, <2>7
  <2> QED BY <2>8 DEF p
<1>4. CASE name = "dead_pixels"
  <2>1. c.dead_pixels \in SavedMasks
    BY <1>4, SavedParts DEF Has
  <2>2. InOrder(c.dead_pixels) \in Seq(Numbers)
    BY <2>1, InOrderLists DEF SavedMasks
  <2>3. p[2].value = InOrder(c.dead_pixels)
    BY <1>4, DeadPixelsPart DEF Has
  <2>4. Len(ks) = 1
    BY <1>4 DEF Keys
  <2> HIDE DEF p
  <2>5. j + 1 = 2
    BY <2>4 DEF ks
  <2> QED BY <2>2, <2>3, <2>5 DEF p
<1> QED BY <1>2, <1>3, <1>4 DEF Names

\* What is left of a line that is cut: nothing the parser takes, or an entry with the
\* end of its list lost.
LEMMA CutLinesLose ==
  ASSUME NEW l, l.kind \in {"blank", "section", "entry"},
         l.kind = "entry" => l.value \in Seq(Numbers), NEW x \in CutLines(l)
  PROVE  \/ x.kind = "malformed"
         \/ /\ l.kind = "entry" /\ x.kind = "entry" /\ x.name = l.name
            /\ EndLost(x.value, l.value)
<1>0. \A k, v : Entry(k, v).kind = "entry" /\ Entry(k, v).name = k /\ Entry(k, v).value = v
  BY LinesHold
<1>1. Malformed.kind = "malformed"
  <2>1. \A k, n, v : Line(k, n, v).kind = k
    BY LinesHold
  <2> QED BY ONLY <2>1, Zenon DEF Malformed
<1>2. CASE l.kind = "blank"
  BY <1>2 DEF CutLines
<1>3. CASE l.kind = "section"
  BY <1>1, <1>3 DEF CutLines
<1>4. CASE l.kind = "entry"
  <2> DEFINE v == l.value  n == Len(v)  N == Numbers \cup {Garbage}
  <2>1. v \in Seq(Numbers) /\ n \in Nat
    BY <1>4
  <2>2. CASE x = Malformed
    BY <1>1, <2>2
  <2>3. ASSUME NEW k \in 0 .. n - 1, x = Entry(l.name, SubSeq(v, 1, k))
        PROVE  x.kind = "entry" /\ x.name = l.name /\ EndLost(x.value, v)
    <3>1. x.kind = "entry" /\ x.name = l.name /\ x.value = SubSeq(v, 1, k)
      BY ONLY <1>0, <2>3
    <3>2. SubSeq(v, 1, k) \in Seq(Numbers) /\ Len(SubSeq(v, 1, k)) = k
      BY <2>1
    <3>3. \A i \in 1 .. k - 1 : SubSeq(v, 1, k)[i] = v[i]
      BY <2>1
    <3>4. SubSeq(v, 1, k) \in Seq(N) /\ k <= n
      BY <2>1, <3>2
    <3> HIDE DEF v, n
    <3> QED BY <3>1, <3>2, <3>3, <3>4 DEF EndLost, n
  <2>4. ASSUME NEW k \in 1 .. n, NEW t \in N, x = Entry(l.name, Append(SubSeq(v, 1, k - 1), t))
        PROVE  x.kind = "entry" /\ x.name = l.name /\ EndLost(x.value, v)
    <3> DEFINE q == SubSeq(v, 1, k - 1)  e == Append(q, t)
    <3>0. x = Entry(l.name, e)
      BY <2>4
    <3> HIDE DEF e
    <3>1. x.kind = "entry" /\ x.name = l.name /\ x.value = e
      BY ONLY <1>0, <3>0
    <3>2. q \in Seq(N) /\ Len(q) = k - 1 /\ \A i \in 1 .. k - 1 : q[i] = v[i]
      BY <2>1
    <3> HIDE DEF q, N
    <3>3. e \in Seq(N) /\ Len(e) = Len(q) + 1 /\ \A i \in 1 .. Len(q) : e[i] = q[i]
      BY <3>2, OneBehind DEF e
    <3>4. Len(e) = k /\ k <= n /\ k \in Int
      BY <2>1, <3>2, <3>3
    <3> HIDE DEF v, n
    <3> QED BY <3>1, <3>2, <3>3, <3>4 DEF EndLost, n, N
  <2>5. \/ x = Malformed
        \/ \E k \in 0 .. n - 1 : x = Entry(l.name, SubSeq(v, 1, k))
        \/ \E k \in DOMAIN v : \E t \in CutTokens(l.name, v[k]) :
             x = Entry(l.name, Append(SubSeq(v, 1, k - 1), t))
    BY <1>4 DEF CutLines
  <2>6. DOMAIN v = 1 .. n
    BY <2>1
  <2>7. \A k, y : CutTokens(k, y) \subseteq N
    BY DEF CutTokens
  <2> QED BY <1>4, <2>2, <2>3, <2>4, <2>5, <2>6, <2>7
<1> QED BY <1>2, <1>3, <1>4

\* What is on disk is the first lines of the file, but for the last, which may be cut; the
\* lines to write are the rest.
Begun(c) ==
  /\ \E U : lines \in Seq(U) /\ todo \in Seq(U) /\ FileLines(c) \in Seq(U)
  /\ Len(lines) <= Len(FileLines(c))
  /\ \A i \in 1 .. Len(lines) :
       \/ lines[i] = FileLines(c)[i]
       \/ i = Len(lines) /\ lines[i] \in CutLines(FileLines(c)[i])
  /\ whole => /\ todo = <<>> /\ Len(lines) = Len(FileLines(c))
              /\ \A i \in 1 .. Len(lines) : lines[i] = FileLines(c)[i]
  /\ todo # <<>> => /\ Len(lines) + Len(todo) = Len(FileLines(c))
                    /\ \A i \in 1 .. Len(lines) : lines[i] = FileLines(c)[i]
                    /\ \A i \in 1 .. Len(todo) : todo[i] = FileLines(c)[Len(lines) + i]

WInv ==
  /\ edits \in Nat /\ source \in Saved \cup {Unset}
  /\ reader # "idle" => source # Unset
  /\ source = Unset => todo = <<>> /\ ~whole
  /\ \A c \in Saved : source = c /\ edits = 0 => Begun(c)

\* To open the file is to have all its lines to write.
LEMMA SaveBegun ==
  ASSUME NEW c \in Saved, SaveBegins(c)
  PROVE  Begun(c)'
<1> DEFINE F == FileLines(c)
<1>1. lines' = <<>> /\ todo' = F /\ (whole' <=> F = <<>>)
  BY DEF SaveBegins
<1>2. PICK U : F \in Seq(U)
  BY FileLaidOut DEF LaidOut
<1> HIDE DEF F
<1>3. /\ <<>> \in Seq(U) /\ Len(<<>>) = 0 /\ Len(F) \in Nat /\ (F = <<>> => Len(F) = 0)
      /\ 1 .. 0 = {} /\ \A i \in 1 .. Len(F) : 0 + i = i
  BY <1>2
<1>4. /\ \E X : lines' \in Seq(X) /\ todo' \in Seq(X) /\ F \in Seq(X)
      /\ Len(lines') <= Len(F)
      /\ \A i \in 1 .. Len(lines') : FALSE
      /\ whole' => todo' = <<>> /\ Len(lines') = Len(F)
      /\ todo' # <<>> => /\ Len(lines') + Len(todo') = Len(F)
                         /\ \A i \in 1 .. Len(todo') : todo'[i] = F[Len(lines') + i]
  BY <1>1, <1>2, <1>3
<1> QED BY <1>4 DEF Begun, F

\* To write a line is to have one less to write.
LEMMA LineBegun ==
  ASSUME NEW c \in Saved, Begun(c), WriteLine
  PROVE  Begun(c)'
<1> DEFINE F == FileLines(c)  n == Len(lines)  m == Len(todo)
<1>1. /\ todo # <<>> /\ lines' = Append(lines, Head(todo)) /\ todo' = Tail(todo)
      /\ whole' <=> todo' = <<>>
  BY DEF WriteLine
<1>2. PICK U : lines \in Seq(U) /\ todo \in Seq(U) /\ F \in Seq(U)
  BY DEF Begun
<1>3. /\ n + m = Len(F) /\ \A i \in 1 .. n : lines[i] = F[i]
      /\ \A i \in 1 .. m : todo[i] = F[n + i]
  BY <1>1 DEF Begun
<1>4. n \in Nat /\ m \in Nat /\ m # 0 /\ Head(todo) = todo[1] /\ Head(todo) \in U
  BY <1>1, <1>2
<1>5. /\ Tail(todo) \in Seq(U) /\ Len(Tail(todo)) = m - 1
      /\ \A i \in 1 .. m - 1 : Tail(todo)[i] = todo[i + 1]
  BY <1>1, <1>2
<1> HIDE DEF F, m
<1>6. /\ lines' \in Seq(U) /\ Len(lines') = n + 1 /\ \A i \in 1 .. n : lines'[i] = lines[i]
      /\ lines'[n + 1] = Head(todo)
  BY <1>1, <1>2, <1>4, OneBehind
<1> HIDE DEF n
<1>7. Head(todo) = F[n + 1]
  BY <1>3, <1>4
<1>8. \A i \in 1 .. n + 1 : lines'[i] = F[i]
  <2>1. \A i \in 1 .. n + 1 : i \in 1 .. n \/ i = n + 1
    BY <1>4
  <2> QED BY <1>3, <1>6, <1>7, <2>1
<1>9. \A i \in 1 .. m - 1 : todo'[i] = F[n + 1 + i]
  <2> TAKE i \in 1 .. m - 1
  <2>1. i + 1 \in 1 .. m /\ n + (i + 1) = n + 1 + i
    BY <1>4
  <2> QED BY <1>1, <1>3, <1>5, <2>1
<1>10. /\ todo' \in Seq(U) /\ Len(todo') = m - 1 /\ (todo' = <<>> => m - 1 = 0)
       /\ (n + 1) + (m - 1) = Len(F) /\ n + 1 <= Len(F)
  <2>1. Len(<<>>) = 0
    OBVIOUS
  <2>2. todo' \in Seq(U) /\ Len(todo') = m - 1
    BY <1>1, <1>5
  <2>3. (n + 1) + (m - 1) = Len(F) /\ n + 1 <= Len(F)
    BY <1>3, <1>4
  <2>4. todo' = <<>> => m - 1 = 0
    BY <2>1, <2>2
  <2> QED BY <2>2, <2>3, <2>4
<1>11. m - 1 = 0 => n + 1 = Len(F)
  BY <1>4, <1>10
<1> QED BY <1>1, <1>2, <1>6, <1>8, <1>9, <1>10, <1>11 DEF Begun, F

\* To stop is to leave the next line cut, or out.
LEMMA StopBegun ==
  ASSUME NEW c \in Saved, Begun(c), SaveStops
  PROVE  Begun(c)'
<1> DEFINE F == FileLines(c)  n == Len(lines)  m == Len(todo)
<1>1. /\ todo # <<>> /\ todo' = <<>> /\ whole' = whole
      /\ lines' \in {lines} \cup {Append(lines, l) : l \in CutLines(Head(todo))}
  BY DEF SaveStops
<1>2. PICK U : lines \in Seq(U) /\ todo \in Seq(U) /\ F \in Seq(U)
  BY DEF Begun
<1>3. /\ n + m = Len(F) /\ \A i \in 1 .. n : lines[i] = F[i]
      /\ \A i \in 1 .. m : todo[i] = F[n + i]
  BY <1>1 DEF Begun
<1>4. n \in Nat /\ m \in Nat /\ m # 0 /\ Head(todo) = todo[1] /\ ~whole'
  BY <1>1, <1>2 DEF Begun
<1> HIDE DEF F, m
<1>5. Head(todo) = F[n + 1] /\ n + 1 <= Len(F) /\ n <= Len(F)
  BY <1>3, <1>4
<1>6. CASE lines' = lines
  <2>1. \E X : lines' \in Seq(X) /\ todo' \in Seq(X) /\ F \in Seq(X)
    <3>1. <<>> \in Seq(U)
      OBVIOUS
    <3> QED BY <1>1, <1>2, <1>6, <3>1
  <2> HIDE DEF n
  <2>2. Len(lines') = n /\ \A i \in 1 .. n : lines'[i] = F[i]
    BY <1>3, <1>6 DEF n
  <2> QED BY <1>1, <1>4, <1>5, <2>1, <2>2 DEF Begun, F
<1>7. ASSUME NEW l \in CutLines(Head(todo)), lines' = Append(lines, l) PROVE Begun(c)'
  <2> DEFINE X == U \cup {l}
  <2>1. lines \in Seq(X) /\ F \in Seq(X) /\ <<>> \in Seq(X) /\ l \in X
    BY <1>2
  <2> HIDE DEF X
  <2>2. /\ lines' \in Seq(X) /\ Len(lines') = n + 1
        /\ \A i \in 1 .. n : lines'[i] = lines[i] /\ lines'[n + 1] = l
    BY <1>7, <2>1, OneBehind
  <2>3. lines'[n + 1] = l
    BY <1>7, <2>1, OneBehind
  <2> HIDE DEF n
  <2>4. \A i \in 1 .. n + 1 : lines'[i] = F[i] \/ (i = n + 1 /\ lines'[i] \in CutLines(F[i]))
    <3>1. \A i \in 1 .. n + 1 : i \in 1 .. n \/ i = n + 1
      BY <1>4
    <3> QED BY <1>3, <1>5, <2>2, <2>3, <3>1
  <2> QED BY <1>1, <1>4, <1>5, <2>1, <2>2, <2>4 DEF Begun, F
<1> QED BY <1>1, <1>6, <1>7

\* The file is what was begun to be written, until it is edited.
LEMMA WriterKeeps ==
  ASSUME WInv, [FileNext]_fileVars
  PROVE  WInv'
<1>0. \A c \in Saved : c # Unset
  BY SavedAssumption
<1>1. ASSUME NEW c \in Saved, SaveBegins(c) PROVE WInv'
  <2>1. source' = c /\ edits' = 0 /\ reader' = reader /\ reader = "idle"
    BY <1>1 DEF SaveBegins, readVars, Quiet
  <2>2. Begun(c)'
    BY <1>1, SaveBegun
  <2> QED BY <1>0, <2>1, <2>2 DEF WInv
<1>2. CASE WriteLine
  <2>1. source' = source /\ edits' = edits /\ reader' = reader /\ todo # <<>>
    BY <1>2 DEF WriteLine, readVars
  <2>2. \A c \in Saved : source' = c /\ edits' = 0 => Begun(c)'
    BY <1>2, <2>1, LineBegun DEF WInv
  <2> QED BY <2>1, <2>2 DEF WInv
<1>3. CASE SaveStops
  <2>1. source' = source /\ edits' = edits /\ reader' = reader /\ todo # <<>>
    BY <1>3 DEF SaveStops, readVars
  <2>2. \A c \in Saved : source' = c /\ edits' = 0 => Begun(c)'
    BY <1>3, <2>1, StopBegun DEF WInv
  <2> QED BY <2>1, <2>2 DEF WInv
<1>4. CASE Edit
  <2>1. edits \in Nat /\ edits' = edits + 1
    BY <1>4 DEF Edit, WInv
  <2>2. edits' \in Nat /\ edits' # 0
    BY <2>1
  <2>3. UNCHANGED <<todo, source, whole>> /\ reader' = reader
    BY <1>4 DEF Edit, readVars
  <2> QED BY <2>2, <2>3 DEF WInv
<1>5. CASE UNCHANGED writeVars /\ (reader' # "idle" => source # Unset)
  <2>1. UNCHANGED <<lines, todo, source, whole, edits>>
    BY <1>5 DEF writeVars
  <2>2. \A c \in Saved : Begun(c)' <=> Begun(c)
    BY <2>1 DEF Begun
  <2> QED BY <1>5, <2>1, <2>2 DEF WInv
<1>6. ASSUME \/ LoadBegins \/ ParseBlank \/ ParseHeader \/ ParseEntry \/ ParseThrows
             \/ Load \/ LoadThrows \/ LoadEnds \/ UNCHANGED fileVars
      PROVE  UNCHANGED writeVars /\ (reader' # "idle" => source # Unset)
  <2>1. UNCHANGED writeVars
    BY <1>6 DEF LoadBegins, ParseBlank, ParseHeader, ParseEntry, ParseThrows, Parses, Load,
       LoadThrows, LoadEnds, fileVars
  <2>2. LoadBegins \/ (reader' # "idle" => reader # "idle")
    BY <1>6 DEF ParseBlank, ParseHeader, ParseEntry, ParseThrows, Parses, Load, LoadThrows,
       LoadEnds, Parsed, fileVars, readVars
  <2>3. LoadBegins => source # Unset
    BY DEF LoadBegins
  <2> QED BY <2>1, <2>2, <2>3 DEF WInv
<1> QED BY <1>1, <1>2, <1>3, <1>4, <1>5, <1>6 DEF FileNext

\* At first there is no file.
LEMMA WriterStarts == FileInit => WInv
<1> SUFFICES ASSUME FileInit PROVE WInv
  OBVIOUS
<1>1. source = Unset /\ todo = <<>> /\ whole = FALSE /\ edits = 0 /\ reader = "idle"
  BY Zenon DEF FileInit
<1>2. \A c \in Saved : source # c
  BY ONLY <1>1, SavedAssumption
<1> QED BY ONLY <1>1, <1>2 DEF WInv

-----------------------------------------------------------------------------
(* A load of it.                                                           *)

\* No line of a file that is written is one that the parser refuses.
LEMMA FileLineKinds ==
  ASSUME NEW c \in Saved, NEW i \in 1 .. Len(FileLines(c))
  PROVE  /\ FileLines(c)[i].kind \in {"blank", "section", "entry"}
         /\ FileLines(c)[i].kind = "entry" => FileLines(c)[i].value \in Seq(Numbers)
<1>1. CASE i \in 1 .. Comments
  <2>1. FileLines(c)[i].kind = "blank"
    BY <1>1, CommentKinds
  <2> QED BY <2>1
<1>2. CASE i \notin 1 .. Comments
  <2>1. PICK name \in Names : \E j \in 1 .. Size(c, name) : i = Start(c, name) + j
    BY <1>2, LinePlaces
  <2>2. PICK j \in 1 .. Size(c, name) : i = Start(c, name) + j
    BY <2>1
  <2>3. /\ Has(c, name) /\ Len(Keys(c, name)) \in Nat /\ FileLines(c)[i] = Part(c, name)[j]
        /\ FileLines(c)[i].kind \in {"blank", "section", "entry"}
        /\ FileLines(c)[i].kind = "entry" <=> j \in 2 .. Len(Keys(c, name)) + 1
    BY <2>2, LineKinds
  <2>4. ASSUME j \in 2 .. Len(Keys(c, name)) + 1 PROVE Part(c, name)[j].value \in Seq(Numbers)
    <3>1. j - 1 \in 1 .. Len(Keys(c, name)) /\ (j - 1) + 1 = j
      BY <2>3, <2>4
    <3>2. Part(c, name)[(j - 1) + 1].value \in Seq(Numbers)
      BY <2>3, <3>1, ValuesAreNumbers
    <3> QED BY <3>1, <3>2
  <2> QED BY <2>3, <2>4
<1> QED BY <1>1, <1>2

\* Lines that the parser takes are as written, but for the last, which may have lost its end.
LEMMA LinesFollow ==
  ASSUME NEW c \in Saved, Begun(c), NEW n \in 0 .. Len(lines),
         \A i \in 1 .. n : lines[i].kind # "malformed"
  PROVE  /\ Follows(n, c) /\ Len(lines) \in Nat
         /\ \A i \in 1 .. n :
              \/ lines[i] = FileLines(c)[i]
              \/ /\ i = Len(lines) /\ FileLines(c)[i].kind = "entry"
                 /\ EndLost(lines[i].value, FileLines(c)[i].value)
<1> DEFINE F == FileLines(c)
<1>1. Len(lines) \in Nat /\ Len(F) \in Nat /\ Len(lines) <= Len(F)
  <2>1. PICK U : lines \in Seq(U) /\ F \in Seq(U)
    BY DEF Begun
  <2> QED BY <2>1 DEF Begun
<1>2. ASSUME NEW i \in 1 .. n
      PROVE  \/ lines[i] = F[i]
             \/ /\ i = Len(lines) /\ F[i].kind = "entry" /\ lines[i].kind = "entry"
                /\ lines[i].name = F[i].name /\ EndLost(lines[i].value, F[i].value)
  <2>1. i \in 1 .. Len(lines) /\ i \in 1 .. Len(F)
    BY <1>1
  <2>2. CASE lines[i] # F[i]
    <3>1. i = Len(lines) /\ lines[i] \in CutLines(F[i])
      BY <2>1, <2>2 DEF Begun
    <3>2. /\ F[i].kind \in {"blank", "section", "entry"}
          /\ F[i].kind = "entry" => F[i].value \in Seq(Numbers)
      BY <2>1, FileLineKinds
    <3>3. lines[i].kind # "malformed"
      OBVIOUS
    <3> HIDE DEF F
    <3>4. /\ F[i].kind = "entry" /\ lines[i].kind = "entry"
          /\ lines[i].name = F[i].name /\ EndLost(lines[i].value, F[i].value)
      BY <3>1, <3>2, <3>3, CutLinesLose
    <3> QED BY <3>1, <3>4
  <2> QED BY <2>2
<1>3. n \in 0 .. Len(F)
  BY <1>1
<1> HIDE DEF F
<1>4. \A i \in 1 .. n : lines[i].kind = F[i].kind /\ lines[i].name = F[i].name
  BY <1>2
<1> QED BY <1>1, <1>2, <1>3, <1>4 DEF Follows, F

\* What the parser has after some of these lines.
LEMMA KeysParsed ==
  ASSUME FileInv, reader = "parsing", NEW c \in Saved, Follows(pos, c), NEW name \in Names
  PROVE  /\ name \in DOMAIN sections <=> Has(c, name) /\ Start(c, name) < pos
         /\ name \in DOMAIN sections =>
              /\ \A key \in DOMAIN sections[name] :
                   \E j \in 1 .. Len(Keys(c, name)) : key = Keys(c, name)[j]
              /\ \A j \in 1 .. Len(Keys(c, name)) :
                   /\ Keys(c, name)[j] \in DOMAIN sections[name] <=> Start(c, name) + 1 + j <= pos
                   /\ Keys(c, name)[j] \in DOMAIN sections[name] =>
                        sections[name][Keys(c, name)[j]] = lines[Start(c, name) + 1 + j].value
<1>1. /\ DOMAIN sections = Opened(pos)
      /\ \A s \in DOMAIN sections : \A key : LastValue(s, key, pos)
  BY DEF FileInv
<1>2. name \in DOMAIN sections <=> Has(c, name) /\ Start(c, name) < pos
  BY <1>1, SectionsOpened
<1>3. ASSUME name \in DOMAIN sections
      PROVE  /\ \A key \in DOMAIN sections[name] :
                   \E j \in 1 .. Len(Keys(c, name)) : key = Keys(c, name)[j]
             /\ \A j \in 1 .. Len(Keys(c, name)) :
                   /\ Keys(c, name)[j] \in DOMAIN sections[name] <=> Start(c, name) + 1 + j <= pos
                   /\ Keys(c, name)[j] \in DOMAIN sections[name] =>
                        sections[name][Keys(c, name)[j]] = lines[Start(c, name) + 1 + j].value
  <2> DEFINE sec == sections[name]  ks == Keys(c, name)  s == Start(c, name)
             L(key) == LinesFor(pos, name, key)
  <2>1. \A key : /\ key \in DOMAIN sec <=> L(key) # {}
                 /\ L(key) # {} => sec[key] = lines[Max(L(key))].value
    BY <1>1, <1>3 DEF LastValue
  <2>2. Has(c, name)
    BY <1>2, <1>3
  <2>31. ASSUME NEW j \in 1 .. Len(ks), s + 1 + j <= pos PROVE L(ks[j]) = {s + 1 + j}
    BY <2>2, <2>31, KeyLines
  <2>32. ASSUME NEW j \in 1 .. Len(ks), s + 1 + j > pos PROVE L(ks[j]) = {}
    BY <2>2, <2>32, KeyLines
  <2>33. ASSUME NEW key, L(key) # {} PROVE \E j \in 1 .. Len(ks) : key = ks[j]
    BY <2>2, <2>33, KeyLines
  <2>3. /\ \A j \in 1 .. Len(ks) : /\ s + 1 + j <= pos => L(ks[j]) = {s + 1 + j}
                                   /\ s + 1 + j > pos => L(ks[j]) = {}
        /\ \A key : L(key) # {} => \E j \in 1 .. Len(ks) : key = ks[j]
    BY <2>31, <2>32, <2>33
  <2>4. s \in Nat
    BY StartsAreNumbers
  <2>5. \A x \in Int : Max({x}) = x
    BY DEF Max
  <2> HIDE DEF sec, ks, s, L
  <2>6. \A j \in 1 .. Len(ks) : /\ ks[j] \in DOMAIN sec <=> s + 1 + j <= pos
                                /\ ks[j] \in DOMAIN sec => sec[ks[j]] = lines[s + 1 + j].value
    <3> SUFFICES ASSUME NEW j \in 1 .. Len(ks)
                 PROVE  /\ ks[j] \in DOMAIN sec <=> s + 1 + j <= pos
                        /\ ks[j] \in DOMAIN sec => sec[ks[j]] = lines[s + 1 + j].value
      OBVIOUS
    <3>1. CASE s + 1 + j <= pos
      <4>1. s + 1 + j \in Int
        BY <2>4
      <4>2. L(ks[j]) = {s + 1 + j} /\ Max({s + 1 + j}) = s + 1 + j
        BY <2>3, <2>5, <3>1, <4>1
      <4>3. L(ks[j]) # {} /\ Max(L(ks[j])) = s + 1 + j
        BY <4>2
      <4> QED BY <2>1, <3>1, <4>3
    <3>2. CASE ~(s + 1 + j <= pos)
      <4>1. s + 1 + j > pos
        BY <2>4, <3>2 DEF FileInv
      <4> QED BY <2>1, <2>3, <3>2, <4>1
    <3> QED BY <3>1, <3>2
  <2>7. \A key \in DOMAIN sec : \E j \in 1 .. Len(ks) : key = ks[j]
    BY <2>1, <2>3
  <2> QED BY <2>6, <2>7 DEF sec, ks, s
<1> QED BY <1>2, <1>3

\* The lines that were parsed can be.
RInv == reader = "parsing" => \A i \in 1 .. pos : lines[i].kind # "malformed"

\* At its end, the parser has read of each section of the file what is there.
LEMMA SectionsRead ==
  ASSUME FileInv, RInv, Parsed, NEW c \in Saved, Begun(c), NEW name \in Names
  PROVE  /\ name \in DOMAIN sections <=> Has(c, name) /\ Start(c, name) < Len(lines)
         /\ name \in DOMAIN sections => ReadsSome(sections[name], c, name)
         /\ name \in DOMAIN sections /\ Start(c, name) + Size(c, name) <= Len(lines) =>
              ReadsAll(sections[name], c, name)
<1> DEFINE n == Len(lines)  s == Start(c, name)  ks == Keys(c, name)  F == FileLines(c)
           p == Part(c, name)  sec == sections[name]
<1>1. pos = n /\ reader = "parsing" /\ n \in Nat /\ n \in 0 .. Len(lines)
  <2>1. pos = n /\ pos \in Nat /\ reader = "parsing"
    BY DEF Parsed, FileInv
  <2> QED BY <2>1
<1>2. \A i \in 1 .. n : lines[i].kind # "malformed"
  BY <1>1 DEF RInv
<1>3. /\ Follows(n, c)
      /\ \A i \in 1 .. n : \/ lines[i] = F[i]
                           \/ i = n /\ F[i].kind = "entry" /\ EndLost(lines[i].value, F[i].value)
  BY <1>1, <1>2, LinesFollow
<1>4. /\ name \in DOMAIN sections <=> Has(c, name) /\ s < n
      /\ name \in DOMAIN sections =>
           /\ \A key \in DOMAIN sec : \E j \in 1 .. Len(ks) : key = ks[j]
           /\ \A j \in 1 .. Len(ks) : /\ ks[j] \in DOMAIN sec <=> s + 1 + j <= n
                                      /\ ks[j] \in DOMAIN sec => sec[ks[j]] = lines[s + 1 + j].value
  BY <1>1, <1>3, KeysParsed
<1>5. ASSUME name \in DOMAIN sections
      PROVE  /\ ReadsSome(sec, c, name)
             /\ s + Size(c, name) <= n => ReadsAll(sec, c, name)
  <2>1. Has(c, name) /\ s \in Nat /\ Len(ks) \in Nat /\ Size(c, name) = Len(ks) + 2
    BY <1>4, <1>5, StartsAreNumbers, PartSizes DEF Size, Section
  <2>2. ASSUME NEW j \in 1 .. Len(ks)
        PROVE  F[s + 1 + j] = p[j + 1] /\ p[j + 1].value \in Seq(Numbers)
    <3>1. j + 1 \in 1 .. Size(c, name) /\ s + (j + 1) = s + 1 + j
      BY <2>1
    <3>2. F[s + (j + 1)] = p[j + 1]
      BY <3>1, LineKinds
    <3>3. p[j + 1].value \in Seq(Numbers)
      BY <2>1, ValuesAreNumbers
    <3> QED BY <3>1, <3>2, <3>3
  <2> HIDE DEF F, p, ks, s, sec
  <2>3. \A v \in Seq(Numbers) : EndLost(v, v)
    <3> SUFFICES ASSUME NEW v \in Seq(Numbers) PROVE EndLost(v, v)
      OBVIOUS
    <3>1. v \in Seq(Numbers \cup {Garbage}) /\ Len(v) \in Nat
      OBVIOUS
    <3> QED BY <3>1 DEF EndLost
  <2>4. ASSUME NEW j \in 1 .. Len(ks), s + 1 + j <= n
        PROVE  /\ ks[j] \in DOMAIN sec /\ EndLost(sec[ks[j]], p[j + 1].value)
               /\ s + 1 + j < n => sec[ks[j]] = p[j + 1].value
    <3>1. ks[j] \in DOMAIN sec /\ sec[ks[j]] = lines[s + 1 + j].value
      BY <1>4, <1>5, <2>4
    <3>2. s + 1 + j \in 1 .. n
      BY <1>1, <2>1, <2>4
    <3>3. F[s + 1 + j] = p[j + 1] /\ EndLost(p[j + 1].value, p[j + 1].value)
      BY <2>2, <2>3
    <3>4. CASE lines[s + 1 + j] = F[s + 1 + j]
      BY <3>1, <3>3, <3>4
    <3>5. CASE s + 1 + j = n /\ EndLost(lines[s + 1 + j].value, F[s + 1 + j].value)
      BY <3>1, <3>3, <3>5
    <3> QED BY <1>3, <3>2, <3>4, <3>5
  <2>5. ReadsSome(sec, c, name)
    <3>1. ASSUME NEW j \in 1 .. Len(ks), ks[j] \in DOMAIN sec
          PROVE  /\ EndLost(sec[ks[j]], p[j + 1].value)
                 /\ \A k \in 1 .. j - 1 : ks[k] \in DOMAIN sec /\ sec[ks[k]] = p[k + 1].value
      <4>1. s + 1 + j <= n
        BY <1>4, <1>5, <3>1
      <4>2. ASSUME NEW k \in 1 .. j - 1 PROVE k \in 1 .. Len(ks) /\ s + 1 + k < n
        BY <1>1, <2>1, <4>1
      <4>3. \A k \in 1 .. j - 1 : ks[k] \in DOMAIN sec /\ sec[ks[k]] = p[k + 1].value
        <5> TAKE k \in 1 .. j - 1
        <5>1. k \in 1 .. Len(ks) /\ s + 1 + k < n /\ s + 1 + k <= n
          BY <1>1, <2>1, <4>2
        <5> QED BY <2>4, <5>1
      <4> QED BY <2>4, <4>1, <4>3
    <3> QED BY <1>4, <1>5, <3>1 DEF ReadsSome, ks, p
  <2>6. ASSUME s + Size(c, name) <= n PROVE ReadsAll(sec, c, name)
    <3>1. ASSUME NEW j \in 1 .. Len(ks) PROVE ks[j] \in DOMAIN sec /\ sec[ks[j]] = p[j + 1].value
      <4>1. s + 1 + j < n /\ s + 1 + j <= n
        BY <1>1, <2>1, <2>6
      <4> QED BY <2>4, <4>1
    <3> QED BY <1>4, <1>5, <3>1 DEF ReadsAll, ks, p
  <2> QED BY <2>5, <2>6 DEF s
<1> QED BY <1>4, <1>5

\* A rounded section is one to save; saved again, it gives the same lines.
LEMMA RoundedTemperatureAgain ==
  ASSUME NEW t \in SavedTemperatures
  PROVE  /\ RoundedTemperature(t) \in SavedTemperatures /\ RoundedTemperature(t) # Unset
         /\ writeTemperatureSection(RoundedTemperature(t)) = writeTemperatureSection(t)
<1> DEFINE r == RoundedTemperature(t)  pad == t.pad_ref
<1>1. t.c0 \in Writable /\ t.c1 \in Writable /\ pad \in Writable \cup {NaN}
  BY DEF SavedTemperatures
<1>2. /\ Written(t.c0) \in Writable /\ Written(Written(t.c0)) = Written(t.c0)
      /\ Written(t.c1) \in Writable /\ Written(Written(t.c1)) = Written(t.c1)
  BY <1>1, WritableNumbers
<1>3. pad # NaN => /\ Written(pad) \in Writable /\ Written(Written(pad)) = Written(pad)
                   /\ Written(pad) # NaN
  BY <1>1, WritableNumbers, SavedAssumption
<1>4. /\ r = [c0 |-> Written(t.c0), c1 |-> Written(t.c1), pad_ref |-> r.pad_ref]
      /\ r.pad_ref = IF pad = NaN THEN NaN ELSE Written(pad)
  BY DEF RoundedTemperature
<1>5. r \in SavedTemperatures
  <2>1. r.pad_ref \in Writable \cup {NaN}
    BY <1>3, <1>4
  <2> HIDE DEF r
  <2> QED BY <1>2, <1>4, <2>1 DEF SavedTemperatures
<1>6. r # Unset
  BY <1>5, SavedAssumption
<1>7. r.c0 = Written(t.c0) /\ r.c1 = Written(t.c1)
  BY DEF RoundedTemperature
<1> HIDE DEF r
<1>8. Scalar("c0", r.c0) = Scalar("c0", t.c0) /\ Scalar("c1", r.c1) = Scalar("c1", t.c1)
  BY <1>2, <1>7 DEF Scalar
<1>9. pad # NaN => Scalar("pad_ref", r.pad_ref) = Scalar("pad_ref", pad)
  BY <1>3, <1>4 DEF Scalar
<1>10. r.pad_ref = NaN <=> pad = NaN
  BY <1>3, <1>4
<1>11. writeTemperatureSection(r) = writeTemperatureSection(t)
  <2>1. CASE pad = NaN
    BY <1>8, <1>10, <2>1 DEF writeTemperatureSection
  <2>2. CASE pad # NaN
    BY <1>8, <1>9, <1>10, <2>2 DEF writeTemperatureSection
  <2> QED BY <2>1, <2>2
<1> QED BY <1>5, <1>6, <1>11 DEF r

\* Writing a rounded vignette writes the same lines.
LEMMA RoundedVignetteAgain ==
  ASSUME NEW v \in SavedVignettes
  PROVE  /\ RoundedVignette(v) # Unset
         /\ writeVignetteSection(RoundedVignette(v)) = writeVignetteSection(v)
<1> DEFINE r == RoundedVignette(v)  q == v.coeffs  w == r.coeffs
<1>1. /\ v.cx \in Writable /\ v.r2_max \in Writable /\ v.width = FrameSize /\ v.height = FrameSize
      /\ q \in Seq(Writable) /\ q # <<>>
  BY DEF SavedVignettes
<1>2. /\ Written(v.cx) \in Writable /\ Written(Written(v.cx)) = Written(v.cx)
      /\ Written(v.r2_max) \in Writable /\ Written(Written(v.r2_max)) = Written(v.r2_max)
  BY <1>1, WritableNumbers
<1>3. /\ r = [width |-> v.width, height |-> v.height, cx |-> Written(v.cx),
              r2_max |-> Written(v.r2_max), coeffs |-> w]
      /\ w = [i \in DOMAIN q |-> Written(q[i])]
      /\ r.width = v.width /\ r.height = v.height
      /\ r.cx = Written(v.cx) /\ r.r2_max = Written(v.r2_max)
  BY DEF RoundedVignette
<1> HIDE DEF r, w, q
<1>4. /\ DOMAIN q = 1 .. Len(q) /\ Len(q) \in Nat /\ Len(q) # 0
      /\ \A i \in 1 .. Len(q) : q[i] \in Writable
  BY <1>1
<1>5. /\ DOMAIN w = 1 .. Len(q)
      /\ \A i \in 1 .. Len(q) : w[i] = Written(q[i]) /\ w[i] \in Writable /\ Written(w[i]) = w[i]
  BY <1>3, <1>4, WritableNumbers
<1>6. w \in Seq(Writable) /\ w # <<>>
  <2>1. w \in [1 .. Len(q) -> Writable]
    BY <1>3, <1>4, <1>5
  <2> QED BY <1>4, <2>1
<1>7. [i \in DOMAIN w |-> Written(w[i])] = w
  BY <1>3, <1>4, <1>5
<1>8. r \in SavedVignettes
  <2>1. w \in Seq(Writable) \ {<<>>}
    BY <1>6
  <2> QED BY <1>1, <1>2, <1>3, <2>1 DEF SavedVignettes
<1>9. r # Unset
  BY <1>8, SavedAssumption
<1>10. /\ Scalar("cx", r.cx) = Scalar("cx", v.cx)
       /\ Scalar("r2_max", r.r2_max) = Scalar("r2_max", v.r2_max)
  BY <1>2, <1>3 DEF Scalar
<1>11. [i \in DOMAIN r.coeffs |-> Written(r.coeffs[i])]
       = [i \in DOMAIN v.coeffs |-> Written(v.coeffs[i])]
  BY <1>3, <1>7 DEF w, q
<1>12. writeVignetteSection(r) = writeVignetteSection(v)
  BY <1>3, <1>10, <1>11 DEF writeVignetteSection
<1> QED BY <1>9, <1>12 DEF r

\* Writing a rounded calibration writes the same lines, of the same sections.
LEMMA RoundedAgain ==
  ASSUME NEW c \in Saved
  PROVE  /\ FileLines(Rounded(c)) = FileLines(c)
         /\ \A name \in Names : Has(c, name) <=> Rounded(c)[name] # Unset
<1> DEFINE r == Rounded(c)
<1>1. /\ r.temperature = IF c.temperature = Unset THEN Unset ELSE RoundedTemperature(c.temperature)
      /\ r.vignette = IF c.vignette = Unset THEN Unset ELSE RoundedVignette(c.vignette)
      /\ r.dead_pixels = c.dead_pixels
  BY DEF Rounded
<1> HIDE DEF r
<1>2. /\ c.temperature # Unset => c.temperature \in SavedTemperatures
      /\ c.vignette # Unset => c.vignette \in SavedVignettes
  BY SavedParts
<1>3. /\ r.temperature = Unset <=> c.temperature = Unset
      /\ IfSet(r.temperature, writeTemperatureSection(r.temperature)) =
           IfSet(c.temperature, writeTemperatureSection(c.temperature))
  BY <1>1, <1>2, RoundedTemperatureAgain DEF IfSet
<1>4. /\ r.vignette = Unset <=> c.vignette = Unset
      /\ IfSet(r.vignette, writeVignetteSection(r.vignette)) =
           IfSet(c.vignette, writeVignetteSection(c.vignette))
  BY <1>1, <1>2, RoundedVignetteAgain DEF IfSet
<1>5. FileLines(r) = FileLines(c)
  BY <1>1, <1>3, <1>4 DEF FileLines
<1>6. \A name \in Names : Has(c, name) <=> r[name] # Unset
  BY <1>1, <1>3, <1>4 DEF Has, Names
<1> QED BY <1>5, <1>6 DEF r

\* What a load that succeeds makes of each section.
LEMMA LoadsEach ==
  ASSUME Load
  PROVE  /\ "temperature" \in DOMAIN sections =>
              /\ TemperatureLoads(sections["temperature"])
              /\ loaded'.temperature = parseTemperatureSection(sections["temperature"])
         /\ "vignette" \in DOMAIN sections =>
              /\ VignetteLoads(sections["vignette"])
              /\ loaded'.vignette = parseVignetteSection(sections["vignette"])
         /\ "dead_pixels" \in DOMAIN sections =>
              /\ DeadPixelsLoad(sections["dead_pixels"])
              /\ loaded'.dead_pixels = parseDeadPixelsSection(sections["dead_pixels"])
         /\ \A name \in Names : name \notin DOMAIN sections => loaded'[name] = Unset
         /\ loaded' = [temperature |-> loaded'.temperature, vignette |-> loaded'.vignette,
                       dead_pixels |-> loaded'.dead_pixels]
<1> DEFINE Value(name) ==
             IF name \notin DOMAIN sections THEN Unset
             ELSE CASE name = "temperature" -> parseTemperatureSection(sections[name])
                    [] name = "vignette" -> parseVignetteSection(sections[name])
                    [] name = "dead_pixels" -> parseDeadPixelsSection(sections[name])
<1>1. loaded' = [name \in Names |-> Value(name)] /\ \A name \in Names : SectionLoads(name)
  BY DEF Load
<1>2. "temperature" \in Names /\ "vignette" \in Names /\ "dead_pixels" \in Names
  BY DEF Names
<1>3. /\ "temperature" \in DOMAIN sections =>
           /\ TemperatureLoads(sections["temperature"])
           /\ Value("temperature") = parseTemperatureSection(sections["temperature"])
      /\ "vignette" \in DOMAIN sections =>
           /\ VignetteLoads(sections["vignette"])
           /\ Value("vignette") = parseVignetteSection(sections["vignette"])
      /\ "dead_pixels" \in DOMAIN sections =>
           /\ DeadPixelsLoad(sections["dead_pixels"])
           /\ Value("dead_pixels") = parseDeadPixelsSection(sections["dead_pixels"])
  <2>1. SectionLoads("temperature") /\ SectionLoads("vignette") /\ SectionLoads("dead_pixels")
    BY <1>1, <1>2
  <2> QED BY <2>1 DEF SectionLoads
<1>4. \A name \in Names : name \notin DOMAIN sections => Value(name) = Unset
  OBVIOUS
<1> HIDE DEF Value
<1>5. \A name \in Names : loaded'[name] = Value(name)
  BY <1>1
<1>6. loaded' = [temperature |-> Value("temperature"), vignette |-> Value("vignette"),
                 dead_pixels |-> Value("dead_pixels")]
  BY <1>1 DEF Names
<1> QED BY <1>2, <1>3, <1>4, <1>5, <1>6

\* A file that is whole is loaded as it was saved, or not at all.
LEMMA LoadsWhole ==
  ASSUME FileInv, RInv, Parsed, NEW c \in Saved, Begun(c), whole
  PROVE  /\ (\A name \in Names : SectionLoads(name)) <=> Reloads(c)
         /\ Load => loaded' = Rounded(c)
<1>1. ASSUME NEW name \in Names
      PROVE  /\ name \in DOMAIN sections <=> Has(c, name)
             /\ name \in DOMAIN sections => ReadsAll(sections[name], c, name)
  <2>1. Len(lines) = Len(FileLines(c))
    BY DEF Begun
  <2>2. /\ Start(c, name) \in Nat /\ Size(c, name) \in Nat
        /\ Start(c, name) + Size(c, name) <= Len(lines)
    BY <2>1, StartsAreNumbers, PartSizes
  <2>3. /\ name \in DOMAIN sections <=> Has(c, name) /\ Start(c, name) < Len(lines)
        /\ name \in DOMAIN sections => ReadsAll(sections[name], c, name)
    BY <2>2, SectionsRead
  <2>4. Has(c, name) => Start(c, name) < Len(lines)
    <3> SUFFICES ASSUME Has(c, name) PROVE Start(c, name) < Len(lines)
      OBVIOUS
    <3>1. Len(Keys(c, name)) \in Nat /\ Size(c, name) = Len(Keys(c, name)) + 2
      BY PartSizes DEF Section, Size
    <3>2. \E U : lines \in Seq(U)
      BY DEF Begun
    <3>3. Len(lines) \in Nat
      BY <3>2
    <3> QED BY <2>2, <3>1, <3>3
  <2> QED BY <2>3, <2>4
<1>2. "temperature" \in Names /\ "vignette" \in Names /\ "dead_pixels" \in Names
  BY DEF Names
<1>3. ASSUME "temperature" \in DOMAIN sections
      PROVE  /\ c.temperature # Unset
             /\ TemperatureLoads(sections["temperature"]) <=> c.temperature.pad_ref # NaN
             /\ TemperatureLoads(sections["temperature"]) =>
                  parseTemperatureSection(sections["temperature"])
                  = RoundedTemperature(c.temperature)
  <2>1. c.temperature # Unset /\ ReadsAll(sections["temperature"], c, "temperature")
    BY <1>1, <1>2, <1>3 DEF Has
  <2> QED BY <2>1, TemperatureAll
<1>4. ASSUME "vignette" \in DOMAIN sections
      PROVE  /\ c.vignette # Unset /\ VignetteLoads(sections["vignette"])
             /\ parseVignetteSection(sections["vignette"]) = RoundedVignette(c.vignette)
  <2>1. c.vignette # Unset /\ ReadsAll(sections["vignette"], c, "vignette")
    BY <1>1, <1>2, <1>4 DEF Has
  <2> QED BY <2>1, VignetteAll
<1>5. ASSUME "dead_pixels" \in DOMAIN sections
      PROVE  /\ c.dead_pixels # Unset /\ DeadPixelsLoad(sections["dead_pixels"])
             /\ parseDeadPixelsSection(sections["dead_pixels"]) = c.dead_pixels
  <2>1. c.dead_pixels # Unset /\ ReadsAll(sections["dead_pixels"], c, "dead_pixels")
    BY <1>1, <1>2, <1>5 DEF Has
  <2> QED BY <2>1, DeadPixelsAll
<1>6. (\A name \in Names : SectionLoads(name)) <=> Reloads(c)
  <2>1. "temperature" \in DOMAIN sections <=> c.temperature # Unset
    BY <1>1, <1>2 DEF Has
  <2>2. SectionLoads("vignette") /\ SectionLoads("dead_pixels")
    BY <1>4, <1>5 DEF SectionLoads
  <2>3. SectionLoads("temperature") <=> Reloads(c)
    BY <1>3, <2>1 DEF SectionLoads, Reloads
  <2> QED BY <1>2, <2>2, <2>3 DEF Names
<1>7. ASSUME Load PROVE loaded' = Rounded(c)
  <2>1. loaded'.temperature = IF c.temperature = Unset THEN Unset
                                                       ELSE RoundedTemperature(c.temperature)
    BY <1>1, <1>2, <1>3, <1>7, LoadsEach DEF Has
  <2>2. loaded'.vignette = IF c.vignette = Unset THEN Unset ELSE RoundedVignette(c.vignette)
    BY <1>1, <1>2, <1>4, <1>7, LoadsEach DEF Has
  <2>3. loaded'.dead_pixels = c.dead_pixels
    BY <1>1, <1>2, <1>5, <1>7, LoadsEach DEF Has
  <2>4. loaded' = [temperature |-> loaded'.temperature, vignette |-> loaded'.vignette,
                   dead_pixels |-> loaded'.dead_pixels]
    BY <1>7, LoadsEach
  <2> QED BY <2>1, <2>2, <2>3, <2>4 DEF Rounded
<1> QED BY <1>6, <1>7

\* A file that was cut is loaded without its end.
LEMMA LoadsTorn ==
  ASSUME FileInv, RInv, Load, NEW c \in Saved, Begun(c)
  PROVE  LET l == loaded'  r == Rounded(c)
         IN  /\ l.temperature # Unset =>
                  /\ r.temperature # Unset
                  /\ l.temperature.c0 = r.temperature.c0 /\ l.temperature.c1 = r.temperature.c1
             /\ l.vignette # Unset =>
                  /\ r.vignette # Unset /\ l.temperature = r.temperature
                  /\ [l.vignette EXCEPT !.coeffs = <<>>] = [r.vignette EXCEPT !.coeffs = <<>>]
                  /\ IsPrefix(Front(l.vignette.coeffs), r.vignette.coeffs)
             /\ l.dead_pixels # Unset =>
                  /\ r.dead_pixels # Unset
                  /\ l.temperature = r.temperature /\ l.vignette = r.vignette
                  /\ Cardinality(l.dead_pixels \ r.dead_pixels) <= 1
<1> DEFINE n == Len(lines)  t == Size(c, "temperature")  v == Size(c, "vignette")  r == Rounded(c)
<1>1. "temperature" \in Names /\ "vignette" \in Names /\ "dead_pixels" \in Names /\ Parsed
  BY DEF Names, Load
<1>2. \A name \in Names :
        /\ name \in DOMAIN sections <=> Has(c, name) /\ Start(c, name) < n
        /\ name \in DOMAIN sections => ReadsSome(sections[name], c, name)
        /\ name \in DOMAIN sections /\ Start(c, name) + Size(c, name) <= n =>
             ReadsAll(sections[name], c, name)
  BY <1>1, SectionsRead
<1>3. /\ Start(c, "temperature") = Comments /\ Start(c, "vignette") = Comments + t
      /\ Start(c, "dead_pixels") = Comments + t + v /\ Comments \in Nat /\ t \in Nat /\ v \in Nat
  BY <1>1, FileAssumption, PartSizes DEF Start
<1>4. (Has(c, "temperature") => t > 0) /\ (Has(c, "vignette") => v > 0)
  BY <1>1, PartSizes DEF Size, Section
<1>5. n \in Nat
  <2>1. \E U : lines \in Seq(U)
    BY DEF Begun
  <2> QED BY <2>1
<1>6. /\ r.temperature = IF c.temperature = Unset THEN Unset ELSE RoundedTemperature(c.temperature)
      /\ r.vignette = IF c.vignette = Unset THEN Unset ELSE RoundedVignette(c.vignette)
      /\ r.dead_pixels = c.dead_pixels
      /\ \A name \in Names : Has(c, name) <=> r[name] # Unset
  BY RoundedAgain DEF Rounded
<1> HIDE DEF n, t, v, r
<1>7. ASSUME Comments + t < n PROVE loaded'.temperature = r.temperature
  <2>1. "temperature" \in DOMAIN sections <=> Has(c, "temperature")
    BY <1>1, <1>2, <1>3, <1>5, <1>7
  <2>2. "temperature" \in DOMAIN sections => ReadsAll(sections["temperature"], c, "temperature")
    BY <1>1, <1>2, <1>3, <1>5, <1>7 DEF t
  <2>3. CASE "temperature" \in DOMAIN sections
    BY <1>6, <2>1, <2>2, <2>3, LoadsEach, TemperatureAll DEF Has
  <2>4. CASE "temperature" \notin DOMAIN sections
    BY <1>1, <1>6, <2>1, <2>4, LoadsEach DEF Has
  <2> QED BY <2>3, <2>4
<1>8. ASSUME Comments + t + v < n PROVE loaded'.vignette = r.vignette
  <2>1. "vignette" \in DOMAIN sections <=> Has(c, "vignette")
    BY <1>1, <1>2, <1>3, <1>5, <1>8
  <2>2. "vignette" \in DOMAIN sections => ReadsAll(sections["vignette"], c, "vignette")
    BY <1>1, <1>2, <1>3, <1>5, <1>8 DEF v
  <2>3. CASE "vignette" \in DOMAIN sections
    BY <1>6, <2>1, <2>2, <2>3, LoadsEach, VignetteAll DEF Has
  <2>4. CASE "vignette" \notin DOMAIN sections
    BY <1>1, <1>6, <2>1, <2>4, LoadsEach DEF Has
  <2> QED BY <2>3, <2>4
<1>9. ASSUME loaded'.temperature # Unset
      PROVE  /\ r.temperature # Unset
             /\ loaded'.temperature.c0 = r.temperature.c0
             /\ loaded'.temperature.c1 = r.temperature.c1
  <2>1. "temperature" \in DOMAIN sections
    BY <1>1, <1>9, LoadsEach
  <2>2. /\ c.temperature # Unset /\ r.temperature # Unset
        /\ ReadsSome(sections["temperature"], c, "temperature")
    BY <1>1, <1>2, <1>6, <2>1 DEF Has
  <2>3. /\ TemperatureLoads(sections["temperature"])
        /\ loaded'.temperature = parseTemperatureSection(sections["temperature"])
    BY <2>1, LoadsEach
  <2> QED BY <1>6, <2>2, <2>3, TemperatureSome
<1>10. ASSUME loaded'.vignette # Unset
       PROVE  /\ r.vignette # Unset /\ loaded'.temperature = r.temperature
              /\ [loaded'.vignette EXCEPT !.coeffs = <<>>] = [r.vignette EXCEPT !.coeffs = <<>>]
              /\ IsPrefix(Front(loaded'.vignette.coeffs), r.vignette.coeffs)
  <2>1. "vignette" \in DOMAIN sections
    BY <1>1, <1>10, LoadsEach
  <2>2. /\ c.vignette # Unset /\ r.vignette # Unset /\ Comments + t < n
        /\ ReadsSome(sections["vignette"], c, "vignette")
    BY <1>1, <1>2, <1>3, <1>6, <2>1 DEF Has
  <2>3. /\ VignetteLoads(sections["vignette"])
        /\ loaded'.vignette = parseVignetteSection(sections["vignette"])
    BY <2>1, LoadsEach
  <2>4. r.vignette = RoundedVignette(c.vignette)
    BY <1>6, <2>2
  <2> QED BY <1>7, <2>2, <2>3, <2>4, VignetteSome
<1>11. ASSUME loaded'.dead_pixels # Unset
       PROVE  /\ r.dead_pixels # Unset /\ loaded'.temperature = r.temperature
              /\ loaded'.vignette = r.vignette
              /\ Cardinality(loaded'.dead_pixels \ r.dead_pixels) <= 1
  <2>1. "dead_pixels" \in DOMAIN sections
    BY <1>1, <1>11, LoadsEach
  <2>2. /\ c.dead_pixels # Unset /\ r.dead_pixels # Unset /\ Comments + t + v < n
        /\ ReadsSome(sections["dead_pixels"], c, "dead_pixels")
    BY <1>1, <1>2, <1>3, <1>6, <2>1 DEF Has
  <2>3. Comments + t < n
    BY <1>3, <1>5, <2>2
  <2>4. loaded'.dead_pixels = parseDeadPixelsSection(sections["dead_pixels"])
    BY <2>1, LoadsEach
  <2>5. Cardinality(loaded'.dead_pixels \ c.dead_pixels) <= 1
    BY <2>2, <2>4, DeadPixelsSome
  <2> QED BY <1>6, <1>7, <1>8, <2>2, <2>3, <2>5
<1> QED BY <1>9, <1>10, <1>11 DEF r

\* No section has the empty name.
LEMMA NamesAreNames == \A name \in Names : name # ""
BY Zenon DEF Names

\* A file that is whole has no line that the parser refuses.
LEMMA WholeParses ==
  ASSUME FileInv, RInv, NEW c \in Saved, Begun(c), whole
  PROVE  ~ParseThrows
<1> SUFFICES ASSUME ParseThrows PROVE FALSE
  OBVIOUS
<1> DEFINE F == FileLines(c)
<1>1. PICK U : lines \in Seq(U)
  BY DEF Begun
<1>2. /\ reader = "parsing" /\ pos < Len(lines) /\ pos \in Nat /\ Len(lines) \in Nat
      /\ Len(lines) = Len(F) /\ \A i \in 1 .. Len(lines) : lines[i] = F[i]
      /\ \A i \in 1 .. pos : lines[i].kind # "malformed" /\ current_section = SectionAt(pos)
  <2>1. reader = "parsing" /\ pos < Len(lines)
    BY DEF ParseThrows, Parses
  <2> QED BY <1>1, <2>1 DEF FileInv, RInv, Begun
<1>3. current_section = SectionAt(pos)
  BY <1>2 DEF FileInv
<1>4. pos + 1 \in 1 .. Len(lines) /\ pos + 1 \in 1 .. Len(F) /\ pos + 1 \in 0 .. Len(lines)
  BY <1>2
<1>5. lines[pos + 1] = F[pos + 1] /\ F[pos + 1].kind \in {"blank", "section", "entry"}
  BY <1>2, <1>4, FileLineKinds
<1>6. lines[pos + 1].kind # "malformed"
  BY <1>5
<1>7. lines[pos + 1].kind = "entry" /\ current_section = ""
  BY <1>6, Zenon DEF ParseThrows, Parses
<1>8. \A i \in 1 .. pos + 1 : lines[i].kind # "malformed"
  <2>1. \A i \in 1 .. pos + 1 : i \in 1 .. pos \/ i = pos + 1
    BY <1>2
  <2> QED BY <1>2, <1>6, <2>1
<1>9. Follows(pos + 1, c)
  BY <1>4, <1>8, LinesFollow
<1> HIDE DEF F
<1>10. PICK name \in Names : \E j \in 1 .. Size(c, name) : pos + 1 = Start(c, name) + j
  <2>1. pos + 1 \notin 1 .. Comments
    BY <1>5, <1>7, CommentKinds DEF F
  <2> QED BY <1>4, <2>1, LinePlaces DEF F
<1>11. PICK j \in 1 .. Size(c, name) : pos + 1 = Start(c, name) + j
  BY <1>10
<1>12. SectionAt(Start(c, name) + j) = name
  <2>1. Start(c, name) + j <= pos + 1
    BY <1>2, <1>11
  <2> QED BY <1>9, <2>1, SectionInForce
<1>13. SectionAt(pos + 1) = SectionAt(pos)
  <2>1. lines[pos + 1].kind # "section" /\ pos \in Nat
    BY <1>2, <1>7
  <2> QED BY <2>1, OtherStays
<1> QED BY ONLY <1>3, <1>7, <1>11, <1>12, <1>13, NamesAreNames, Zenon

\* The lines that are parsed are those that can be.
LEMMA ReaderKeeps ==
  ASSUME FileInv, RInv, [FileNext]_fileVars
  PROVE  RInv'
<1>1. CASE reader' # "parsing"
  BY <1>1 DEF RInv
<1>2. ASSUME NEW what, Parses(what), what # "malformed" PROVE RInv'
  <2>1. /\ pos \in Nat /\ lines[pos + 1].kind # "malformed" /\ pos' = pos + 1
        /\ lines' = lines /\ \A i \in 1 .. pos : lines[i].kind # "malformed"
    <3>1. /\ reader = "parsing" /\ lines[pos + 1].kind = what /\ pos' = pos + 1 /\ lines' = lines
      BY <1>2 DEF Parses, writeVars
    <3> QED BY <1>2, <3>1 DEF FileInv, RInv
  <2>2. \A i \in 1 .. pos + 1 : i \in 1 .. pos \/ i = pos + 1
    BY <2>1
  <2> QED BY <2>1, <2>2 DEF RInv
<1>3. CASE ParseBlank \/ ParseHeader \/ ParseEntry
  BY <1>2, <1>3 DEF ParseBlank, ParseHeader, ParseEntry
<1>4. CASE LoadBegins
  <2>1. pos' = 0 /\ lines' = lines
    BY <1>4 DEF LoadBegins, writeVars
  <2> QED BY <2>1 DEF RInv
<1>5. CASE UNCHANGED fileVars
  BY <1>5 DEF fileVars, writeVars, readVars, RInv
<1>6. CASE \/ \E c \in Saved : SaveBegins(c)
           \/ WriteLine \/ SaveStops \/ Edit
  <2>1. reader' = "idle"
    BY <1>6 DEF SaveBegins, WriteLine, SaveStops, Edit, Quiet, readVars
  <2> QED BY <1>1, <2>1
<1>7. CASE ParseThrows \/ Load \/ LoadThrows \/ LoadEnds
  <2>1. reader' # "parsing"
    BY <1>7 DEF ParseThrows, Load, LoadThrows, LoadEnds
  <2> QED BY <1>1, <2>1
<1> QED BY <1>3, <1>4, <1>5, <1>6, <1>7 DEF FileNext

\* Whoever reads finds, when the file is whole, what was saved, and when it is cut, all but
\* its end.
LEMMA OutcomeKeeps ==
  ASSUME FileInv, WInv, RInv, RoundTrip, TornLosesEnd, [FileNext]_fileVars
  PROVE  RoundTrip' /\ TornLosesEnd'
<1>1. CASE reader' \notin {"loaded", "failed"}
  BY <1>1 DEF RoundTrip, TornLosesEnd
<1>2. CASE UNCHANGED fileVars
  <2>1. UNCHANGED <<lines, source, whole, edits, reader, loaded>>
    BY <1>2 DEF fileVars, writeVars, readVars
  <2> QED BY <2>1 DEF RoundTrip, TornLosesEnd
<1>3. CASE Load
  <2>1. /\ reader' = "loaded" /\ reader = "parsing" /\ Parsed
        /\ \A name \in Names : SectionLoads(name)
        /\ UNCHANGED <<lines, source, whole, edits>>
    BY <1>3 DEF Load, Parsed, writeVars
  <2>2. source \in Saved
    BY <2>1 DEF WInv
  <2>3. PICK c \in Saved : c = source
    BY <2>2
  <2>4. edits = 0 => Begun(c)
    BY <2>3 DEF WInv
  <2>5. whole /\ edits = 0 => Reloads(c) /\ loaded' = Rounded(c) /\ FileLines(loaded') = lines
    <3> SUFFICES ASSUME whole, edits = 0
                 PROVE  Reloads(c) /\ loaded' = Rounded(c) /\ FileLines(loaded') = lines
      OBVIOUS
    <3>1. Reloads(c) /\ loaded' = Rounded(c)
      BY <1>3, <2>1, <2>4, LoadsWhole
    <3>2. FileLines(Rounded(c)) = FileLines(c)
      BY RoundedAgain
    <3>3. FileLines(c) = lines
      <4>1. PICK U : lines \in Seq(U) /\ FileLines(c) \in Seq(U)
        BY <2>4 DEF Begun
      <4>2. Len(lines) = Len(FileLines(c)) /\ \A i \in 1 .. Len(lines) : lines[i] = FileLines(c)[i]
        BY <2>4 DEF Begun
      <4> QED BY <4>1, <4>2
    <3> QED BY <3>1, <3>2, <3>3
  <2>6. RoundTrip'
    BY <2>1, <2>3, <2>5 DEF RoundTrip
  <2>7. TornLosesEnd'
    <3> SUFFICES ASSUME edits = 0 PROVE TornLosesEnd'
      BY <2>1 DEF TornLosesEnd
    <3> DEFINE l == loaded'  r == Rounded(c)
    <3>1. /\ l.temperature # Unset =>
               /\ r.temperature # Unset
               /\ l.temperature.c0 = r.temperature.c0 /\ l.temperature.c1 = r.temperature.c1
          /\ l.vignette # Unset =>
               /\ r.vignette # Unset /\ l.temperature = r.temperature
               /\ [l.vignette EXCEPT !.coeffs = <<>>] = [r.vignette EXCEPT !.coeffs = <<>>]
               /\ IsPrefix(Front(l.vignette.coeffs), r.vignette.coeffs)
          /\ l.dead_pixels # Unset =>
               /\ r.dead_pixels # Unset /\ l.temperature = r.temperature /\ l.vignette = r.vignette
               /\ Cardinality(l.dead_pixels \ r.dead_pixels) <= 1
      BY <1>3, <2>4, LoadsTorn
    <3>2. Rounded(source') = r
      BY <2>1, <2>3
    <3> DEFINE before == [temperature |-> {}, vignette |-> {"temperature"},
                          dead_pixels |-> {"temperature", "vignette"}]
               AllButLast(name) ==
                 CASE name = "temperature" -> l[name].c0 = r[name].c0 /\ l[name].c1 = r[name].c1
                   [] name = "vignette" ->
                        /\ [l[name] EXCEPT !.coeffs = <<>>] = [r[name] EXCEPT !.coeffs = <<>>]
                        /\ IsPrefix(Front(l[name].coeffs), r[name].coeffs)
                   [] name = "dead_pixels" -> Cardinality(l[name] \ r[name]) <= 1
    <3> HIDE DEF l, r
    <3>3. \A name \in Names : l[name] # Unset => r[name] # Unset
      BY <3>1 DEF Names
    <3>4. \A name, b \in Names : l[name] # Unset /\ b \in before[name] => l[b] = r[b]
      BY <3>1 DEF Names
    <3>5. \A name \in Names : l[name] # Unset => AllButLast(name)
      BY <3>1 DEF Names
    <3> QED BY <3>2, <3>3, <3>4, <3>5 DEF TornLosesEnd, l
  <2> QED BY <2>6, <2>7
<1>4. CASE LoadThrows \/ ParseThrows
  <2>1. reader' = "failed" /\ reader = "parsing" /\ UNCHANGED <<lines, source, whole, edits>>
    BY <1>4 DEF LoadThrows, ParseThrows, Parses, Parsed, writeVars
  <2>2. PICK c \in Saved : c = source
    BY <2>1 DEF WInv
  <2>3. whole /\ edits = 0 => ~Reloads(c)
    <3> SUFFICES ASSUME whole, edits = 0 PROVE ~Reloads(c)
      OBVIOUS
    <3>1. Begun(c)
      BY <2>2 DEF WInv
    <3>2. LoadThrows
      BY <1>4, <3>1, WholeParses
    <3>3. Parsed /\ ~ \A name \in Names : SectionLoads(name)
      BY <3>2 DEF LoadThrows
    <3> QED BY <3>1, <3>3, LoadsWhole
  <2> QED BY <2>1, <2>2, <2>3 DEF RoundTrip, TornLosesEnd
<1>5. CASE \/ \E c \in Saved : SaveBegins(c)
           \/ WriteLine \/ SaveStops \/ Edit
  <2>1. reader' = "idle"
    BY <1>5 DEF SaveBegins, WriteLine, SaveStops, Edit, Quiet, readVars
  <2> QED BY <1>1, <2>1
<1>6. CASE LoadBegins \/ ParseBlank \/ ParseHeader \/ ParseEntry \/ LoadEnds
  <2>1. reader' \notin {"loaded", "failed"}
    BY <1>6 DEF LoadBegins, ParseBlank, ParseHeader, ParseEntry, Parses, LoadEnds
  <2> QED BY <1>1, <2>1
<1> QED BY <1>2, <1>3, <1>4, <1>5, <1>6 DEF FileNext

\* Before anything is saved or loaded, both hold.
LEMMA OutcomeStarts == FileInit => FileInv /\ RInv /\ RoundTrip /\ TornLosesEnd
<1> SUFFICES ASSUME FileInit PROVE FileInv /\ RInv /\ RoundTrip /\ TornLosesEnd
  OBVIOUS
<1>1. reader = "idle"
  BY Zenon DEF FileInit
<1> QED BY ONLY <1>1 DEF FileInv, RInv, RoundTrip, TornLosesEnd

\* Whoever steps, what the parser knows of the lines behind it stays true.
LEMMA FileKeeps ==
  ASSUME FileInv, [FileNext]_fileVars
  PROVE  FileInv'
BY HeaderKeeps, EntryKeeps, BlankKeeps, OthersKeep DEF FileNext

\* What is read is a file that was written, cut or edited, as far as it can be parsed.
THEOREM FileInductive == FileSpec => [](FileInv /\ WInv /\ RInv /\ RoundTrip /\ TornLosesEnd)
<1>1. FileInit => FileInv /\ WInv /\ RInv /\ RoundTrip /\ TornLosesEnd
  BY OutcomeStarts, WriterStarts
<1>2. /\ FileInv /\ WInv /\ RInv /\ RoundTrip /\ TornLosesEnd
      /\ [FileNext]_fileVars
      => (FileInv /\ WInv /\ RInv /\ RoundTrip /\ TornLosesEnd)'
  BY FileKeeps, WriterKeeps, ReaderKeeps, OutcomeKeeps
<1> QED BY <1>1, <1>2, PTL DEF FileSpec

\* What is saved to the end loads as it was, to the digits written, whatever it holds, but
\* for a temperature without its pad_ref; and saves as the same file again.
THEOREM SavedLoads == FileSpec => []RoundTrip
BY FileInductive, PTL

\* Wherever a save stops, in whatever line: what is then loaded has lost the end of what was
\* saved, and nothing before it.
THEOREM OnlyEndIsLost == FileSpec => []TornLosesEnd
BY FileInductive, PTL

=============================================================================
