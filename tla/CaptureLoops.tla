---------------------------- MODULE CaptureLoops ----------------------------
(***************************************************************************)
(* The captures of the calibration tool: after a warm-up, each grabs until *)
(* it has the number of thermal frames it wants, from a device that mixes  *)
(* them with shutter frames and others.  "average" goes through the frame  *)
(* pipeline of the camera and ends at the first failed grab; "welford" and *)
(* "anchor" take raw transfers past it, try again, and count attempts.     *)
(***************************************************************************)
EXTENDS Integers

CONSTANTS
  Frames,        \* the thermal frames a capture wants
  Warmup,        \* the frames of any type that the warm-up drains
  Factor, Slack  \* of the bound on attempts: 20 and 400

ASSUME CaptureAssumption ==
  Frames \in Nat \ {0} /\ Warmup \in Nat /\ Factor \in Nat \ {0} /\ Slack \in Nat

Raw   == {"welford", "anchor"}
Kinds == Raw \union {"average"}

VARIABLES
  kind,      \* the capture under way, or the last one
  pc,        \* "idle", "warmup", "capture" or "terminated"
  got,       \* frames drained, or thermal frames accumulated
  attempts,  \* attempts of a raw capture
  skipped,   \* the parity of skipped_cal, so that a skip is a step
  result     \* how the last capture ended, "none" while it runs

\* History variables.
VARIABLES
  thermal,   \* usable thermal frames that this capture received
  useless,   \* the transfers of a raw capture that were of no use
  stale      \* did the device send a shutter frame that the camera did not see?

vars == <<kind, pc, got, attempts, skipped, result, thermal, useless, stale>>

Init ==
  /\ kind = "average" /\ pc = "idle" /\ got = 0 /\ attempts = 0 /\ skipped = 0 /\ result = "none"
  /\ thermal = 0 /\ useless = 0 /\ stale = FALSE

-----------------------------------------------------------------------------
MaxAttempts == Frames * Factor + Slack

End(r) == pc' = "idle" /\ result' = r

\* A grab of grabFrame() or grabRawCountsFrame() that succeeds with a shutter
\* frame makes it the camera's reference; a raw transfer passes it by.
Seen(type) ==
  stale' = IF type # "shutter" THEN stale ELSE pc = "capture" /\ kind \in Raw

Begin(k) ==
  /\ pc = "idle" /\ pc' = "warmup" /\ kind' = k
  /\ got' = 0 /\ attempts' = 0 /\ skipped' = 0 /\ result' = "none"
  /\ thermal' = 0 /\ useless' = 0 /\ UNCHANGED stale

\* warmup(): any frame counts.
Drain(type) ==
  /\ pc = "warmup" /\ got < Warmup /\ got' = got + 1 /\ Seen(type)
  /\ UNCHANGED <<kind, pc, attempts, skipped, result, thermal, useless>>

Drained ==
  /\ pc = "warmup" /\ got = Warmup
  /\ pc' = "capture" /\ got' = 0
  /\ UNCHANGED <<kind, attempts, skipped, result, thermal, useless, stale>>

-----------------------------------------------------------------------------
\* A raw capture bounds its attempts; the other loops do not count.
AttemptsLeft == kind \in Raw => attempts < MaxAttempts

CountAttempt == attempts' = IF kind \in Raw THEN attempts + 1 ELSE attempts

\* A mutant: a frame of another type is accumulated too.
MutAccumulates(type, usable) == usable

\* What is accumulated: the thermal frames, for an anchor only those that have a
\* valid pixel in the region of interest.
Accumulates(type, usable) == type = "thermal" /\ (kind = "anchor" => usable)

Grab(type, usable) ==
  /\ pc = "capture" /\ got < Frames /\ AttemptsLeft /\ CountAttempt /\ Seen(type)
  /\ thermal' = IF type = "thermal" /\ (kind = "anchor" => usable) THEN thermal + 1 ELSE thermal
  /\ UNCHANGED <<kind, pc, result>>
  /\ \/ Accumulates(type, usable)
        /\ got' = got + 1 /\ UNCHANGED <<skipped, useless>>
     \/ ~Accumulates(type, usable) /\ kind \in Raw
        /\ useless' = useless + 1 /\ UNCHANGED <<got, skipped>>
     \/ ~Accumulates(type, usable) /\ kind \notin Raw
        /\ skipped' = 1 - skipped /\ UNCHANGED <<got, useless>>

\* A mutant: a raw transfer that failed is not counted as an attempt.
MutRetry ==
  /\ pc = "capture" /\ kind \in Raw /\ got < Frames /\ AttemptsLeft
  /\ skipped' = 1 - skipped
  /\ UNCHANGED <<kind, pc, got, attempts, result, thermal, useless, stale>>

\* A raw transfer that fails, or is shorter than a frame, is tried again.
Retry ==
  /\ pc = "capture" /\ kind \in Raw /\ got < Frames /\ AttemptsLeft /\ CountAttempt
  /\ useless' = useless + 1
  /\ UNCHANGED <<kind, pc, got, skipped, result, thermal, stale>>

GrabFails ==
  /\ \/ pc = "warmup" /\ got < Warmup
     \/ pc = "capture" /\ kind \notin Raw /\ got < Frames
  /\ End("grab failed")
  /\ UNCHANGED <<kind, got, attempts, skipped, thermal, useless, stale>>

\* The raw captures catch what the transfer throws.
RawThrows ==
  /\ pc = "capture" /\ kind \in Raw /\ got < Frames /\ AttemptsLeft /\ CountAttempt
  /\ End("threw")
  /\ UNCHANGED <<kind, got, skipped, thermal, useless, stale>>

\* Nobody catches what the other grabs throw: the tool ends.
Throws ==
  /\ \/ pc = "warmup" /\ got < Warmup
     \/ pc = "capture" /\ kind \notin Raw /\ got < Frames
  /\ pc' = "terminated"
  /\ UNCHANGED <<kind, got, attempts, skipped, result, thermal, useless, stale>>

GiveUp ==
  /\ pc = "capture" /\ kind \in Raw /\ got < Frames
  /\ ~AttemptsLeft /\ CountAttempt
  /\ End("gave up")
  /\ UNCHANGED <<kind, got, skipped, thermal, useless, stale>>

Finish ==
  /\ pc = "capture" /\ got = Frames /\ End("ok")
  /\ UNCHANGED <<kind, got, attempts, skipped, thermal, useless, stale>>

Types == {"thermal", "shutter", "other"}

\* What a running capture does next.
CaptureStep ==
  \/ \E type \in Types : Drain(type) \/ \E usable \in BOOLEAN : Grab(type, usable)
  \/ Drained \/ Retry \/ GrabFails \/ RawThrows \/ Throws \/ GiveUp \/ Finish

Restart ==
  /\ pc = "terminated" /\ pc' = "idle" /\ stale' = FALSE
  /\ UNCHANGED <<kind, got, attempts, skipped, result, thermal, useless>>

Next == (\E k \in Kinds : Begin(k)) \/ CaptureStep \/ Restart

Spec == Init /\ [][Next]_vars

\* Each grab returns: every USB transfer of it has a timeout.
FairSpec == Spec /\ WF_vars(CaptureStep)

-----------------------------------------------------------------------------
TypeOK ==
  /\ kind \in Kinds /\ pc \in {"idle", "warmup", "capture", "terminated"}
  /\ got \in 0 .. (IF pc = "warmup" THEN Warmup ELSE Frames + Warmup)
  /\ attempts \in 0 .. MaxAttempts + 1
  /\ result \in {"none", "ok", "gave up", "threw", "grab failed"}
  /\ thermal \in 0 .. Frames /\ useless \in 0 .. MaxAttempts
  /\ skipped \in {0, 1} /\ stale \in BOOLEAN

\* What is divided by the number of frames is the sum of that many frames, all
\* of them thermal, whatever came between.
SuccessIsFull == result = "ok" => got = Frames /\ thermal = Frames

\* A raw capture gives up only after all its attempts, and every transfer that
\* it did not accumulate was one that it could not.
GivesUpLate == result = "gave up" => useless + thermal = MaxAttempts /\ thermal < Frames

\* "Safety bound so a misbehaving stream cannot hang the wizard": a warm-up and
\* a raw capture end, whatever the device sends.
RawCapturesReturn ==
  (pc = "warmup" \/ (pc = "capture" /\ kind \in Raw)) ~>
    (pc \in {"idle", "terminated"} \/ (pc = "capture" /\ kind \notin Raw))

-----------------------------------------------------------------------------
(* What comments say of every capture, and of the shutter mean.            *)

\* "a misbehaving stream cannot hang the wizard", of all captures.
CapturesReturn == pc = "capture" ~> pc \in {"idle", "terminated"}

\* getLastShutterMean(): "mean of the most recent shutter (ft=1) frame".
MeanOfLatestShutter == ~stale
=============================================================================
