--------------------------- MODULE CameraThreads ---------------------------
(***************************************************************************)
(* Threads that share one SeekThermalCamera: grabbers calling grabFrame(), *)
(* setters calling setCalibration(), and one calling open() and close().   *)
(* device_mutex_ and buffer_mutex_ guard the first two; open() takes the   *)
(* device lock for a transfer only and reads and writes the calibration    *)
(* without the buffer lock, close() takes no lock.                         *)
(*                                                                         *)
(* Calibration values are stood in for by who produced them: the number of *)
(* a setCalibration() call, Firmware for what a boot derives, or Unset.    *)
(***************************************************************************)
EXTENDS Integers

CONSTANTS Grabbers, Setters,  \* the threads
          Opener,             \* the thread that opens and closes the camera
          MaxCals,            \* bound on the calls of setCalibration()
          Nobody              \* no thread

ASSUME ThreadsAssumption ==
  /\ Opener \notin Grabbers \cup Setters /\ Grabbers \cap Setters = {}
  /\ Nobody \notin Grabbers \cup Setters \cup {Opener}
  /\ MaxCals \in Nat

Threads == Grabbers \cup Setters \cup {Opener}

Unset == 0
Firmware == -1

VARIABLES
  deviceLock, bufferLock,  \* the owners of the two mutexes
  pc,                      \* where each thread is
  handle,                  \* is usb_device_handle_ set?
  anchor,                  \* drift_reference_anchor_, drift_anchor_set_
  c0, c1,                  \* calibration_.temperature, which is empty while c1 is Unset
  c0Source,                \* c0_source_
  kept,                    \* what setCalibration() copied of the mapping to keep it
  cals                     \* number of calls of setCalibration() so far

\* History variables.
VARIABLES
  buffer,     \* whose transfer buffer_ holds
  counts,     \* the anchor a grabber's counts were compensated with
  mapped,     \* the mapping its last frame was mapped with
  raced,      \* the last call of setCalibration() that met an open(), 0 if there is none
  lost,       \* the last one of these that brought no temperature section
  installed,  \* the last call with a temperature section that ended
  pin         \* the last call with a pad_ref since the camera was closed

locks == <<deviceLock, bufferLock>>
calibration == <<anchor, c0, c1, c0Source>>
frames == <<buffer, counts, mapped>>
calls == <<cals, raced, lost, installed, pin>>
vars == <<locks, pc, handle, calibration, frames, kept, calls>>

NoMapping == [c0 |-> Unset, c1 |-> Unset]

GoTo(t, label) == pc' = [pc EXCEPT ![t] = label]

\* The camera was opened and seeded before, or was never open.
Init ==
  /\ deviceLock = Nobody /\ bufferLock = Nobody
  /\ pc = [t \in Threads |-> "idle"]
  /\ handle \in BOOLEAN
  /\ anchor = (IF handle THEN Firmware ELSE Unset)
  /\ c0 = anchor /\ c1 = anchor
  /\ c0Source = (IF handle THEN "CameraAuto" ELSE "Firmware")
  /\ kept = NoMapping /\ cals = 0
  /\ buffer = Nobody
  /\ counts = [t \in Grabbers |-> Unset]
  /\ mapped = [t \in Grabbers |-> NoMapping]
  /\ raced = 0 /\ lost = 0 /\ installed = 0 /\ pin = 0

-----------------------------------------------------------------------------
(* grabFrame(): grabRawCountsFrame() under both locks, then the mapping    *)
(* under the buffer lock alone.                                            *)

LockDevice(t) ==
  /\ pc[t] = "idle" /\ deviceLock = Nobody
  /\ deviceLock' = t /\ GoTo(t, "haveDevice")
  /\ UNCHANGED <<bufferLock, handle, calibration, frames, kept, calls>>

LockBuffer(t) ==
  /\ pc[t] = "haveDevice" /\ bufferLock = Nobody
  /\ bufferLock' = t /\ GoTo(t, "haveBoth")
  /\ UNCHANGED <<deviceLock, handle, calibration, frames, kept, calls>>

\* A mutant: no lock is held while the device sends.
MutTransfer(t) ==
  /\ pc[t] = "haveBoth" /\ handle
  /\ buffer' = t /\ GoTo(t, "received") /\ deviceLock' = Nobody /\ bufferLock' = Nobody
  /\ UNCHANGED <<handle, calibration, counts, mapped, kept, calls>>

\* The frame arrives in buffer_, or the call is over.
Transfer(t) ==
  /\ pc[t] = "haveBoth"
  /\ \/ handle /\ buffer' = t /\ GoTo(t, "received")
     \/ GoTo(t, "failed") /\ UNCHANGED buffer
  /\ UNCHANGED <<locks, handle, calibration, counts, mapped, kept, calls>>

\* A thermal frame is compensated with the anchor of the moment.
Compensate(t) ==
  /\ pc[t] = "received"
  /\ counts' = [counts EXCEPT ![t] = anchor] /\ GoTo(t, "counted")
  /\ UNCHANGED <<locks, handle, calibration, buffer, mapped, kept, calls>>

\* A shutter frame re-anchors c0 if the camera owns it; it is not mapped.
CheckShutter(t) ==
  /\ pc[t] = "received"
  /\ GoTo(t, IF c0Source = "CameraAuto" THEN "reanchor" ELSE "failed")
  /\ UNCHANGED <<locks, handle, calibration, frames, kept, calls>>

\* What c0 becomes, of the mapping and the anchor there are.
updateTemperatureCalibration ==
  c0' = IF c1 # Unset /\ anchor # Unset THEN Firmware ELSE c0

Reanchor(t) ==
  /\ pc[t] = "reanchor" /\ GoTo(t, "failed") /\ updateTemperatureCalibration
  /\ UNCHANGED <<locks, handle, anchor, c1, c0Source, frames, kept, calls>>

\* The guards are destroyed in reverse order: first the buffer lock.
UnlockBuffer(t) ==
  /\ pc[t] \in {"counted", "failed"} /\ bufferLock = t
  /\ bufferLock' = Nobody
  /\ UNCHANGED <<deviceLock, pc, handle, calibration, frames, kept, calls>>

\* The call was grabFrame(), which maps the counts, or grabRawCountsFrame().
UnlockDevice(t) ==
  /\ pc[t] \in {"counted", "failed"} /\ bufferLock # t
  /\ deviceLock' = Nobody
  /\ \/ pc[t] = "counted" /\ GoTo(t, "unlocked")
     \/ GoTo(t, "idle")
  /\ UNCHANGED <<bufferLock, handle, calibration, frames, kept, calls>>

LockForMapping(t) ==
  /\ pc[t] = "unlocked" /\ bufferLock = Nobody
  /\ bufferLock' = t /\ GoTo(t, "mapC0")
  /\ UNCHANGED <<deviceLock, handle, calibration, frames, kept, calls>>

MapC0(t) ==
  /\ pc[t] = "mapC0" /\ GoTo(t, "mapC1")
  /\ mapped' = [mapped EXCEPT ![t].c0 = c0]
  /\ UNCHANGED <<locks, handle, calibration, buffer, counts, kept, calls>>

MapC1(t) ==
  /\ pc[t] = "mapC1" /\ bufferLock' = Nobody /\ GoTo(t, "delivered")
  /\ mapped' = [mapped EXCEPT ![t].c1 = c1]
  /\ UNCHANGED <<deviceLock, handle, calibration, buffer, counts, kept, calls>>

Return(t) ==
  /\ pc[t] = "delivered" /\ GoTo(t, "idle")
  /\ counts' = [counts EXCEPT ![t] = Unset] /\ mapped' = [mapped EXCEPT ![t] = NoMapping]
  /\ UNCHANGED <<locks, handle, calibration, buffer, kept, calls>>

Grab(t) ==
  \/ LockDevice(t) \/ LockBuffer(t) \/ Transfer(t)
  \/ Compensate(t) \/ CheckShutter(t) \/ Reanchor(t)
  \/ UnlockBuffer(t) \/ UnlockDevice(t)
  \/ LockForMapping(t) \/ MapC0(t) \/ MapC1(t) \/ Return(t)

-----------------------------------------------------------------------------
(* setCalibration(), under the buffer lock.                                *)

\* open() is under way.
Opening == pc[Opener] \notin {"idle", "closing"}

\* A mutant: setCalibration() takes no lock.
MutSetBegin(t) ==
  /\ pc[t] = "idle" /\ cals < MaxCals
  /\ cals' = cals + 1 /\ GoTo(t, "setSource")
  /\ raced' = (IF Opening THEN cals' ELSE raced)
  /\ UNCHANGED <<locks, handle, calibration, frames, kept, lost, installed, pin>>

\* A calibration with a temperature section.
SetBegin(t) ==
  /\ pc[t] = "idle" /\ cals < MaxCals /\ bufferLock = Nobody
  /\ bufferLock' = t /\ cals' = cals + 1 /\ GoTo(t, "setSource")
  /\ raced' = (IF Opening THEN cals' ELSE raced)
  /\ UNCHANGED <<deviceLock, handle, calibration, frames, kept, lost, installed, pin>>

\* Its pad_ref may be unset.
SetSource(t) ==
  /\ pc[t] = "setSource" /\ c0Source' = "Host"
  /\ GoTo(t, "setAnchor") \/ GoTo(t, "setC0")
  /\ UNCHANGED <<locks, handle, anchor, c0, c1, frames, kept, calls>>

SetAnchor(t) ==
  /\ pc[t] = "setAnchor" /\ anchor' = cals /\ pin' = cals /\ GoTo(t, "setC0")
  /\ UNCHANGED <<locks, handle, c0, c1, c0Source, frames, kept, cals, raced, lost, installed>>

\* The calibration is moved, field by field.
SetC0(t) ==
  /\ pc[t] = "setC0" /\ c0' = cals /\ GoTo(t, "setC1")
  /\ UNCHANGED <<locks, handle, anchor, c1, c0Source, frames, kept, calls>>

SetC1(t) ==
  /\ pc[t] = "setC1" /\ c1' = cals /\ installed' = cals
  /\ bufferLock' = Nobody /\ GoTo(t, "idle")
  /\ UNCHANGED <<deviceLock, handle, anchor, c0, c0Source, frames, kept, cals, raced, lost, pin>>

\* A calibration without one: the mapping there is, is copied into it.
KeepBegin(t) ==
  /\ pc[t] = "idle" /\ cals < MaxCals /\ bufferLock = Nobody
  /\ bufferLock' = t /\ cals' = cals + 1 /\ GoTo(t, "copyC0")
  /\ IF Opening THEN raced' = cals' /\ lost' = cals' ELSE UNCHANGED <<raced, lost>>
  /\ UNCHANGED <<deviceLock, handle, calibration, frames, kept, installed, pin>>

CopyC0(t) ==
  /\ pc[t] = "copyC0" /\ kept' = [kept EXCEPT !.c0 = c0] /\ GoTo(t, "copyC1")
  /\ UNCHANGED <<locks, handle, calibration, frames, calls>>

CopyC1(t) ==
  /\ pc[t] = "copyC1" /\ kept' = [kept EXCEPT !.c1 = c1] /\ GoTo(t, "keepC0")
  /\ UNCHANGED <<locks, handle, calibration, frames, calls>>

KeepC0(t) ==
  /\ pc[t] = "keepC0" /\ c0' = kept.c0 /\ GoTo(t, "keepC1")
  /\ UNCHANGED <<locks, handle, anchor, c1, c0Source, frames, kept, calls>>

KeepC1(t) ==
  /\ pc[t] = "keepC1" /\ c1' = kept.c1 /\ kept' = NoMapping
  /\ bufferLock' = Nobody /\ GoTo(t, "idle")
  /\ UNCHANGED <<deviceLock, handle, anchor, c0, c0Source, frames, calls>>

Set(t) ==
  \/ SetBegin(t) \/ SetSource(t) \/ SetAnchor(t) \/ SetC0(t) \/ SetC1(t)
  \/ KeepBegin(t) \/ CopyC0(t) \/ CopyC1(t) \/ KeepC0(t) \/ KeepC1(t)

Setting == {"setSource", "setAnchor", "setC0", "setC1"}
Keeping == {"copyC0", "copyC1", "keepC0", "keepC1"}

-----------------------------------------------------------------------------
(* open(): a boot whose frames come sooner or later.  Only _grabRawFrame() *)
(* locks; a transfer is one step here, when the device lock is free.       *)
Boot(label, next) == pc[Opener] = label /\ GoTo(Opener, next)

OpenHandle ==
  /\ Boot("idle", "transfer") /\ handle' = TRUE
  /\ raced' = IF \E t \in Setters : pc[t] \in Setting \cup Keeping THEN cals ELSE raced
  /\ lost' = IF \E t \in Setters : pc[t] \in Keeping THEN cals ELSE lost
  /\ UNCHANGED <<locks, calibration, frames, kept, cals, installed, pin>>

BootFrame ==
  /\ Boot("transfer", "slope") /\ deviceLock = Nobody
  /\ UNCHANGED <<locks, handle, calibration, frames, kept, calls>>

\* Is there a mapping, or does the header bring no slope?
CheckSlope ==
  /\ \/ c1 = Unset /\ Boot("slope", "slopeC0")
     \/ Boot("slope", "frame")
  /\ UNCHANGED <<locks, handle, calibration, frames, kept, calls>>

\* The slope, or the identity, is installed: the offset before the slope, which
\* tells that there is a mapping.
InstallC0 ==
  /\ Boot("slopeC0", "slopeC1") \/ Boot("identityC0", "identityC1")
  /\ c0' = Firmware
  /\ UNCHANGED <<locks, handle, anchor, c1, c0Source, frames, kept, calls>>

InstallC1 ==
  /\ Boot("slopeC1", "frame") \/ Boot("identityC1", "idle")
  /\ c1' = Firmware
  /\ UNCHANGED <<locks, handle, anchor, c0, c0Source, frames, kept, calls>>

\* A thermal frame is there; is there an anchor already?  Or it is another frame.
CheckAnchor ==
  /\ \/ anchor = Unset /\ Boot("frame", "anchor")
     \/ Boot("frame", "checkDone")
  /\ UNCHANGED <<locks, handle, calibration, frames, kept, calls>>

SeedAnchor ==
  /\ Boot("anchor", "owner") /\ anchor' = Firmware
  /\ UNCHANGED <<locks, handle, c0, c1, c0Source, frames, kept, calls>>

\* Or the camera lacks what it takes to maintain c0.
CheckOwner ==
  /\ \/ c1 # Unset /\ c0Source # "Host" /\ Boot("owner", "take")
     \/ Boot("owner", "checkDone")
  /\ UNCHANGED <<locks, handle, calibration, frames, kept, calls>>

TakeOwnership ==
  /\ Boot("take", "seed") /\ c0Source' = "CameraAuto"
  /\ UNCHANGED <<locks, handle, anchor, c0, c1, frames, kept, calls>>

SeedC0 ==
  /\ Boot("seed", "checkDone") /\ updateTemperatureCalibration
  /\ UNCHANGED <<locks, handle, anchor, c1, c0Source, frames, kept, calls>>

\* The next frame, or the end if the boot shutter was seen and there is an anchor.
CheckDone ==
  /\ \/ Boot("checkDone", "transfer")
     \/ anchor # Unset /\ Boot("checkDone", "mapping")
  /\ UNCHANGED <<locks, handle, calibration, frames, kept, calls>>

\* A mutant: a boot without a slope installs no mapping.
MutCheckMapping ==
  /\ Boot("mapping", "idle")
  /\ UNCHANGED <<locks, handle, calibration, frames, kept, calls>>

CheckMapping ==
  /\ Boot("mapping", IF c1 = Unset THEN "identityC0" ELSE "idle")
  /\ UNCHANGED <<locks, handle, calibration, frames, kept, calls>>

Open ==
  \/ OpenHandle \/ BootFrame \/ CheckSlope \/ InstallC0 \/ InstallC1
  \/ CheckAnchor \/ SeedAnchor \/ CheckOwner \/ TakeOwnership \/ SeedC0
  \/ CheckDone \/ CheckMapping

\* close(), when no transfer is under way: it frees the handle under no lock.
CloseHandle ==
  /\ handle /\ Boot("idle", "closing") /\ deviceLock = Nobody /\ handle' = FALSE
  /\ UNCHANGED <<locks, calibration, frames, kept, calls>>

DropAnchor ==
  /\ Boot("closing", "idle") /\ anchor' = Unset /\ pin' = 0
  /\ UNCHANGED <<locks, handle, c0, c1, c0Source, frames, kept, cals, raced, lost, installed>>

Close == CloseHandle \/ DropAnchor

Next ==
  \/ \E t \in Grabbers : Grab(t)
  \/ \E t \in Setters : Set(t)
  \/ Open \/ Close

Spec == Init /\ [][Next]_vars

-----------------------------------------------------------------------------
\* A grabber processes the frame it transferred: no other grabber's transfer gets
\* into buffer_ between its own transfer and the processing.
OwnFrame == \A t \in Grabbers : pc[t] = "received" => buffer = t

\* Nobody is at the calibration state while a grabber or setter is: whoever works
\* under the buffer lock works alone.
Guarded == {"haveBoth", "received", "reanchor", "mapC0", "mapC1"} \cup Setting \cup Keeping
BufferExclusive ==
  \A t, u \in Grabbers \cup Setters : pc[t] \in Guarded /\ pc[u] \in Guarded => t = u

\* No setCalibration() met an open(), or one with a temperature section came since.
Unraced(call) == call = 0 \/ call < installed

\* No thread that takes the buffer lock finds half a calibration, before or after any
\* number of openings and closings: offset, slope and owner are of the calibration
\* installed last, or of a boot if there was none, and the anchor is the one pinned
\* last.  What a setCalibration() during an open() may break, the next one repairs.
CalibrationWhole ==
  bufferLock = Nobody /\ ~Opening =>
    /\ Unraced(raced) =>
         /\ c0 = c1
         /\ IF installed > 0 THEN c1 = installed /\ c0Source = "Host"
                             ELSE c1 \in {Unset, Firmware} /\ c0Source # "Host"
    /\ pin > raced => anchor = pin

\* A camera that is open has a mapping, which grabFrame() uses without asking, and an
\* anchor, whatever frames of the boot brought no slope, and whatever setCalibration()
\* calls came between the unlocked checks of open() and its assignments; but for the
\* mapping, none of them may have left it to open() to bring one.
BootSeeds ==
  handle /\ pc[Opener] = "idle" =>
    /\ anchor # Unset
    /\ Unraced(lost) => c1 # Unset

-----------------------------------------------------------------------------
(* What the documentation says, and what interleavings do otherwise.       *)

\* "Keep the active temperature mapping (factory default from open(), or a previously
\* installed one) when the incoming calibration omits it": an open camera has one.
MappingKept == handle /\ pc[Opener] = "idle" => c1 # Unset

\* pad_ref "must equal the ref the fit used (driver applies raw - K*(pad - pad_ref))":
\* a delivered frame was compensated with the anchor its mapping was fit for.
MappedWithItsAnchor ==
  \A t \in Grabbers : pc[t] = "delivered" => mapped[t].c0 = counts[t]

\* "the startup sequence must not seed or re-anchor the camera-only c0 over" a host
\* calibration: once installed, its c0 and c1 stay together.
HostC0NotSeededOver ==
  bufferLock = Nobody /\ ~Opening /\ c1 > 0 => c0 = c1
=============================================================================
