------------------------ MODULE CameraThreadsProofs ------------------------
(***************************************************************************)
(* The two mutexes of the camera do their work for any number of threads   *)
(* that grab and that set calibrations: what each critical section assumes *)
(* follows from which locks a thread holds at which point of its call.     *)
(***************************************************************************)
EXTENDS CameraThreads, TLAPS

Typing == pc = [t \in Threads |-> pc[t]]

\* Where a grabber holds the device lock.
Exclusive == {"haveDevice", "haveBoth", "received", "reanchor", "counted", "failed"}

HoldsDevice == \A t \in Grabbers : pc[t] \in Exclusive => deviceLock = t

HoldsBuffer == \A t \in Grabbers \cup Setters : pc[t] \in Guarded => bufferLock = t

IInv == Typing /\ HoldsDevice /\ HoldsBuffer /\ OwnFrame

\* A step of a grabber keeps the invariant.
LEMMA GrabKeeps ==
  ASSUME IInv, NEW t \in Grabbers, Grab(t)
  PROVE  IInv'
<1> USE ThreadsAssumption DEF IInv, Typing, HoldsDevice, HoldsBuffer, OwnFrame,
                              Exclusive, Guarded, Setting, Keeping, Threads, GoTo, frames
<1>1. ASSUME LockDevice(t) PROVE IInv'
  BY <1>1 DEF LockDevice
<1>2. ASSUME LockBuffer(t) PROVE IInv'
  BY <1>2 DEF LockBuffer
<1>3. ASSUME Transfer(t) PROVE IInv'
  BY <1>3 DEF Transfer, locks
<1>4. ASSUME Compensate(t) PROVE IInv'
  BY <1>4 DEF Compensate, locks
<1>5. ASSUME CheckShutter(t) PROVE IInv'
  BY <1>5 DEF CheckShutter, locks
<1>6. ASSUME Reanchor(t) PROVE IInv'
  BY <1>6 DEF Reanchor, locks
<1>7. ASSUME UnlockBuffer(t) PROVE IInv'
  BY <1>7 DEF UnlockBuffer
<1>8. ASSUME UnlockDevice(t) PROVE IInv'
  BY <1>8 DEF UnlockDevice
<1>9. ASSUME LockForMapping(t) PROVE IInv'
  BY <1>9 DEF LockForMapping
<1>10. ASSUME MapC0(t) PROVE IInv'
  BY <1>10 DEF MapC0, locks
<1>11. ASSUME MapC1(t) PROVE IInv'
  BY <1>11 DEF MapC1
<1>12. ASSUME Return(t) PROVE IInv'
  BY <1>12 DEF Return, locks
<1> QED
  BY <1>1, <1>2, <1>3, <1>4, <1>5, <1>6, <1>7, <1>8, <1>9, <1>10, <1>11, <1>12 DEF Grab

\* So does a step of a setter.
LEMMA SetKeeps ==
  ASSUME IInv, NEW t \in Setters, Set(t)
  PROVE  IInv'
<1> USE ThreadsAssumption DEF IInv, Typing, HoldsDevice, HoldsBuffer, OwnFrame,
                              Exclusive, Guarded, Setting, Keeping, Threads, GoTo, frames
<1>1. ASSUME SetBegin(t) \/ KeepBegin(t) PROVE IInv'
  BY <1>1 DEF SetBegin, KeepBegin
<1>2. ASSUME SetSource(t) \/ SetAnchor(t) \/ SetC0(t) PROVE IInv'
  BY <1>2 DEF SetSource, SetAnchor, SetC0, locks
<1>3. ASSUME CopyC0(t) \/ CopyC1(t) \/ KeepC0(t) PROVE IInv'
  BY <1>3 DEF CopyC0, CopyC1, KeepC0, locks
<1>4. ASSUME SetC1(t) \/ KeepC1(t) PROVE IInv'
  <2>1. /\ pc[t] \in Guarded /\ pc' = [pc EXCEPT ![t] = "idle"]
        /\ UNCHANGED <<deviceLock, buffer>>
    BY <1>4 DEF SetC1, KeepC1
  <2>2. \A u \in Grabbers \cup Setters : u # t => pc[u] \notin Guarded
    BY <2>1
  <2>3. HoldsBuffer'
    BY <2>1, <2>2
  <2> QED BY <2>1, <2>3
<1> QED
  BY <1>1, <1>2, <1>3, <1>4 DEF Set

\* Where a step of the boot or of close() leads.
Successors(label) ==
  CASE label = "idle"       -> {"transfer", "closing"}
    [] label = "closing"    -> {"idle"}
    [] label = "transfer"   -> {"slope"}
    [] label = "slope"      -> {"slopeC0", "frame"}
    [] label = "slopeC0"    -> {"slopeC1"}
    [] label = "slopeC1"    -> {"frame"}
    [] label = "frame"      -> {"anchor", "checkDone"}
    [] label = "anchor"     -> {"owner"}
    [] label = "owner"      -> {"take", "checkDone"}
    [] label = "take"       -> {"seed"}
    [] label = "seed"       -> {"checkDone"}
    [] label = "checkDone"  -> {"transfer", "mapping"}
    [] label = "mapping"    -> {"identityC0", "idle"}
    [] label = "identityC0" -> {"identityC1"}
    [] label = "identityC1" -> {"idle"}
    [] OTHER                -> {}

\* open() and close() move neither a lock nor another thread.
LEMMA OpenerMovesItself ==
  ASSUME Typing, Open \/ Close
  PROVE  /\ UNCHANGED <<deviceLock, bufferLock, buffer>> /\ Typing'
         /\ \A u \in Grabbers \cup Setters : pc'[u] = pc[u]
         /\ pc'[Opener] \in Successors(pc[Opener])
<1>1. UNCHANGED <<deviceLock, bufferLock, buffer>>
  BY DEF Open, Close, OpenHandle, BootFrame, CheckSlope, InstallC0, InstallC1, CheckAnchor,
         SeedAnchor, CheckOwner, TakeOwnership, SeedC0, CheckDone, CheckMapping, CloseHandle,
         DropAnchor, locks, frames
<1>2. PICK label : pc' = [pc EXCEPT ![Opener] = label] /\ label \in Successors(pc[Opener])
  <2>1. CASE OpenHandle \/ BootFrame \/ CheckSlope \/ InstallC0 \/ InstallC1
    BY <2>1 DEF OpenHandle, BootFrame, CheckSlope, InstallC0, InstallC1, Boot, GoTo, Successors
  <2>2. CASE CheckAnchor \/ SeedAnchor \/ CheckOwner \/ TakeOwnership \/ SeedC0
    BY <2>2 DEF CheckAnchor, SeedAnchor, CheckOwner, TakeOwnership, SeedC0, Boot, GoTo, Successors
  <2>3. CASE CheckDone \/ CheckMapping \/ Close
    BY <2>3 DEF CheckDone, CheckMapping, Close, CloseHandle, DropAnchor, Boot, GoTo, Successors
  <2> QED BY <2>1, <2>2, <2>3 DEF Open
<1> QED BY <1>1, <1>2, ThreadsAssumption DEF Typing, Threads

\* So they keep the invariant.
LEMMA OpenKeeps ==
  ASSUME IInv, Open \/ Close
  PROVE  IInv'
BY OpenerMovesItself DEF IInv, Typing, HoldsDevice, HoldsBuffer, OwnFrame

\* The locks are held where they have to be.
THEOREM Inductive == Spec => []IInv
<1>1. Init => IInv
  <2> SUFFICES ASSUME Init PROVE IInv
    OBVIOUS
  <2>1. pc = [t \in Threads |-> "idle"]
    BY DEF Init
  <2>2. \A t \in Grabbers \cup Setters : pc[t] = "idle"
    BY <2>1 DEF Threads
  <2>3. "idle" \notin Exclusive \cup Guarded \cup {"received"}
    BY DEF Exclusive, Guarded, Setting, Keeping
  <2> QED
    BY <2>1, <2>2, <2>3 DEF IInv, Typing, HoldsDevice, HoldsBuffer, OwnFrame
<1>2. IInv /\ [Next]_vars => IInv'
  <2> SUFFICES ASSUME IInv, [Next]_vars PROVE IInv'
    OBVIOUS
  <2>1. CASE UNCHANGED vars
    BY <2>1 DEF vars, locks, frames, IInv, Typing, HoldsDevice, HoldsBuffer, OwnFrame
  <2> QED
    BY <2>1, GrabKeeps, SetKeeps, OpenKeeps DEF Next
<1> QED BY <1>1, <1>2, PTL DEF Spec

\* A grabber processes the frame that it transferred.
THEOREM FramesAreOwn == Spec => []OwnFrame
<1>1. IInv => OwnFrame
  BY DEF IInv
<1> QED BY <1>1, Inductive, PTL

\* Whoever is at the calibration under the buffer lock is there alone.
THEOREM BufferLockExcludes == Spec => []BufferExclusive
<1>1. IInv => BufferExclusive
  BY DEF IInv, HoldsBuffer, BufferExclusive
<1> QED BY <1>1, Inductive, PTL

-----------------------------------------------------------------------------
(* The calibration.  A call of setCalibration() works alone unless it met  *)
(* an open(), so that it finds as it left it what it wrote or copied; an   *)
(* open() that met no such call finds the mapping whole and leaves it so;  *)
(* and only a call that keeps an empty mapping can unset one.              *)

InCall(t) == pc[t] \in Setting \cup Keeping

\* A call under way is the latest one, and it is known if it met an open().
Numbers ==
  /\ {cals, raced, lost, installed, pin} \subseteq Nat
  /\ raced <= cals /\ lost <= cals /\ installed <= cals /\ pin <= cals
  /\ \A t \in Setters : InCall(t) =>
       /\ installed < cals
       /\ Opening => raced = cals /\ (pc[t] \in Keeping => lost = cals)

\* What a call has written or copied so far is there yet, if it met no open().
Written ==
  /\ kept = [c0 |-> kept.c0, c1 |-> kept.c1]
  /\ \A t \in Setters :
       /\ raced < cals =>
            /\ pc[t] \in Setting \ {"setSource"} => c0Source = "Host"
            /\ pc[t] = "setC1" => c0 = cals
            /\ pc[t] \in Keeping \ {"copyC0"} => kept.c0 = c0
            /\ pc[t] \in {"keepC0", "keepC1"} => kept.c1 = c1
       /\ lost < cals => (pc[t] \in {"keepC0", "keepC1"} => kept.c1 = c1)

\* A pin of a call that met no open() stays, and no boot finds the anchor unset.
Pinned ==
  /\ pin > raced => anchor = pin
  /\ pc[Opener] = "anchor" => pin <= raced

\* The mapping and its owner are of the calibration installed last, or of a boot.
Whole ==
  /\ c0 = c1
  /\ IF installed > 0 THEN c1 = installed /\ c0Source = "Host"
                      ELSE c1 \in {Unset, Firmware} /\ c0Source # "Host"

\* open() is about to install a mapping, and has installed the offset.
Installing == pc[Opener] \in {"slopeC0", "slopeC1", "identityC0", "identityC1"}
HalfInstalled == pc[Opener] \in {"slopeC1", "identityC1"}

\* Only in a call or in open() the mapping is in two; a boot that seeds one is sure
\* that there is none of the application.
Mapped ==
  Unraced(raced) =>
    /\ \/ \E t \in Setters : pc[t] \in Setting \ {"setSource"}
       \/ HalfInstalled
       \/ Whole
    /\ HalfInstalled => c0 = Firmware
    /\ Installing => c1 = Unset /\ installed = 0 /\ c0Source # "Host"
    /\ pc[Opener] \in {"take", "seed"} => installed = 0 /\ c0Source # "Host"

\* A grabber that decided to re-anchor still may.
Owned == \A t \in Grabbers : pc[t] = "reanchor" => c0Source = "CameraAuto"

\* Where open() is sure of an anchor, and of a mapping.
Anchored ==
  \/ pc[Opener] \in {"owner", "take", "seed", "mapping", "identityC0", "identityC1"}
  \/ pc[Opener] = "idle" /\ handle

Seeded ==
  /\ pc[Opener] = "closing" => ~handle
  /\ Anchored => anchor # Unset
  /\ Unraced(lost) /\ pc[Opener] = "idle" /\ handle => c1 # Unset

CInv == Numbers /\ Written /\ Pinned /\ Mapped /\ Owned /\ Seeded

\* A call that met no open() knows more of the mapping.
LEMMA CallAlone ==
  ASSUME Numbers, NEW t \in Setters, InCall(t), Unraced(raced)
  PROVE  raced < cals /\ ~Opening
BY DEF Numbers, Unraced

\* A grabber that leaves the calibration alone leaves what is known of it alone.
LEMMA GrabberPasses ==
  ASSUME IInv, CInv, NEW t \in Grabbers, NEW label, GoTo(t, label) \/ UNCHANGED pc,
         label = "reanchor" => c0Source = "CameraAuto",
         UNCHANGED <<handle, calibration, kept, calls>>
  PROVE  CInv'
<1>1. \A u \in Setters \cup {Opener} : pc'[u] = pc[u]
  BY ThreadsAssumption DEF GoTo, IInv, Typing, Threads
<1>2. \A u \in Grabbers : pc'[u] = "reanchor" => pc[u] = "reanchor" \/ c0Source = "CameraAuto"
  BY DEF GoTo, IInv, Typing, Threads
<1>3. UNCHANGED <<handle, anchor, c0, c1, c0Source, kept, cals, raced, lost, installed, pin>>
  BY DEF calibration, calls
<1>4. Numbers' /\ Written' /\ Pinned'
  BY <1>1, <1>3 DEF CInv, Numbers, InCall, Opening, Written, Pinned
<1>5. Mapped' /\ Owned' /\ Seeded'
  BY <1>1, <1>2, <1>3
  DEF CInv, Mapped, Unraced, Installing, HalfInstalled, Whole, Owned, Seeded, Anchored
<1> QED BY <1>4, <1>5 DEF CInv

\* A step of a grabber keeps what is known of the calibration.
LEMMA GrabKeepsCalibration ==
  ASSUME IInv, CInv, NEW t \in Grabbers, Grab(t)
  PROVE  CInv'
<1>1. ASSUME Reanchor(t) PROVE CInv'
  <2>1. \A u \in Setters : pc[u] \notin Guarded
    BY <1>1, ThreadsAssumption DEF Reanchor, IInv, HoldsBuffer, Guarded
  <2>2. \A u \in Setters \cup {Opener} : pc'[u] = pc[u]
    BY <1>1, ThreadsAssumption DEF Reanchor, GoTo, IInv, Typing, Threads
  <2>3. \A u \in Grabbers : pc'[u] = "reanchor" => pc[u] = "reanchor"
    BY <1>1 DEF Reanchor, GoTo, IInv, Typing, Threads
  <2>4. /\ c0Source = "CameraAuto" /\ UNCHANGED <<handle, anchor, c1, c0Source, kept>>
        /\ UNCHANGED <<cals, raced, lost, installed, pin>>
        /\ c0' = c0 \/ (c1 # Unset /\ c0' = Firmware)
    BY <1>1 DEF Reanchor, updateTemperatureCalibration, CInv, Owned, calls
  <2>5. Numbers' /\ Written' /\ Pinned' /\ Owned' /\ Seeded'
    BY <2>1, <2>2, <2>3, <2>4
    DEF CInv, Numbers, InCall, Opening, Written, Pinned, Owned, Seeded, Anchored, Unraced, Guarded,
        Setting, Keeping
  <2>6. Mapped'
    <3> SUFFICES ASSUME Unraced(raced) PROVE Mapped'
      BY <2>4 DEF Mapped, Unraced
    <3>1. (HalfInstalled /\ c0 = Firmware /\ c1 = Unset) \/ Whole
      BY <2>1 DEF CInv, Mapped, Guarded, HalfInstalled, Installing
    <3>2. CASE HalfInstalled /\ c0 = Firmware /\ c1 = Unset
      BY <2>2, <2>4, <3>2 DEF CInv, Mapped, Unraced, Installing, HalfInstalled
    <3>3. CASE Whole
      <4>1. Whole' /\ (HalfInstalled => c0' = Firmware)
        BY <2>4, <3>3 DEF Whole, CInv, Mapped
      <4> QED BY <2>2, <2>4, <4>1 DEF CInv, Mapped, Unraced, Installing, HalfInstalled
    <3> QED BY <3>1, <3>2, <3>3
  <2> QED BY <2>5, <2>6 DEF CInv
<1>2. CASE ~Reanchor(t)
  <2>1. PICK label :
          /\ GoTo(t, label) \/ UNCHANGED pc
          /\ label = "reanchor" => c0Source = "CameraAuto"
    BY <1>2 DEF Grab, LockDevice, LockBuffer, Transfer, Compensate, CheckShutter,
                UnlockBuffer, UnlockDevice, LockForMapping, MapC0, MapC1, Return
  <2>2. UNCHANGED <<handle, calibration, kept, calls>>
    BY <1>2 DEF Grab, LockDevice, LockBuffer, Transfer, Compensate, CheckShutter,
                UnlockBuffer, UnlockDevice, LockForMapping, MapC0, MapC1, Return
  <2> QED
    BY <2>1, <2>2, GrabberPasses
<1> QED
  BY <1>1, <1>2

\* What a step of a setter finds and leaves of the other threads.
Alone(t) ==
  /\ \A u \in Setters : u # t => pc[u] \notin Setting \cup Keeping
  /\ \A u \in Grabbers : pc[u] # "reanchor"
  /\ \A u \in Grabbers \cup {Opener} \cup (Setters \ {t}) : pc'[u] = pc[u]

\* A setter past the lock is the only one, and no grabber re-anchors.
LEMMA SetterAlone ==
  ASSUME IInv, NEW t \in Setters, Set(t)
  PROVE  Alone(t)
<1>1. \A u \in Grabbers \cup {Opener} \cup (Setters \ {t}) : pc'[u] = pc[u]
  BY ThreadsAssumption
  DEF Set, SetBegin, SetSource, SetAnchor, SetC0, SetC1, KeepBegin, CopyC0, CopyC1, KeepC0,
      KeepC1, GoTo, IInv, Typing, Threads
<1>2. \A u \in Grabbers \cup (Setters \ {t}) : pc[u] \notin Guarded
  <2>1. CASE SetBegin(t) \/ KeepBegin(t)
    BY <2>1, ThreadsAssumption DEF SetBegin, KeepBegin, IInv, HoldsBuffer, Threads
  <2>2. CASE pc[t] \in Guarded
    BY <2>2, ThreadsAssumption DEF IInv, HoldsBuffer
  <2> QED
    BY <2>1, <2>2
    DEF Set, SetSource, SetAnchor, SetC0, SetC1, CopyC0, CopyC1, KeepC0, KeepC1, Guarded, Setting,
        Keeping
<1> QED BY <1>1, <1>2 DEF Alone, Guarded

\* The begin of a call.
LEMMA BeginKeepsCalibration ==
  ASSUME IInv, CInv, NEW t \in Setters, SetBegin(t) \/ KeepBegin(t)
  PROVE  CInv'
<1>1. Alone(t)
  BY SetterAlone DEF Set
<1>2. /\ pc[t] = "idle" /\ pc'[t] \in {"setSource", "copyC0"} /\ cals' = cals + 1
      /\ UNCHANGED <<handle, anchor, c0, c1, c0Source, kept, installed, pin>>
      /\ raced' = (IF Opening THEN cals' ELSE raced)
      /\ lost' = (IF Opening /\ pc'[t] = "copyC0" THEN cals' ELSE lost)
  BY DEF SetBegin, KeepBegin, GoTo, IInv, Typing, Threads, calibration
<1>3. \A u \in Setters : u # t => pc'[u] \notin Setting \cup Keeping
  BY <1>1 DEF Alone
<1>4. pc'[Opener] = pc[Opener] /\ \A u \in Grabbers : pc'[u] # "reanchor"
  BY <1>1 DEF Alone
<1>5. Numbers'
  BY <1>2, <1>3, <1>4 DEF CInv, Numbers, InCall, Opening, Setting, Keeping
<1>6. Written' /\ Owned'
  BY <1>2, <1>3, <1>4 DEF CInv, Written, Owned, Setting, Keeping
<1>7. Pinned'
  BY <1>2, <1>4 DEF CInv, Numbers, Pinned, Opening
<1>8. /\ Unraced(raced)' => Unraced(raced)
      /\ Unraced(lost)' => Unraced(lost)
  BY <1>2 DEF CInv, Numbers, Unraced
<1>9. Mapped'
  <2> SUFFICES ASSUME Unraced(raced) PROVE Mapped'
    BY <1>8 DEF Mapped
  <2>1. HalfInstalled \/ Whole
    BY <1>1, <1>2 DEF CInv, Mapped, Alone, Setting
  <2>2. HalfInstalled' \/ Whole'
    BY <1>2, <1>4, <2>1 DEF HalfInstalled, Whole
  <2> QED BY <1>2, <1>4, <2>2 DEF CInv, Mapped, Installing, HalfInstalled
<1>10. Seeded'
  BY <1>2, <1>4, <1>8 DEF CInv, Seeded, Anchored
<1> QED BY <1>5, <1>6, <1>7, <1>9, <1>10 DEF CInv

\* The steps of a call that brings a mapping.
LEMMA SetKeepsCalibration ==
  ASSUME IInv, CInv, NEW t \in Setters, SetSource(t) \/ SetAnchor(t) \/ SetC0(t) \/ SetC1(t)
  PROVE  CInv'
<1>1. Alone(t)
  BY SetterAlone DEF Set
<1>2. \A u \in Setters : u # t => pc'[u] \notin Setting \cup Keeping
  BY <1>1 DEF Alone
<1>3. pc'[Opener] = pc[Opener] /\ \A u \in Grabbers : pc'[u] # "reanchor"
  BY <1>1 DEF Alone
<1>4. /\ pc[t] \in Setting /\ pc'[t] \in (Setting \ {"setSource"}) \cup {"idle"}
      /\ UNCHANGED <<handle, kept, cals, raced, lost>>
      /\ \/ pc[t] = "setC1" /\ pc'[t] = "idle" /\ installed' = cals /\ c1' = cals
         \/ pc[t] # "setC1" /\ pc'[t] # "idle" /\ installed' = installed /\ c1' = c1
      /\ IF pc[t] = "setSource" THEN c0Source' = "Host" ELSE c0Source' = c0Source
      /\ IF pc[t] = "setC0" THEN c0' = cals ELSE c0' = c0
      /\ pc'[t] = "setC1" <=> pc[t] = "setC0"
      /\ \/ anchor' = cals /\ pin' = cals
         \/ UNCHANGED <<anchor, pin>>
  BY DEF SetSource, SetAnchor, SetC0, SetC1, GoTo, IInv, Typing, Threads, Setting, calls
<1>5. /\ {cals, raced, lost, installed, pin} \subseteq Nat /\ cals > 0 /\ installed < cals
      /\ raced <= cals /\ lost <= cals /\ pin <= cals
      /\ Opening => raced = cals
  BY <1>4 DEF CInv, Numbers, InCall
<1>6. Numbers'
  BY <1>2, <1>3, <1>4, <1>5 DEF CInv, Numbers, InCall, Opening, Setting, Keeping
<1>7. Written' /\ Owned'
  BY <1>2, <1>3, <1>4, <1>5 DEF CInv, Written, Owned, Setting, Keeping
<1>8. Pinned'
  BY <1>3, <1>4, <1>5 DEF CInv, Pinned, Opening
<1>9. Mapped'
  <2>1. ASSUME pc'[t] # "idle" PROVE Mapped'
    <3> SUFFICES ASSUME Unraced(raced) PROVE Mapped'
      BY <1>4, <2>1 DEF Mapped, Unraced
    <3>1. ~Opening
      BY <1>4, CallAlone DEF CInv, InCall
    <3>2. ~Installing' /\ ~HalfInstalled' /\ pc'[Opener] \notin {"take", "seed"}
      BY <1>3, <3>1 DEF Opening, Installing, HalfInstalled
    <3> QED BY <1>4, <2>1, <3>2 DEF Mapped
  <2>2. ASSUME pc'[t] = "idle" PROVE Mapped'
    <3> SUFFICES ASSUME raced < cals PROVE Mapped'
      BY <1>4, <1>5, <2>2 DEF Mapped, Unraced
    <3>1. c0 = cals /\ c0Source = "Host" /\ ~Opening
      BY <1>4, <1>5, <2>2 DEF CInv, Written, Setting
    <3>2. Whole'
      BY <1>4, <1>5, <2>2, <3>1 DEF Whole
    <3>3. ~Installing' /\ ~HalfInstalled' /\ pc'[Opener] \notin {"take", "seed"}
      BY <1>3, <3>1 DEF Opening, Installing, HalfInstalled
    <3> QED BY <3>2, <3>3 DEF Mapped
  <2> QED BY <2>1, <2>2
<1>10. Seeded'
  BY <1>3, <1>4, <1>5 DEF CInv, Seeded, Anchored, Unraced, Unset
<1> QED BY <1>6, <1>7, <1>8, <1>9, <1>10 DEF CInv

\* The steps of a call that keeps the mapping there is.
LEMMA KeepKeepsCalibration ==
  ASSUME IInv, CInv, NEW t \in Setters, CopyC0(t) \/ CopyC1(t) \/ KeepC0(t) \/ KeepC1(t)
  PROVE  CInv'
<1>1. Alone(t)
  BY SetterAlone DEF Set
<1>2. \A u \in Setters : u # t => pc'[u] \notin Setting \cup Keeping
  BY <1>1 DEF Alone
<1>3. pc'[Opener] = pc[Opener] /\ \A u \in Grabbers : pc'[u] # "reanchor"
  BY <1>1 DEF Alone
<1>4. /\ pc[t] \in Keeping /\ pc'[t] \in (Keeping \ {"copyC0"}) \cup {"idle"}
      /\ UNCHANGED <<handle, anchor, c0Source, cals, raced, lost, installed, pin>>
      /\ kept' = [c0 |-> kept'.c0, c1 |-> kept'.c1]
      /\ \/ /\ pc[t] = "copyC0" /\ pc'[t] = "copyC1"
            /\ kept'.c0 = c0 /\ UNCHANGED <<c0, c1>>
         \/ /\ pc[t] = "copyC1" /\ pc'[t] = "keepC0"
            /\ kept'.c0 = kept.c0 /\ kept'.c1 = c1 /\ UNCHANGED <<c0, c1>>
         \/ /\ pc[t] = "keepC0" /\ pc'[t] = "keepC1"
            /\ c0' = kept.c0 /\ UNCHANGED <<kept, c1>>
         \/ /\ pc[t] = "keepC1" /\ pc'[t] = "idle"
            /\ c1' = kept.c1 /\ UNCHANGED c0
  <2> USE DEF GoTo, IInv, Typing, Threads, Keeping, calls, calibration
  <2>1. kept = [c0 |-> kept.c0, c1 |-> kept.c1]
    BY DEF CInv, Written
  <2>2. CASE CopyC0(t)
    BY <2>1, <2>2 DEF CopyC0
  <2>3. CASE CopyC1(t)
    BY <2>1, <2>3 DEF CopyC1
  <2>4. CASE KeepC0(t)
    BY <2>1, <2>4 DEF KeepC0
  <2>5. CASE KeepC1(t)
    BY <2>5 DEF KeepC1, NoMapping
  <2> QED BY <2>2, <2>3, <2>4, <2>5
<1>5. /\ {cals, raced, lost, installed, pin} \subseteq Nat /\ cals > 0 /\ installed < cals
      /\ raced <= cals /\ lost <= cals
      /\ Opening => raced = cals /\ lost = cals
  BY <1>4 DEF CInv, Numbers, InCall
<1>6. Numbers'
  BY <1>2, <1>3, <1>4, <1>5 DEF CInv, Numbers, InCall, Opening, Setting, Keeping
<1>7. Written' /\ Owned'
  BY <1>2, <1>3, <1>4, <1>5 DEF CInv, Written, Owned, Setting, Keeping
<1>8. Pinned'
  BY <1>3, <1>4 DEF CInv, Pinned
<1>9. raced < cals => UNCHANGED <<c0, c1>>
  BY <1>4 DEF CInv, Written, Keeping
<1>10. Mapped'
  <2> SUFFICES ASSUME Unraced(raced) PROVE Mapped'
    BY <1>4 DEF Mapped, Unraced
  <2>1. raced < cals /\ ~Opening
    BY <1>4, CallAlone DEF CInv, InCall
  <2>2. Whole
    BY <1>1, <1>4, <2>1 DEF CInv, Mapped, Alone, Setting, Keeping, Opening, HalfInstalled
  <2>3. Whole'
    BY <1>4, <1>9, <2>1, <2>2 DEF Whole
  <2>4. ~Installing' /\ ~HalfInstalled' /\ pc'[Opener] \notin {"take", "seed"}
    BY <1>3, <2>1 DEF Opening, Installing, HalfInstalled
  <2> QED BY <2>3, <2>4 DEF Mapped
<1>11. Unraced(lost) => UNCHANGED c1
  BY <1>4, <1>5 DEF CInv, Written, Unraced
<1>12. Seeded'
  BY <1>3, <1>4, <1>11 DEF CInv, Seeded, Anchored, Unraced
<1> QED BY <1>6, <1>7, <1>8, <1>10, <1>12 DEF CInv

\* A step of open(): whatever call it meets is known to have been met.
LEMMA OpenKeepsCalibration ==
  ASSUME IInv, CInv, Open
  PROVE  CInv'
<1>1. \A u \in Grabbers \cup Setters : pc'[u] = pc[u]
  BY OpenerMovesItself DEF IInv
<1>2. Opener \in Threads /\ pc = [u \in Threads |-> pc[u]]
  BY DEF IInv, Typing, Threads
<1>3. CASE OpenHandle
  <2>1. /\ pc[Opener] = "idle" /\ pc'[Opener] = "transfer"
        /\ UNCHANGED <<anchor, c0, c1, c0Source, kept, cals, installed, pin>>
        /\ raced' \in {raced, cals} /\ lost' \in {lost, cals}
        /\ \A t \in Setters : InCall(t) => raced' = cals /\ (pc[t] \in Keeping => lost' = cals)
    BY <1>2, <1>3 DEF OpenHandle, Boot, GoTo, InCall, calibration
  <2>2. Numbers'
    BY <1>1, <2>1 DEF CInv, Numbers, InCall
  <2>3. Written' /\ Owned'
    BY <1>1, <2>1 DEF CInv, Numbers, Written, Owned, InCall
  <2>4. Pinned'
    BY <2>1 DEF CInv, Numbers, Pinned
  <2>5. Mapped'
    <3> SUFFICES ASSUME Unraced(raced)' PROVE Mapped'
      BY DEF Mapped
    <3>1. Unraced(raced)
      BY <2>1 DEF CInv, Numbers, Unraced
    <3>2. \A t \in Setters : ~InCall(t)
      BY <2>1 DEF CInv, Numbers, Unraced
    <3>3. Whole
      BY <2>1, <3>1, <3>2 DEF CInv, Mapped, InCall, HalfInstalled
    <3> QED BY <2>1, <3>3 DEF Mapped, Whole, Installing, HalfInstalled
  <2>6. Seeded'
    BY <2>1 DEF Seeded, Anchored
  <2> QED BY <2>2, <2>3, <2>4, <2>5, <2>6 DEF CInv
<1>4. CASE ~OpenHandle
  <2>1. Opening /\ UNCHANGED <<handle, kept, cals, raced, lost, installed, pin>>
    BY <1>4 DEF Open, BootFrame, CheckSlope, InstallC0, InstallC1, CheckAnchor, SeedAnchor,
       CheckOwner, TakeOwnership, SeedC0, CheckDone, CheckMapping, Boot, Opening, calls
  <2>2. Numbers'
    BY <1>1, <2>1 DEF CInv, Numbers, InCall
  <2>3. \A t \in Setters : InCall(t) => raced = cals /\ (pc[t] \in Keeping => lost = cals)
    BY <2>1 DEF CInv, Numbers
  <2>4. Written'
    BY <1>1, <2>1, <2>3 DEF CInv, Numbers, Written, InCall, Setting, Keeping
  <2>5. Owned'
    BY <1>1, <1>4 DEF Open, BootFrame, CheckSlope, InstallC0, InstallC1, CheckAnchor, SeedAnchor,
       CheckOwner, TakeOwnership, SeedC0, CheckDone, CheckMapping, calibration, CInv, Owned
  <2>6. Pinned'
    <3>1. CASE SeedAnchor
      BY <1>2, <2>1, <3>1 DEF SeedAnchor, Boot, GoTo, CInv, Numbers, Pinned
    <3>2. CASE CheckAnchor
      BY <1>2, <2>1, <3>2 DEF CheckAnchor, Boot, GoTo, CInv, Numbers, Pinned, calibration, Unset
    <3>3. CASE ~SeedAnchor /\ ~CheckAnchor
      <4>1. UNCHANGED anchor /\ pc'[Opener] # "anchor"
        BY <1>2, <1>4, <3>3 DEF Open, BootFrame, CheckSlope, InstallC0, InstallC1, CheckOwner,
           TakeOwnership, SeedC0, CheckDone, CheckMapping, Boot, GoTo, calibration
      <4> QED BY <2>1, <4>1 DEF CInv, Pinned
    <3> QED BY <3>1, <3>2, <3>3
  <2>7. Mapped'
    <3> SUFFICES ASSUME Unraced(raced) PROVE Mapped'
      BY <2>1 DEF Mapped, Unraced
    <3>1. \A t \in Setters : ~InCall(t)
      BY <2>1, CallAlone DEF CInv
    <3>2. HalfInstalled \/ Whole
      BY <3>1 DEF CInv, Mapped, InCall
    <3>3. CASE InstallC0
      BY <1>2, <2>1, <3>3 DEF InstallC0, Boot, GoTo, CInv, Mapped, Installing, HalfInstalled
    <3>4. CASE InstallC1
      BY <1>2, <2>1, <3>2, <3>4
      DEF InstallC1, Boot, GoTo, CInv, Mapped, Installing, HalfInstalled, Whole
    <3>5. CASE ~InstallC0 /\ ~InstallC1
      <4>1. ~HalfInstalled
        BY <1>4, <3>5 DEF Open, BootFrame, CheckSlope, CheckAnchor, SeedAnchor, CheckOwner,
           TakeOwnership, SeedC0, CheckDone, CheckMapping, Boot, HalfInstalled
      <4>2. Whole
        BY <3>2, <4>1
      <4>3. CASE TakeOwnership \/ SeedC0
        BY <1>2, <2>1, <4>2, <4>3 DEF TakeOwnership, SeedC0, updateTemperatureCalibration, Boot,
           GoTo, CInv, Mapped, Installing, HalfInstalled, Whole, Unset, Firmware
      <4>4. CASE CheckSlope \/ CheckMapping
        <5>1. /\ Whole' /\ pc'[Opener] \notin {"take", "seed"}
              /\ ~HalfInstalled' /\ (Installing' => c1 = Unset)
          BY <1>2, <2>1, <4>2, <4>4 DEF CheckSlope, CheckMapping, Boot, GoTo, Installing,
             HalfInstalled, Whole, calibration
        <5>2. c1 = Unset => installed = 0 /\ c0Source # "Host"
          BY <4>2 DEF Whole, CInv, Numbers, Unset
        <5> QED BY <2>1, <4>4, <5>1, <5>2 DEF Mapped, CheckSlope, CheckMapping, calibration
      <4>5. CASE BootFrame \/ CheckAnchor \/ SeedAnchor \/ CheckOwner \/ CheckDone
        BY <1>2, <2>1, <4>2, <4>5 DEF BootFrame, CheckAnchor, SeedAnchor, CheckOwner, CheckDone,
           Boot, GoTo, calibration, Mapped, Installing, HalfInstalled, Whole, CInv, Numbers
      <4> QED BY <1>4, <3>5, <4>3, <4>4, <4>5 DEF Open
    <3> QED BY <3>3, <3>4, <3>5
  <2>8. Seeded'
    <3>1. pc'[Opener] # "closing"
      BY <2>1, OpenerMovesItself DEF Successors, Opening, IInv
    <3>2. Anchored' => anchor' # Unset
      BY <1>2, <1>4, <2>1 DEF Open, BootFrame, CheckSlope, InstallC0, InstallC1, CheckAnchor,
         SeedAnchor, CheckOwner, TakeOwnership, SeedC0, CheckDone, CheckMapping, Boot, GoTo,
         calibration, CInv, Seeded, Anchored, Unset, Firmware
    <3>3. pc'[Opener] = "idle" => c1' # Unset
      BY <1>2, <1>4 DEF Open, BootFrame, CheckSlope, InstallC0, InstallC1, CheckAnchor,
         SeedAnchor, CheckOwner, TakeOwnership, SeedC0, CheckDone, CheckMapping, Boot, GoTo,
         calibration, Unset, Firmware
    <3> QED BY <3>1, <3>2, <3>3 DEF Seeded
  <2> QED BY <2>2, <2>4, <2>5, <2>6, <2>7, <2>8 DEF CInv
<1> QED BY <1>3, <1>4

\* So does close(), which drops the anchor and what it was pinned to.
LEMMA CloseKeepsCalibration ==
  ASSUME IInv, CInv, Close
  PROVE  CInv'
<1>1. \A u \in Grabbers \cup Setters : pc'[u] = pc[u]
  BY OpenerMovesItself DEF IInv
<1>2. /\ ~Opening /\ ~Opening' /\ pc'[Opener] \in {"idle", "closing"} /\ ~handle'
      /\ UNCHANGED <<c0, c1, c0Source, kept, cals, raced, lost, installed>>
      /\ UNCHANGED <<anchor, pin>> \/ pin' = 0
  BY DEF Close, CloseHandle, DropAnchor, Boot, GoTo, IInv, Typing, Threads, Opening, calibration,
         calls, CInv, Seeded
<1>3. Numbers' /\ Written' /\ Owned'
  BY <1>1, <1>2 DEF CInv, Numbers, InCall, Written, Owned
<1>4. Pinned'
  BY <1>2 DEF CInv, Numbers, Pinned
<1>5. Mapped'
  BY <1>1, <1>2 DEF CInv, Mapped, Unraced, Installing, HalfInstalled, Whole, Opening
<1>6. Seeded'
  BY <1>2 DEF Seeded, Anchored
<1> QED BY <1>3, <1>4, <1>5, <1>6 DEF CInv

\* The calibration is as the locks, the boot and the calls that met it leave it.
THEOREM CalibrationInductive == Spec => []CInv
<1>1. Init => CInv
  <2> SUFFICES ASSUME Init PROVE CInv
    OBVIOUS
  <2>1. \A t \in Threads : pc[t] = "idle"
    BY DEF Init
  <2>2. Opener \in Threads /\ \A t \in Grabbers \cup Setters : t \in Threads
    BY DEF Threads
  <2>3. Numbers /\ Written /\ Pinned
    BY <2>1, <2>2 DEF Init, Numbers, InCall, Setting, Keeping, Written, NoMapping, Pinned
  <2>4. Mapped /\ Owned /\ Seeded
    BY <2>1, <2>2 DEF Init, Mapped, Installing, HalfInstalled, Whole, Owned, Seeded, Anchored, Unset, Firmware
  <2> QED BY <2>3, <2>4 DEF CInv
<1>2. IInv /\ CInv /\ [Next]_vars => CInv'
  <2> SUFFICES ASSUME IInv, CInv, [Next]_vars PROVE CInv'
    OBVIOUS
  <2>1. CASE UNCHANGED vars
    <3>1. Numbers' /\ Written' /\ Pinned'
      BY <2>1 DEF vars, calibration, calls, CInv, Numbers, InCall, Opening, Written, Pinned
    <3>2. Mapped' /\ Owned' /\ Seeded'
      BY <2>1 DEF vars, calibration, calls, CInv, Mapped, Unraced, Installing, HalfInstalled, Whole,
         Owned, Seeded, Anchored
    <3> QED BY <3>1, <3>2 DEF CInv
  <2>2. ASSUME NEW t \in Setters, Set(t) PROVE CInv'
    BY <2>2, BeginKeepsCalibration, SetKeepsCalibration, KeepKeepsCalibration DEF Set
  <2> QED
    BY <2>1, <2>2, GrabKeepsCalibration, OpenKeepsCalibration, CloseKeepsCalibration DEF Next
<1> QED BY <1>1, <1>2, Inductive, PTL DEF Spec

\* No thread that takes the buffer lock finds half a calibration, after any number of
\* openings, closings and calls, but for a call that met an open(), until the next one.
THEOREM CalibrationIsWhole == Spec => []CalibrationWhole
<1>1. IInv /\ CInv => CalibrationWhole
  <2> SUFFICES ASSUME IInv, CInv, bufferLock = Nobody, ~Opening
               PROVE  (Unraced(raced) => Whole) /\ (pin > raced => anchor = pin)
    BY DEF CalibrationWhole, Whole
  <2>1. \A t \in Setters : pc[t] \notin Guarded
    BY ThreadsAssumption DEF IInv, HoldsBuffer
  <2> QED
    BY <2>1 DEF CInv, Mapped, Pinned, Guarded, Opening, HalfInstalled
<1> QED BY <1>1, Inductive, CalibrationInductive, PTL

\* A camera that is open has a mapping and an anchor, but for a mapping that a call
\* without one, and under way during the boot, unset again.
THEOREM BootEndsSeeded == Spec => []BootSeeds
<1>1. CInv => BootSeeds
  BY DEF CInv, Seeded, Anchored, BootSeeds
<1> QED BY <1>1, CalibrationInductive, PTL
=============================================================================
