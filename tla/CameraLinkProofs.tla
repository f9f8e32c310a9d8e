-------------------------- MODULE CameraLinkProofs --------------------------
(***************************************************************************)
(* The transfer of frames, for every frame and request size: the inductive *)
(* invariant says that what was received so far is a prefix of the buffer, *)
(* written by this grab, and that the rest still fits.                     *)
(*                                                                         *)
(* Then what the setup of the device and the transfer of frames promise    *)
(* when they share a handle, for every product and retry bound: no frame   *)
(* is read from a device that did not boot, unless openDevice() threw and  *)
(* left its handle, and the two parts are seen by each other as            *)
(* FrameTransfer has its callers, so that what is proved of it alone holds *)
(* here.                                                                   *)
(***************************************************************************)
EXTENDS CameraLink, TLAPS

Prefix ==
  /\ pc = "start" => todo = Total /\ Total <= size
  /\ pc = "loop" => \A i \in Offsets : i < done => content[i] = grab

IInv == TypeOK /\ FitsBuffer /\ Prefix

\* What a bulk transfer of n bytes leaves in the buffer.
LEMMA WrittenFacts ==
  ASSUME TypeOK, NEW n \in Nat
  PROVE  /\ Written(n) \in [Offsets -> 0 .. MaxGrabs]
         /\ \A i \in Offsets : i < done => Written(n)[i] = content[i]
         /\ \A i \in Offsets : done <= i /\ i < done + n => Written(n)[i] = grab
  BY DEF Written, TypeOK, Offsets

\* A chunk is never longer than what is missing.
LEMMA ChunkBounds ==
  ASSUME TypeOK, NEW n \in 0 .. Least(Request, todo)
  PROVE  n \in Nat /\ n <= todo /\ todo - n \in 0 .. Total
  BY TransferAssumption DEF Least, TypeOK

\* A bulk transfer, short or full, keeps the invariant of a transfer.
LEMMA BulkTransferKeepsIInv ==
  ASSUME IInv, NEW n \in 0 .. Request, BulkTransfer(n)
  PROVE  IInv'
<1>1. /\ pc = "loop" /\ n \in 0 .. Least(Request, todo)
      /\ content' = Written(n) /\ done' = done + n /\ todo' = todo - n
      /\ UNCHANGED <<open, grab, size>>
      /\ \/ pc' = "idle" /\ result' = "TRANSFER_INCOMPLETE"
         \/ UNCHANGED <<pc, result>>
  BY DEF BulkTransfer, Return
<1>2. n \in Nat /\ n <= todo /\ todo - n \in 0 .. Total
  BY <1>1, ChunkBounds DEF IInv
<1>3. done + todo = Total /\ Total <= size
  BY <1>1 DEF IInv, FitsBuffer
<1>4. TypeOK'
  <2>1. done' \in 0 .. Total
    BY <1>1, <1>2, <1>3, TransferAssumption DEF IInv, TypeOK
  <2> QED BY <1>1, <1>2, <2>1, WrittenFacts DEF IInv, TypeOK, Failures
<1>5. FitsBuffer'
  BY <1>1, <1>2, <1>3, TransferAssumption DEF IInv, TypeOK, FitsBuffer
<1>6. Prefix'
  <2> SUFFICES ASSUME pc' = "loop", NEW i \in Offsets, i < done'
               PROVE  content'[i] = grab'
    BY <1>1 DEF Prefix
  <2>1. CASE i < done
    BY <1>1, <1>2, <2>1, WrittenFacts DEF IInv, Prefix
  <2>2. CASE done <= i
    BY <1>1, <1>2, <2>2, WrittenFacts DEF IInv
  <2> QED BY <2>1, <2>2 DEF IInv, TypeOK, Offsets
<1> QED BY <1>4, <1>5, <1>6 DEF IInv

\* So does one that fails after some bytes.
LEMMA BulkTransferFailsKeepsIInv ==
  ASSUME IInv, NEW n \in 0 .. Request, BulkTransferFails(n)
  PROVE  IInv'
<1>1. /\ n \in 0 .. Least(Request, todo) /\ content' = Written(n)
      /\ pc' = "idle" /\ result' = "TRANSFER_INCOMPLETE"
      /\ UNCHANGED <<open, grab, size, todo, done>>
  BY DEF BulkTransferFails, Return
<1>2. content' \in [Offsets -> 0 .. MaxGrabs]
  BY <1>1, ChunkBounds, WrittenFacts DEF IInv
<1> QED BY <1>1, <1>2 DEF IInv, TypeOK, Failures, FitsBuffer, Prefix

\* The steps of a grab that move no bytes, and those of its caller.
LEMMA OtherStepsKeepIInv ==
  ASSUME IInv, \/ OpenOrClose \/ (\E s \in Sizes : ChangeBuffer(s))
               \/ GrabNotOpen \/ GrabBegins \/ StartTransfer \/ TransferDone
  PROVE  IInv'
<1> USE TransferAssumption DEF IInv, TypeOK, FitsBuffer, Prefix, Failures, Return
<1>1. CASE OpenOrClose
  BY <1>1 DEF OpenOrClose
<1>2. ASSUME NEW s \in Sizes, ChangeBuffer(s) PROVE IInv'
  BY <1>2 DEF ChangeBuffer
<1>3. CASE GrabNotOpen
  BY <1>3 DEF GrabNotOpen, Call
<1>4. CASE GrabBegins
  BY <1>4 DEF GrabBegins, Call
<1>5. CASE StartTransfer
  BY <1>5 DEF StartTransfer, Offsets
<1>6. CASE TransferDone
  BY <1>6 DEF TransferDone
<1> QED BY <1>1, <1>2, <1>3, <1>4, <1>5, <1>6

\* What a grab received is a prefix of the frame, all of this grab, and the rest still fits.
THEOREM Inductive == Spec => []IInv
<1>1. Init => IInv
  <2>1. Init => open \in BOOLEAN
    BY DEF Init
  <2>2. Init => content \in [Offsets -> 0 .. MaxGrabs]
    BY TransferAssumption DEF Init
  <2>3. Init => /\ grab \in 0 .. MaxGrabs /\ size \in Nat
                /\ todo \in 0 .. Total /\ done \in 0 .. Total
    BY TransferAssumption DEF Init
  <2> QED BY <2>1, <2>2, <2>3 DEF Init, IInv, TypeOK, FitsBuffer, Prefix
<1>2. IInv /\ [Next]_vars => IInv'
  <2> SUFFICES ASSUME IInv, [Next]_vars PROVE IInv'
    OBVIOUS
  <2>1. CASE UNCHANGED vars
    BY <2>1 DEF vars, IInv, TypeOK, FitsBuffer, Prefix
  <2> QED
    BY <2>1, BulkTransferKeepsIInv, BulkTransferFailsKeepsIInv, OtherStepsKeepIInv
    DEF Next, GrabStep
<1> QED BY <1>1, <1>2, PTL DEF Spec

\* Every variable keeps its type: no counter leaves the frame.
THEOREM TypeCorrect == Spec => []TypeOK
  BY Inductive, PTL DEF IInv

\* No bulk transfer is asked for that does not fit behind what was received.
THEOREM NeverOverruns == Spec => []FitsBuffer
  BY Inductive, PTL DEF IInv

\* When the loop ends without an error, every byte is of this grab.
LEMMA DoneIsWhole ==
  ASSUME IInv, TransferDone
  PROVE  \A i \in Offsets : content[i] = grab
<1>1. pc = "loop" /\ todo <= 0
  BY DEF TransferDone
<1>2. done = Total
  BY <1>1, TransferAssumption DEF IInv, TypeOK, FitsBuffer
<1> QED BY <1>1, <1>2, TransferAssumption DEF IInv, Prefix, Offsets

\* SUCCESS means a whole frame of this very grab.
THEOREM WholeFramesOnly == Spec => SuccessIsWholeFrame
<1>1. ASSUME IInv, [Next]_vars, pc # "idle", pc' = "idle", result' = "SUCCESS"
      PROVE  \A i \in Offsets : content'[i] = grab
  <2>1. TransferDone
    BY <1>1 DEF Next, GrabStep, vars, OpenOrClose, ChangeBuffer, GrabNotOpen, GrabBegins,
      Call, StartTransfer, BulkTransfer, BulkTransferFails, Return
  <2> QED BY <1>1, <2>1, DoneIsWhole DEF TransferDone
<1> QED BY <1>1, Inductive, PTL DEF Spec, SuccessIsWholeFrame

\* To its callers _grabRawFrame() is one step that delivers a whole frame or fails.
THEOREM WholeFrameImplemented == Spec => ImplementsWholeFrame
<1> USE DEF AtomicGrab!vars
<1>1. Init => AtomicGrab!Init
  BY DEF Init, AtomicGrab!Init
<1>2. IInv /\ [Next]_vars => [AtomicGrab!Next]_(AtomicGrab!vars)
  <2> SUFFICES ASSUME IInv, [Next]_vars PROVE [AtomicGrab!Next]_(AtomicGrab!vars)
    OBVIOUS
  <2>1. CASE OpenOrClose
    BY <2>1 DEF OpenOrClose
  <2>2. ASSUME NEW s \in Sizes, ChangeBuffer(s)
        PROVE  [AtomicGrab!Next]_(AtomicGrab!vars)
    BY <2>2 DEF ChangeBuffer, AtomicGrab!Next, AtomicGrab!ReplaceBuffer
  <2>3. CASE GrabNotOpen
    BY <2>3 DEF GrabNotOpen, Call, Return, AtomicGrab!Next, AtomicGrab!Refuse
  <2>4. CASE GrabBegins
    BY <2>4 DEF GrabBegins, Call, Return, AtomicGrab!Next, AtomicGrab!Refuse, AtomicGrab!Begin
  <2>5. CASE StartTransfer
    BY <2>5 DEF StartTransfer, Return, AtomicGrab!Next, AtomicGrab!Fail, AtomicGrab!Errors,
      AtomicGrab!Receive
  <2>6. CASE TransferDone
    BY <2>6, DoneIsWhole DEF TransferDone, Return, AtomicGrab!Next, AtomicGrab!Deliver
  <2>7. ASSUME NEW n \in 0 .. Request, BulkTransfer(n)
        PROVE  [AtomicGrab!Next]_(AtomicGrab!vars)
    BY <2>7 DEF BulkTransfer, Return, AtomicGrab!Next, AtomicGrab!Fail, AtomicGrab!Errors,
      AtomicGrab!Receive
  <2>8. ASSUME NEW n \in 0 .. Request, BulkTransferFails(n)
        PROVE  [AtomicGrab!Next]_(AtomicGrab!vars)
    BY <2>8 DEF BulkTransferFails, Return, AtomicGrab!Next, AtomicGrab!Fail, AtomicGrab!Errors
  <2>9. CASE UNCHANGED vars
    BY <2>9 DEF vars
  <2> QED
    BY <2>1, <2>2, <2>3, <2>4, <2>5, <2>6, <2>7, <2>8, <2>9 DEF Next, GrabStep
<1> QED BY <1>1, <1>2, Inductive, PTL DEF Spec, ImplementsWholeFrame, AtomicGrab!Spec

-----------------------------------------------------------------------------
(* The transfers on a device that is set up and closed between them.       *)

\* Between two calls of open() only one that succeeded leaves a handle, or one whose
\* openDevice() threw a USBError.
HandleLeft ==
  /\ open \in BOOLEAN
  /\ step \in {"idle", "failed", "reopen"} => open = FALSE
  /\ step = "unopened" /\ open => error = "USBError"

\* setupCamera() turns the mode off before it turns it on, and reads it back.
ModeFollowed ==
  /\ mode \in BOOLEAN /\ booted \in BOOLEAN
  /\ step = "configure" => ~mode
  /\ step \in {"on", "readOn"} => ~mode \/ booted
  /\ step = "done" => mode /\ booted

LinkInv == HandleLeft /\ ModeFollowed /\ GrabsFromBooted

\* setupCamera(), which runs between grabs, keeps the invariant.
LEMMA SetUpKeeps ==
  ASSUME LinkInv, SetUp
  PROVE  LinkInv'
<1> USE DEF LinkInv, HandleLeft, ModeFollowed, GrabsFromBooted, SetUp, transfer,
            Setup!Throw, Setup!close
<1>1. ASSUME Setup!TargetPlatform PROVE LinkInv'
  BY <1>1 DEF Setup!TargetPlatform
<1>2. ASSUME Setup!TargetPlatformFails PROVE LinkInv'
  BY <1>2 DEF Setup!TargetPlatformFails
<1>3. ASSUME Setup!Reopen PROVE LinkInv'
  BY <1>3 DEF Setup!Reopen, Setup!openDevice
<1>4. ASSUME Setup!ReopenFails PROVE LinkInv'
  <2>1. step = "reopen" /\ step' = "failed" /\ open' = open /\ pc' = pc /\ pc = "idle"
    BY <1>4 DEF Setup!ReopenFails
  <2>2. mode' \in BOOLEAN /\ booted' = booted
    BY <1>4 DEF Setup!ReopenFails
  <2> QED BY <2>1, <2>2
<1>5. ASSUME Setup!TargetPlatformFailsAgain PROVE LinkInv'
  BY <1>5 DEF Setup!TargetPlatformFailsAgain
<1>6. ASSUME NEW on \in BOOLEAN, Setup!SetMode(on) PROVE LinkInv'
  BY <1>6 DEF Setup!SetMode
<1>7. ASSUME NEW on \in BOOLEAN, Setup!ReadMode(on) PROVE LinkInv'
  BY <1>7 DEF Setup!ReadMode
<1>8. ASSUME Setup!Configure PROVE LinkInv'
  BY <1>8 DEF Setup!Configure
<1>9. ASSUME Setup!CommandFails PROVE LinkInv'
  BY <1>9 DEF Setup!CommandFails
<1>10. ASSUME Setup!RetriesSpent PROVE LinkInv'
  BY <1>10 DEF Setup!RetriesSpent
<1> QED
  BY <1>1, <1>2, <1>3, <1>4, <1>5, <1>6, <1>7, <1>8, <1>9, <1>10
  DEF Setup!SetupStep

\* What handles and what modes the calls of open() leave for a grab.
THEOREM LinkInductive == LinkSpec => []LinkInv
<1>1. LinkInit => LinkInv
  BY DEF LinkInit, Init, Setup!Init, LinkInv, HandleLeft, ModeFollowed, GrabsFromBooted
<1>2. LinkInv /\ [LinkNext]_linkVars => LinkInv'
  <2> SUFFICES ASSUME LinkInv, [LinkNext]_linkVars PROVE LinkInv'
    OBVIOUS
  <2>1. CASE SetUp
    BY <2>1, SetUpKeeps
  <2> USE DEF LinkInv, HandleLeft, ModeFollowed, GrabsFromBooted, setup, transfer
  <2>2. CASE Reset
    <3>1. pc = "idle" /\ pc' = pc
      BY <2>2 DEF Reset
    <3>2. CASE Setup!OpenDeviceFails
      <4>1. step' = "unopened" /\ mode' = mode /\ booted' = booted
        BY <3>2 DEF Setup!OpenDeviceFails
      <4>2. open = FALSE
        BY <3>2 DEF Setup!OpenDeviceFails
      <4>3. open' = open \/ (open' = TRUE /\ error' = "USBError")
        BY <3>2 DEF Setup!OpenDeviceFails
      <4> QED BY <3>1, <4>1, <4>2, <4>3
    <3>3. CASE Setup!Begin
      BY <3>1, <3>3 DEF Setup!Begin
    <3>4. CASE Setup!Close
      <4>1. step' = "idle" /\ booted' = booted
        BY <3>4 DEF Setup!Close
      <4>2. open' = FALSE /\ mode' \in BOOLEAN
        BY <3>4 DEF Setup!Close, Setup!close
      <4> QED BY <3>1, <4>1, <4>2
    <3> QED BY <2>2, <3>2, <3>3, <3>4 DEF Reset
  <2>3. CASE Grab
    <3>1. ASSUME NEW s \in Sizes, ChangeBuffer(s) PROVE LinkInv'
      BY <2>3, <3>1 DEF Grab, ChangeBuffer
    <3>2. ASSUME GrabNotOpen PROVE LinkInv'
      BY <2>3, <3>2 DEF Grab, GrabNotOpen, Call, Return
    <3>3. ASSUME GrabBegins PROVE LinkInv'
      <4>1. open /\ step \in {"idle", "done", "failed", "unopened"}
        BY <2>3, <3>3 DEF Grab, GrabBegins, Setup!Running
      <4>2. /\ step = "done" \/ (step = "unopened" /\ error = "USBError")
            /\ open' = open
        BY <4>1, <3>3 DEF GrabBegins, Call
      <4> QED BY <2>3, <4>2 DEF Grab
    <3> QED BY <2>3, <3>1, <3>2, <3>3 DEF Grab
  <2>4. CASE Transfer
    <3>1. pc # "idle" /\ open' = open
      BY <2>4 DEF Transfer, GrabStep, StartTransfer, TransferDone, BulkTransfer,
                  BulkTransferFails
    <3> QED BY <2>4, <3>1 DEF Transfer
  <2>5. CASE UNCHANGED linkVars
    BY <2>5 DEF linkVars
  <2> QED BY <2>1, <2>2, <2>3, <2>4, <2>5 DEF LinkNext
<1> QED BY <1>1, <1>2, PTL DEF LinkSpec

\* A frame is read only from a device that runs and went through a boot, or through
\* the handle of one that openDevice() opened and threw away.
THEOREM GrabsAreFromBooted == LinkSpec => []GrabsFromBooted
<1>1. LinkInv => GrabsFromBooted
  BY DEF LinkInv
<1> QED BY <1>1, LinkInductive, PTL

\* To the transfers of frames, setupCamera() and close() are opening and closing
\* between two grabs.
THEOREM LinkTransfers == LinkSpec => Spec
<1>1. LinkInit => Init
  BY DEF LinkInit
<1>2. LinkInv /\ LinkInv' /\ [LinkNext]_linkVars => [Next]_vars
  <2> SUFFICES ASSUME LinkInv, LinkInv', [LinkNext]_linkVars PROVE [Next]_vars
    OBVIOUS
  <2>1. CASE SetUp \/ Reset
    <3>1. pc = "idle" /\ UNCHANGED <<pc, grab, size, content, todo, done, result>>
      BY <2>1 DEF SetUp, Reset, transfer
    <3>2. open \in BOOLEAN /\ open' \in BOOLEAN
      BY DEF LinkInv, HandleLeft
    <3>3. open' = open \/ open' = ~open
      BY <3>2
    <3> QED BY <3>1, <3>3 DEF Next, OpenOrClose, vars
  <2>2. CASE Grab
    BY <2>2 DEF Grab, Next
  <2>3. CASE Transfer
    BY <2>3 DEF Transfer, Next
  <2>4. CASE UNCHANGED linkVars
    BY <2>4 DEF linkVars, transfer, vars
  <2> QED BY <2>1, <2>2, <2>3, <2>4 DEF LinkNext
<1> QED BY <1>1, <1>2, LinkInductive, PTL DEF LinkSpec, Spec

\* No transfer writes past the buffer of the caller.
THEOREM LinkNeverOverruns == LinkSpec => []FitsBuffer
BY LinkTransfers, NeverOverruns

\* Behind a device that is set up, closed and opened anew, a grab is still one step
\* that delivers a whole frame or fails.
THEOREM LinkImplementsWholeFrame == LinkSpec => ImplementsWholeFrame
BY LinkTransfers, WholeFrameImplemented
=============================================================================
