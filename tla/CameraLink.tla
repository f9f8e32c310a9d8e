----------------------------- MODULE CameraLink -----------------------------
(***************************************************************************)
(* One thread that opens a camera, grabs raw frames from it and closes it: *)
(* setupCamera() and _grabRawFrame() one after the other, on one handle.   *)
(* open() grabs too, between its calls of setupCamera(), to receive the    *)
(* frames of the boot sequence.                                            *)
(***************************************************************************)
EXTENDS FrameTransfer

CONSTANTS Product, MaxRetries  \* of CameraSetup

ASSUME LinkAssumption ==
  Product \in {"Compact", "CompactPro", "Nano300"} /\ MaxRetries \in Nat \ {0}

VARIABLES step, mode, retries, reopened, booted, error  \* of CameraSetup

Setup == INSTANCE CameraSetup WITH handle <- open

setup    == <<step, mode, retries, reopened, booted, error>>
transfer == <<pc, grab, size, content, todo, done, result>>
linkVars == <<open, setup, transfer>>

LinkInit == Init /\ Setup!Init

\* The device is opened, set up, or closed, between two grabs.
SetUp == pc = "idle" /\ Setup!SetupStep /\ UNCHANGED transfer
Reset ==
  /\ pc = "idle" /\ UNCHANGED transfer
  /\ Setup!OpenDeviceFails \/ Setup!Begin \/ Setup!Close

\* A frame is grabbed, or its buffer replaced, when setupCamera() is over.
Grab ==
  /\ ~Setup!Running /\ UNCHANGED setup
  /\ \/ \E s \in Sizes : ChangeBuffer(s)
     \/ GrabNotOpen \/ GrabBegins

Transfer == GrabStep /\ UNCHANGED setup

LinkNext == SetUp \/ Reset \/ Grab \/ Transfer

LinkSpec == LinkInit /\ [][LinkNext]_linkVars

\* Every control or bulk transfer has a timeout of one second: the call that is
\* under way runs on.
FairLinkSpec == LinkSpec /\ WF_linkVars(SetUp) /\ WF_linkVars(Transfer)

-----------------------------------------------------------------------------
\* Both parts are well typed.
LinkTypeOK == TypeOK /\ Setup!TypeOK

\* A frame is read only from a device that runs and went through a boot in the
\* last call of setupCamera(): never after a setup that failed, whatever step of
\* it did, wherever the device did not obey, and whatever handle it began with.
\* The one other handle a grab can meet is that of a device which openDevice()
\* opened and threw away, in an open() that ended with USBError.
GrabsFromBooted ==
  pc # "idle" =>
    \/ step = "done" /\ mode /\ booted
    \/ step = "unopened" /\ error = "USBError"

\* setupCamera() returns or throws, however often the device acknowledges a mode
\* and does not change to it.
SetupReturns == Setup!SetupReturns

-----------------------------------------------------------------------------
(* What a comment says, and what the code does otherwise.                  *)

\* "Clean up device before throwing": no frame is read from a camera whose open()
\* threw; the answer is DEVICE_NOT_OPEN.
NoGrabAfterThrow == pc # "idle" => error = "none"
=============================================================================
