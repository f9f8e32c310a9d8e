---------------------------- MODULE CameraSetup ----------------------------
(***************************************************************************)
(* setupCamera() of the three products against a device that may refuse a  *)
(* command or acknowledge a change of its operation mode and not make it:  *)
(* the retry after the device was opened anew, the two loops that read the *)
(* operation mode back, and the commands in between.  open() calls it      *)
(* again and again to make the device repeat its boot sequence, which it   *)
(* emits when its mode turns from off to on.                               *)
(***************************************************************************)
EXTENDS Integers

CONSTANTS
  Product,    \* "Compact", "CompactPro" or "Nano300"
  MaxRetries  \* commands per operation mode, 10

VARIABLES
  step,     \* what setupCamera() does next, or how the last open() went: "idle" before it,
            \* "done", "failed", or "unopened" when openDevice() threw
  handle,   \* is usb_device_handle_ set?
  mode,     \* is the device's operation mode on?
  retries,  \* the counter of the loop under way
  reopened, \* was the device closed and opened anew in this call?
  booted,   \* history: did the device's mode turn from off to on in this call?
  error     \* the exception that left the last open(), if any

vars == <<step, handle, mode, retries, reopened, booted, error>>

Running == step \notin {"idle", "done", "failed", "unopened"}

Init ==
  /\ step = "idle" /\ handle = FALSE /\ mode \in BOOLEAN
  /\ retries = 0 /\ reopened = FALSE /\ booted = FALSE /\ error = "none"

-----------------------------------------------------------------------------
\* close() tells the device to turn off, and does not ask whether it did.
close ==
  IF handle THEN handle' = FALSE /\ mode' \in {mode, FALSE} ELSE UNCHANGED <<handle, mode>>

\* An exception leaves setupCamera(); open() catches it and closes the device,
\* unless setupCamera() did so itself.
Throw(e) == step' = "failed" /\ error' = e /\ close

\* open() is left by an exception of openDevice(), which no try block surrounds: the
\* device is not found or not opened, or it is opened and not configured or claimed.
OpenDeviceFails ==
  /\ step \in {"idle", "failed", "unopened"} /\ ~handle /\ step' = "unopened"
  /\ \/ error' \in {"USBError", "SeekSetupError"} /\ UNCHANGED handle
     \/ error' = "USBError" /\ handle' = TRUE
  /\ UNCHANGED <<mode, retries, reopened, booted>>

\* open() calls setupCamera(): the device was opened, there was a handle already, or
\* startup frames were missing and it is to boot once more.
Begin ==
  /\ ~Running /\ step' = "platform"
  /\ handle' = TRUE /\ retries' = 0
  /\ reopened' = FALSE /\ booted' = FALSE /\ error' = "none"
  /\ UNCHANGED mode

\* The application closes the camera.
Close ==
  /\ step \in {"done", "failed", "unopened"} /\ step' = "idle" /\ close
  /\ UNCHANGED <<retries, reopened, booted, error>>

-----------------------------------------------------------------------------
TargetPlatform ==
  /\ step = "platform" /\ handle
  /\ step' = "off" /\ retries' = 0
  /\ UNCHANGED <<handle, mode, reopened, booted, error>>

TargetPlatformFails ==
  /\ step = "platform" /\ handle /\ ~reopened
  /\ step' = "reopen" /\ close
  /\ UNCHANGED <<retries, reopened, booted, error>>

\* Not called for the Nano 300.
openDevice == handle' = (Product # "Nano300")

Reopen ==
  /\ step = "reopen" /\ step' = "platform" /\ reopened' = TRUE /\ openDevice
  /\ UNCHANGED <<mode, retries, booted, error>>

\* openDevice() throws; this time the handle it may leave is closed by the catch block.
ReopenFails ==
  /\ step = "reopen" /\ Product # "Nano300" /\ step' = "failed"
  /\ error' \in {"USBError", "SeekSetupError"} /\ UNCHANGED handle
  /\ UNCHANGED mode \/ (error' = "USBError" /\ mode' = FALSE)
  /\ UNCHANGED <<retries, reopened, booted>>

\* The second write is refused, or there is no device to write to.
TargetPlatformFailsAgain ==
  /\ step = "platform" /\ reopened
  /\ Throw(IF handle THEN "SeekSetupError" ELSE "USBError")
  /\ UNCHANGED <<retries, reopened, booted>>

RetriesLeft == retries < MaxRetries

\* A mutant: the commands are not counted.
MutCount == UNCHANGED retries

Count == retries' = retries + 1

\* SET_OPERATION_MODE is acknowledged, and the device obeys or does not.
SetMode(on) ==
  /\ step = (IF on THEN "on" ELSE "off") /\ RetriesLeft /\ Count
  /\ mode' \in {mode, on} /\ booted' = (booted \/ (~mode /\ mode'))
  /\ step' = (IF on THEN "readOn" ELSE "readOff")
  /\ UNCHANGED <<handle, reopened, error>>

\* A mutant: the answer is not looked at.
MutReadMode(on) ==
  /\ step = (IF on THEN "readOn" ELSE "readOff")
  /\ step' = IF on THEN "done" ELSE "configure"
  /\ UNCHANGED <<handle, mode, retries, reopened, booted, error>>

\* GET_OPERATION_MODE: try again until it is as told.
ReadMode(on) ==
  /\ step = (IF on THEN "readOn" ELSE "readOff")
  /\ \/ mode = on /\ step' = IF on THEN "done" ELSE "configure"
     \/ mode # on /\ step' = IF on THEN "on" ELSE "off"
  /\ UNCHANGED <<handle, mode, retries, reopened, booted, error>>

\* The settings, the factory pages, the error code and the shutter.
Configure ==
  /\ step = "configure" /\ step' = "on" /\ retries' = 0
  /\ UNCHANGED <<handle, mode, reopened, booted, error>>

\* Any command or answer fails: a write that is refused, a read that is too short
\* or an error code is a SeekSetupError, a read that is refused a USBError.
CommandFails ==
  /\ step \in {"off", "readOff", "configure", "on", "readOn"}
  /\ \/ Throw("SeekSetupError")
     \/ step # "off" /\ Throw("USBError")
  /\ UNCHANGED <<retries, reopened, booted>>

RetriesSpent ==
  /\ step \in {"off", "on"} /\ ~RetriesLeft /\ Throw("SeekSetupError")
  /\ UNCHANGED <<retries, reopened, booted>>

SetupStep ==
  \/ TargetPlatform \/ TargetPlatformFails \/ Reopen \/ ReopenFails
  \/ TargetPlatformFailsAgain
  \/ \E on \in BOOLEAN : SetMode(on) \/ ReadMode(on)
  \/ Configure \/ CommandFails \/ RetriesSpent

Next == OpenDeviceFails \/ Begin \/ Close \/ SetupStep

Spec == Init /\ [][Next]_vars

-----------------------------------------------------------------------------
TypeOK ==
  /\ step \in {"idle", "platform", "reopen", "off", "readOff", "configure", "on", "readOn",
               "done", "failed", "unopened"}
  /\ handle \in BOOLEAN /\ mode \in BOOLEAN /\ retries \in 0 .. MaxRetries
  /\ reopened \in BOOLEAN /\ booted \in BOOLEAN
  /\ error \in {"none", "USBError", "SeekSetupError"}

\* setupCamera() returns or throws, however the device behaves.
SetupReturns == Running ~> ~Running

-----------------------------------------------------------------------------
(* What the code of the Nano 300 says, and what it does otherwise.         *)

\* "Failed to set target platform!" is for a command refused twice: the second one
\* is sent to a device that was opened anew.
RetriedOnOpenDevice == step = "platform" => handle
=============================================================================
