--------------------------- MODULE FrameTransfer ---------------------------
(***************************************************************************)
(* _grabRawFrame(): one image transfer is requested from the device and    *)
(* read in bulk transfers of at most Request bytes until Total bytes are   *)
(* in the buffer of the caller, who reuses that buffer for every frame.    *)
(* A bulk transfer may deliver fewer bytes than asked for, none, or fail   *)
(* with some of them written.  What matters is which frame each byte of    *)
(* the buffer belongs to: content maps every offset to the number of the   *)
(* grab that wrote it, 0 for bytes nobody wrote yet.                       *)
(***************************************************************************)
EXTENDS Integers

CONSTANTS Total,     \* _getFrameTransferTotalSize()
          Request,   \* _getFrameTransferRequestSize()
          Sizes,     \* sizes of the buffers callers bring; 0: a null pointer
          MaxGrabs   \* bound on the number of grabs, for model checking

ASSUME TransferAssumption ==
  /\ Total \in Nat \ {0} /\ Request \in Nat \ {0}
  /\ Sizes \subseteq Nat /\ MaxGrabs \in Nat

VARIABLES
  open,     \* is usb_device_handle_ set?
  pc,       \* "idle": the caller's, "start": buffer checked, "loop": reading
  grab,     \* history: the number of this grab
  size,     \* size of the buffer, 0 while there is none
  content,  \* history: who wrote which byte
  todo, done,
  result

vars == <<open, pc, grab, size, content, todo, done, result>>

Offsets == 0 .. Total - 1
Failures == {"DEVICE_NOT_OPEN", "BUFFER_TOO_SMALL", "FAILED_TO_START_TRANSFER",
             "TRANSFER_INCOMPLETE"}

Least(a, b) == IF a < b THEN a ELSE b

\* The buffer after a transfer that wrote n bytes at the present position.
Written(n) == [i \in Offsets |-> IF done <= i /\ i < done + n THEN grab ELSE content[i]]

-----------------------------------------------------------------------------
Init ==
  /\ open = FALSE /\ pc = "idle" /\ grab = 0 /\ result = "none"
  /\ size = 0 /\ content = [i \in Offsets |-> 0]
  /\ todo = 0 /\ done = 0

\* open() and close(), between two grabs of the same caller.
OpenOrClose ==
  /\ pc = "idle" /\ open' = ~open
  /\ UNCHANGED <<pc, grab, size, content, todo, done, result>>

\* The caller brings another buffer, of a size of its choosing, or none.
ChangeBuffer(s) ==
  /\ pc = "idle" /\ size' = s /\ content' = [i \in Offsets |-> 0]
  /\ UNCHANGED <<open, pc, grab, todo, done, result>>

Return(r) == result' = r /\ pc' = "idle"

Call == pc = "idle" /\ grab < MaxGrabs /\ grab' = grab + 1 /\ UNCHANGED open

GrabNotOpen ==
  /\ Call /\ ~open /\ Return("DEVICE_NOT_OPEN")
  /\ UNCHANGED <<size, content, todo, done>>

\* A missing buffer is allocated; one that is too small is refused.
GrabBegins ==
  /\ Call /\ open /\ todo' = Total
  /\ size' = IF size = 0 THEN Total ELSE size
  /\ IF size' < Total THEN Return("BUFFER_TOO_SMALL")
     ELSE pc' = "start" /\ result' = "none"
  /\ UNCHANGED <<content, done>>

StartTransfer ==
  /\ pc = "start"
  /\ \/ Return("FAILED_TO_START_TRANSFER") /\ UNCHANGED done
     \/ pc' = "loop" /\ done' = 0 /\ UNCHANGED result
  /\ UNCHANGED <<open, grab, size, content, todo>>

\* A mutant: an empty transfer ends the loop without an error.
MutBulkTransfer(n) ==
  /\ pc = "loop" /\ todo > 0
  /\ n \in 0 .. Least(Request, todo)
  /\ content' = Written(n) /\ done' = done + n /\ todo' = todo - n
  /\ IF n = 0 THEN Return("SUCCESS") ELSE UNCHANGED <<pc, result>>
  /\ UNCHANGED <<open, grab, size>>

\* A mutant: every transfer asks for the full request size.
MutBulkOverrun(n) ==
  /\ pc = "loop" /\ todo > 0 /\ n \in 1 .. Request
  /\ content' = Written(n) /\ done' = done + n /\ todo' = todo - n
  /\ UNCHANGED <<open, pc, grab, size, result>>

\* One bulk transfer of n bytes; none although some are missing ends the grab.
BulkTransfer(n) ==
  /\ pc = "loop" /\ todo > 0
  /\ n \in 0 .. Least(Request, todo)
  /\ content' = Written(n) /\ done' = done + n /\ todo' = todo - n
  /\ IF todo' # 0 /\ n = 0 THEN Return("TRANSFER_INCOMPLETE") ELSE UNCHANGED <<pc, result>>
  /\ UNCHANGED <<open, grab, size>>

\* A bulk transfer that fails, having written n bytes that nobody counts.
BulkTransferFails(n) ==
  /\ pc = "loop" /\ todo > 0
  /\ n \in 0 .. Least(Request, todo)
  /\ content' = Written(n) /\ Return("TRANSFER_INCOMPLETE")
  /\ UNCHANGED <<open, grab, size, todo, done>>

TransferDone ==
  /\ pc = "loop" /\ todo <= 0 /\ Return("SUCCESS")
  /\ UNCHANGED <<open, grab, size, content, todo, done>>

GrabStep ==
  \/ StartTransfer \/ TransferDone
  \/ \E n \in 0 .. Request : BulkTransfer(n) \/ BulkTransferFails(n)

Next ==
  \/ OpenOrClose \/ \E s \in Sizes : ChangeBuffer(s)
  \/ GrabNotOpen \/ GrabBegins \/ GrabStep

Spec == Init /\ [][Next]_vars

\* Control and bulk transfers have a timeout of one second: a grab runs on.
FairSpec == Spec /\ WF_vars(GrabStep)

-----------------------------------------------------------------------------
TypeOK ==
  /\ open \in BOOLEAN /\ pc \in {"idle", "start", "loop"}
  /\ grab \in 0 .. MaxGrabs /\ size \in Nat
  /\ content \in [Offsets -> 0 .. MaxGrabs]
  /\ todo \in 0 .. Total /\ done \in 0 .. Total
  /\ result \in Failures \cup {"none", "SUCCESS"}

\* No bulk transfer may write past the buffer, however the chunks fall: what is
\* still asked for always fits behind what was received.
FitsBuffer ==
  pc = "loop" => done + todo = Total /\ Total <= size /\ done <= size

\* SUCCESS is reported only for a frame every byte of which this grab received:
\* nothing of an earlier frame in the reused buffer, nothing uninitialised, even
\* after grabs that failed half way.
SuccessIsWholeFrame ==
  [][pc # "idle" /\ pc' = "idle" /\ result' = "SUCCESS" =>
       \A i \in Offsets : content'[i] = grab]_vars

\* However short the device's answers, a grab comes to an end.
GrabReturns == pc # "idle" ~> pc = "idle"

\* To its callers a grab is one step that delivers a whole frame or fails.
AtomicGrab == INSTANCE WholeFrame WITH
  busy <- pc # "idle", outcome <- result, whole <- \A i \in Offsets : content[i] = grab

ImplementsWholeFrame == AtomicGrab!Spec
=============================================================================
