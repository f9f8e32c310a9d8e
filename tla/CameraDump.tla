----------------------------- MODULE CameraDump -----------------------------
(***************************************************************************)
(* dump_camera_data: opens a camera whose setupCamera() is a copy of the   *)
(* production one that records every answer of the device, records raw     *)
(* frames and, on request, factory pages beyond those of the set-up, and   *)
(* writes a sidecar that describes what was recorded.  What matters of a   *)
(* recorded chunk is the feature the sidecar says it answers, and the one  *)
(* the device was really told just before.                                 *)
(***************************************************************************)
EXTENDS SetupCommands, FiniteSets

CONSTANTS
  Products,    \* the products a run of the program may meet
  MaxRetries,  \* commands per operation mode, 10
  Attempts,    \* setup attempts of open(), 5
  ExtraPages,  \* pages beyond those of the set-up that --max-extra-addr asks for
  Frames       \* --frames

ASSUME DumpAssumption ==
  /\ Products \subseteq {"Compact", "CompactPro", "Nano300"}
  /\ {MaxRetries, Attempts, Pages} \subseteq Nat \ {0} /\ {ExtraPages, Frames} \subseteq Nat

VARIABLES
  product,  \* device.type
  prog,     \* where main() is: "start", "open", "frames", "extra", "close", "sidecar", "exit"
  status,   \* what main() returns
  attempt,  \* calls of setupCamera() by open()
  step, handle, mode, retries, reopened, booted, error,  \* as in CameraSetup
  at,       \* the next command between the mode loops, or the next extra page
  last,     \* last_feature_, None while it is not valid
  chunks,   \* the list of the recorder
  sent,     \* history: the feature sent since the last read, None if there is none
  first,    \* history: chunks recorded before this call of setupCamera()
  reported  \* history: bytes of the error code that are not zero

setupVars == <<step, handle, mode, retries, reopened, booted, error>>
record    == <<at, last, chunks, sent, first, reported>>
dumpVars  == <<product, prog, status, attempt, setupVars, record>>

None      == <<>>
Recording == product # "Compact"
Call      == Script(product)[at]
Told      == Tail(Call.command)  \* the command without its direction

-----------------------------------------------------------------------------
\* addChunk(), of an answer that the sidecar attributes to a feature.
Chunk(kind, f) == [kind |-> kind, feature |-> f, sent |-> sent]
addChunk(c) == chunks' = (IF Recording THEN Append(chunks, c) ELSE chunks) /\ sent' = None

close ==
  IF handle THEN handle' = FALSE /\ mode' \in {mode, FALSE} ELSE UNCHANGED <<handle, mode>>

\* open() is left with an exception; main() writes the sidecar.
Abort == prog' = "sidecar" /\ status' = 1

\* The catch block of open() closes the device first.
Throw(e) == Abort /\ close /\ step' = "failed" /\ error' = e

Init ==
  /\ product \in Products /\ prog = "start" /\ status = 0 /\ attempt = 0
  /\ step = "idle" /\ handle = FALSE /\ mode \in BOOLEAN /\ retries = 0
  /\ reopened = FALSE /\ booted = FALSE /\ error = "none"
  /\ at = 1 /\ last = None /\ chunks = <<>>
  /\ sent = None /\ first = 0 /\ reported = "none"

\* open() calls setupCamera().
SetupBegins ==
  /\ prog' = "open" /\ step' = "platform" /\ handle' = TRUE /\ retries' = 0
  /\ reopened' = FALSE /\ booted' = FALSE /\ error' = "none"
  /\ attempt' = attempt + 1 /\ at' = 1 /\ first' = Len(chunks) /\ reported' = "none"
  /\ UNCHANGED <<product, status, mode, last, sent, chunks>>

Open == prog = "start" /\ SetupBegins

\* openDevice() throws, perhaps with a device it opened, outside the try block.
OpenDeviceFails ==
  /\ prog = "start" /\ Abort /\ step' = "unopened"
  /\ \/ error' \in {"USBError", "SeekSetupError"} /\ UNCHANGED handle
     \/ error' = "USBError" /\ handle' = TRUE
  /\ UNCHANGED <<product, attempt, mode, retries, reopened, booted, record>>

-----------------------------------------------------------------------------
TargetPlatform ==
  /\ prog = "open" /\ step = "platform" /\ handle /\ step' = "off" /\ retries' = 0
  /\ UNCHANGED <<product, prog, status, attempt, handle, mode, reopened, booted, error, record>>

\* close(), and openDeviceForRetry(), which the Nano 300 does not call.
TargetPlatformFails ==
  /\ prog = "open" /\ step = "platform" /\ handle /\ ~reopened /\ step' = "reopen" /\ close
  /\ UNCHANGED <<product, prog, status, attempt, retries, reopened, booted, error, record>>

Reopen ==
  /\ prog = "open" /\ step = "reopen" /\ step' = "platform"
  /\ reopened' = TRUE /\ handle' = (product # "Nano300")
  /\ UNCHANGED <<product, prog, status, attempt, mode, retries, booted, error, record>>

ReopenFails ==
  /\ prog = "open" /\ step = "reopen" /\ product # "Nano300" /\ Abort /\ step' = "failed"
  /\ error' \in {"USBError", "SeekSetupError"} /\ UNCHANGED handle
  /\ UNCHANGED mode \/ (error' = "USBError" /\ mode' = FALSE)
  /\ UNCHANGED <<product, attempt, retries, reopened, booted, record>>

TargetPlatformFailsAgain ==
  /\ prog = "open" /\ step = "platform" /\ reopened
  /\ Throw(IF handle THEN "SeekSetupError" ELSE "USBError")
  /\ UNCHANGED <<product, attempt, retries, reopened, booted, record>>

\* A mutant: the commands are not counted.
MutSetMode(on) ==
  /\ prog = "open" /\ step = (IF on THEN "on" ELSE "off") /\ UNCHANGED retries
  /\ mode' \in {mode, on} /\ booted' = (booted \/ (~mode /\ mode'))
  /\ step' = (IF on THEN "readOn" ELSE "readOff")
  /\ UNCHANGED <<product, prog, status, attempt, handle, reopened, error, record>>

SetMode(on) ==
  /\ prog = "open" /\ step = (IF on THEN "on" ELSE "off") /\ retries < MaxRetries
  /\ retries' = retries + 1
  /\ mode' \in {mode, on} /\ booted' = (booted \/ (~mode /\ mode'))
  /\ step' = (IF on THEN "readOn" ELSE "readOff")
  /\ UNCHANGED <<product, prog, status, attempt, handle, reopened, error, record>>

\* A mutant: the answer is recorded and not looked at.
MutReadMode(on) ==
  /\ prog = "open" /\ step = (IF on THEN "readOn" ELSE "readOff")
  /\ step' = (IF on THEN "done" ELSE "configure")
  /\ addChunk(Chunk("poll", last))
  /\ UNCHANGED <<product, prog, status, attempt, handle, mode, retries, reopened, booted, error,
                 at, last, first, reported>>

\* Every poll of the mode is recorded.
ReadMode(on) ==
  /\ prog = "open" /\ step = (IF on THEN "readOn" ELSE "readOff")
  /\ \/ mode = on /\ step' = (IF on THEN "done" ELSE "configure")
     \/ mode # on /\ step' = (IF on THEN "on" ELSE "off")
  /\ addChunk(Chunk("poll", last))
  /\ UNCHANGED <<product, prog, status, attempt, handle, mode, retries, reopened, booted, error,
                 at, last, first, reported>>

RetriesSpent ==
  /\ prog = "open" /\ step \in {"off", "on"} /\ retries = MaxRetries /\ Throw("SeekSetupError")
  /\ UNCHANGED <<product, attempt, retries, reopened, booted, record>>

-----------------------------------------------------------------------------
Configuring(calls) == prog = "open" /\ step = "configure" /\ Call.call \in calls

\* The next command, or the second mode loop after the last one.
NextCall ==
  /\ at' = at + 1
  /\ IF at < Len(Script(product)) THEN UNCHANGED <<step, retries>>
                                  ELSE step' = "on" /\ retries' = 0
  /\ UNCHANGED <<product, prog, status, attempt, handle, mode, reopened, booted, error,
                 first>>

setFeature ==
  /\ Configuring({"setFeature"}) /\ NextCall
  /\ last' = Told /\ sent' = Told /\ UNCHANGED <<chunks, reported>>

\* An error code that is refused: any byte, or for the Nano 300 every byte, is not 0.
Refuses(code) == code = "every" \/ (code = "some" /\ product # "Nano300")

doRead ==
  /\ Configuring({"doRead"}) /\ NextCall
  /\ last' = (IF Call.clear THEN None ELSE last)
  /\ addChunk(Chunk("setup_read", last'))
  /\ IF Call.command[2] = "GET_ERROR_CODE"
       THEN \E code \in {"none", "some", "every"} : ~Refuses(code) /\ reported' = code
       ELSE UNCHANGED reported

\* The feature is that of the loop, whatever last_feature_ is.
doReadWithRecord ==
  /\ Configuring({"page"}) /\ NextCall
  /\ addChunk(Chunk("page", Tail(Script(product)[at - 1].command)))
  /\ UNCHANGED <<last, reported>>

\* A chunk is recorded for the answer or, with no bytes, for a read that failed.
orphanProbe ==
  /\ Configuring({"orphanProbe"}) /\ NextCall
  /\ addChunk(Chunk("orphan_probe", last)) /\ UNCHANGED <<last, reported>>

write ==
  /\ Configuring({"write"}) /\ NextCall
  /\ UNCHANGED <<last, sent, chunks, reported>>

\* A command is refused, or an answer short or missing.
CommandFails ==
  /\ prog = "open"
  /\ \/ step = "off" /\ Throw("SeekSetupError")
     \/ step \in {"readOff", "readOn"} /\ (Throw("SeekSetupError") \/ Throw("USBError"))
     \/ Configuring({"setFeature", "write"}) /\ Throw("SeekSetupError")
     \/ Configuring({"doRead", "page"}) /\ (Throw("SeekSetupError") \/ Throw("USBError"))
  /\ UNCHANGED <<product, attempt, retries, reopened, booted, record>>

\* The error code is recorded like any answer, and then refused.
ErrorCodeRefused ==
  /\ Configuring({"doRead"}) /\ Call.command[2] = "GET_ERROR_CODE" /\ Throw("SeekSetupError")
  /\ last' = (IF Call.clear THEN None ELSE last)
  /\ addChunk(Chunk("setup_read", last'))
  /\ reported' \in {"some", "every"} /\ Refuses(reported')
  /\ UNCHANGED <<product, attempt, retries, reopened, booted, at, first>>

\* SET_OPERATION_MODE is refused: the error code is read and recorded, then thrown.
SetOnFails ==
  /\ prog = "open" /\ step = "on" /\ retries < MaxRetries
  /\ \/ Throw("SeekSetupError") /\ (addChunk(Chunk("setup_read", last)) \/ UNCHANGED <<sent, chunks>>)
     \/ Throw("USBError") /\ UNCHANGED <<sent, chunks>>
  /\ UNCHANGED <<product, attempt, retries, reopened, booted, at, last, first, reported>>

SetupStep ==
  \/ TargetPlatform \/ TargetPlatformFails \/ Reopen \/ ReopenFails \/ TargetPlatformFailsAgain
  \/ \E on \in BOOLEAN : SetMode(on) \/ ReadMode(on)
  \/ RetriesSpent \/ setFeature \/ doRead \/ doReadWithRecord \/ orphanProbe \/ write
  \/ CommandFails \/ ErrorCodeRefused \/ SetOnFails

-----------------------------------------------------------------------------
Opened == prog = "open" /\ step = "done"

\* tryConsumeStartupFrames() saw the two frames it waits for.
StartupSeen ==
  /\ Opened /\ prog' = "frames"
  /\ UNCHANGED <<product, status, attempt, setupVars, record>>

StartupMissed == Opened /\ attempt < Attempts /\ SetupBegins

AttemptsSpent ==
  /\ Opened /\ attempt = Attempts /\ Abort /\ close /\ step' = "idle"
  /\ UNCHANGED <<product, attempt, retries, reopened, booted, error, record>>

Frame == [kind |-> "frame", feature |-> None, sent |-> None]

FramesTaken == Cardinality({i \in DOMAIN chunks : chunks[i] = Frame})

GrabFrame ==
  /\ prog = "frames" /\ FramesTaken < Frames /\ chunks' = Append(chunks, Frame)
  /\ UNCHANGED <<product, prog, status, attempt, setupVars, at, last, sent, first, reported>>

\* The first transfer that fails ends the loop, as does the last frame wanted.
\* Extra pages are probed if they were asked for and the camera is one that has pages.
FramesDone ==
  /\ prog = "frames"
  /\ prog' = (IF Recording /\ ExtraPages > 0 THEN "extra" ELSE "close") /\ at' = 1
  /\ UNCHANGED <<product, status, attempt, setupVars, last, sent, chunks, first, reported>>

\* A mutant: the first extra page is the last of the set-up.
MutExtraPage == Page(Pages + at - 1)

ExtraPage == Page(Pages + at)

\* A page that is all zero or repeats the one before it is recorded and is the last.
ProbeExtraPage(note) ==
  /\ prog = "extra" /\ at <= ExtraPages /\ (note = "duplicate_of_previous" => at > 1)
  /\ LET f == <<"SET_FACTORY", ExtraPage>>
     IN  chunks' = Append(chunks, [kind |-> "extra_factory", feature |-> f, sent |-> f, note |-> note])
  /\ at' = at + 1
  /\ prog' = (IF note = "" THEN "extra" ELSE "close")
  /\ UNCHANGED <<product, status, attempt, setupVars, last, sent, first, reported>>

\* All probed, or a command failed.
ProbeEnds ==
  /\ prog = "extra" /\ prog' = "close"
  /\ UNCHANGED <<product, status, attempt, setupVars, record>>

Close ==
  /\ prog = "close" /\ prog' = "sidecar" /\ step' = "idle" /\ close
  /\ UNCHANGED <<product, status, attempt, retries, reopened, booted, error, record>>

\* The sidecar is written, or cannot be; the destructor of the camera closes a handle
\* that open() left.
writeSidecar ==
  /\ prog = "sidecar" /\ prog' = "exit" /\ status' \in {status, 1}
  /\ close /\ step' = (IF handle THEN "idle" ELSE step)
  /\ UNCHANGED <<product, attempt, retries, reopened, booted, error, record>>

DumpNext ==
  \/ Open \/ OpenDeviceFails \/ SetupStep
  \/ StartupSeen \/ StartupMissed \/ AttemptsSpent
  \/ GrabFrame \/ FramesDone \/ ProbeEnds \/ Close \/ writeSidecar
  \/ \E note \in {"", "all_zero", "duplicate_of_previous"} : ProbeExtraPage(note)

\* Every transfer has a timeout: no call waits for ever.
DumpSpec == Init /\ [][DumpNext]_dumpVars /\ WF_dumpVars(DumpNext)

-----------------------------------------------------------------------------
DumpTypeOK ==
  /\ product \in Products /\ status \in {0, 1} /\ attempt \in 0 .. Attempts
  /\ prog \in {"start", "open", "frames", "extra", "close", "sidecar", "exit"}
  /\ retries \in 0 .. MaxRetries /\ {handle, mode, reopened, booted} \subseteq BOOLEAN
  /\ first \in 0 .. Len(chunks) /\ reported \in {"none", "some", "every"}

\* What the sidecar says a chunk answers is what the device was told after the read
\* before it: a feature that was read already, or was left over from an attempt that
\* failed or a probe that got no answer, is never taken for that of a later read.
FeatureIsLatest == \A i \in DOMAIN chunks : chunks[i].feature = chunks[i].sent

\* Where the factory pages of this set-up, and those behind them, lie among the chunks.
PageChunks == {i \in first + 1 .. Len(chunks) : chunks[i].kind \in {"page", "extra_factory"}}

\* Of these the i-th chunk is the PageNumber(i)-th.
PageNumber(i) == Cardinality({j \in PageChunks : j <= i})

\* The factory pages of a camera that was opened lie in the dump one after the other,
\* every one once, each with its own answer, however often the set-up began anew: those
\* of the set-up and behind them the extra ones, of which only the last may be worthless.
PagesInOrder ==
  Recording /\ status = 0 /\ prog \notin {"start", "open"} =>
    /\ Cardinality(PageChunks) >= Pages
    /\ \A i \in PageChunks :
         /\ chunks[i].sent = <<"SET_FACTORY", Page(PageNumber(i))>>
         /\ PageNumber(i) \in Pages + 1 .. Cardinality(PageChunks) - 1 => chunks[i].note = ""

\* The probes among the first n calls of the copy.
Probes(n) == Cardinality({i \in 1 .. n : Script(product)[i].call = "orphanProbe"})

\* "Literal copy of the stock setupCamera() with reads wrapped": between its mode loops
\* the device is told, and read, what the production code tells and reads, in its order
\* and sizes, but for the probes; and it is told all of it before it is switched on.
CopiesProduction ==
  LET copy  == Script(product)
      stock == Production(product)
      done  == IF step = "configure" THEN at - 1 ELSE Len(copy)
  IN  /\ step \in {"configure", "on", "readOn", "done"} =>
           \A n \in 1 .. done : copy[n].call # "orphanProbe" =>
             n - Probes(n) \in DOMAIN stock /\ copy[n].command = stock[n - Probes(n)]
      /\ step \in {"on", "readOn", "done"} => Len(stock) = Len(copy) - Probes(Len(copy))

\* Recording does not change what setupCamera() does to the camera: the copies of
\* dump_camera_data are the set-up of their product, mode loops, reopening, exceptions
\* and all.
Setup(p) == INSTANCE CameraSetup WITH Product <- p

ImplementsSetup ==
  [][\A p \in Products : product = p => Setup(p)!Next]_setupVars

\* The program ends, whatever the device refuses and however often it does not obey.
DumpEnds == <>(prog = "exit")

-----------------------------------------------------------------------------
(* What comments of the program say, and what it does otherwise.           *)

\* "Literal copy ...": a camera that reports an error during set-up is not switched on.
ErrorCodeStops == step \in {"on", "readOn", "done"} => reported = "none"
=============================================================================
