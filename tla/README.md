# TLA+ models of openseekthermal

Specifications of the openseekthermal library, its calibration tool and its two
GStreamer elements, model-checked with TLC on small instances, and theorems
about them proved with TLAPS for every value of their parameters. Paths below
are relative to the repository; `seek_thermal_camera.cpp` is
`openseekthermal/src/cameras/seek_thermal_camera.cpp`, and so on. `PROJECT.json`
maps each definition to the lines it stands for, and lists the runs, the
hazards, the theorems and, for each property, a change to the model (an operator
`Mut...`) with which TLC finds that property violated.

## 1. The system

| component | state | operations | who calls it, and how |
|---|---|---|---|
| `SeekThermalCamera`, life cycle | libusb handle, drift anchor, shutter offsets and mean, calibration, `c0_source_` | `open`, `close`, `setCalibration`, `tryConsumeStartupFrames`, shutter cycles | an application, the source element, the tool |
| `SeekThermalCamera`, grabbing | `buffer_`, two mutexes | `grabFrame`, `grabRawCountsFrame`, `_grabRawFrame` | streaming thread; raw captures call `_grabRawFrame` directly |
| frame pipeline: `extractFrame`, `applyShutterReference`, `DeadPixelMask`, `VignetteCorrection`, drift | offsets, mask, vignette model, anchor, two switches | what `grabRawCountsFrame` does to a frame | grabbing |
| `setupCamera` of Compact, Compact Pro, Nano 300 | the device's operation mode | commands over control transfers, a reopening | `open`, once per attempt |
| calibration files | an INI file | `loadCameraCalibration`, `saveCameraCalibration` | element, tool; edited by hand |
| `listDevices`, `createCamera`, `openDevice` | the USB bus | list, pick, open | element, tool |
| `openseekthermalsrc` | element state, camera, properties, normalisation window | `change_state`, `create`, `set_property` | GStreamer: the streaming thread creates, the application's thread sets properties |
| `openseekthermalcolorize` | bounds, window of extremes | `transform_frame`, `set_property` | the same two threads |
| `calibration_tool` | calibration being edited, dirty flag, the file | five menu entries, save, quit | the user |
| capture helpers | counters | `warmup`, `accumulateAverage`, `captureWelfordRaw`, `captureAnchorLive` | the tool |
| `dump_camera_data` | recorded chunks, the last feature | its own copies of `setupCamera`, raw frames, factory pages, the sidecar | the shell |
| fits, detection of dead pixels, preview, `list_seek_devices`, examples | none that outlives a call | | the tool, the shell |

What is hard in it, and therefore what the properties are about:

* **State of a session and state over sessions.** `c0`, the drift anchor and the
  owner of `c0` live for different times: the anchor is cleared by `close()`,
  the mapping is not, the owner never. A delivered temperature is
  `c0 + c1 * (raw - K * (pad - anchor))`, so it is right only if `c0` and the
  anchor belong together.
* **Devices that do not answer as asked.** Transfers are short or fail, boot
  frames are lost, a mode is acknowledged and not taken, a unit is unplugged or
  another one plugged in between listing and opening.
* **Two or more threads** on one camera, and a property set while a frame is
  analysed.
* **Loops whose end depends on the device**: set-up retries, boot attempts,
  `create()`, captures.
* **Failure half-way**: a calibration that does not load after the camera was
  opened, a capture that throws under a modified calibration, a save that stops
  in the middle of the only copy of a file.
* **Code that exists twice**: `dump_camera_data` repeats `setupCamera()` command
  by command, with recording in between.
* **In-place numeric updates**, one correction on top of the other, at borders:
  masked pixels next to each other, sentinels, clamping.

## 2. Modules

A module with `Proofs` in its name extends the one it is about. Where two are
composed it extends the composition, and holds the theorems about the parts as
well: `CameraLinkProofs` is also about `FrameTransfer`, `SourceElementProofs` about
`DeviceSelect`, `GstSrc` and `NormalizationWindow`, `CalibrationSessionProofs` about
`CalibrationTool`, `CaptureLoops` and the file that the tool saves, `CalibrationFile`
(both take what stands for a missing value from `CalibrationValues`), `DeadPixelMaskProofs` about `FramePipeline`, in
which the mask is applied. `ColorizeRangeProofs` holds what is known of medians, and
takes an instance of `NormalizationWindow` for those of the source element. A module `MC...` gives values to
constants that a `.cfg` cannot write, and a symmetry set.

| module | models | actions and the code they stand for |
|---|---|---|
| `SeekThermalCamera` | the calibration life cycle, for one caller | `OpenStep` is `open()`: `OpenDevice(Fails)`, `SetupCamera(Closes, Reopens, Fails)`, one `StartupFrame` per transfer of `tryConsumeStartupFrames()`, `StartupDone`, `StartupTransferFails`, `StartupBudgetSpent`; then `GrabShutter`, `SetCalibration`, `Close` |
| `CalibrationOwner` | what the life cycle promises about the owner of the mapping: only a boot makes the camera the owner, only an application the host, and nobody takes it from the host | abstract; refined by `SeekThermalCamera` |
| `FrameTransfer` | `_grabRawFrame()` | `GrabBegins`, `StartTransfer`, one `BulkTransfer(n)` per `libusb_bulk_transfer`, `BulkTransferFails(n)`, `TransferDone`; the caller's `ChangeBuffer`, `OpenOrClose` |
| `WholeFrame` | a grab as one delivery of a whole frame, or a failure | abstract; refined by `FrameTransfer` and `CameraLink` |
| `CameraSetup` | `setupCamera()` of the three products | `OpenDeviceFails` when `openDevice()` throws, which may leave a handle; one action per command and per answer of the retry and of the two mode loops; the commands between the loops are the one step `Configure`, or `CommandFails` |
| `SetupCommands` | what `Configure` stands for: the commands of the three products, and the calls of the recording copies | sequences, no state |
| `CameraDump` | `dump_camera_data` on any product, command by command; refines `CameraSetup` | `Open`, `SetupStep` (one command of the copy, its answer, what is recorded), `StartupSeen`, `StartupMissed`, `AttemptsSpent`, `GrabFrame`, `ProbeExtraPage`, `Close`, `writeSidecar` |
| `CameraLink` | `CameraSetup` and `FrameTransfer` composed on one handle, by one thread | `SetUp`, `Reset`, `Grab`, `Transfer` |
| `CameraThreads` | any number of threads in `grabFrame()` and `setCalibration()`, and one that opens and closes the camera | each lock, each unlock, each check and each assignment of a shared field is an action of its own, under a lock or not: `Grab`, `Set` (with a temperature section `SetSource` to `SetC1`, without one `CopyC0` to `KeepC1`), `Open` and `Close` are made of them |
| `DeadPixelMask` | `extractFrame()`, `DeadPixelMask::apply()` | `Extract`, `Correct`, one `Inpaint` per entry, `Deliver`, `Take`, `SetMask`; no behaviour of its own |
| `FramePipeline` | `grabRawCountsFrame()` over the steps of `DeadPixelMask`: shutter reference, offsets, inpainting, vignette, drift | `ShutterFrame`, `ThermalFrame`, `CorrectAndInpaint`, `DeliverCounts`, `TakeCounts`; `SetCorrections` is `setCalibration()` and the two switches |
| `DeviceSelect` | listing, picking, opening, and a bus that changes | `Plug`, `Unplug`, `Set`, `Pick`, `PickInteractive`, `Open`, `OpenFails`, `Close` |
| `GstSrc` | the source element | `ToReady`, `ToReadyFails`, `CalibrationFails`, `Play`, `Stop`, `ToNull`, `SetProperties`, and `create()` as `Create` and `CreateStep` |
| `SourceElement` | `GstSrc` and `DeviceSelect` composed: the element, or the tool, on a bus where units come and go while it opens, streams and retries | `Bus`, `Ask`, `Listed`, `NotListed`, `Opened`, `NotOpened`, `GetsReady`, `NotCalibrated`, `Closed`, `Streaming` |
| `NormalizationWindow` | the window of the source element | `Analyse` and `Normalize` of the streaming thread, `SetCount` of the application, `CameraOpened` |
| `ColorizeRange` | the range of the colorize element | `transform_frame()` is `Analyse`, `CheckNeed`, `Enter`, `CheckLow`, `UseLow`, `CheckHigh`, `UseHigh`, `Colorize`, each read of a bound a step; the application `SetMin`, `SetMax`, `SetFrames` |
| `CalibrationTool` | the tool's session: calibration edited, installed and in the file | `Boot`, `LoadCalibration`, one action for each outcome of each menu entry, `doSave`, `Quit` |
| `CaptureLoops` | the captures of the tool | `Begin`, `Drain`, `Grab`, `Retry`, `RawThrows`, `GrabFails`, `Throws`, `GiveUp`, `Finish` |
| `CalibrationSession` | `CalibrationTool` and `CaptureLoops` composed: each menu entry with its capture, frame by frame, under shutter cycles | `Menu`, `BeginCapture`, `GrabFrame`, `GrabNone`, `EndCapture`, `Terminate` |
| `CalibrationValues` | what a calibration holds in place of what it does not have | two constants, no state |
| `CalibrationFile` | writing a file line by line, stopping anywhere, editing it by hand, parsing it line by line, building a calibration of it or throwing | `SaveBegins`, `WriteLine`, `SaveStops`, `Edit`, `LoadBegins`, `ParseBlank`, `ParseHeader`, `ParseEntry`, `ParseThrows`, `Load`, `LoadThrows`, `LoadEnds` |

How the modules abstract:

* **Frames.** The life cycle sees a frame as its type, mean, pad reading and
  header slope, with 0 for what the code computes when no pixel is valid;
  `FrameTransfer` sees which grab wrote each byte; `FramePipeline` sees pixels,
  of a sensor with a fixed pattern, stuck pixels, a lens and a substrate that
  drifts; captures and the element see only types.
* **Numbers** are integers; temperatures, slopes and pads are only added,
  multiplied and compared. The rounding of `double` is not modelled: the drift
  coefficient and the vignette model are whole counts. Where a value is clamped
  or divided in integers by the code, it is in the model.
* **Files** are sequences of lines, a line is blank, a section, an entry with a
  list of tokens, or malformed. The digits of a number are reduced to what
  matters: it is written with fewer than it has.
* **Commands** of a set-up are the command, its data and the size of the answer;
  the contents of an answer matter only for the operation mode and the error
  code.
* **Threads** of `CameraThreads` do not see values of frames but who wrote them,
  and which calibration's anchor, `c0` and `c1` a frame was made with.
* **Data races.** In `CameraThreads`, `open()` and `close()` read and write
  calibration fields without the buffer lock; a reader then sees one of the values
  written. `c0` and `c1` are read, copied and written in steps of their own, and so
  are `c0_source_` and the anchor. Two things are merged: the value of the anchor
  with its flag `drift_anchor_set_`, and the reads of
  `updateTemperatureCalibration()` with the write that ends it. That a mapping is
  there is told by its slope, which a boot writes after the offset. `close()` during
  a transfer frees a handle that libusb uses: that has no outcome to choose from and
  is left out, as is an `open()` that throws among other threads. In
  `ColorizeRange` each of the unlocked reads of a bound is a step, as the code is
  written; a build that reads a bound once has fewer behaviours.
* **History variables** are declared apart from the others, with what they
  remember. No guard of an action reads one, except for the counters that the
  bounds named in section 4 cap, and the client (element or tool) that
  `DeviceSelect` keeps beside what it was asked for.

## 3. Runs

| run | question | properties |
|---|---|---|
| `Camera` | Is a camera that `open()` hands out always complete, and who owns its mapping? | `StreamingSeeded` `HostOwnsMapping` `C0Coherent` `FailedOpenReleases`; `AnchorMovesOnlyByPin` `OpenReturns` `ImplementsOwner` |
| `Link` | Are frames whole, within their buffer, and of a booted device, unless `openDevice()` threw? | `FitsBuffer` `GrabsFromBooted`; `SetupReturns` `ImplementsWholeFrame` |
| `Threads` | What do the two mutexes guarantee? | `OwnFrame` `CalibrationWhole` `BootSeeds` |
| `Pipeline` | Does a uniform scene come out uniform, free of pattern and drift? Is inpainting in place the same as at once, and free of sentinels? | `InPlaceIsAtOnce` `FilledFromValid` `UniformSceneIsUniform` |
| `Window` | Does the normalisation window survive being resized at any moment? | `WindowIsRecent`; `CleanStays` |
| `Colorize` | Is the range drawn the one asked for, while bounds and window change between its reads? | `BoundsHonoured` `AutomaticIsMedian` |
| `Session` | Do the entries of the tool, with their captures, leave camera, memory and file consistent, and is what they measure measured under one mapping? | `SuccessIsFull` `KnownSurfaceReads` `CapturesSetUp` `UnsavedIsCut` `MeasuredUnderSeed`; `RawCapturesReturn` |
| `File` | Does the parser find what a reader of the file finds, also in files that were cut or edited? | `ParsedIsLastValue` `RoundTrip` `TornLosesEnd` |
| `Element` | Does a user get the unit asked for on a bus that changes, and is one that vanishes reported? | `SerialHonoured` `OpenWhileReady`; `PortHonoured` `RestartKeepsUnit` `UnplugReported` |
| `Dump` | Do the copies of the set-up do what the original does, and is what is recorded labelled and ordered right? | `FeatureIsLatest` `PagesInOrder` `CopiesProduction`; `ImplementsSetup` `DumpEnds` |
| `CameraPinLost` | Is a pinned calibration valid over a reopening, as documented? **No.** | `PinSurvivesReopen` (violated) |
| `ToolReload` | Does a saved calibration load, as documented? **No, if it has no `pad_ref`.** | `SavedFileLoads` (violated) |

Properties before the semicolon are invariants, those after it are properties
of behaviours. Each is stated in words where it is defined.

Deadlock is checked in every run but `Dump`: in each model something can always
happen, since calls may be made again. `dump_camera_data` ends, and its
specification with it.

What the less obvious ones say:

* `FailedOpenReleases` speaks of every exit of `open()` but success: of a read or
  write that is refused, of the handle the Nano 300 writes to after closing it, of
  boots that came to nothing. The one handle that stays is that of a failed
  `openDevice()`, and `GrabsFromBooted` says that no grab meets any other device that
  was not booted.
* `CalibrationWhole` and `BootSeeds` hold before, between and after any number of
  openings. What a `setCalibration()` that meets an `open()` can break is exactly
  what they except (`raced`, `lost`), until the next call that brings a temperature
  section, which repairs it.
* `BoundsHonoured` bounds what the unlocked reads of one transform can mix. The case
  it has to allow, -1 converted like a temperature, refutes `AutoIsNoTemperature`.
* `AutomaticIsMedian` is about pixel values under any transforms, and about
  temperatures under one (`OneTransform`); beyond that the comment in the code is
  wrong (section 7).
* `UnsavedIsCut`: what quitting does not ask about is the empty calibration, or what
  the file holds, or a save that a full disk cut.
* `UniformSceneIsUniform` gives the value of every pixel that the sensor should
  deliver for a uniform scene: no fixed pattern, no drift but the anchor's, and
  what the lens and the vignette model leave; pixels that are filled in may
  differ by no more than the lens does. It holds over any sequence of shutter
  cycles, at other blade temperatures and drifts than the frame's own.
* `MeasuredUnderSeed` is what makes the arithmetic of a known-temperature
  measurement valid: the error found is added to the `c0` the entry began with,
  so no frame may have been mapped with another, although shutter cycles come in.
* `UnplugReported` leads from an unplugged unit and a `create()` under way to a
  flow error, through the retry loop, also if the unit is plugged in again.
* `ParsedIsLastValue` compares the incremental parser with a definition that
  looks at the whole file: the last value of a key in its section counts,
  wherever its sections and repetitions are.
* `TornLosesEnd`: a file that was cut may load without complaint. What it loses
  then is its end: the sections before the last one are as saved, and of the last
  one all but the key that is written last.
* `FeatureIsLatest`: what the sidecar says an answer belongs to is what the device
  was told since the read before it, or nothing if it was told nothing.
* `ImplementsSetup`: seen through the mode, handle and loop counters, the
  recording program takes steps of `CameraSetup` only.

### The two disagreements

* **The pin is lost.** `temperature_calibration.hpp:34-37` says that the driver
  pins its anchor to `pad_ref` "instead of the per-boot first-thermal pad,
  keeping a fixed c0 valid across reboots", and `seek_thermal_camera.hpp:273-274`
  that a host calibration persists "across close()/open()". `close()` clears the
  anchor (`seek_thermal_camera.cpp:161-162`), and only `setCalibration()` pins
  (`:625-628`). A camera with a pinned calibration that is reopened, be it by
  `setupCamera()` itself (`seek_thermal_compact_pro.cpp:28-30`), takes the
  anchor of the boot and keeps the `c0` of the pin.
* **A saved file does not load.** `camera_calibration.hpp:47-48` promises "the
  format consumed by loadCameraCalibration"; an unset `pad_ref` is not written
  (`camera_calibration.cpp:233-234`) and is required when reading (`:154`). The
  tool makes such a section on a camera without drift coefficient.

## 4. Bounds

* `Camera`: two attempts of up to three transfers each, instead of 5 and 24. Two
  attempts are what it takes for state of a failed one to reach the next. Three
  transfers are a boot shutter, a first thermal frame and one more that may be
  lost, unusable, repeated or out of order; frames are of four types with two
  pads, two means, with or without slope, and unusable ones. Two host
  calibrations, one pinned to a pad that a boot may read as well and one not.
  Sessions are unbounded. `Reopens = TRUE` allows a set-up to close and reopen.
* `Link`: a frame of 5 bytes in requests of 2, so that the last request is
  shorter than the others; buffers of 0 (none yet), too small, exact and larger;
  three grabs (`MaxGrabs`, a guard: the number of a grab marks the bytes it
  wrote, and two grabs suffice for stale bytes). Four commands per mode
  (`MaxRetries`, 10 in the code). The product is the Compact Pro, which has both the
  reopening and the two mode loops; the theorems cover the others.
* `Threads`: two threads that grab and two that set, symmetric, one that opens and
  closes without end; two calls of `setCalibration()` (`MaxCals`, a guard: a call's
  number stands for its values), each with or without a temperature section and a
  `pad_ref`, so that one may meet an `open()` and the next repair it.
* `Pipeline`: 3 by 2 pixels, in which windows are cut at all four borders. One
  sensor has a fixed pattern, a stuck pixel and a lens that is darker at one
  side, one is free of faults. Scene and blade have two levels (`Levels`), the
  substrate two states (`Drifts`, times `Gain` in the pixels), so that a frame
  may meet offsets and an anchor of its own drift or of another, and a blade of
  its own temperature or of another. Other frames take their pixels from both
  sentinels and two values, one of them next to the maximum (`Saturated`, 0xffff
  in the code, is 40), so that offsets clamp. The mask covers no pixel, two
  neighbours, a corner or everything.
* `Window`: up to 4 frames over three values. A window shrinks below its index, grows,
  wraps around and is refilled.
* `Colorize`: windows of up to 3 frames, of two temperatures and two transforms, one
  of which clips (`MaxRaw` is 2); bounds are automatic or one of two temperatures. During
  one transform a bound takes at most two values, back and forth as often as it likes,
  and with a window of three frames only one of the bounds does (`FewChanges`, a
  constraint): a bound is read at most three times.
* `Session`: captures of 2 frames after a warm-up of 1, at most 1 * 2 + 1
  attempts (`Factor`, `Slack`: 20 and 400 in the code): a capture can meet a
  shutter frame, an unusable one and a failure before it ends either way. Two
  anchors, two errors of the camera's own `c0`, a manual offset of one degree,
  readings within 2 degrees (`MaxDegrees`, a guard of the manual offset, which
  could be repeated without end). The number of entries made in a session, and of
  sessions, is unbounded. `DiskFull = TRUE`: any save may be cut.
* `File`: calibrations with all sections, with a temperature without `pad_ref`
  and an empty mask, and with a vignette only; two coefficients, two pixels, one
  comment line in the header; one edit of a file (`MaxEdits`, a guard), which may
  double, delete, exchange or mistype any lines. Edits of torn files are among
  them. Reading does not overlap writing: `Quiet` is a guard of both.
* `Element`: one unit of each of the two products that share a product id, the
  case that is easy to get wrong, one of them with a serial; two ports, so that
  units trade places. `MAX_TRIES` is 4 in place of 10: what matters is whether
  skipped and failed frames count (the last two tries are special). One skipped
  frame in one call of `create()` (`MaxSkips`, a guard), see fairness.
* `Dump`: the three products, 2 attempts of `open()` (5 in the code), 2 commands
  per mode (10), 2 factory pages in place of 80, 3 extra pages, 2 frames. Two
  attempts are what it takes for chunks of a failed one to precede those of the
  next; every command may fail, and every probe go unanswered.

## 5. Fairness

Weak fairness is assumed only of the thread that is inside a call, where the
code cannot wait for anything but a libusb transfer, and each transfer has a
timeout of one second (`seek_thermal_camera.cpp:254-255`, and the control
transfers of `read` and `write`): `OpenStep` in `SeekThermalCamera`, `SetUp` and
`Transfer` in `CameraLink`, `Streaming` in `SourceElement`, `Capturing` in
`CalibrationSession`, `DumpNext` in `CameraDump`, which has one thread and no
user. Nothing is assumed of the device, of the bus, of the user or of
the application: no frame need ever arrive, no command need ever be obeyed. The
exception is `MaxSkips` in `Element`: with `skip-invalid-frames` the element
loops for as long as the device sends only frames to skip
(`gstopenseekthermalsrc.cpp:462-470`), and the model lets it send finitely many
in one call. A capture that does not count its attempts has no termination
property here, since it does not have to end.

## 6. Proofs

`TLAPS` checks every theorem to its leaves, from the named assumptions on the
constants that the modules declare (each is evaluated by TLC in a run as well).
No theorem bounds the sets or numbers that the runs bound.

* **`SeekThermalCameraProofs`.** Type correctness, `StreamingSeeded`,
  `HostOwnsMapping`, `C0Coherent`, `FailedOpenReleases`, `PinnedOnlyByHost`,
  `AnchorMovesOnlyByPin`, and the refinement of `CalibrationOwner`.
  None of these is inductive: whether a stream is seeded depends on what
  `ft8_seen` stands for while `open()` runs, and whether a shutter reference may
  be there at all on the handle. `IInv` adds `Between`: a running `open()` has
  a device and no result, `ft8_seen` implies that offsets exist, a closed device
  has no session state, and an owner other than the firmware has a mapping. One
  lemma per action shows that it is kept; facts about the helpers that compute
  `c0` and the offsets are lemmas of their own.
* **`CameraLinkProofs`.** Of `FrameTransfer`: type correctness, `FitsBuffer`, that a
  successful grab received a whole frame, and the refinement of `WholeFrame`. The
  invariant says that what was received is a prefix, written by this grab, and
  that what is missing fits in the rest. Of `CameraLink`: `GrabsFromBooted`, and
  that it implements `FrameTransfer`, from which its buffer bound and its
  refinement follow. The invariant relates each step of `setupCamera()` to the
  mode the device is in: a mode that was read back as off has been left by a
  device that is then on only after a boot. `HandleLeft` says when there is a handle
  outside of `setupCamera()`: after it returned, or after an `openDevice()` that threw
  a `USBError`, and never after a set-up that failed.
* **`CameraThreadsProofs`.** `OwnFrame`, `BufferExclusive`, `CalibrationWhole` and
  `BootSeeds` for any number of threads, openings and closings. A first invariant
  says at which points of its call a thread holds which lock. The second, `CInv`,
  builds on it. `Written` says what a setter has written of offset, slope and owner
  at each point of its critical section, and holds as long as no call met an
  `open()`; `Pinned` says the same of the anchor; `Mapped` and `Seeded` say what each
  step of a boot may rely on although its check was made without the lock: a slope,
  once there, is taken away only by a call that copied before it was there, which is
  what `lost` remembers. `Numbers` orders the calls, so that one that began after an
  `open()` ended is later than all that met it.
* **`SourceElementProofs`.** Of `DeviceSelect`: `SerialHonoured`, `PortHonoured`,
  `RestartKeepsUnit`, and `ToolPicksAsAsked` (what the tool picks is on the port
  given), for any units, products and ports. The invariant says what a description
  that was picked still guarantees when the bus has changed. `ElementSelects` shows that
  `SourceElement` implements `DeviceSelect`, each step being one of it or a
  stutter, so that the three hold of the element that streams and retries. Of the
  composition itself: `OpenWhileReady` (where the element is, and whether there is a
  camera to close, are related at every step of opening), and `GivesUpLate` for any
  `MAX_TRIES`. Of `NormalizationWindow`: `WindowIsRecent` and `CleanStays` for every
  size and every sequence of resizings; a frame that waits to be entered is one for
  which `first_frame` has been cleared.
* **`DeadPixelMaskProofs`.** Of the whole pipeline, for any size, sensor, frame,
  mask and vignette model. `InPlaceIsAtOnce` holds whatever the mean of the
  neighbours is: visited entries hold their final values, and no entry's neighbour
  is an entry. The other three are about that mean. It is a quotient of sums over
  sets of pixels, and lemmas on such sums say that a mean grows with its terms and
  moves with them, and so lies between the least and the greatest of them. From this
  follow `FilledFromValid`, and, by the invariant `SInv`, `PipelineTypeOK`: every
  pixel that a mean, an offset, the vignette or the drift correction computes fits
  the 16 bits it is stored in. For `UniformSceneIsUniform`, `UInv` says that the
  offsets do not depend on the shutter frame they were taken from: the temperature
  of the blade and the drift of the substrate enter every pixel of it and its mean
  alike. So a pixel plus its offset is free of the pattern, and the drift that is
  left is the one of the frame, which the compensation replaces by that of the
  anchor. This holds within the operating range that `RangeAssumption` names: no
  pixel that works reads a sentinel and no corrected one leaves the 16 bits, where
  it would be clamped.
* **`CalibrationSessionProofs`.** Of `CaptureLoops`: `SuccessIsFull` and
  `GivesUpLate` for any number of frames and bound of attempts, since attempts are
  accumulated plus useless transfers. Of the tool: `KnownSurfaceReads`,
  `CapturesSetUp`, `UnsavedIsCut` and `MeasuredUnderSeed` for any anchors,
  offsets, errors of the firmware and versions of a mask or vignette. None of the
  first three is inductive. `TInv` adds what a temperature section says wherever it
  is kept (`Sections`: with its own anchor, the surface reads what the section was
  made for), that the section in hand is installed and the host's (`InForce`), and
  that a measurement runs with its seed (`SeedInForce`). `SessionIsTool` shows that
  a session whose captures run frame by frame, under shutter cycles, implements the
  tool in which a capture is one step, and carries the invariant over.
  `UnsavedIsCut` is proved for a disk that may be full.
  Of `CalibrationFile`: `ParsedIsLastValue` for every file, with nothing assumed of
  its lines: one parsed line extends the sections opened so far, the section in
  force and the last lines of the keys. An entry before any section line throws, and
  until then no section without a name is in force, unless the file opens it as
  `[]`. `RoundTrip` and `TornLosesEnd` build on that, for any calibrations that can
  be written and read (`SavedAssumption`: of any number of coefficients and pixels,
  with any sections). Three facts are combined. `FileLaidOut`: where each line of a
  file that is written lies, section by section, and that no key comes twice.
  `WInv`: what is on disk is a beginning of those lines, of which the last may be
  cut. `RInv`: no line that was parsed is malformed. `FileInv`, of
  `ParsedIsLastValue`, then gives the value of each key in each section, all of them
  or those that are there (`ReadsAll`, `ReadsSome`), and one lemma per section says
  what it is parsed to. That rounding a rounded number changes nothing makes the
  second save the same file.
* **`ColorizeRangeProofs`.** Type correctness, `BoundsHonoured` and `AutomaticIsMedian`
  for any window size, temperatures, limits, transforms and range of pixels. For the
  first, `CHad` says that the bounds in force are among those remembered of this
  transform, and `CRange` where each end found so far comes from; both survive whatever
  the application sets. The second needs that the place of a frame in the window is
  determined by its age, over resizings (`CSeen`), and that the median of a rearranged
  window is the same; for one transform also that the conversion to pixels is monotone.
  `MediansOrdered` of the source element is here because it is about
  medians, too, which are compared by counting: a window whose values are all at
  most those of another has no larger median.
* **`CameraDumpProofs`.** `ImplementsSetup` and `FeatureIsLatest` for any number of
  attempts, retries, factory pages and frames. The refinement maps the last command
  between the mode loops to `Configure`, the others to stutters, and an exception of
  either to the one of the same name. That a label is never stale rests on the order
  of the calls in the scripts, which `ReadsOwn` states and a lemma proves of each
  product: a page is read right after its feature, a feature is neither written over
  nor cleared unread, and any other read either follows its feature or finds that
  all before it were cleared. `RecordInv` then relates `last_feature_` to what the
  device was told at each call, and says that neither outlives a set-up that
  succeeded. `CopiesProduction`: a command of the copy that is no probe is the one
  of the stock set-up at its place less the probes before it; the probes are counted
  up to each place where there is one, and the pages in between shift all that
  follows alike. `PagesInOrder`: `PagesInv` says, at each call, how many chunks of
  pages there are behind the place where the last set-up began, and that they are
  numbered one after the other; the chunks of attempts that came to nothing lie
  before that place.

Every safety property of the passing runs, invariant, action property or
refinement, is the statement of a theorem. Only model-checked are the liveness
properties (`OpenReturns`, `SetupReturns`, `RawCapturesReturn`, `UnplugReported`,
`DumpEnds`), which need fairness and ENABLED.

The provers cannot instantiate the library's induction theorems, whose parameter is an
operator. Where a proof needs induction (sums over a set of pixels, pixels in
their order, the last line of a key, the existence of a median), a lemma states it
for a set in place of a predicate, or the proof takes the least counterexample. A fold
is used through a function on the subsets of its set that a lemma shows to exist.

## 7. What texts say and the code does not do

Besides the two violated runs, the modules state properties that quote a comment
or a document, and that the code does not have. They are known behaviour and in
no run. TLC refutes each when it takes the place of the properties of the
configuration named here (`CameraSetup` has none of its own: `Product =
"Nano300"`, `MaxRetries = 2`, `Spec`).

| property, configuration | what is said | what happens |
|---|---|---|
| `UnsetPadRefUsesBootAnchor`, `Camera` | `seek_thermal_camera.cpp:624`: an unset `pad_ref` keeps the per-boot anchor | the anchor that an earlier calibration pinned stays (`:625-628`) |
| `SeededAtBoot`, `Camera` | `seek_thermal_camera.hpp:265-267`: firmware mapping only without `T_ref`, coefficient or pad | an attempt that fails after the anchor was set leaves it, and the next never seeds `c0` (`seek_thermal_camera.cpp:510-530`) |
| `SeededEveryBoot`, `Camera` | `seek_thermal_camera.hpp:268-269`: `c0` is "seeded at boot" | a reopened camera whose boot shutter was unusable keeps the `c0` of the last session |
| `C0FromOneFrame`, `Camera` | `seek_thermal_camera.hpp:227-229`: `c0` from "a shutter frame" | the mean may be of an older frame than the pad (`seek_thermal_camera.cpp:335-338`, `446-449`) |
| `StrayErrorTolerated`, `Camera` | `seek_thermal_camera.cpp:465-466`: a stray transfer error "doesn't immediately force a setupCamera() retry" | it does (`:478-479`) |
| `ThrowingOpenCloses`, `Camera` | `seek_thermal_camera.cpp:59`: "Clean up device before throwing" | `openDevice()` is outside the `try` (`:41`) and leaves an unclaimed handle (`:127-140`), which the next `open()` takes for open |
| `NoGrabAfterThrow`, `Link` | `seek_thermal_camera.cpp:59`: "Clean up device before throwing" | a grab finds the handle that `openDevice()` left (`:127-140`) and reads from a device that was never set up, instead of returning `DEVICE_NOT_OPEN` (`:230`) |
| `MappingKept`, `Threads` | `seek_thermal_camera.cpp:613-614`: "Keep the active temperature mapping (factory default from open(), or a previously installed one) when the incoming calibration omits it" | a call on a closed camera copies the mapping that is not there yet (`:630`), `open()`, which does not lock, installs one (`:497`, `:541`), and the call overwrites it (`:632`): `grabFrame()` dereferences nothing (`:400`) |
| `MappedWithItsAnchor`, `Threads` | `temperature_calibration.hpp:37-38`: `pad_ref` must equal the one the fit used | a calibration installed between compensation and mapping maps counts made for the other anchor (`seek_thermal_camera.cpp:387-401`) |
| `HostC0NotSeededOver`, `Threads` | `seek_thermal_camera.hpp:270-272`: a host calibration is not seeded over | it is, when installed between the test and the seeding (`seek_thermal_camera.cpp:529-532`) |
| `RetriedOnOpenDevice`, `CameraSetup` | the other products repeat the first command after a reopening | the Nano 300 closes the device and fails all the same (`seek_thermal_nano_300.cpp:27-32`) |
| `GaveUpWithoutFrame`, `Element` | `gstopenseekthermalsrc.cpp:472`: "Failed to get a valid frame" | a valid frame that is itself the last try is thrown away (`:464-471`) |
| `ScaledByFrames`, `Window` | `README.md:51`: scale and offset are computed from a sliding window of frames | `create()` clears `first_frame` (`gstopenseekthermalsrc.cpp:476`) before `update_normalization_factor()` would fill the window on it (`404-408`), so the values that `realloc` returned (`188-195`) are used until frames have replaced them all |
| `MedianTemperatures`, `Colorize` | `gstopenseekthermalcolorize.cpp:434-435`: the median "can stay in raw pixel space", as colours are invariant under a linear transform | the window keeps pixel values of several frames (`:484`), and the source element's normalisation gives each frame a scale and an offset of its own (`gstopenseekthermalsrc.cpp:424-425`, `503`): the median of values made with different ones is not that of the temperatures |
| `AutoIsNoTemperature`, `Colorize` | `gstopenseekthermalcolorize.cpp:696`, `702`: "-1 = auto." | a bound set to -1 between its check and its use, both on line 488 or 490, is converted like a temperature |
| `PickedAsAsked`, `Element` | `README.md:44`: `port` is the "USB port of the device", "Ignored if `serial` is set" | the element sets `serial` itself when it opens (`gstopenseekthermalsrc.cpp:555-558`), and a port set later is ignored |
| `FoundIt`, `Element` | `seek_thermal_camera.cpp:119`: "we found it!" | a Nano 300 on the port is opened as a Compact Pro: they share a product id (`:92-100`) |
| `MaskingRedundant`, `Pipeline` | `detect_dead_pixels.hpp:18-21`: masking a sentinel pixel is redundant | the value differs when neighbours read sentinels too (`seek_thermal_camera.cpp:564-584`) |
| `SavedRoundTrips`, `Session` | `calibration_tool.cpp:570`: "Round-trip self-check." | a full disk cuts the file without an exception (`camera_calibration.cpp:296-321`), `dirty` is cleared (`:568`), and a file that was cut and still loads, an empty one say, passes the check: quitting does not ask |
| `CapturesReturn`, `Session` | `capture_helpers.cpp:248`: a stream "cannot hang the wizard" | the averaging capture has no bound (`:111-128`) |
| `MeanOfLatestShutter`, `Session` | `seek_thermal_camera.hpp:133`: mean of the most recent shutter frame | raw captures take shutter frames past it (`capture_helpers.cpp:176`, `264`) |
| `ErrorCodeStops`, `Dump` | `dump_camera_data.cpp:233-236`: the overrides are literal copies of the stock set-up | the copy for the Nano 300 joins the bytes of the error code with `&&` (`:334`): only a code without any zero byte stops it |

One more is not stated as a property: `dump_camera_data.cpp:784-785` says that
the raw frames preserve the startup frames, which `open()` has consumed by then.

Some properties hold and are in no run, because a deeper one stands for them:
the type invariants, `PinnedOnlyByHost`, `SuccessIsWholeFrame`,
`BufferExclusive`, `ToolPicksAsAsked`, `GivesUpLate` and `MediansOrdered` (proved),
`ReadyIsCalibrated`, `CreateReturns`, `GrabReturns`, `DeadPixelsReturn`.

## 8. Not modelled

* **Fits and detection of dead pixels** (`fit_temperature`, `fit_vignette`,
  `detect_dead_pixels`): stateless floating-point statistics. What surrounds them
  (which frames reach them, what is done with a result) is in
  `CalibrationSession`; what a fitted model does to a frame is in `FramePipeline`.
* **Palettes, caps negotiation, drawing, the metadata plumbing of GStreamer**, the
  terminal preview, examples, timing, logging: no state that another component
  reads, or none at all.
* **Of `dump_camera_data`** the choice of the unit, an output file that cannot be
  opened, a full disk, and the text of the sidecar; `list_seek_devices`, which
  prints a list.
* **`close()` during a transfer** of another thread, and `set_property` of a string
  during `open()`: both are undefined behaviour without states to distinguish. An
  `open()` that throws, and so closes, while other threads set or grab: the
  life cycle has it, for one caller.
* **Header offsets and sizes per product**: tables without state.
* **Leaks of libusb lists, and a negative count taken for a size**
  (`seek_thermal_camera.cpp:82`, which never frees its list; `openseekthermal.cpp:115`):
  no state of this program depends on them, and a model of the counts would say what a
  look at the line says.

## 9. Plan

Done: the modules and runs above, and the theorems of section 6, which state every
safety property that a passing run checks. What could follow is abstract
specifications where they would say more than the invariants do: a rolling window of
the last *n* frames, refined by both windows, and a document that is saved or dirty,
refined by `CalibrationTool`.
