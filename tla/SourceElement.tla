---------------------------- MODULE SourceElement ----------------------------
(***************************************************************************)
(* openseekthermalsrc on a bus: the state changes and the retry loop of    *)
(* the element (GstSrc) with the selection and the opening of a unit       *)
(* (DeviceSelect).  Units come and go while the element opens, streams and *)
(* retries; an open handle outlives its unit, and every transfer on it     *)
(* fails from then on.  The calibration tool is the other client.          *)
(***************************************************************************)
EXTENDS DeviceSelect, GstSrc

VARIABLE gone  \* was the unit of the open handle unplugged?

elementVars == <<vars, srcVars, gone>>

ElementInit == Init /\ SrcInit /\ gone = FALSE

GoneAfter(u) == gone \/ u = opened

Bus ==
  /\ \/ \E u \in Units, p \in Ports : Plug(u, p) /\ UNCHANGED gone
     \/ \E u \in Units : Unplug(u) /\ gone' = GoneAfter(u)
  /\ UNCHANGED srcVars

\* Another program has another element.
Constructed ==
  /\ element' = "NULL" /\ camera' = "none" /\ path' = FALSE /\ calibrated' = FALSE
  /\ skipInvalid' = TRUE /\ firstFrame' = TRUE /\ step' = "idle" /\ Fresh

\* The application sets properties of the element; or it ends, and the tool is started.
Ask ==
  /\ \/ \E c \in Clients, s \in Serials, p \in Ports \union {""} :
          Set(c, s, p) /\ IF c = "tool" THEN Constructed ELSE UNCHANGED srcVars
     \/ Client = "element" /\ SetProperties /\ UNCHANGED vars
  /\ UNCHANGED gone

-----------------------------------------------------------------------------
Listed(u) == (Pick(u) \/ PickInteractive(u)) /\ UNCHANGED <<srcVars, gone>>

\* The element finds no unit that it wants, and keeps the camera it had.
NotListed ==
  /\ Client = "element" /\ pc = "idle" /\ ToReadyFails /\ camera' = camera
  /\ UNCHANGED <<vars, gone>>

Opened(u) == Open(u) /\ gone' = FALSE /\ UNCHANGED srcVars

\* createCamera() or open() threw: the old camera is no more.
NotOpened ==
  /\ OpenFails /\ UNCHANGED gone
  /\ \/ Client = "element" /\ ToReadyFails /\ camera' # "none" /\ camera' # "open"
     \/ Client = "tool" /\ UNCHANGED srcVars

\* The unit may be gone by the time the calibration is installed.
GetsReady ==
  /\ Client = "element" /\ pc = "open" /\ ToReady /\ UNCHANGED <<vars, gone>>

NotCalibrated ==
  Client = "element" /\ Close /\ CalibrationFails /\ gone' = FALSE

Closed ==
  /\ Close /\ gone' = FALSE
  /\ \/ Client = "element" /\ ToNull
     \/ Client = "tool" /\ UNCHANGED srcVars

-----------------------------------------------------------------------------
\* create() on the streaming thread; a unit that is gone sends nothing.
Streaming ==
  /\ CreateStep /\ (gone /\ step = "grabbing" => GrabFails)
  /\ UNCHANGED <<vars, gone>>

ElementNext ==
  \/ Bus \/ Ask
  \/ \E u \in Units : Listed(u) \/ Opened(u)
  \/ NotListed \/ NotOpened \/ GetsReady \/ NotCalibrated \/ Closed
  \/ (Play \/ Stop \/ Create) /\ UNCHANGED <<vars, gone>>
  \/ Streaming

\* The transfers of a grab have timeouts, on a unit that is gone, too.
ElementSpec == ElementInit /\ [][ElementNext]_elementVars /\ WF_elementVars(Streaming)

-----------------------------------------------------------------------------
\* "Retrying.": create() does not retry for ever on a unit that was unplugged, nor
\* pass off what it has in hand as a frame: downstream is told.
UnplugReported == gone /\ step # "idle" ~> flow = "error"
=============================================================================
