------------------------ MODULE SourceElementProofs ------------------------
(***************************************************************************)
(* For any number of units and ports, plugged and unplugged at any time:   *)
(* who asks for a serial gets that unit, and an element that is restarted  *)
(* gets the unit it had, or the port it had.  Between the listing and the  *)
(* opening nothing of the bus can be relied on; what is carried over is    *)
(* the description that was picked, and it answers what was asked.         *)
(* Then the element with its state changes: every step of it is a step of  *)
(* the selection or leaves it alone, so that all of this holds of it, and  *)
(* its camera is open exactly while the element is not NULL.               *)
(* Last its normalisation window, whatever the number of frames is set to: *)
(* it holds the newest frames, and none of the camera before.              *)
(***************************************************************************)
EXTENDS SourceElement, NormalizationWindow, TLAPS

OnPorts == at \in [Units -> Ports \union {"none"}]

\* While a camera exists that is not open yet, its description is a wanted one
\* by the settings of now, which nobody can change meanwhile.
PickedIsWanted == pc = "picked" => Wanted(picked) /\ picked.port \in Ports

\* A serial that the user gave is still the one in force.
SerialInForce == asked.serial # "" => serial = asked.serial

\* The element remembers the unit it opened last: by its serial if that was read,
\* by its port in any case.
Remembers ==
  last.unit # "none" /\ Client = "element" =>
    /\ serial = last.described.serial /\ port = last.described.port
    /\ port \in Ports /\ last.unit \in Units
    /\ serial # "" => SerialOf[last.unit] = serial

\* The tool goes by the arguments it was started with; only the element writes to its
\* settings.
ArgumentsKept == Client = "tool" => serial = asked.serial /\ port = asked.port

IInv == /\ OnPorts /\ PickedIsWanted /\ SerialInForce /\ ArgumentsKept
        /\ Remembers /\ SerialHonoured

\* A unit is described with the port it is on.
LEMMA DescribedByPort ==
  ASSUME NEW u, NEW d \in Described(u)
  PROVE  d.port = at[u]
<1> DEFINE Read == IF TypeOf[u] = "Compact" THEN {""} ELSE {SerialOf[u], ""}
<1>1. Described(u) = {[type |-> TypeOf[u], serial |-> s, port |-> at[u]] : s \in Read}
  BY DEF Described
<1> HIDE DEF Read
<1>2. PICK s \in Read : d = [type |-> TypeOf[u], serial |-> s, port |-> at[u]]
  BY <1>1
<1> QED BY <1>2

\* An opened unit is the one with the serial of the description, if any.
LEMMA OpensBySerial ==
  ASSUME NEW u \in Units, Open(u), picked.serial # ""
  PROVE  SerialOf[u] = picked.serial
BY DEF Open, Matches

\* What the client remembers is what it opened.
THEOREM SelectInductive == Spec => []IInv
<1> USE SelectAssumption
<1>1. Init => IInv
  <2> SUFFICES ASSUME Init PROVE IInv
    OBVIOUS
  <2>1. OnPorts
    BY DEF Init, OnPorts
  <2>2. /\ pc = "idle" /\ last.unit = "none" /\ serial = "" /\ port = ""
        /\ asked.serial = "" /\ asked.port = ""
    BY DEF Init
  <2> QED
    BY <2>1, <2>2 DEF IInv, PickedIsWanted, SerialInForce, ArgumentsKept, Remembers, SerialHonoured
<1>2. IInv /\ [Next]_vars => IInv'
  <2> SUFFICES ASSUME IInv, [Next]_vars PROVE IInv'
    OBVIOUS
  <2> USE DEF IInv, OnPorts, PickedIsWanted, SerialInForce, ArgumentsKept, Remembers,
              SerialHonoured, Wanted, settings, Client
  <2>1. ASSUME NEW u \in Units, NEW p \in Ports, Plug(u, p) PROVE IInv'
    BY <2>1 DEF Plug
  <2>2. ASSUME NEW u \in Units, Unplug(u) PROVE IInv'
    BY <2>2 DEF Unplug
  <2>3. ASSUME NEW c \in Clients, NEW s \in Serials, NEW p \in Ports \union {""},
               Set(c, s, p)
        PROVE  IInv'
    BY <2>3 DEF Set
  <2>4. ASSUME NEW u \in Units, Pick(u) PROVE IInv'
    <3>1. PICK d \in Described(u) : Wanted(d) /\ picked' = d
      BY <2>4 DEF Pick
    <3>2. d.port \in Ports
      <4>1. d.port = at[u]
        BY <3>1, DescribedByPort
      <4>2. at[u] \in Ports
        BY <2>4 DEF Pick, Plugged
      <4> QED BY <4>1, <4>2
    <3>3. PickedIsWanted'
      BY <2>4, <3>1, <3>2 DEF Pick
    <3> QED BY <2>4, <3>3 DEF Pick
  <2>5. ASSUME NEW u \in Units, PickInteractive(u) PROVE IInv'
    <3>1. PICK d \in Described(u) : picked' = d
      BY <2>5 DEF PickInteractive
    <3>2. d.port \in Ports
      <4>1. d.port = at[u]
        BY <3>1, DescribedByPort
      <4>2. at[u] \in Ports
        BY <2>5 DEF PickInteractive, Plugged
      <4> QED BY <4>1, <4>2
    <3>3. PickedIsWanted'
      BY <2>5, <3>1, <3>2 DEF PickInteractive
    <3> QED BY <2>5, <3>3 DEF PickInteractive
  <2>6. ASSUME NEW u \in Units, Open(u) PROVE IInv'
    BY <2>6, OpensBySerial DEF Open, Keep
  <2>7. ASSUME OpenFails PROVE IInv'
    BY <2>7 DEF OpenFails
  <2>8. ASSUME Close PROVE IInv'
    BY <2>8 DEF Close
  <2>9. ASSUME UNCHANGED vars PROVE IInv'
    BY <2>9 DEF vars
  <2> QED
    BY <2>1, <2>2, <2>3, <2>4, <2>5, <2>6, <2>7, <2>8, <2>9 DEF Next
<1> QED BY <1>1, <1>2, PTL DEF Spec

\* Who asks for a serial gets the unit with that serial or none.
THEOREM SerialsAreHonoured == Spec => []SerialHonoured
<1>1. IInv => SerialHonoured
  BY DEF IInv
<1> QED BY <1>1, SelectInductive, PTL

\* The tool picks a device on the port of its arguments.
THEOREM ToolPicksByPort == Spec => []ToolPicksAsAsked
<1>1. IInv => ToolPicksAsAsked
  BY DEF IInv, ArgumentsKept, PickedIsWanted, Wanted, ToolPicksAsAsked, PortPicked
<1> QED BY <1>1, SelectInductive, PTL

\* A camera opened by its port is on the port that the user gave.
THEOREM PortsAreHonoured == Spec => PortHonoured
<1>1. IInv /\ [Next]_vars =>
        [opened = "none" /\ opened' # "none" /\ picked.serial = "" =>
          at[opened'] = picked.port /\ (port # "" /\ serial = "" => at[opened'] = port)]_vars
  <2> SUFFICES ASSUME IInv, Next, opened = "none", opened' # "none", picked.serial = ""
               PROVE  at[opened'] = picked.port /\ (port # "" /\ serial = "" => at[opened'] = port)
    OBVIOUS
  <2>1. PICK u \in Units : Open(u)
    BY DEF Next, Plug, Unplug, Pick, PickInteractive, OpenFails, Close, Set
  <2>2. opened' = u /\ at[u] = picked.port
    BY <2>1 DEF Open, Matches
  <2>3. Wanted(picked)
    BY <2>1 DEF Open, IInv, PickedIsWanted
  <2> QED BY <2>2, <2>3 DEF Wanted
<1> QED BY <1>1, SelectInductive, PTL DEF Spec, PortHonoured

\* A restarted element opens the unit it had, or the port it had.
THEOREM RestartsKeepTheUnit == Spec => RestartKeepsUnit
<1>1. IInv /\ [Next]_vars =>
        [opened = "none" /\ opened' # "none" /\ last.unit # "none" /\ Client = "element" =>
           \/ last.described.serial # "" /\ opened' = last.unit
           \/ last.described.serial = "" /\ (picked.serial = "" => at[opened'] = last.described.port)]_vars
  <2> SUFFICES ASSUME IInv, Next, opened = "none", opened' # "none",
                      last.unit # "none", Client = "element"
               PROVE  \/ last.described.serial # "" /\ opened' = last.unit
                      \/ /\ last.described.serial = ""
                         /\ picked.serial = "" => at[opened'] = last.described.port
    OBVIOUS
  <2>1. PICK u \in Units : Open(u)
    BY DEF Next, Plug, Unplug, Pick, PickInteractive, OpenFails, Close, Set
  <2>2. opened' = u /\ Wanted(picked)
    BY <2>1 DEF Open, IInv, PickedIsWanted
  <2>3. CASE last.described.serial # ""
    <3>1. serial # "" /\ SerialOf[last.unit] = serial /\ last.unit \in Units
      BY <2>3 DEF IInv, Remembers
    <3>2. SerialOf[u] = serial
      BY <2>1, <2>2, <3>1, OpensBySerial DEF Wanted
    <3> QED BY <2>2, <2>3, <3>1, <3>2, SelectAssumption
  <2>4. CASE last.described.serial = "" /\ picked.serial = ""
    <3>1. serial = "" /\ port = last.described.port /\ port # ""
      BY <2>4, SelectAssumption DEF IInv, Remembers
    <3>2. picked.port = port
      BY <2>2, <3>1 DEF Wanted
    <3>3. at[u] = picked.port
      BY <2>1, <2>4 DEF Open, Matches
    <3> QED BY <2>2, <2>4, <3>1, <3>2, <3>3
  <2> QED BY <2>3, <2>4
<1> QED BY <1>1, SelectInductive, PTL DEF Spec, RestartKeepsUnit

-----------------------------------------------------------------------------
(* The element on the bus.                                                 *)

\* Whatever the element or the tool does, and whenever units come and go, it is a
\* step of the selection for the selection's part of the state: the element
\* implements DeviceSelect.
THEOREM ElementSelects == ElementSpec => Spec
<1>1. ElementInit => Init
  BY DEF ElementInit
<1>2. [ElementNext]_elementVars => [Next]_vars
  <2> SUFFICES ASSUME [ElementNext]_elementVars PROVE Next \/ UNCHANGED vars
    OBVIOUS
  <2>1. CASE Bus
    BY <2>1 DEF Bus, Next
  <2>2. CASE Ask
    BY <2>2 DEF Ask, Next
  <2>3. ASSUME NEW u \in Units, Listed(u) \/ Opened(u) PROVE Next
    BY <2>3 DEF Listed, Opened, Next
  <2>4. CASE NotOpened \/ NotCalibrated \/ Closed
    BY <2>4 DEF NotOpened, NotCalibrated, Closed, Next
  <2>5. CASE NotListed \/ GetsReady \/ Streaming \/ UNCHANGED vars
    BY <2>5 DEF NotListed, GetsReady, Streaming
  <2>6. CASE UNCHANGED elementVars
    BY <2>6 DEF elementVars
  <2> QED
    BY <2>1, <2>2, <2>3, <2>4, <2>5, <2>6 DEF ElementNext
<1> QED BY <1>1, <1>2, PTL DEF ElementSpec, Spec

\* The user of a running element gets what was asked for, and a restart the same.
THEOREM ElementHonoursSerial == ElementSpec => []SerialHonoured
BY ElementSelects, SerialsAreHonoured, PTL

\* Without a serial, a running element has the unit on the port of its description.
THEOREM ElementHonoursPort == ElementSpec => PortHonoured
BY ElementSelects, PortsAreHonoured, PTL

\* A restarted element opens the same unit again, or the one on the same port.
THEOREM ElementKeepsUnit == ElementSpec => RestartKeepsUnit
BY ElementSelects, RestartsKeepTheUnit, PTL

\* An element beyond NULL belongs to the client, and is between its open and its close;
\* a tool or a stopped element has a camera that is not open.
Held ==
  /\ element # "NULL" => Client = "element" /\ pc = "open"
  /\ OpenWhileReady

\* Streaming leaves the choice and the opening of the unit alone.
LEMMA StreamingHolds ==
  ASSUME Held, Streaming \/ ((Play \/ Stop \/ Create) /\ UNCHANGED <<vars, gone>>)
  PROVE  Held'
<1>1. pc' = pc /\ asked' = asked /\ camera' = camera
  BY DEF Streaming, vars, Play, Stop, Create, CreateStep, Loop, GrabFails, GrabSkipped,
         GrabAccepted, Beside
<1>2. element' # "NULL" <=> element # "NULL"
  BY DEF Streaming, Play, Stop, Create, CreateStep, Loop, GrabFails, GrabSkipped,
         GrabAccepted, Beside
<1> QED
  BY <1>1, <1>2 DEF Held, OpenWhileReady, Client

\* The camera is open from the first to the last moment the element is not NULL.
THEOREM OpenWhileElementReady == ElementSpec => []OpenWhileReady
<1>1. ElementInit => Held
  BY DEF ElementInit, SrcInit, Held, OpenWhileReady
<1>2. Held /\ [ElementNext]_elementVars => Held'
  <2> SUFFICES ASSUME Held, [ElementNext]_elementVars PROVE Held'
    OBVIOUS
  <2> USE DEF Held, OpenWhileReady, Client
  <2>1. CASE Bus
    BY <2>1 DEF Bus, Plug, Unplug, srcVars
  <2>2. CASE Ask
    <3>1. CASE SetProperties /\ UNCHANGED vars
      BY <3>1 DEF SetProperties, vars
    <3>2. ASSUME NEW c, NEW s, NEW p, Set(c, s, p), c = "tool", Constructed PROVE Held'
      BY <3>2 DEF Constructed
    <3>3. ASSUME NEW c \in Clients, NEW s, NEW p, Set(c, s, p), c # "tool", UNCHANGED srcVars
          PROVE  Held'
      BY <3>3 DEF Set, Clients, srcVars
    <3> QED BY <2>2, <3>1, <3>2, <3>3 DEF Ask
  <2>3. ASSUME NEW u \in Units, Listed(u) PROVE Held'
    BY <2>3 DEF Listed, Pick, PickInteractive, srcVars
  <2>4. ASSUME NEW u \in Units, Opened(u) PROVE Held'
    BY <2>4 DEF Opened, Open, srcVars
  <2>5. CASE NotListed
    BY <2>5 DEF NotListed, ToReadyFails, vars
  <2>6. CASE NotOpened
    BY <2>6 DEF NotOpened, OpenFails, ToReadyFails, srcVars
  <2>7. CASE GetsReady
    BY <2>7 DEF GetsReady, ToReady, vars
  <2>8. CASE NotCalibrated
    BY <2>8 DEF NotCalibrated, Close, CalibrationFails
  <2>9. CASE Closed
    BY <2>9 DEF Closed, Close, ToNull, srcVars
  <2>10. CASE UNCHANGED elementVars
    BY <2>10 DEF elementVars, vars, srcVars
  <2>11. CASE Streaming \/ ((Play \/ Stop \/ Create) /\ UNCHANGED <<vars, gone>>)
    BY ONLY <2>11, Held, StreamingHolds
  <2> QED
    BY <2>1, <2>2, <2>3, <2>4, <2>5, <2>6, <2>7, <2>8, <2>9, <2>10, <2>11 DEF ElementNext
<1>3. Held => OpenWhileReady
  BY DEF Held
<1> QED BY <1>1, <1>2, <1>3, PTL DEF ElementSpec

-----------------------------------------------------------------------------
(* The retry loop of create().                                             *)

\* While create() runs, its counter of tries counts the failed grabs: what it skipped
\* or what an earlier create() did is not in it.
Counting ==
  /\ tries \in Nat /\ failed \in Nat
  /\ step # "idle" =>
       flow = "none" /\ valid = FALSE /\ tries = failed + 1 /\ tries <= MaxTries
  /\ step = "grabbing" => tries < MaxTries

RInv == Counting /\ GivesUpLate

\* Each try of create() counts once, whether the frame failed or was skipped.
LEMMA CreateStepCounts ==
  ASSUME RInv, CreateStep
  PROVE  RInv'
<1> USE SrcAssumption DEF RInv, Counting, GivesUpLate, Beside, grabs, CountTry
<1>1. CASE Loop
  BY <1>1 DEF Loop
<1>2. CASE GrabFails
  BY <1>2 DEF GrabFails
<1>3. CASE GrabSkipped
  BY <1>3 DEF GrabSkipped
<1>4. ASSUME NEW type, GrabAccepted(type) PROVE RInv'
  BY <1>4 DEF GrabAccepted, TriesAfter
<1> QED
  BY <1>1, <1>2, <1>3, <1>4 DEF CreateStep

\* A create() gives up after MAX_TRIES - 1 failed grabs, or one less when the frame
\* that came at last does not count as the first: whatever it skipped, and whatever
\* was plugged, set or restarted in between.
THEOREM ElementGivesUpLate == ElementSpec => []GivesUpLate
<1>1. ElementInit => RInv
  BY SrcAssumption DEF ElementInit, SrcInit, RInv, Counting, GivesUpLate
<1>2. RInv /\ [ElementNext]_elementVars => RInv'
  <2> SUFFICES ASSUME RInv, [ElementNext]_elementVars PROVE RInv'
    OBVIOUS
  <2> DEFINE Counted == <<step, tries, flow, failed, valid>>
  <2>1. CASE UNCHANGED Counted
    BY <2>1 DEF RInv, Counting, GivesUpLate
  <2>2. CASE Constructed \/ Create \/ Stop
    BY <2>2, SrcAssumption DEF Constructed, Create, Stop, Fresh, RInv, Counting, GivesUpLate
  <2>3. CASE CreateStep
    BY <2>3, CreateStepCounts
  <2>4. \/ UNCHANGED Counted
        \/ Constructed \/ Create \/ Stop \/ CreateStep
    <3> USE DEF srcVars, Aside, grabs
    <3>1. CASE Bus \/ Ask
      BY <3>1 DEF Bus, Ask, SetProperties
    <3>2. CASE \E u \in Units : Listed(u) \/ Opened(u)
      BY <3>2 DEF Listed, Opened
    <3>3. CASE NotListed \/ NotOpened \/ GetsReady \/ NotCalibrated \/ Closed
      BY <3>3 DEF NotListed, NotOpened, GetsReady, NotCalibrated, Closed, ToReady,
                  ToReadyFails, CalibrationFails, ToNull
    <3>4. CASE Streaming \/ Play \/ UNCHANGED elementVars
      BY <3>4 DEF Streaming, Play, elementVars
    <3> QED
      BY <3>1, <3>2, <3>3, <3>4 DEF ElementNext
  <2> QED BY <2>1, <2>2, <2>3, <2>4
<1>3. RInv => GivesUpLate
  BY DEF RInv
<1> QED BY <1>1, <1>2, <1>3, PTL DEF ElementSpec

-----------------------------------------------------------------------------
(* The window of the source element.                                       *)

\* create() clears first_frame before it enters the frame.
EnteredLater == frame # None => first_frame = FALSE

WInv == WindowTypeOK /\ EnteredLater /\ WindowIsRecent

\* The place of a recent frame is a place of the window.
LEMMA PlaceInWindow ==
  ASSUME count \in Nat \ {0}, index \in 0 .. count - 1, NEW k \in 0 .. count - 1
  PROVE  Place(k) \in 0 .. count - 1
BY DEF Place

\* After the index moved on, every frame is one place further back.
LEMMA PlacesMove ==
  ASSUME count \in Nat \ {0}, index \in 0 .. count - 1,
         index' = NextIndex, count' = count, NEW k \in 0 .. count - 2
  PROVE  Place(k + 1)' = Place(k) /\ Place(k) # NextIndex /\ Place(0)' = NextIndex
BY DEF Place, NextIndex

\* The newest frames, after one more.
LEMMA RecentAfter ==
  ASSUME NEW P, NEW old \in Seq(P), NEW f \in P, NEW n \in 1 .. Len(old) + 1
  PROVE  /\ SubSeq(<<f>> \o old, 1, n) \in Seq(P)
         /\ Len(SubSeq(<<f>> \o old, 1, n)) = n
         /\ \A j \in 1 .. n : SubSeq(<<f>> \o old, 1, n)[j] = IF j = 1 THEN f ELSE old[j - 1]
<1>1. Len(old) \in Nat
  OBVIOUS
<1> DEFINE s == <<f>> \o old
<1>2. Len(s) = Len(old) + 1 /\ \A j \in 1 .. Len(s) : s[j] = IF j = 1 THEN f ELSE old[j - 1]
  BY <1>1
<1>3. s \in Seq(P)
  BY <1>1
<1> HIDE DEF s
<1> QED BY <1>2, <1>3

\* A window that is resized has a value of the old one in every place.
LEMMA GrownFacts ==
  ASSUME WindowTypeOK, NEW n \in 1 .. MaxCount, NEW w \in [0 .. count - 1 -> Values]
  PROVE  /\ \A i \in 0 .. n - 1 : i % count \in 0 .. count - 1
         /\ Grown(w, n) \in [0 .. n - 1 -> Values]
BY WindowAssumption DEF WindowTypeOK, Grown

\* A frame that enters the window keeps the invariant.
LEMMA NormalizeKeeps ==
  ASSUME WInv, Normalize
  PROVE  WInv'
<1>1. /\ index' = NextIndex /\ count' = count /\ first_frame' = FALSE /\ frame' = None
      /\ first_frame = FALSE /\ frame \in Pairs
  BY DEF Normalize, WInv, EnteredLater, WindowTypeOK
<1>2. NextIndex \in 0 .. count - 1 /\ count \in Nat \ {0} /\ MaxCount \in Nat
  BY WindowAssumption DEF WInv, WindowTypeOK, NextIndex
<1>3. frame[1] \in Values /\ frame[2] \in Values
  BY <1>1 DEF Pairs
<1>4. /\ minW' = [minW EXCEPT ![NextIndex] = frame[1]]
      /\ maxW' = [maxW EXCEPT ![NextIndex] = frame[2]]
      /\ clean' = clean \cup {NextIndex}
  BY <1>1 DEF Normalize, EnteredMin, EnteredMax, Filled
<1> DEFINE n == Least(Len(recent) + 1, count)
<1>5. n \in 1 .. Len(recent) + 1 /\ n <= count
  BY <1>2 DEF WInv, WindowTypeOK, Least
<1>6. /\ recent' \in Seq(Pairs) /\ Len(recent') = n
      /\ \A j \in 1 .. n : recent'[j] = IF j = 1 THEN frame ELSE recent[j - 1]
  BY <1>1, <1>5, RecentAfter DEF Normalize, WInv, WindowTypeOK
<1>7. WindowTypeOK'
  <2>1. scale' \in {"none", "unit", "stretch", "wrapped"}
    BY DEF Normalize, Scale
  <2> QED BY <1>1, <1>2, <1>3, <1>4, <1>5, <1>6, <2>1 DEF WInv, WindowTypeOK
<1>8. WindowIsRecent'
  <2> SUFFICES ASSUME NEW k \in 1 .. n
               PROVE  /\ Place(k - 1)' \in clean'
                      /\ minW'[Place(k - 1)'] = recent'[k][1]
                      /\ maxW'[Place(k - 1)'] = recent'[k][2]
    BY <1>6 DEF WindowIsRecent
  <2> HIDE DEF n
  <2>1. CASE k = 1
    <3>1. Place(0)' = NextIndex
      BY <1>1, <1>2 DEF Place
    <3> QED BY <1>2, <1>4, <1>5, <1>6, <2>1, <3>1 DEF WInv, WindowTypeOK
  <2>2. CASE k # 1
    <3>1. k - 2 \in 0 .. count - 2 /\ k - 1 \in 1 .. Len(recent) /\ (k - 2) + 1 = k - 1
      BY <1>2, <1>5, <2>2 DEF WInv, WindowTypeOK
    <3>2. Place((k - 2) + 1)' = Place(k - 2) /\ Place(k - 2) # NextIndex
      BY <1>1, <1>2, <3>1, PlacesMove DEF WInv, WindowTypeOK
    <3>3. /\ Place(k - 2) \in clean
          /\ minW[Place(k - 2)] = recent[k - 1][1] /\ maxW[Place(k - 2)] = recent[k - 1][2]
      BY <3>1 DEF WInv, WindowIsRecent
    <3>4. Place(k - 1)' = Place(k - 2)
      BY <3>1, <3>2
    <3>5. Place(k - 2) \in 0 .. count - 1
      BY <1>2, <3>1, PlaceInWindow DEF WInv, WindowTypeOK
    <3> QED BY <1>4, <1>6, <2>2, <3>2, <3>3, <3>4, <3>5 DEF WInv, WindowTypeOK
  <2> QED BY <2>1, <2>2
<1> QED BY <1>1, <1>7, <1>8 DEF WInv, EnteredLater

\* Whatever is resized between the analysis of a frame and its entry: the window holds
\* the last frames, minima with maxima.
THEOREM WindowInductive == WindowSpec => []WInv
<1>1. WindowInit => WInv
  <2> SUFFICES ASSUME WindowInit PROVE WInv
    OBVIOUS
  <2>1. count \in Nat \ {0} /\ Len(recent) = 0 /\ recent \in Seq(Pairs)
    BY WindowAssumption DEF WindowInit
  <2> QED BY <2>1, WindowAssumption DEF WindowInit, WInv, WindowTypeOK, EnteredLater, WindowIsRecent
<1>2. WInv /\ [WindowNext]_windowVars => WInv'
  <2> SUFFICES ASSUME WInv, [WindowNext]_windowVars PROVE WInv'
    OBVIOUS
  <2>1. CASE CameraOpened
    BY <2>1 DEF CameraOpened, WInv, WindowTypeOK, EnteredLater, WindowIsRecent, Place
  <2>2. CASE Normalize
    BY <2>2, NormalizeKeeps
  <2>3. ASSUME NEW m \in 1 .. MaxCount, SetCount(m) PROVE WInv'
    <3>1. /\ minW' \in [0 .. m - 1 -> Values] /\ maxW' \in [0 .. m - 1 -> Values]
          /\ clean' \subseteq 0 .. m - 1
      BY <2>3, GrownFacts DEF SetCount, WInv, WindowTypeOK, Kept
    <3>2. count' = m /\ index' = 0 /\ recent' = <<>> /\ UNCHANGED <<first_frame, frame, scale>>
      BY <2>3 DEF SetCount
    <3>3. Len(recent') = 0 /\ recent' \in Seq(Pairs)
      BY <3>2
    <3> QED BY <3>1, <3>2, <3>3, WindowAssumption DEF WInv, WindowTypeOK, EnteredLater, WindowIsRecent
  <2>4. ASSUME NEW p \in Pairs, Analyse(p) PROVE WInv'
    BY <2>4 DEF Analyse, WInv, WindowTypeOK, EnteredLater, WindowIsRecent, Place
  <2>5. CASE UNCHANGED windowVars
    BY <2>5 DEF windowVars, WInv, WindowTypeOK, EnteredLater, WindowIsRecent, Place
  <2> QED
    BY <2>1, <2>2, <2>3, <2>4, <2>5 DEF WindowNext
<1> QED BY <1>1, <1>2, PTL DEF WindowSpec

\* The window holds the extremes of the newest frames, also across resizing.
THEOREM WindowHoldsRecent == WindowSpec => []WindowIsRecent
<1>1. WInv => WindowIsRecent
  BY DEF WInv
<1> QED BY <1>1, WindowInductive, PTL

\* A step brings nothing into the window but the frame, and a resize nothing at all.
THEOREM WindowStaysClean == WindowSpec => CleanStays
<1> DEFINE From(i) == \E j \in clean : <<minW'[i], maxW'[i]>> \in {<<minW[j], maxW[j]>>, frame}
<1>1. WInv /\ [WindowNext]_windowVars =>
        [clean = 0 .. count - 1 => clean' = 0 .. count' - 1
           /\ \A i \in clean' : \E j \in clean :
                <<minW'[i], maxW'[i]>> \in {<<minW[j], maxW[j]>>, frame}]_windowVars
  <2> SUFFICES ASSUME WInv, WindowNext, clean = 0 .. count - 1
               PROVE  clean' = 0 .. count' - 1 /\ \A i \in clean' : From(i)
    OBVIOUS
  <2>0. count \in Nat \ {0} /\ NextIndex \in 0 .. count - 1
    BY WindowAssumption DEF WInv, WindowTypeOK, NextIndex
  <2>1. CASE UNCHANGED <<count, minW, maxW, clean>>
    BY <2>1
  <2>2. CASE Normalize
    <3>1. first_frame = FALSE /\ frame \in Pairs
      BY <2>2 DEF Normalize, WInv, EnteredLater, WindowTypeOK
    <3>2. /\ minW' = [minW EXCEPT ![NextIndex] = frame[1]]
          /\ maxW' = [maxW EXCEPT ![NextIndex] = frame[2]]
          /\ clean' = clean \cup {NextIndex} /\ count' = count
      BY <2>2, <3>1 DEF Normalize, EnteredMin, EnteredMax, Filled
    <3>3. frame = <<frame[1], frame[2]>>
      BY <3>1 DEF Pairs
    <3>4. ASSUME NEW i \in clean' PROVE From(i)
      <4>0. i \in clean /\ minW \in [0 .. count - 1 -> Values] /\ maxW \in [0 .. count - 1 -> Values]
        BY <2>0, <3>2 DEF WInv, WindowTypeOK
      <4>1. CASE i = NextIndex
        BY <3>2, <3>3, <4>0, <4>1
      <4>2. CASE i # NextIndex
        BY <3>2, <4>0, <4>2
      <4> QED BY <4>1, <4>2
    <3> QED BY <2>0, <3>2, <3>4
  <2>3. ASSUME NEW m \in 1 .. MaxCount, SetCount(m)
        PROVE  clean' = 0 .. count' - 1 /\ \A i \in clean' : From(i)
    <3>1. \A i \in 0 .. m - 1 : i % count \in clean
      BY GrownFacts DEF WInv, WindowTypeOK
    <3>2. /\ clean' = 0 .. m - 1 /\ count' = m
          /\ minW' = [i \in 0 .. m - 1 |-> minW[i % count]]
          /\ maxW' = [i \in 0 .. m - 1 |-> maxW[i % count]]
      BY <2>3, <3>1 DEF SetCount, Kept, Grown
    <3> QED BY <3>1, <3>2
  <2> QED
    BY <2>1, <2>2, <2>3 DEF WindowNext, CameraOpened, Analyse
<1> QED BY <1>1, WindowInductive, PTL DEF WindowSpec, CleanStays
=============================================================================
