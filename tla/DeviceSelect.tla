---------------------------- MODULE DeviceSelect ----------------------------
(***************************************************************************)
(* Which camera a client gets.  The client lists the devices on the bus,   *)
(* picks one by serial, by port or by default, and creates a camera for    *)
(* that description; the camera walks the bus again when it is opened.     *)
(* Units are plugged, unplugged and swapped at any time, so the bus that   *)
(* was listed need not be the bus on which the camera is opened.           *)
(* A unit that cannot be read is left out of a listing, and one whose      *)
(* serial cannot be read is listed without it; a listing that shows no     *)
(* wanted unit changes nothing.                                            *)
(***************************************************************************)
EXTENDS Integers

CONSTANTS
  Ports,    \* the USB ports, as bus_and_port_numbers_to_string() writes them
  Units,    \* the cameras
  TypeOf,   \* their products
  SerialOf  \* the serials they advertise over USB, "" for most products

Types   == {"Compact", "CompactPro", "Nano300"}
Serials == {SerialOf[u] : u \in Units} \union {""}

ASSUME SelectAssumption ==
  /\ {"", "none"} \cap (Ports \union Units) = {}
  /\ TypeOf \in [Units -> Types] /\ DOMAIN SerialOf = Units
  /\ \A u, v \in Units : SerialOf[u] = SerialOf[v] => SerialOf[u] = "" \/ u = v

VARIABLES
  at,            \* the port of each unit, "none" when it is unplugged
  serial, port,  \* the properties of the element, or the arguments of the tool
  pc,            \* "idle", "picked" or "open"
  picked,        \* the description the camera was created for
  opened         \* the unit its handle is open on

\* History variables.
VARIABLES
  asked,  \* the serial and port the user gave last, and the client that got them
  last    \* the unit opened last since then, and its description

settings == <<serial, port>>
vars     == <<at, settings, pc, picked, opened, asked, last>>

Clients == {"element", "tool"}   \* openseekthermalsrc and calibration_tool
Client  == asked.client

Nothing      == [type |-> "None", serial |-> "", port |-> ""]
Descriptions == [type : Types, serial : Serials, port : Ports]
Plugged      == {u \in Units : at[u] # "none"}

Init ==
  /\ at = [u \in Units |-> "none"] /\ serial = "" /\ port = ""
  /\ pc = "idle" /\ picked = Nothing /\ opened = "none"
  /\ asked \in [client : Clients, serial : {""}, port : {""}]
  /\ last = [unit |-> "none", described |-> Nothing]

-----------------------------------------------------------------------------
Plug(u, p) ==
  /\ at[u] = "none" /\ \A v \in Units : at[v] # p
  /\ at' = [at EXCEPT ![u] = p]
  /\ UNCHANGED <<settings, pc, picked, opened, asked, last>>

\* The handle of an open camera stays, and its commands fail from now on.
Unplug(u) ==
  /\ at[u] # "none" /\ at' = [at EXCEPT ![u] = "none"]
  /\ UNCHANGED <<settings, pc, picked, opened, asked, last>>

\* The user sets the properties of the element, or starts the tool with its arguments.
Set(client, s, p) ==
  /\ pc = "idle" \/ (pc = "open" /\ Client = "element" /\ client = "element")
  /\ serial' = s /\ port' = p
  /\ asked' = [client |-> client, serial |-> s, port |-> p]
  /\ last' = [unit |-> "none", described |-> Nothing]
  /\ UNCHANGED <<at, pc, picked, opened>>

-----------------------------------------------------------------------------
\* What getSeekDevice() may say of a unit: only the products that share an id
\* have a serial read, and reading it may fail.
Described(u) ==
  {[type |-> TypeOf[u], serial |-> s, port |-> at[u]] : s \in
    IF TypeOf[u] = "Compact" THEN {""} ELSE {SerialOf[u], ""}}

\* The serial decides if there is one, else the port; else any device will do.
Wanted(d) ==
  IF serial # "" THEN d.serial = serial ELSE port # "" => d.port = port

Pick(u) ==
  /\ pc = "idle" /\ u \in Plugged
  /\ Client = "tool" => serial # "" \/ port # ""
  /\ picked' \in {d \in Described(u) : Wanted(d)}
  /\ pc' = "picked"
  /\ UNCHANGED <<at, settings, opened, asked, last>>

\* With no argument the tool asks which of the listed devices to use, and needs
\* not ask for the only one.
PickInteractive(u) ==
  /\ Client = "tool" /\ serial = "" /\ port = ""
  /\ pc = "idle" /\ u \in Plugged
  /\ picked' \in Described(u)
  /\ pc' = "picked"
  /\ UNCHANGED <<at, settings, opened, asked, last>>

-----------------------------------------------------------------------------
ProductId(type) == IF type = "Compact" THEN 16 ELSE 17

\* Mutants: openDevice() does not compare the serial; it does not look at the port.
MutSameSerial(u) ==
  ProductId(TypeOf[u]) = ProductId(picked.type) /\ (picked.serial = "" => at[u] = picked.port)

MutSamePort(u) ==
  ProductId(TypeOf[u]) = ProductId(picked.type) /\ picked.serial \in {"", SerialOf[u]}

\* openDevice() goes by the product id and then by the serial, or by the port if
\* the description has no serial.
Matches(u) ==
  /\ ProductId(TypeOf[u]) = ProductId(picked.type)
  /\ IF picked.serial = "" THEN at[u] = picked.port ELSE SerialOf[u] = picked.serial

MutKeep == UNCHANGED settings   \* mutant: the properties are not written

\* The element writes what it opened into its own properties.
Keep ==
  IF Client = "element" THEN serial' = picked.serial /\ port' = picked.port
  ELSE UNCHANGED settings

Open(u) ==
  /\ pc = "picked" /\ u \in Plugged /\ Matches(u)
  /\ opened' = u /\ pc' = "open" /\ Keep
  /\ last' = [unit |-> u, described |-> picked]
  /\ UNCHANGED <<at, picked, asked>>

\* No unit matches, a unit cannot be opened or its serial not be read, or the
\* camera's setup fails.
OpenFails ==
  /\ pc = "picked" /\ pc' = "idle"
  /\ UNCHANGED <<at, settings, picked, opened, asked, last>>

Close ==
  /\ pc = "open" /\ pc' = "idle" /\ opened' = "none"
  /\ UNCHANGED <<at, settings, picked, asked, last>>

Next ==
  \/ \E u \in Units, p \in Ports : Plug(u, p)
  \/ \E u \in Units : Unplug(u) \/ Pick(u) \/ PickInteractive(u) \/ Open(u)
  \/ \E c \in Clients, s \in Serials, p \in Ports \union {""} : Set(c, s, p)
  \/ OpenFails \/ Close

Spec == Init /\ [][Next]_vars

-----------------------------------------------------------------------------
\* The state is well typed, no two units share a port, and a camera is open
\* exactly when the client is between its open and its close.
TypeOK ==
  /\ at \in [Units -> Ports \union {"none"}]
  /\ \A u, v \in Plugged : at[u] = at[v] => u = v
  /\ serial \in Serials /\ port \in Ports \union {""}
  /\ asked \in [client : Clients, serial : Serials, port : Ports \union {""}]
  /\ pc \in {"idle", "picked", "open"} /\ picked \in Descriptions \union {Nothing}
  /\ opened \in Units \union {"none"} /\ (opened # "none" <=> pc = "open")
  /\ last \in [unit : Units \union {"none"}, described : Descriptions \union {Nothing}]

\* A user who asked for a serial, and did not change it since, gets the unit
\* with that serial or none, however units move between listing and opening.
SerialHonoured ==
  opened # "none" /\ last.unit = opened /\ asked.serial # "" => SerialOf[opened] = asked.serial

\* A camera opened without a serial is one that was on the port of its
\* description when the handle was opened, and that is the port of the
\* properties: checked of the step that opens it.
PortHonoured ==
  [][opened = "none" /\ opened' # "none" /\ picked.serial = "" =>
       at[opened'] = picked.port /\ (port # "" /\ serial = "" => at[opened'] = port)]_vars

\* An element that is stopped and started again, with its properties left
\* alone, opens the same unit, wherever it is plugged by then, if its serial
\* was read the first time; the unit on the same port if it was read neither
\* time.
RestartKeepsUnit ==
  [][opened = "none" /\ opened' # "none" /\ last.unit # "none" /\ Client = "element" =>
       \/ last.described.serial # "" /\ opened' = last.unit
       \/ last.described.serial = "" /\ (picked.serial = "" => at[opened'] = last.described.port)]_vars

PortPicked ==
  pc = "picked" /\ asked.serial = "" /\ asked.port # "" => picked.port = asked.port

\* The tool's "-p" with no "-s": the device that is picked was listed on that port,
\* in whatever order devices came and went before.
ToolPicksAsAsked == Client = "tool" => PortPicked

-----------------------------------------------------------------------------
(* What the documentation says, and what the code does otherwise.          *)

\* README: "port: USB port of the device", ignored "if serial is set".  A user
\* who sets a port, and no serial, has a device on that port picked.
PickedAsAsked == Client = "element" => PortPicked

\* "Either device has serial and serial matched, or no serial and port matched,
\* we found it!": what the camera opens is of the product it was created for.
FoundIt == opened # "none" => TypeOf[opened] = picked.type
=============================================================================
