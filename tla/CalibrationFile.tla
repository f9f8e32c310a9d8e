--------------------------- MODULE CalibrationFile ---------------------------
(***************************************************************************)
(* The file that keeps a calibration: saveCameraCalibration() truncates it *)
(* and writes line after line, and may be stopped anywhere; the user edits *)
(* it by hand; loadCameraCalibration() parses whatever it finds, line by   *)
(* line, into sections of keys and values, and builds a calibration of     *)
(* them or throws.  A value is a list of tokens, which are numbers (or the *)
(* coordinates of a pixel) or Garbage.  A number is written with fewer     *)
(* digits than it has: to the next even one here.                          *)
(*                                                                         *)
(* A reader sees the file as it was when it opened it: files are a few     *)
(* hundred bytes long, and are read in one piece.                          *)
(***************************************************************************)
EXTENDS Integers, Sequences, FiniteSets, SequencesExt, CalibrationValues

CONSTANTS
  Saved,      \* the calibrations to save
  Numbers,    \* the numbers that may stand in a file
  FrameSize,  \* width, and height, of the camera; pixels have smaller numbers
  Comments,   \* lines of comment at the head of a file
  MaxEdits,   \* bound on the lines edited by hand
  Garbage     \* what is no number

ASSUME FileAssumption ==
  Numbers \subseteq Nat /\ FrameSize \in Nat \ {0} /\ Comments \in Nat /\ MaxEdits \in Nat
  /\ Garbage \notin Numbers

Written(x) == x - (x % 2)

\* A calibration holds numbers that can be written and read; a vignette has coefficients.
Writable          == {x \in Numbers : Written(x) \in Numbers}
SavedTemperatures == [c0 : Writable, c1 : Writable, pad_ref : Writable \cup {NaN}]
SavedVignettes    == [width : {FrameSize}, height : {FrameSize}, cx : Writable,
                      r2_max : Writable, coeffs : Seq(Writable) \ {<<>>}]
SavedMasks        == SUBSET {x \in Numbers : x < FrameSize}

ASSUME SavedAssumption ==
  /\ Saved \subseteq [temperature : SavedTemperatures \cup {Unset},
                      vignette : SavedVignettes \cup {Unset},
                      dead_pixels : SavedMasks \cup {Unset}]
  /\ Unset \notin Saved /\ Unset \notin SavedTemperatures /\ Unset \notin SavedVignettes
  /\ \A mask \in SavedMasks : Unset # mask
  /\ NaN \notin Numbers /\ FrameSize \in Numbers

VARIABLES
  lines,     \* the lines of the file
  todo,      \* the lines saveCameraCalibration() has yet to write
  source,    \* history: the calibration the file was made from, Unset for none
  whole,     \* history: was the file written to its end?
  edits,     \* history: lines edited by hand since then
  reader,    \* "idle", "parsing", "loaded" or "failed"
  pos,       \* lines the reader has parsed
  current_section, sections,
  loaded     \* the calibration that was loaded last

writeVars == <<lines, todo, source, whole, edits>>
readVars  == <<reader, pos, current_section, sections, loaded>>
fileVars  == <<writeVars, readVars>>

-----------------------------------------------------------------------------
(* Lines, without their comments and the spaces around them.               *)

Line(kind, name, value) == [kind |-> kind, name |-> name, value |-> value]

Blank         == Line("blank", "", <<>>)
Malformed     == Line("malformed", "", <<>>)  \* no `=', or no key before it
Header(s)     == Line("section", s, <<>>)
Entry(key, v) == Line("entry", key, v)

Scalar(key, x) == Entry(key, <<Written(x)>>)

\* A mutant: pad_ref comes before what it belongs to.
MutWriteTemperature(t) ==
  <<Header("temperature")>> \o (IF t.pad_ref = NaN THEN <<>> ELSE <<Scalar("pad_ref", t.pad_ref)>>)
  \o <<Scalar("c0", t.c0), Scalar("c1", t.c1)>>

writeTemperatureSection(t) ==
  <<Header("temperature"), Scalar("c0", t.c0), Scalar("c1", t.c1)>>
  \o (IF t.pad_ref = NaN THEN <<>> ELSE <<Scalar("pad_ref", t.pad_ref)>>)

\* cy is written and read as cx is, mean_model as r2_max.
writeVignetteSection(v) ==
  <<Header("vignette"), Entry("width", <<v.width>>), Entry("height", <<v.height>>),
    Scalar("cx", v.cx), Scalar("r2_max", v.r2_max),
    Entry("coeffs", [i \in DOMAIN v.coeffs |-> Written(v.coeffs[i])])>>

\* A mutant: the pairs are wrapped.
MutWriteDeadPixels(mask) ==
  <<Header("dead_pixels"), Entry("pixels", <<>>)>>
  \o (IF mask = {} THEN <<>> ELSE <<Malformed>>)

InOrder(mask) ==
  CHOOSE s \in [1 .. Cardinality(mask) -> mask] : \A i, j \in DOMAIN s : i < j => s[i] < s[j]

\* All pairs stand on one line, in the order of the mask.
writeDeadPixelsSection(mask) ==
  <<Header("dead_pixels"), Entry("pixels", InOrder(mask))>>

IfSet(value, section) == IF value = Unset THEN <<>> ELSE Append(section, Blank)

FileLines(cal) ==
  [i \in 1 .. Comments |-> Blank]
  \o IfSet(cal.temperature, writeTemperatureSection(cal.temperature))
  \o IfSet(cal.vignette, writeVignetteSection(cal.vignette))
  \o IfSet(cal.dead_pixels, writeDeadPixelsSection(cal.dead_pixels))

-----------------------------------------------------------------------------
EmptyMap == <<>>  \* the function without arguments

FileInit ==
  /\ lines = <<>> /\ todo = <<>> /\ source = Unset /\ whole = FALSE /\ edits = 0
  /\ reader = "idle" /\ pos = 0 /\ current_section = "" /\ sections = EmptyMap /\ loaded = Unset

\* No load is under way: what a load finds does not depend on later writes.
Quiet == reader = "idle"

\* saveCameraCalibration() opens the file, which truncates it.
SaveBegins(cal) ==
  /\ Quiet /\ todo = <<>>
  /\ lines' = <<>> /\ todo' = FileLines(cal) /\ source' = cal /\ whole' = (todo' = <<>>) /\ edits' = 0
  /\ UNCHANGED readVars

WriteLine ==
  /\ Quiet /\ todo # <<>>
  /\ lines' = Append(lines, Head(todo)) /\ todo' = Tail(todo) /\ whole' = (todo' = <<>>)
  /\ UNCHANGED <<source, edits, readVars>>

\* What stands on a line that is cut: part of a number, or of a list, is a number or a
\* list, too; a key without `=' and a section without `]' are malformed.
CutTokens(key, x) ==
  {Garbage} \cup {y \in Numbers : key \in {"width", "height", "pixels"} => y <= x}

CutLines(l) ==
  CASE l.kind = "blank" -> {}
    [] l.kind = "section" -> {Malformed}
    [] l.kind = "entry" ->
         {Malformed} \cup {Entry(l.name, SubSeq(l.value, 1, n)) : n \in 0 .. Len(l.value) - 1}
         \cup UNION {{Entry(l.name, Append(SubSeq(l.value, 1, n - 1), t)) :
                       t \in CutTokens(l.name, l.value[n])} : n \in DOMAIN l.value}
    [] OTHER -> {}

\* The program ends, or the disk is full, in the middle of a line or between two.
SaveStops ==
  /\ Quiet /\ todo # <<>> /\ todo' = <<>>
  /\ lines' \in {lines} \cup {Append(lines, l) : l \in CutLines(Head(todo))}
  /\ UNCHANGED <<source, whole, edits, readVars>>

Swapped(i, j) == [lines EXCEPT ![i] = lines[j], ![j] = lines[i]]

\* The user deletes a line, doubles one, exchanges two, or mistypes a value.
EditedFiles ==
  {RemoveAt(lines, i) : i \in DOMAIN lines}
  \cup {InsertAt(lines, j, lines[i]) : i, j \in DOMAIN lines}
  \cup {Swapped(i, j) : i, j \in DOMAIN lines}
  \cup {[lines EXCEPT ![i].value = Append(Tail(@), Garbage)] :
          i \in {j \in DOMAIN lines : lines[j].value # <<>>}}

Edit ==
  /\ Quiet /\ todo = <<>> /\ edits < MaxEdits /\ edits' = edits + 1
  /\ lines' \in EditedFiles
  /\ UNCHANGED <<todo, source, whole, readVars>>

-----------------------------------------------------------------------------
\* loadCameraCalibration() opens the file, which another program may be writing.
LoadBegins ==
  /\ Quiet /\ source # Unset /\ reader' = "parsing"
  /\ pos' = 0 /\ current_section' = "" /\ sections' = EmptyMap /\ loaded' = Unset
  /\ UNCHANGED writeVars

Put(f, x, v) == [y \in DOMAIN f \cup {x} |-> IF y = x THEN v ELSE f[y]]

\* The next line of the file is of this kind.
Parses(kind) ==
  /\ reader = "parsing" /\ pos < Len(lines) /\ lines[pos + 1].kind = kind
  /\ pos' = pos + 1 /\ UNCHANGED <<writeVars, loaded>>

ParseBlank == Parses("blank") /\ UNCHANGED <<reader, current_section, sections>>

\* A mutant: a section that comes again starts anew.
MutParseHeader ==
  /\ Parses("section") /\ UNCHANGED reader
  /\ current_section' = lines[pos + 1].name
  /\ sections' = Put(sections, lines[pos + 1].name, EmptyMap)

\* A section may come again; its keys are kept.
ParseHeader ==
  /\ Parses("section") /\ UNCHANGED reader
  /\ current_section' = lines[pos + 1].name
  /\ sections' = IF current_section' \in DOMAIN sections THEN sections
                 ELSE Put(sections, current_section', EmptyMap)

ParseEntry ==
  /\ Parses("entry") /\ current_section # "" /\ UNCHANGED <<reader, current_section>>
  /\ LET line == lines[pos + 1]
     IN  sections' = [sections EXCEPT ![current_section] = Put(@, line.name, line.value)]

ParseThrows ==
  /\ Parses("malformed") \/ (Parses("entry") /\ current_section = "")
  /\ reader' = "failed" /\ UNCHANGED <<current_section, sections>>

-----------------------------------------------------------------------------
(* Sections to calibrations.                                               *)

HasNumber(sec, key) == key \in DOMAIN sec /\ Len(sec[key]) = 1 /\ sec[key][1] \in Numbers

\* Numbers up to the first token that is none.
NumbersOf(v) ==
  LET good == {n \in 0 .. Len(v) : \A i \in 1 .. n : v[i] \in Numbers}
  IN  SubSeq(v, 1, Max(good))

TemperatureLoads(sec) == \A key \in {"c0", "c1", "pad_ref"} : HasNumber(sec, key)

VignetteLoads(sec) ==
  /\ \A key \in {"width", "height", "cx", "r2_max"} : HasNumber(sec, key)
  /\ sec["width"][1] = FrameSize /\ sec["height"][1] = FrameSize
  /\ "coeffs" \in DOMAIN sec /\ NumbersOf(sec["coeffs"]) # <<>>

DeadPixelsLoad(sec) ==
  "pixels" \in DOMAIN sec =>
    \A i \in DOMAIN sec["pixels"] : sec["pixels"][i] \in Numbers /\ sec["pixels"][i] < FrameSize

parseTemperatureSection(sec) ==
  [c0 |-> sec["c0"][1], c1 |-> sec["c1"][1], pad_ref |-> sec["pad_ref"][1]]

parseVignetteSection(sec) ==
  [width |-> sec["width"][1], height |-> sec["height"][1], cx |-> sec["cx"][1],
   r2_max |-> sec["r2_max"][1], coeffs |-> NumbersOf(sec["coeffs"])]

parseDeadPixelsSection(sec) ==
  IF "pixels" \in DOMAIN sec THEN ToSet(sec["pixels"]) ELSE {}

Parsed == reader = "parsing" /\ pos = Len(lines)

SectionLoads(name) ==
  name \in DOMAIN sections =>
    CASE name = "temperature" -> TemperatureLoads(sections[name])
      [] name = "vignette" -> VignetteLoads(sections[name])
      [] name = "dead_pixels" -> DeadPixelsLoad(sections[name])

Names == {"temperature", "vignette", "dead_pixels"}

Load ==
  /\ Parsed /\ \A name \in Names : SectionLoads(name)
  /\ reader' = "loaded"
  /\ loaded' = [name \in Names |->
       IF name \notin DOMAIN sections THEN Unset
       ELSE CASE name = "temperature" -> parseTemperatureSection(sections[name])
              [] name = "vignette" -> parseVignetteSection(sections[name])
              [] name = "dead_pixels" -> parseDeadPixelsSection(sections[name])]
  /\ UNCHANGED <<writeVars, pos, current_section, sections>>

LoadThrows ==
  /\ Parsed /\ \E name \in Names : ~SectionLoads(name)
  /\ reader' = "failed" /\ UNCHANGED <<writeVars, pos, current_section, sections, loaded>>

\* The caller has used, or reported, the outcome.
LoadEnds ==
  /\ reader \in {"loaded", "failed"} /\ reader' = "idle"
  /\ pos' = 0 /\ current_section' = "" /\ sections' = EmptyMap /\ loaded' = Unset
  /\ UNCHANGED writeVars

FileNext ==
  \/ \E cal \in Saved : SaveBegins(cal)
  \/ WriteLine \/ SaveStops \/ Edit
  \/ LoadBegins \/ ParseBlank \/ ParseHeader \/ ParseEntry \/ ParseThrows
  \/ Load \/ LoadThrows \/ LoadEnds

FileSpec == FileInit /\ [][FileNext]_fileVars

-----------------------------------------------------------------------------
(* What a file stands for, as one would say it without a parser.           *)

Headers(n) == {i \in 1 .. n : lines[i].kind = "section"}

Opened(n) == {lines[i].name : i \in Headers(n)}

\* The section in force at line n: the last one opened before or at it.
SectionAt(n) == IF Headers(n) = {} THEN "" ELSE lines[Max(Headers(n))].name

\* The lines up to n that give the key of the section a value.
LinesFor(n, section, key) ==
  {i \in 1 .. n : lines[i].kind = "entry" /\ lines[i].name = key /\ SectionAt(i) = section}

\* Whatever the order of the lines, and whatever is repeated: the sections that were
\* opened are there, and a key has the value of its last line, and has one only if there
\* is such a line.
ParsedIsLastValue ==
  reader \in {"parsing", "loaded"} =>
    /\ current_section = SectionAt(pos)
    /\ DOMAIN sections = Opened(pos)
    /\ \A section \in DOMAIN sections, i \in 1 .. pos :
         LET key == lines[i].name  found == LinesFor(pos, section, key)
         IN  lines[i].kind = "entry" =>
               /\ key \in DOMAIN sections[section] <=> found # {}
               /\ found # {} => sections[section][key] = lines[Max(found)].value

\* A calibration as it reads when written.
RoundedTemperature(t) ==
  [c0 |-> Written(t.c0), c1 |-> Written(t.c1),
   pad_ref |-> IF t.pad_ref = NaN THEN NaN ELSE Written(t.pad_ref)]

RoundedVignette(v) ==
  [width |-> v.width, height |-> v.height, cx |-> Written(v.cx), r2_max |-> Written(v.r2_max),
   coeffs |-> [i \in DOMAIN v.coeffs |-> Written(v.coeffs[i])]]

Rounded(cal) ==
  [temperature |-> IF cal.temperature = Unset THEN Unset ELSE RoundedTemperature(cal.temperature),
   vignette |-> IF cal.vignette = Unset THEN Unset ELSE RoundedVignette(cal.vignette),
   dead_pixels |-> cal.dead_pixels]

Reloads(cal) == cal.temperature = Unset \/ cal.temperature.pad_ref # NaN

\* "Write ... in the format consumed by loadCameraCalibration": a file that was written
\* to its end, and not edited, loads as what was saved, to the digits written, and
\* saving that again gives the same file; but for a temperature without pad_ref.
RoundTrip ==
  reader \in {"loaded", "failed"} /\ whole /\ edits = 0 =>
    /\ reader = "loaded" <=> Reloads(source)
    /\ reader = "loaded" => loaded = Rounded(source) /\ FileLines(loaded) = lines

\* A save that stops half-way leaves a file that may well load; what it then loses is
\* its end.  The sections before the last one are as saved, and of the last one all but
\* the key that is written last.
TornLosesEnd ==
  LET r      == Rounded(source)
      kept   == {name \in Names : loaded[name] # Unset}
      before == [temperature |-> {}, vignette |-> {"temperature"},
                 dead_pixels |-> {"temperature", "vignette"}]
      Whole(name) == loaded[name] = r[name]
      AllButLast(name) ==
        CASE name = "temperature" ->
               loaded[name].c0 = r[name].c0 /\ loaded[name].c1 = r[name].c1
          [] name = "vignette" ->
               /\ [loaded[name] EXCEPT !.coeffs = <<>>] = [r[name] EXCEPT !.coeffs = <<>>]
               /\ IsPrefix(Front(loaded[name].coeffs), r[name].coeffs)
          [] name = "dead_pixels" -> Cardinality(loaded[name] \ r[name]) <= 1
  IN  reader = "loaded" /\ edits = 0 =>
        /\ \A name \in kept : r[name] # Unset
        /\ \A name \in kept, b \in Names : b \in before[name] => Whole(b)
        /\ \A name \in kept : AllButLast(name)
=============================================================================
