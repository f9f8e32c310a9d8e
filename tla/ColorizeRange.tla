--------------------------- MODULE ColorizeRange ---------------------------
(***************************************************************************)
(* How the element openseekthermalcolorize finds the range of pixel values *)
(* that its colours span: the bounds an application sets, or the medians   *)
(* over a rolling window of frame minima and maxima.  The streaming thread *)
(* analyses a frame, enters it into the window under the object lock, and  *)
(* then reads the bounds; the application sets properties at any moment.   *)
(*                                                                         *)
(* A frame is the pair of its lowest and its highest temperature and the   *)
(* transform its pixel values were made with, which its metadata tells.    *)
(***************************************************************************)
EXTENDS Integers, Sequences, FiniteSets

CONSTANTS
  Temps,         \* temperatures, in centi-Kelvin
  Limits,        \* those that the application sets as bounds
  Transforms,    \* records of a scale and an offset of pixel values
  DefaultCount,  \* DEFAULT_AUTO_RANGE_FRAMES
  MaxCount,      \* MAX_AUTO_RANGE_FRAMES
  MaxRaw         \* the largest pixel value

ASSUME ColorizeAssumption ==
  /\ Temps \subseteq Nat /\ Limits \subseteq Nat /\ MaxRaw \in Nat
  /\ Transforms \subseteq [scale : Nat \ {0}, offset : Int]
  /\ MaxCount \in Nat /\ DefaultCount \in 1 .. MaxCount

AutoBound == -1

VARIABLES
  minCK, maxCK,   \* min_centikelvin, max_centikelvin
  count, index,   \* count_values, index
  minW, maxW,     \* min_values, max_values
  firstFrame,     \* first_frame
  pc,             \* "idle", or where transform_frame() is
  frame,          \* the frame being transformed
  autoMin, autoMax,  \* auto_min_raw, auto_max_raw
  lo, hi             \* raw_lo, raw_hi

\* History variables.
VARIABLES
  lowHad, highHad,  \* the bounds that were set during the transform
  seen,  \* the frames entered since the window was last filled, the newest first
  due    \* as many as the window had places, when this frame was entered

window == <<count, index, minW, maxW, firstFrame, seen>>
bounds == <<minCK, maxCK>>
had    == <<lowHad, highHad>>
vars == <<bounds, window, pc, frame, autoMin, autoMax, lo, hi, had, due>>

Pairs == {p \in Temps \X Temps : p[1] <= p[2]}
Frames == [temps : Pairs, by : Transforms]
None == <<>>

Clamp(v) == IF v < 0 THEN 0 ELSE IF v > MaxRaw THEN MaxRaw ELSE v

\* cK_to_raw(), and what the source element does to a temperature.
cK_to_raw(t, by) == Clamp(t * by.scale + by.offset)

\* The lowest (k = 1) or the highest (k = 2) pixel value of a frame.
Raw(f, k) == cK_to_raw(f.temps[k], f.by)

Init ==
  /\ minCK = AutoBound /\ maxCK = AutoBound
  /\ count = DefaultCount /\ index = 0 /\ firstFrame = TRUE
  /\ minW = [i \in 0 .. count - 1 |-> 0] /\ maxW = [i \in 0 .. count - 1 |-> MaxRaw]
  /\ pc = "idle" /\ frame = None /\ autoMin = 0 /\ autoMax = 0 /\ lo = 0 /\ hi = 0
  /\ lowHad = {} /\ highHad = {} /\ seen = <<>> /\ due = None

-----------------------------------------------------------------------------
(* The application.  The bounds are set one at a time, and without a lock. *)

With(h, b) == IF pc = "idle" THEN h ELSE h \cup {b}

SetMin(b) ==
  /\ minCK' = b /\ lowHad' = With(lowHad, b)
  /\ UNCHANGED <<maxCK, window, pc, frame, autoMin, autoMax, lo, hi, highHad, due>>

SetMax(b) ==
  /\ maxCK' = b /\ highHad' = With(highHad, b)
  /\ UNCHANGED <<minCK, window, pc, frame, autoMin, autoMax, lo, hi, lowHad, due>>

\* resize_value_buffers(): new positions repeat the first one.
Grown(w, n) == [i \in 0 .. n - 1 |-> IF i < count THEN w[i] ELSE w[0]]

\* A mutant: the window is not filled anew.
MutRestart == UNCHANGED firstFrame

Restart == firstFrame' = TRUE

SetFrames(n) ==
  /\ count' = n /\ index' = 0 /\ Restart /\ seen' = <<>>
  /\ minW' = Grown(minW, n) /\ maxW' = Grown(maxW, n)
  /\ UNCHANGED <<bounds, pc, frame, autoMin, autoMax, lo, hi, had, due>>

-----------------------------------------------------------------------------
(* transform_frame().  Each of its reads of a bound is a step of its own.   *)

\* The frame's own range; the window is needed if a bound is automatic.
Analyse(f) ==
  /\ pc = "idle" /\ frame' = f /\ lowHad' = {minCK} /\ highHad' = {maxCK}
  /\ autoMin' = Raw(f, 1) /\ autoMax' = Raw(f, 2)
  /\ pc' = IF minCK = AutoBound THEN "entering" ELSE "checking"
  /\ UNCHANGED <<bounds, window, lo, hi, due>>

CheckNeed ==
  /\ pc = "checking" /\ pc' = IF maxCK = AutoBound THEN "entering" ELSE "low"
  /\ UNCHANGED <<bounds, window, frame, autoMin, autoMax, lo, hi, had, due>>

\* median_of(): the element size / 2 of the sorted values.
Median(values, size) ==
  CHOOSE v \in {values[i] : i \in DOMAIN values} :
    /\ Cardinality({i \in DOMAIN values : values[i] < v}) <= size \div 2
    /\ Cardinality({i \in DOMAIN values : values[i] <= v}) > size \div 2

NextIndex == IF index + 1 >= count THEN 0 ELSE index + 1

Entered(w, v) ==
  [(IF firstFrame THEN [i \in DOMAIN w |-> v] ELSE w) EXCEPT ![NextIndex] = v]

\* The history: the last count frames, the first of them standing in for those
\* that are still missing.
Newest(s, n) == SubSeq(s, 1, IF Len(s) < n THEN Len(s) ELSE n)

Filled(s, n) == [i \in 1 .. n |-> s[IF i <= Len(s) THEN i ELSE Len(s)]]

\* push_and_get_stable_range(), under the object lock.
Enter ==
  /\ pc = "entering" /\ pc' = "low"
  /\ index' = NextIndex /\ firstFrame' = FALSE
  /\ minW' = Entered(minW, autoMin) /\ maxW' = Entered(maxW, autoMax)
  /\ autoMin' = Median(minW', count) /\ autoMax' = Median(maxW', count)
  /\ seen' = Newest(<<frame>> \o seen, count) /\ due' = Filled(seen', count)
  /\ UNCHANGED <<bounds, count, frame, lo, hi, had>>

\* A bound is checked for being automatic, and read again to be used.
\* A mutant: the lower end looks at the upper bound.
MutCheckLow ==
  /\ pc = "low"
  /\ \/ maxCK = AutoBound /\ lo' = autoMin /\ pc' = "high"
     \/ maxCK # AutoBound /\ pc' = "lowSet" /\ UNCHANGED lo
  /\ UNCHANGED <<bounds, window, frame, autoMin, autoMax, hi, had, due>>

CheckLow ==
  /\ pc = "low"
  /\ \/ minCK = AutoBound /\ lo' = autoMin /\ pc' = "high"
     \/ minCK # AutoBound /\ pc' = "lowSet" /\ UNCHANGED lo
  /\ UNCHANGED <<bounds, window, frame, autoMin, autoMax, hi, had, due>>

UseLow ==
  /\ pc = "lowSet" /\ lo' = cK_to_raw(minCK, frame.by) /\ pc' = "high"
  /\ UNCHANGED <<bounds, window, frame, autoMin, autoMax, hi, had, due>>

\* The range is swapped if it is reversed, and widened if it is empty.
Ordered(a, b) ==
  /\ lo' = IF a > b THEN b ELSE a
  /\ hi' = IF a > b THEN a ELSE IF a = b THEN a + 1 ELSE b

CheckHigh ==
  /\ pc = "high"
  /\ \/ maxCK = AutoBound /\ Ordered(lo, autoMax) /\ pc' = "coloring"
     \/ maxCK # AutoBound /\ pc' = "highSet" /\ UNCHANGED <<lo, hi>>
  /\ UNCHANGED <<bounds, window, frame, autoMin, autoMax, had, due>>

UseHigh ==
  /\ pc = "highSet" /\ Ordered(lo, cK_to_raw(maxCK, frame.by)) /\ pc' = "coloring"
  /\ UNCHANGED <<bounds, window, frame, autoMin, autoMax, had, due>>

Colorize ==
  /\ pc = "coloring" /\ pc' = "idle" /\ frame' = None
  /\ autoMin' = 0 /\ autoMax' = 0 /\ lo' = 0 /\ hi' = 0
  /\ lowHad' = {} /\ highHad' = {} /\ due' = None
  /\ UNCHANGED <<bounds, window>>

Bounds == Limits \cup {AutoBound}

Next ==
  \/ \E b \in Bounds : SetMin(b) \/ SetMax(b)
  \/ \E n \in 1 .. MaxCount : SetFrames(n)
  \/ \E f \in Frames : Analyse(f)
  \/ CheckNeed \/ Enter \/ CheckLow \/ UseLow \/ CheckHigh \/ UseHigh \/ Colorize

Spec == Init /\ [][Next]_vars

-----------------------------------------------------------------------------
TypeOK ==
  /\ minCK \in Bounds /\ maxCK \in Bounds
  /\ count \in 1 .. MaxCount /\ index \in 0 .. count - 1 /\ firstFrame \in BOOLEAN
  /\ minW \in [0 .. count - 1 -> 0 .. MaxRaw] /\ maxW \in [0 .. count - 1 -> 0 .. MaxRaw]
  /\ pc \in {"idle", "checking", "entering", "low", "lowSet", "high", "highSet", "coloring"}
  /\ frame \in Frames \cup {None}
  /\ autoMin \in 0 .. MaxRaw /\ autoMax \in 0 .. MaxRaw
  /\ lo \in 0 .. MaxRaw /\ hi \in 0 .. MaxRaw + 1
  /\ lowHad \subseteq Bounds /\ highHad \subseteq Bounds
  /\ seen \in Seq(Frames) /\ Len(seen) <= count /\ due \in Seq(Frames)

\* What an end of the range can be by the bounds h that were set during the transform:
\* one of those, or what is automatic.
Asked(h, auto) ==
  {cK_to_raw(b, frame.by) : b \in h \ {AutoBound}}
    \cup (IF AutoBound \in h THEN {auto} ELSE {})

\* A bound that became automatic between its check and its use is used as a temperature.
Torn(h) ==
  IF AutoBound \in h /\ h # {AutoBound} THEN {cK_to_raw(AutoBound, frame.by)} ELSE {}

\* The colours of the frame span the range from a pixel value out of a set to one out of
\* another, upwards and not empty.
Spans(A, B) ==
  \E a \in A, b \in B : {a, b} \subseteq {lo, hi} /\ lo \in {a, b} /\ lo < hi

\* Each end of the range that is drawn is a bound that the application had set at some
\* moment of this transform, in this frame's own scale, or the automatic end if the bound
\* was automatic at some moment, or, only if it was given up in the middle, the value of
\* -1: whatever is set between the four unlocked reads (colorize.cpp:480, :488, :490), an
\* end never comes from the other bound or from an earlier frame.
BoundsHonoured ==
  pc = "coloring" =>
    Spans(Asked(lowHad, autoMin) \cup Torn(lowHad), Asked(highHad, autoMax) \cup Torn(highHad))

\* "-1 = auto." (colorize.cpp:696, :702): -1 is never taken for a temperature.  It does not
\* hold: a bound that is given up between its check and its use is.
AutoIsNoTemperature ==
  pc = "coloring" => Spans(Asked(lowHad, autoMin), Asked(highHad, autoMax))

\* The median of the lowest or the highest pixel values of the newest frames.
OfPixels(k) == Median([i \in DOMAIN due |-> Raw(due[i], k)], Len(due))

\* The pixel value, in this frame, of the median of their temperatures.
OfTemperatures(k) ==
  cK_to_raw(Median([i \in DOMAIN due |-> due[i].temps[k]], Len(due)), frame.by)

OneTransform == \A i \in DOMAIN due : due[i].by = frame.by

\* An end that stays automatic throughout a transform is the median of the newest frames',
\* this one's included, although the window is read under a lock and the bounds are not:
\* whatever is done with the other bound, and however the window was resized before this
\* frame entered it.  An automatic range is not swapped.  And it is that of the median
\* temperatures as long as the frames in the window share a transform.
AutomaticIsMedian ==
  pc = "coloring" =>
    /\ lowHad = {AutoBound} =>
         OfPixels(1) \in {lo, hi} /\ (OneTransform => OfTemperatures(1) \in {lo, hi})
    /\ highHad = {AutoBound} =>
         OfPixels(2) \in {lo, hi} /\ (OneTransform => OfTemperatures(2) \in {lo, hi})
    /\ lowHad = {AutoBound} /\ highHad = {AutoBound} => lo = OfPixels(1)

\* "The colormap is invariant under any linear transform of the pixel values, so frame
\* min/max and the auto-range median can stay in raw pixel space" (colorize.cpp:434-435):
\* the automatic range is that of the median temperatures.  It does not hold: the source
\* element's normalisation changes the transform from frame to frame, and values made with
\* different ones enter one median.
MedianTemperatures ==
  pc = "coloring" =>
    /\ lowHad  = {AutoBound} => OfTemperatures(1) \in {lo, hi}
    /\ highHad = {AutoBound} => OfTemperatures(2) \in {lo, hi}
=============================================================================
