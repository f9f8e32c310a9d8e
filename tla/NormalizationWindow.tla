------------------------ MODULE NormalizationWindow ------------------------
(***************************************************************************)
(* The rolling window of frame minima and maxima from which the source     *)
(* element openseekthermalsrc computes the scale of a frame.  create()     *)
(* analyses a frame without a lock and enters it under the object lock; an *)
(* application thread may resize the window, under that lock, in between.  *)
(*                                                                         *)
(* A frame is the pair of its smallest and its largest pixel.  realloc()   *)
(* leaves new memory as it was: its content is arbitrary.                  *)
(***************************************************************************)
EXTENDS Integers, Sequences, FiniteSets

CONSTANTS
  Values,        \* pixel values
  DefaultCount,  \* normalize_frame_count of a new element
  MaxCount       \* bound on normalize-frame-count

ASSUME WindowAssumption ==
  /\ Values \subseteq Nat /\ Values # {}
  /\ MaxCount \in Nat /\ DefaultCount \in 1 .. MaxCount

VARIABLES
  count, index,  \* count_values, index
  minW, maxW,    \* min_values, max_values
  first_frame,   \* first_frame: was no frame delivered since the camera was opened?
  frame,         \* the frame create() analysed and did not enter yet, or none
  scale          \* the scale of the last normalised frame

\* History variables.
VARIABLES
  recent,  \* the frames entered since the last resize, the newest first
  clean    \* the positions of the window that hold values of frames

windowVars == <<count, index, minW, maxW, first_frame, frame, scale, recent, clean>>

Pairs == {p \in Values \X Values : p[1] <= p[2]}
None == <<>>
Least(a, b) == IF a <= b THEN a ELSE b

\* The window of a new element is what the first allocation returned.
WindowInit ==
  /\ count = DefaultCount /\ index = 0
  /\ minW \in [0 .. count - 1 -> Values] /\ maxW \in [0 .. count - 1 -> Values]
  /\ first_frame = TRUE /\ frame = None /\ scale = "none"
  /\ recent = <<>> /\ clean = {}

\* A camera is opened, for the first time or again; the window stays.
CameraOpened ==
  /\ frame = None /\ first_frame' = TRUE
  /\ UNCHANGED <<count, index, minW, maxW, frame, scale, recent, clean>>

-----------------------------------------------------------------------------
\* A mutant: new positions are left as realloc() returned them.
MutGrown(w, n) == [i \in 0 .. n - 1 |-> IF i < count THEN w[i] ELSE CHOOSE v \in Values : TRUE]

\* resize_value_buffers(): new positions repeat the old ones in order.
Grown(w, n) == [i \in 0 .. n - 1 |-> w[i % count]]

Kept(n) == {i \in 0 .. n - 1 : i % count \in clean}

\* set_property(normalize-frame-count), clamped to at least 1.
SetCount(n) ==
  /\ count' = n /\ index' = 0
  /\ minW' = Grown(minW, n) /\ maxW' = Grown(maxW, n)
  /\ clean' = Kept(n) /\ recent' = <<>>
  /\ UNCHANGED <<first_frame, frame, scale>>

-----------------------------------------------------------------------------
\* create() has a frame to deliver and clears first_frame; with normalize set,
\* it looks for the smallest and largest pixel.
Analyse(p) ==
  /\ frame = None /\ first_frame' = FALSE
  /\ frame' = p
  /\ UNCHANGED <<count, index, minW, maxW, scale, recent, clean>>

\* get_stable_mean(): the element count / 2 of the sorted values.
Median(w) ==
  CHOOSE v \in Values :
    /\ Cardinality({i \in DOMAIN w : w[i] < v}) <= Cardinality(DOMAIN w) \div 2
    /\ Cardinality({i \in DOMAIN w : w[i] <= v}) > Cardinality(DOMAIN w) \div 2

\* The medians are unsigned: their difference may wrap.
Scale(mins, maxs) ==
  CASE Median(mins) = Median(maxs) -> "unit"
    [] Median(mins) < Median(maxs) -> "stretch"
    [] OTHER -> "wrapped"

Filled(w, v) == IF first_frame THEN [i \in DOMAIN w |-> v] ELSE w

NextIndex == IF index + 1 >= count THEN 0 ELSE index + 1

\* A mutant: the minimum is entered before the index moves on.
MutEnteredMin == [Filled(minW, frame[1]) EXCEPT ![index] = frame[1]]

EnteredMin == [Filled(minW, frame[1]) EXCEPT ![NextIndex] = frame[1]]

EnteredMax == [Filled(maxW, frame[2]) EXCEPT ![NextIndex] = frame[2]]

\* update_normalization_factor(), under the object lock.
Normalize ==
  /\ frame # None /\ index' = NextIndex
  /\ minW' = EnteredMin /\ maxW' = EnteredMax
  /\ clean' = (IF first_frame THEN 0 .. count - 1 ELSE clean) \cup {NextIndex}
  /\ recent' = SubSeq(<<frame>> \o recent, 1, Least(Len(recent) + 1, count))
  /\ scale' = Scale(minW', maxW') /\ first_frame' = FALSE /\ frame' = None
  /\ UNCHANGED count

WindowNext ==
  \/ CameraOpened \/ Normalize
  \/ \E n \in 1 .. MaxCount : SetCount(n)
  \/ \E p \in Pairs : Analyse(p)

WindowSpec == WindowInit /\ [][WindowNext]_windowVars

-----------------------------------------------------------------------------
WindowTypeOK ==
  /\ count \in 1 .. MaxCount /\ index \in 0 .. count - 1
  /\ minW \in [0 .. count - 1 -> Values] /\ maxW \in [0 .. count - 1 -> Values]
  /\ first_frame \in BOOLEAN /\ frame \in Pairs \cup {None}
  /\ scale \in {"none", "unit", "stretch", "wrapped"}
  /\ recent \in Seq(Pairs) /\ Len(recent) <= count /\ clean \subseteq 0 .. count - 1

\* Where the frame that was entered k frames ago is: going back from index.
Place(k) == IF k <= index THEN index - k ELSE index - k + count

\* Whenever the window was resized, also between the analysis of a frame and its
\* entry: it holds the last frames entered since, in order, minima with maxima.
WindowIsRecent ==
  \A k \in 1 .. Len(recent) :
    /\ Place(k - 1) \in clean
    /\ minW[Place(k - 1)] = recent[k][1] /\ maxW[Place(k - 1)] = recent[k][2]

\* The two medians are taken over arrays sorted on their own, yet from a window
\* that has seen only frames their difference never wraps.
MediansOrdered == clean = 0 .. count - 1 => Scale(minW, maxW) # "wrapped"

\* A window that has seen only frames stays one, grown or shrunk at any moment: a
\* step brings no other pair of minimum and maximum into it than that of the frame.
CleanStays ==
  [][clean = 0 .. count - 1 => clean' = 0 .. count' - 1
       /\ \A i \in clean' : \E j \in clean : <<minW'[i], maxW'[i]>> \in {<<minW[j], maxW[j]>>, frame}]_windowVars

-----------------------------------------------------------------------------
(* What the documentation says, and what the code does otherwise.          *)

\* "Sliding-window size used to compute the normalization scale and offset": the
\* values a frame is scaled by come from frames.
ScaledByFrames == scale # "none" => clean = 0 .. count - 1
=============================================================================
