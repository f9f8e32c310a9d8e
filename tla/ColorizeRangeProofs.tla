------------------------ MODULE ColorizeRangeProofs ------------------------
(***************************************************************************)
(* The colours of a frame, for every size of the window and every set of   *)
(* temperatures: the range they span is what the application had set       *)
(* during the transform, and an end that stays automatic is that of the    *)
(* newest frames.  That a median exists, and moves with the values, is     *)
(* shown from the least number that has enough of the values below it.     *)
(* This serves the source element, too, which takes the difference of two  *)
(* medians.                                                                *)
(***************************************************************************)
EXTENDS ColorizeRange, TLAPS, FiniteSetTheorems, WellFoundedInduction

\* The window of the source element, which has the same form, and what else it keeps.
CONSTANT Values
VARIABLES first_frame, scale, recent, clean

Window == INSTANCE NormalizationWindow

-----------------------------------------------------------------------------
(* Medians.                                                                *)

\* Some natural numbers, if any, have a least one.
LEMMA LeastNumber ==
  ASSUME NEW T, T \subseteq Nat, T # {}
  PROVE  \E x \in T : \A y \in T : x <= y
<1>1. PICK x \in T : \A y \in T : <<y, x>> \notin OpToRel(<, Nat)
  BY WFMin, NatLessThanWellFounded
<1>2. \A y \in T : ~(y < x)
  BY <1>1 DEF OpToRel
<1> QED BY <1>2

\* The values of a window are bounded.
LEMMA WindowBounded ==
  ASSUME NEW n \in Nat, NEW w \in [0 .. n - 1 -> Nat]
  PROVE  \E b \in Nat : \A i \in 0 .. n - 1 : w[i] <= b
<1> DEFINE Unbounded == {k \in 0 .. n : \A b \in Nat : \E i \in 0 .. k - 1 : b < w[i]}
<1>1. ASSUME n \notin Unbounded PROVE \E b \in Nat : \A i \in 0 .. n - 1 : w[i] <= b
  <2>1. PICK b \in Nat : \A i \in 0 .. n - 1 : ~(b < w[i])
    BY <1>1
  <2>2. \A i \in 0 .. n - 1 : w[i] \in Nat
    OBVIOUS
  <2>3. \A i \in 0 .. n - 1 : w[i] <= b
    BY <2>1, <2>2
  <2> QED BY <2>3
<1>2. ASSUME Unbounded # {} PROVE FALSE
  <2>1. Unbounded \subseteq Nat
    OBVIOUS
  <2>2. PICK k \in Unbounded : \A l \in Unbounded : k <= l
    BY <1>2, <2>1, LeastNumber
  <2>3. \A b \in Nat : \E i \in 0 .. k - 1 : b < w[i]
    BY <2>2
  <2>4. k \in 1 .. n
    <3>1. \E i \in 0 .. k - 1 : 0 < w[i]
      BY <2>3
    <3> QED BY <2>2, <3>1
  <2>5. k - 1 \notin Unbounded /\ k - 1 \in 0 .. n
    <3> HIDE DEF Unbounded
    <3> QED BY <2>2, <2>4
  <2>6. PICK b \in Nat : \A i \in 0 .. (k - 1) - 1 : ~(b < w[i])
    BY <2>5
  <2>7. w[k - 1] \in Nat
    BY <2>4
  <2> DEFINE c == IF b < w[k - 1] THEN w[k - 1] ELSE b
  <2>8. c \in Nat
    BY <2>7
  <2>9. ASSUME NEW i \in 0 .. k - 1 PROVE ~(c < w[i])
    <3>1. i = k - 1 \/ i \in 0 .. (k - 1) - 1
      BY <2>4
    <3>2. w[i] \in Nat
      BY <2>4
    <3> QED BY <2>6, <2>7, <3>1, <3>2
  <2> QED BY <2>3, <2>8, <2>9
<1> QED BY <1>1, <1>2

\* The places of a window that hold less than a value, and at most the value.
Below(w, v)    == {i \in DOMAIN w : w[i] < v}
NotAbove(w, v) == {i \in DOMAIN w : w[i] <= v}

\* One of the values has at most half of them below it, and more than half of them not
\* above it.
LEMMA MedianExists ==
  ASSUME NEW D, IsFiniteSet(D), NEW w \in [D -> Nat], NEW half \in Nat, half < Cardinality(D),
         NEW b \in Nat, \A i \in D : w[i] <= b
  PROVE  \E i \in D : /\ Cardinality(Below(w, w[i])) <= half
                      /\ Cardinality(NotAbove(w, w[i])) > half
<1> USE DEF Below, NotAbove
<1> DEFINE UpTo(v) == {j \in D : w[j] <= v}
           Enough  == {v \in Nat : Cardinality(UpTo(v)) > half}
<1>1. \A v \in Nat : IsFiniteSet(UpTo(v)) /\ Cardinality(UpTo(v)) \in Nat
  BY FS_Subset, FS_CardinalityType
<1>2. UpTo(b) = D
  OBVIOUS
<1>3. b \in Enough
  BY <1>2
<1>4. PICK v \in Enough : \A u \in Enough : v <= u
  BY <1>3, LeastNumber
<1>5. Cardinality({j \in D : w[j] < v}) <= half
  <2>1. CASE v = 0
    <3>1. {j \in D : w[j] < v} = {}
      BY <2>1
    <3> QED BY <3>1, FS_EmptySet
  <2>2. CASE v # 0
    <3>1. v - 1 \in Nat /\ v - 1 \notin Enough
      BY <1>4, <2>2
    <3>2. Cardinality(UpTo(v - 1)) <= half
      <4>1. Cardinality(UpTo(v - 1)) \in Nat /\ ~(Cardinality(UpTo(v - 1)) > half)
        BY <1>1, <3>1
      <4> QED BY <4>1
    <3>3. {j \in D : w[j] < v} = UpTo(v - 1)
      BY <1>4, <2>2
    <3> HIDE DEF UpTo
    <3> QED BY <3>2, <3>3
  <2> QED BY <2>1, <2>2
<1>6. \E i \in D : w[i] = v
  <2>1. SUFFICES ASSUME \A i \in D : w[i] # v PROVE FALSE
    OBVIOUS
  <2>2. {j \in D : w[j] < v} = UpTo(v)
    BY <1>4, <2>1
  <2> QED BY <1>1, <1>4, <1>5, <2>2
<1> QED BY <1>4, <1>5, <1>6

\* If every value of one window is at most that of another, so is its median.
LEMMA MediansInOrder ==
  ASSUME NEW D, IsFiniteSet(D), NEW v \in [D -> Nat], NEW w \in [D -> Nat],
         \A i \in D : v[i] <= w[i],
         NEW half, NEW a \in Nat, NEW b \in Nat, half \in Nat,
         Cardinality(Below(v, a)) <= half, Cardinality(NotAbove(w, b)) > half
  PROVE  a <= b
<1> USE DEF Below, NotAbove
<1> SUFFICES ASSUME b < a PROVE FALSE
  OBVIOUS
<1>1. {j \in D : w[j] <= b} \subseteq {j \in D : v[j] < a}
  OBVIOUS
<1>2. IsFiniteSet({j \in D : v[j] < a})
  BY FS_Subset
<1>3. Cardinality({j \in D : w[j] <= b}) <= Cardinality({j \in D : v[j] < a})
  BY <1>1, <1>2, FS_Subset
<1>4. /\ Cardinality({j \in D : w[j] <= b}) \in Nat
      /\ Cardinality({j \in D : v[j] < a}) \in Nat
  BY <1>1, <1>2, FS_Subset, FS_CardinalityType
<1> QED BY <1>3, <1>4

-----------------------------------------------------------------------------
(* The window of the colouring element.                                    *)

\* median_of() finds an element, with at most half of them below it.
LEMMA RawMedianIsOne ==
  ASSUME NEW n \in Nat \ {0}, NEW D, IsFiniteSet(D), Cardinality(D) = n, NEW w \in [D -> Nat],
         NEW b \in Nat, \A i \in D : w[i] <= b
  PROVE  /\ \E i \in D : Median(w, n) = w[i]
         /\ Cardinality(Below(w, Median(w, n))) <= n \div 2
         /\ Cardinality(NotAbove(w, Median(w, n))) > n \div 2
<1> DEFINE half  == n \div 2
           Is(v) == Cardinality(Below(w, v)) <= half /\ Cardinality(NotAbove(w, v)) > half
<1>1. half \in Nat /\ half < n
  OBVIOUS
<1>2. PICK i \in D : Is(w[i])
  <2> HIDE DEF half
  <2> QED BY <1>1, MedianExists
<1>3. Median(w, n) = CHOOSE v \in {w[j] : j \in DOMAIN w} : Is(v)
  BY DEF Median, Below, NotAbove
<1> HIDE DEF Is
<1>4. Median(w, n) \in {w[j] : j \in DOMAIN w} /\ Is(Median(w, n))
  BY <1>2, <1>3
<1> QED BY <1>4 DEF Is

\* The types, as far as the steps need them.
CTyped ==
  /\ minCK \in Bounds /\ maxCK \in Bounds
  /\ count \in 1 .. MaxCount /\ index \in 0 .. count - 1 /\ firstFrame \in BOOLEAN
  /\ minW \in [0 .. count - 1 -> 0 .. MaxRaw] /\ maxW \in [0 .. count - 1 -> 0 .. MaxRaw]
  /\ pc \in {"idle", "checking", "entering", "low", "lowSet", "high", "highSet", "coloring"}
  /\ pc # "idle" => frame \in Frames
  /\ autoMin \in 0 .. MaxRaw /\ autoMax \in 0 .. MaxRaw
  /\ lo \in 0 .. MaxRaw /\ hi \in 0 .. MaxRaw + 1

\* The pixel value of any number is in the range of pixels, and the extremes of a frame are.
LEMMA RawInRange ==
  ASSUME NEW f \in Frames
  PROVE  /\ \A t \in Int : cK_to_raw(t, f.by) \in 0 .. MaxRaw
         /\ \A k \in {1, 2} : f.temps[k] \in Temps /\ Raw(f, k) \in 0 .. MaxRaw
<1>1. f.by.scale \in Nat /\ f.by.offset \in Int /\ MaxRaw \in Nat /\ Temps \subseteq Int
  BY ColorizeAssumption DEF Frames
<1>2. ASSUME NEW t \in Int PROVE cK_to_raw(t, f.by) \in 0 .. MaxRaw
  <2>1. t * f.by.scale + f.by.offset \in Int
    BY <1>1
  <2> QED BY <1>1, <2>1 DEF cK_to_raw, Clamp
<1>3. f.temps[1] \in Temps /\ f.temps[2] \in Temps
  BY DEF Frames, Pairs
<1> QED BY <1>1, <1>2, <1>3 DEF Raw

\* So is the median of a window of them.
LEMMA MedianInRange ==
  ASSUME NEW n \in Nat \ {0}, MaxRaw \in Nat, NEW w \in [0 .. n - 1 -> 0 .. MaxRaw]
  PROVE  Median(w, n) \in 0 .. MaxRaw
<1> DEFINE D == 0 .. n - 1
<1>1. IsFiniteSet(D) /\ Cardinality(D) = n
  BY FS_Interval
<1>2. w \in [D -> Nat] /\ \A i \in D : w[i] \in 0 .. MaxRaw /\ w[i] <= MaxRaw
  OBVIOUS
<1> HIDE DEF D
<1>3. PICK i \in D : Median(w, n) = w[i]
  BY <1>1, <1>2, RawMedianIsOne
<1> QED BY <1>2, <1>3

\* The window has a place, and the next index is one of them.
LEMMA CountFacts ==
  ASSUME CTyped
  PROVE  count \in Nat \ {0} /\ NextIndex \in 0 .. count - 1 /\ MaxRaw \in Nat
BY ColorizeAssumption DEF CTyped, NextIndex

\* A frame that enters the window keeps the types.
LEMMA EnterKeepsTypes ==
  ASSUME CTyped, Enter
  PROVE  CTyped'
<1> USE DEF CTyped
<1>1. count \in Nat \ {0} /\ NextIndex \in 0 .. count - 1 /\ MaxRaw \in Nat
  BY CountFacts
<1>2. /\ minW' \in [0 .. count - 1 -> 0 .. MaxRaw]
      /\ maxW' \in [0 .. count - 1 -> 0 .. MaxRaw]
  BY <1>1 DEF Enter, Entered
<1>3. autoMin' \in 0 .. MaxRaw /\ autoMax' \in 0 .. MaxRaw
  BY <1>1, <1>2, MedianInRange DEF Enter
<1> QED BY <1>1, <1>2, <1>3 DEF Enter, bounds

\* The windows and the range of the colorize element hold pixel values, whatever is set.
THEOREM ColoringTyped == Spec => []CTyped
<1>1. Init => CTyped
  BY ColorizeAssumption DEF Init, CTyped, Bounds
<1>2. CTyped /\ [Next]_vars => CTyped'
  <2> SUFFICES ASSUME CTyped, [Next]_vars PROVE CTyped'
    OBVIOUS
  <2> USE DEF CTyped, window, bounds, had
  <2>1. ASSUME NEW b \in Bounds, SetMin(b) \/ SetMax(b) PROVE CTyped'
    BY <2>1 DEF SetMin, SetMax
  <2>2. ASSUME NEW n \in 1 .. MaxCount, SetFrames(n) PROVE CTyped'
    <3>1. n \in Nat \ {0} /\ count \in Nat \ {0}
      BY ColorizeAssumption
    <3>2. /\ Grown(minW, n) \in [0 .. n - 1 -> 0 .. MaxRaw]
          /\ Grown(maxW, n) \in [0 .. n - 1 -> 0 .. MaxRaw]
      BY <3>1 DEF Grown
    <3>3. /\ count' = n /\ index' = 0 /\ firstFrame' = TRUE
          /\ minW' = Grown(minW, n) /\ maxW' = Grown(maxW, n)
          /\ UNCHANGED <<minCK, maxCK, pc, frame, autoMin, autoMax, lo, hi>>
      BY <2>2 DEF SetFrames, Restart
    <3>4. 0 \in 0 .. n - 1
      BY <3>1
    <3> QED BY <3>2, <3>3, <3>4
  <2>3. ASSUME NEW f \in Frames, Analyse(f) PROVE CTyped'
    BY <2>3, RawInRange DEF Analyse
  <2>4. CASE CheckNeed
    BY <2>4 DEF CheckNeed
  <2>5. CASE Enter
    BY <2>5, EnterKeepsTypes
  <2>6. CASE CheckLow \/ UseLow
    <3>1. minCK \in Int
      BY ColorizeAssumption DEF Bounds, AutoBound
    <3>2. pc = "lowSet" => cK_to_raw(minCK, frame.by) \in 0 .. MaxRaw
      BY <3>1, RawInRange
    <3> QED BY <2>6, <3>2 DEF CheckLow, UseLow
  <2>7. CASE CheckHigh \/ UseHigh
    <3>1. maxCK \in Int /\ MaxRaw \in Nat
      BY ColorizeAssumption DEF Bounds, AutoBound
    <3>2. pc = "highSet" => cK_to_raw(maxCK, frame.by) \in 0 .. MaxRaw
      BY <3>1, RawInRange
    <3>3. CASE CheckHigh
      <4>1. lo' \in 0 .. MaxRaw /\ hi' \in 0 .. MaxRaw + 1
        BY <3>1, <3>3 DEF CheckHigh, Ordered
      <4> QED BY <3>3, <4>1 DEF CheckHigh
    <3>4. CASE UseHigh
      <4> DEFINE v == cK_to_raw(maxCK, frame.by)
      <4>1. v \in 0 .. MaxRaw /\ lo' = (IF lo > v THEN v ELSE lo)
            /\ hi' = (IF lo > v THEN lo ELSE IF lo = v THEN lo + 1 ELSE v)
        BY <3>2, <3>4 DEF UseHigh, Ordered
      <4> HIDE DEF v
      <4>2. lo' \in 0 .. MaxRaw /\ hi' \in 0 .. MaxRaw + 1
        BY <3>1, <4>1
      <4> QED BY <3>4, <4>2 DEF UseHigh
    <3> QED BY <2>7, <3>3, <3>4
  <2>8. CASE Colorize
    BY <2>8, ColorizeAssumption DEF Colorize
  <2>9. CASE UNCHANGED vars
    BY <2>9 DEF vars
  <2> QED BY <2>1, <2>2, <2>3, <2>4, <2>5, <2>6, <2>7, <2>8, <2>9 DEF Next
<1> QED BY <1>1, <1>2, PTL DEF Spec

-----------------------------------------------------------------------------
(* The bounds that the application sets.                                   *)

\* Where the window has been passed, if it was needed.
Ranging == {"low", "lowSet", "high", "highSet", "coloring"}

\* What the steps have found of the bounds: a transform that came by the window's need, or
\* to the use of a bound, has seen that the bound was set.
CHad ==
  /\ lowHad \subseteq Bounds /\ highHad \subseteq Bounds
  /\ pc # "idle" => minCK \in lowHad /\ maxCK \in highHad
  /\ pc \in {"checking", "lowSet"} => lowHad # {AutoBound}
  /\ pc = "highSet" => highHad # {AutoBound}
  /\ pc \in Ranging /\ (lowHad = {AutoBound} \/ highHad = {AutoBound}) => due # None
  /\ pc \notin Ranging => due = None

LowEnds  == Asked(lowHad, autoMin) \cup Torn(lowHad)
HighEnds == Asked(highHad, autoMax) \cup Torn(highHad)

\* The lower end before the range is ordered, and the range after it.
CRange ==
  /\ pc \in {"high", "highSet"} =>
       lo \in LowEnds /\ (lowHad = {AutoBound} => lo = autoMin)
  /\ pc = "coloring" =>
       \E a \in LowEnds, b \in HighEnds :
         /\ lo = (IF a > b THEN b ELSE a)
         /\ hi = (IF a > b THEN a ELSE IF a = b THEN a + 1 ELSE b)
         /\ lowHad = {AutoBound} => a = autoMin
         /\ highHad = {AutoBound} => b = autoMax

\* What a bound may become an end as is not less after it has been set once more.
LEMMA EndsGrow ==
  ASSUME NEW h, NEW b, NEW auto
  PROVE  Asked(h, auto) \cup Torn(h) \subseteq Asked(h \cup {b}, auto) \cup Torn(h \cup {b})
BY DEF Asked, Torn

\* A bound that was set during a transform is an end of the range when it is used.
LEMMA UsedIsAnEnd ==
  ASSUME NEW h, NEW b \in h, h # {AutoBound}, NEW auto
  PROVE  cK_to_raw(b, frame.by) \in Asked(h, auto) \cup Torn(h)
BY DEF Asked, Torn

\* And so is the automatic end when the bound is seen to be automatic.
LEMMA AutomaticIsAnEnd ==
  ASSUME NEW h, AutoBound \in h, NEW auto
  PROVE  auto \in Asked(h, auto) \cup Torn(h)
BY DEF Asked

\* The types of the steps and of the bounds, and the range, are kept by every step.
LEMMA RangeStep ==
  ASSUME CTyped, CHad, CRange, [Next]_vars
  PROVE  CHad' /\ CRange'
<1> USE DEF window, bounds, had, Ranging
<1>1. ASSUME NEW b \in Bounds, SetMin(b) PROVE CHad' /\ CRange'
  <2>1. CASE pc = "idle"
    BY <1>1, <2>1 DEF SetMin, With, CHad, CRange
  <2>2. CASE pc # "idle"
    <3>1. lowHad' = lowHad \cup {b} /\ minCK' = b
          /\ UNCHANGED <<maxCK, pc, frame, autoMin, autoMax, lo, hi, highHad, due>>
      BY <1>1, <2>2 DEF SetMin, With
    <3>2. minCK \in lowHad /\ (lowHad' = {AutoBound} => lowHad = {AutoBound})
      BY <2>2, <3>1 DEF CHad
    <3>3. LowEnds \subseteq LowEnds' /\ HighEnds' = HighEnds
      <4>1. LowEnds' = Asked(lowHad', autoMin) \cup Torn(lowHad')
        BY <3>1 DEF LowEnds, Asked, Torn
      <4>2. HighEnds' = HighEnds
        BY <3>1 DEF HighEnds, Asked, Torn
      <4> QED BY <3>1, <4>1, <4>2, EndsGrow DEF LowEnds
    <3>4. CHad'
      BY <3>1, <3>2 DEF CHad
    <3>5. CRange'
      BY <3>1, <3>2, <3>3 DEF CRange
    <3> QED BY <3>4, <3>5
  <2> QED BY <2>1, <2>2
<1>2. ASSUME NEW b \in Bounds, SetMax(b) PROVE CHad' /\ CRange'
  <2>1. CASE pc = "idle"
    BY <1>2, <2>1 DEF SetMax, With, CHad, CRange
  <2>2. CASE pc # "idle"
    <3>1. highHad' = highHad \cup {b} /\ maxCK' = b
          /\ UNCHANGED <<minCK, pc, frame, autoMin, autoMax, lo, hi, lowHad, due>>
      BY <1>2, <2>2 DEF SetMax, With
    <3>2. maxCK \in highHad /\ (highHad' = {AutoBound} => highHad = {AutoBound})
      BY <2>2, <3>1 DEF CHad
    <3>3. HighEnds \subseteq HighEnds' /\ LowEnds' = LowEnds
      <4>1. HighEnds' = Asked(highHad', autoMax) \cup Torn(highHad')
        BY <3>1 DEF HighEnds, Asked, Torn
      <4>2. LowEnds' = LowEnds
        BY <3>1 DEF LowEnds, Asked, Torn
      <4> QED BY <3>1, <4>1, <4>2, EndsGrow DEF HighEnds
    <3>4. CHad'
      BY <3>1, <3>2 DEF CHad
    <3>5. CRange'
      BY <3>1, <3>2, <3>3 DEF CRange
    <3> QED BY <3>4, <3>5
  <2> QED BY <2>1, <2>2
<1>3. ASSUME NEW n \in 1 .. MaxCount, SetFrames(n) PROVE CHad' /\ CRange'
  <2>1. UNCHANGED <<bounds, pc, frame, autoMin, autoMax, lo, hi, had, due>>
    BY <1>3 DEF SetFrames
  <2> QED BY <2>1 DEF CHad, CRange, LowEnds, HighEnds, Asked, Torn
<1>4. ASSUME NEW f \in Frames, Analyse(f) PROVE CHad' /\ CRange'
  BY <1>4 DEF Analyse, CHad, CRange, CTyped
<1>5. CASE CheckNeed
  BY <1>5 DEF CheckNeed, CHad, CRange
<1>6. CASE Enter
  <2>1. due' # None
    <3>1. due' = [i \in 1 .. count |-> seen'[IF i <= Len(seen') THEN i ELSE Len(seen')]]
      BY <1>6 DEF Enter, Filled
    <3>2. 1 \in DOMAIN due'
      BY <3>1, CountFacts
    <3> QED BY <3>2 DEF None
  <2> QED BY <1>6, <2>1 DEF Enter, CHad, CRange
<1>7. CASE CheckLow
  <2>1. minCK \in lowHad /\ UNCHANGED <<frame, autoMin, had, due>>
    BY <1>7 DEF CheckLow, CHad
  <2>2. LowEnds' = LowEnds
    BY <2>1 DEF LowEnds, Asked, Torn
  <2>3. minCK = AutoBound => autoMin \in LowEnds
    BY <2>1, AutomaticIsAnEnd DEF LowEnds
  <2>4. CHad'
    BY <1>7, <2>1 DEF CheckLow, CHad
  <2>5. CRange'
    BY <1>7, <2>1, <2>2, <2>3 DEF CheckLow, CRange
  <2> QED BY <2>4, <2>5
<1>8. CASE UseLow
  <2>1. minCK \in lowHad /\ lowHad # {AutoBound} /\ UNCHANGED <<frame, autoMin, had, due>>
    BY <1>8 DEF UseLow, CHad
  <2>2. LowEnds' = LowEnds
    BY <2>1 DEF LowEnds, Asked, Torn
  <2>3. cK_to_raw(minCK, frame.by) \in LowEnds
    BY <2>1, UsedIsAnEnd DEF LowEnds
  <2>4. CHad'
    BY <1>8, <2>1 DEF UseLow, CHad
  <2>5. CRange'
    BY <1>8, <2>1, <2>2, <2>3 DEF UseLow, CRange
  <2> QED BY <2>4, <2>5
<1>9. CASE CheckHigh
  <2>1. /\ maxCK \in highHad /\ pc = "high"
        /\ UNCHANGED <<frame, autoMin, autoMax, had, due, bounds>>
    BY <1>9 DEF CheckHigh, CHad
  <2>2. LowEnds' = LowEnds /\ HighEnds' = HighEnds
    BY <2>1 DEF LowEnds, HighEnds, Asked, Torn
  <2>3. maxCK = AutoBound => autoMax \in HighEnds
    BY <2>1, AutomaticIsAnEnd DEF HighEnds
  <2>4. lo \in LowEnds /\ (lowHad = {AutoBound} => lo = autoMin)
    BY <2>1 DEF CRange
  <2>5. CHad'
    BY <1>9, <2>1 DEF CheckHigh, CHad
  <2>6. CRange'
    <3>1. CASE maxCK = AutoBound
      BY <1>9, <2>1, <2>2, <2>3, <2>4, <3>1 DEF CheckHigh, Ordered, CRange
    <3>2. CASE maxCK # AutoBound
      BY <1>9, <2>1, <2>2, <2>4, <3>2 DEF CheckHigh, CRange
    <3> QED BY <3>1, <3>2
  <2> QED BY <2>5, <2>6
<1>10. CASE UseHigh
  <2>1. /\ maxCK \in highHad /\ highHad # {AutoBound} /\ pc = "highSet"
        /\ UNCHANGED <<frame, autoMin, autoMax, had, due, bounds>>
    BY <1>10 DEF UseHigh, CHad
  <2>2. LowEnds' = LowEnds /\ HighEnds' = HighEnds
    BY <2>1 DEF LowEnds, HighEnds, Asked, Torn
  <2>3. cK_to_raw(maxCK, frame.by) \in HighEnds
    BY <2>1, UsedIsAnEnd DEF HighEnds
  <2>4. lo \in LowEnds /\ (lowHad = {AutoBound} => lo = autoMin)
    BY <2>1 DEF CRange
  <2>5. CHad'
    BY <1>10, <2>1 DEF UseHigh, CHad
  <2>6. CRange'
    BY <1>10, <2>1, <2>2, <2>3, <2>4 DEF UseHigh, Ordered, CRange
  <2> QED BY <2>5, <2>6
<1>11. CASE Colorize
  BY <1>11 DEF Colorize, CHad, CRange
<1>12. CASE UNCHANGED vars
  <2>1. UNCHANGED <<bounds, pc, frame, autoMin, autoMax, lo, hi, had, due>>
    BY <1>12 DEF vars
  <2> QED BY <2>1 DEF CHad, CRange, LowEnds, HighEnds, Asked, Torn
<1> QED
  BY <1>1, <1>2, <1>3, <1>4, <1>5, <1>6, <1>7, <1>8, <1>9, <1>10, <1>11, <1>12 DEF Next

\* The ends that the bounds may become are pixel values.
LEMMA EndsInRange ==
  ASSUME CTyped, CHad, pc = "coloring"
  PROVE  LowEnds \subseteq Int /\ HighEnds \subseteq Int
<1>1. Bounds \subseteq Int
  BY ColorizeAssumption DEF Bounds, AutoBound
<1>2. \A t \in Int : cK_to_raw(t, frame.by) \in Int
  BY RawInRange DEF CTyped
<1> QED
  BY <1>1, <1>2 DEF LowEnds, HighEnds, Asked, Torn, CTyped, CHad, AutoBound

\* What is drawn and what was set belong together in every state.
LEMMA RangeInvariant == Spec => [](CTyped /\ CHad /\ CRange)
<1>1. Init => CHad /\ CRange
  BY DEF Init, CHad, CRange, Ranging, bounds
<1> QED BY <1>1, RangeStep, ColoringTyped, PTL DEF Spec

\* Whatever the application sets between the unlocked reads of a transform, both ends of
\* the range come from what it had set during that transform, each from its own bound.
THEOREM BoundsAreHonoured == Spec => []BoundsHonoured
<1>1. CTyped /\ CHad /\ CRange => BoundsHonoured
  <2> SUFFICES ASSUME CTyped, CHad, CRange, pc = "coloring"
               PROVE  Spans(LowEnds, HighEnds)
    BY DEF BoundsHonoured, LowEnds, HighEnds
  <2>1. PICK a \in LowEnds, b \in HighEnds :
          /\ lo = (IF a > b THEN b ELSE a)
          /\ hi = (IF a > b THEN a ELSE IF a = b THEN a + 1 ELSE b)
    BY DEF CRange
  <2>2. a \in Int /\ b \in Int
    BY EndsInRange
  <2>3. {a, b} \subseteq {lo, hi} /\ lo \in {a, b} /\ lo < hi
    BY <2>1, <2>2
  <2> QED BY <2>3 DEF Spans
<1> QED BY <1>1, RangeInvariant, PTL

-----------------------------------------------------------------------------
(* The automatic ends.                                                     *)

\* A higher temperature has no lower pixel value.
LEMMA RawMonotone ==
  ASSUME NEW a \in Nat, NEW b \in Nat, a <= b, MaxRaw \in Nat,
         NEW by \in [scale : Nat \ {0}, offset : Int]
  PROVE  /\ cK_to_raw(a, by) \in Nat /\ cK_to_raw(b, by) \in Nat
         /\ cK_to_raw(a, by) <= cK_to_raw(b, by)
<1> DEFINE s == by.scale
           o == by.offset
<1>1. s \in Nat /\ o \in Int
  OBVIOUS
<1>2. a * s <= b * s /\ a * s \in Nat /\ b * s \in Nat
  BY <1>1
<1>3. /\ cK_to_raw(a, by) = Clamp(a * s + o)
      /\ cK_to_raw(b, by) = Clamp(b * s + o)
  BY DEF cK_to_raw
<1> HIDE DEF s, o
<1> DEFINE x == a * s
           y == b * s
<1>4. x <= y /\ x \in Nat /\ y \in Nat
  BY <1>2
<1> HIDE DEF x, y
<1>5. /\ Clamp(x + o) \in Nat /\ Clamp(y + o) \in Nat
      /\ Clamp(x + o) <= Clamp(y + o)
  BY <1>1, <1>4 DEF Clamp
<1> QED BY <1>3, <1>5 DEF x, y

\* There are no more places that a one-to-one map takes into a set than it has.
LEMMA OneToOne ==
  ASSUME NEW S, NEW T, IsFiniteSet(T), NEW m \in [S -> T],
         \A i, j \in S : m[i] = m[j] => i = j
  PROVE  Cardinality(S) <= Cardinality(T)
<1>1. m \in Injection(S, T)
  BY DEF Injection, IsInjective
<1> QED BY <1>1, FS_Injection

\* A window has one median only.
LEMMA OneMedian ==
  ASSUME NEW D, IsFiniteSet(D), NEW w \in [D -> Nat], NEW half \in Nat,
         NEW a \in Nat, Cardinality(Below(w, a)) <= half, Cardinality(NotAbove(w, a)) > half,
         NEW b \in Nat, Cardinality(Below(w, b)) <= half, Cardinality(NotAbove(w, b)) > half
  PROVE  a = b
<1>1. \A i \in D : w[i] <= w[i]
  OBVIOUS
<1>2. a <= b
  BY <1>1, MediansInOrder
<1>3. b <= a
  BY <1>1, MediansInOrder
<1> QED BY <1>2, <1>3

\* A window of n numbers.
IsWindow(w, D, n) ==
  /\ IsFiniteSet(D) /\ Cardinality(D) = n /\ w \in [D -> Nat]
  /\ \E b \in Nat : \A i \in D : w[i] <= b

\* m takes the places of one window to those of another, and g takes them back.
Rearranges(m, g, E, D) ==
  /\ m \in [E -> D] /\ g \in [D -> E]
  /\ \A i \in E : g[m[i]] = i
  /\ \A j \in D : m[g[j]] = j

\* The one holds the pixel values of the temperatures in the other.
RawOf(w, t, m, E, by) == \A i \in E : w[m[i]] = cK_to_raw(t[i], by)

\* The median of pixel values is the pixel value of the median temperature, in whatever
\* order the values are: the places of one window are those of the other, rearranged.
LEMMA MedianOfRaw ==
  ASSUME NEW n \in Nat \ {0}, MaxRaw \in Nat, NEW by \in [scale : Nat \ {0}, offset : Int],
         NEW D, NEW w, IsWindow(w, D, n), NEW E, NEW t, IsWindow(t, E, n),
         NEW m, NEW g, Rearranges(m, g, E, D), RawOf(w, t, m, E, by)
  PROVE  Median(w, n) = cK_to_raw(Median(t, n), by)
<1> USE DEF IsWindow, Rearranges, RawOf
<1> DEFINE half == n \div 2
           med  == Median(t, n)
           a    == Median(w, n)
           r    == cK_to_raw(med, by)
<1>1. half \in Nat
  OBVIOUS
<1>2. /\ a \in Nat /\ Cardinality(Below(w, a)) <= half /\ Cardinality(NotAbove(w, a)) > half
  <2>1. \E i \in D : a = w[i]
    BY RawMedianIsOne
  <2> QED BY <2>1, RawMedianIsOne
<1>3. /\ med \in Nat /\ Cardinality(Below(t, med)) <= half
      /\ Cardinality(NotAbove(t, med)) > half
  <2>1. \E i \in E : med = t[i]
    BY RawMedianIsOne
  <2> QED BY <2>1, RawMedianIsOne
<1> HIDE DEF half, med, a
<1>4. r \in Nat
  BY <1>3, RawMonotone
<1>5. \A i \in E : /\ t[i] <= med => w[m[i]] <= r
                   /\ med <= t[i] => r <= w[m[i]]
  BY <1>3, RawMonotone
<1> HIDE DEF r
<1>6. Cardinality(Below(w, r)) <= Cardinality(Below(t, med))
  <2>1. IsFiniteSet(Below(t, med))
    BY FS_Subset DEF Below
  <2>2. \A j \in Below(w, r) : j \in D /\ g[j] \in Below(t, med)
    <3> SUFFICES ASSUME NEW j \in D, w[j] < r PROVE t[g[j]] < med
      BY DEF Below
    <3>1. g[j] \in E /\ m[g[j]] = j /\ w[j] \in Nat /\ t[g[j]] \in Nat
      OBVIOUS
    <3>2. ~(r <= w[j])
      BY <1>4, <3>1
    <3>3. ~(med <= t[g[j]])
      BY <1>5, <3>1, <3>2
    <3> QED BY <1>3, <3>1, <3>3
  <2> DEFINE h == [j \in Below(w, r) |-> g[j]]
  <2>3. h \in [Below(w, r) -> Below(t, med)]
    BY <2>2
  <2>4. \A i, j \in Below(w, r) : h[i] = h[j] => i = j
    BY <2>2
  <2> HIDE DEF h
  <2> QED BY <2>1, <2>3, <2>4, OneToOne
<1>7. Cardinality(NotAbove(t, med)) <= Cardinality(NotAbove(w, r))
  <2>1. IsFiniteSet(NotAbove(w, r))
    BY FS_Subset DEF NotAbove
  <2>2. \A i \in NotAbove(t, med) : i \in E /\ m[i] \in NotAbove(w, r)
    BY <1>5 DEF NotAbove
  <2> DEFINE h == [i \in NotAbove(t, med) |-> m[i]]
  <2>3. h \in [NotAbove(t, med) -> NotAbove(w, r)]
    BY <2>2
  <2>4. \A i, j \in NotAbove(t, med) : h[i] = h[j] => i = j
    BY <2>2
  <2> HIDE DEF h
  <2> QED BY <2>1, <2>3, <2>4, OneToOne
<1>8. /\ Cardinality(Below(w, r)) \in Nat /\ Cardinality(Below(t, med)) \in Nat
      /\ Cardinality(NotAbove(w, r)) \in Nat /\ Cardinality(NotAbove(t, med)) \in Nat
  BY FS_Subset, FS_CardinalityType DEF Below, NotAbove
<1>9. Cardinality(Below(w, r)) <= half /\ Cardinality(NotAbove(w, r)) > half
  BY <1>1, <1>3, <1>6, <1>7, <1>8
<1>10. a = r
  BY <1>1, <1>2, <1>4, <1>9, OneMedian
<1> QED BY <1>10 DEF a, r, med

\* A window holds the minima, or maxima, of some frames from an index backwards, the oldest
\* of them standing in for those that are missing.
Slot(s, j) == IF j < Len(s) THEN j + 1 ELSE Len(s)

Holds(w, n, x, s, k) ==
  \A j \in 0 .. n - 1 : w[IF j <= x THEN x - j ELSE x - j + n] = Raw(s[Slot(s, j)], k)

\* Some frames, one at least.
Some(s) == s \in Seq(Frames) /\ Len(s) \in Nat \ {0}

\* Their minima, or maxima, and the temperatures that these stand for.
Pixels(d, k)       == [i \in DOMAIN d |-> Raw(d[i], k)]
Temperatures(d, k) == [i \in DOMAIN d |-> d[i].temps[k]]

\* They are numbers that have a bound, in as many places as there are frames.
LEMMA FramesAreWindows ==
  ASSUME NEW d, Some(d), NEW k \in {1, 2}
  PROVE  /\ IsWindow(Pixels(d, k), 1 .. Len(d), Len(d))
         /\ IsWindow(Temperatures(d, k), 1 .. Len(d), Len(d))
         /\ Pixels(d, k) \in [1 .. Len(d) -> 0 .. MaxRaw]
<1> DEFINE n == Len(d)
           D == 1 .. n
           p == Pixels(d, k)
           t == Temperatures(d, k)
<1>1. n \in Nat \ {0} /\ DOMAIN d = D /\ \A i \in D : d[i] \in Frames
  BY DEF Some
<1>2. MaxRaw \in Nat /\ Temps \subseteq Nat
  BY ColorizeAssumption
<1>3. \A i \in D : Raw(d[i], k) \in 0 .. MaxRaw /\ d[i].temps[k] \in Nat
  BY <1>1, <1>2, RawInRange
<1>4. p \in [D -> 0 .. MaxRaw] /\ t \in [D -> Nat]
  BY <1>1, <1>3 DEF Pixels, Temperatures
<1>5. IsFiniteSet(D) /\ Cardinality(D) = n
  BY <1>1, FS_Interval
<1> HIDE DEF p, t
<1>6. p \in [D -> Nat] /\ \A i \in D : p[i] <= MaxRaw
  BY <1>2, <1>4
<1>7. PICK b \in Nat : \A i \in D : t[i] <= b
  <2> DEFINE u == [i \in 0 .. n - 1 |-> t[i + 1]]
  <2>1. u \in [0 .. n - 1 -> Nat]
    BY <1>1, <1>4
  <2> HIDE DEF u
  <2>2. PICK b \in Nat : \A i \in 0 .. n - 1 : u[i] <= b
    BY <1>1, <2>1, WindowBounded
  <2>3. \A i \in D : i - 1 \in 0 .. n - 1 /\ u[i - 1] = t[i]
    BY <1>1 DEF u
  <2> QED BY <2>2, <2>3
<1>8. IsWindow(p, D, n) /\ IsWindow(t, D, n)
  BY <1>2, <1>4, <1>5, <1>6, <1>7 DEF IsWindow
<1> QED BY <1>4, <1>8 DEF p, t

\* The median of a window is that of the frames it holds, whatever its index.
LEMMA HeldIsMedian ==
  ASSUME NEW n \in Nat \ {0}, NEW x \in 0 .. n - 1, NEW s, Some(s), Len(s) <= n,
         NEW k \in {1, 2}, NEW w \in [0 .. n - 1 -> 0 .. MaxRaw], Holds(w, n, x, s, k)
  PROVE  Some(Filled(s, n)) /\ Median(w, n) = Median(Pixels(Filled(s, n), k), Len(Filled(s, n)))
<1> DEFINE d == Filled(s, n)
           t == Pixels(d, k)
           D == 0 .. n - 1
           E == 1 .. n
           m == [i \in E |-> IF i - 1 <= x THEN x - (i - 1) ELSE x - (i - 1) + n]
           g == [j \in D |-> IF j <= x THEN x - j + 1 ELSE x - j + n + 1]
           same == [scale |-> 1, offset |-> 0]
<1>1. d \in Seq(Frames) /\ Len(d) = n /\ \A i \in E : d[i] = s[Slot(s, i - 1)]
  <2>1. d = [i \in 1 .. n |-> s[IF i <= Len(s) THEN i ELSE Len(s)]]
    BY DEF Filled
  <2>2. \A i \in 1 .. n : s[IF i <= Len(s) THEN i ELSE Len(s)] \in Frames
    BY DEF Some
  <2> HIDE DEF d
  <2>3. d \in Seq(Frames) /\ Len(d) = n
    BY <2>1, <2>2
  <2>4. ASSUME NEW i \in E PROVE d[i] = s[Slot(s, i - 1)]
    <3>1. Len(s) \in Nat /\ (i - 1 < Len(s) <=> i <= Len(s)) /\ (i - 1) + 1 = i
      BY DEF Some
    <3> QED BY <2>1, <3>1 DEF Slot
  <2> QED BY <2>3, <2>4
<1>2. Some(d)
  BY <1>1 DEF Some
<1> HIDE DEF d
<1>3. IsWindow(t, E, n) /\ t \in [E -> 0 .. MaxRaw] /\ \A i \in E : t[i] = Raw(d[i], k)
  <2>1. \A i \in E : t[i] = Raw(d[i], k)
    BY <1>1 DEF Pixels
  <2> QED BY <1>1, <1>2, <2>1, FramesAreWindows
<1>4. MaxRaw \in Nat
  BY ColorizeAssumption
<1>5. IsWindow(w, D, n)
  <2>1. w \in [D -> Nat] /\ \A i \in D : w[i] <= MaxRaw
    BY <1>4
  <2>2. IsFiniteSet(D) /\ Cardinality(D) = n
    BY FS_Interval
  <2> QED BY <1>4, <2>1, <2>2 DEF IsWindow
<1>6. Rearranges(m, g, E, D)
  BY DEF Rearranges
<1>7. \A v \in 0 .. MaxRaw : cK_to_raw(v, same) = v
  BY <1>4 DEF cK_to_raw, Clamp
<1>8. RawOf(w, t, m, E, same)
  <2> SUFFICES ASSUME NEW i \in E PROVE w[m[i]] = t[i]
    <3>1. \A i \in E : cK_to_raw(t[i], same) = t[i]
      BY <1>3, <1>7
    <3> QED BY <3>1 DEF RawOf
  <2>1. i - 1 \in 0 .. n - 1 /\ m[i] = IF i - 1 <= x THEN x - (i - 1) ELSE x - (i - 1) + n
    OBVIOUS
  <2>2. t[i] = Raw(s[Slot(s, i - 1)], k)
    BY <1>1, <1>3
  <2> HIDE DEF t, m
  <2> QED BY <2>1, <2>2 DEF Holds
<1>9. same \in [scale : Nat \ {0}, offset : Int]
  OBVIOUS
<1> HIDE DEF t, D, E, m, g, same
<1>10. Median(w, n) = cK_to_raw(Median(t, n), same)
  BY <1>3, <1>4, <1>5, <1>6, <1>8, <1>9, MedianOfRaw
<1>11. Median(t, n) \in 0 .. MaxRaw
  <2>1. PICK i \in E : Median(t, n) = t[i]
    BY <1>3, RawMedianIsOne DEF IsWindow
  <2> QED BY <1>3, <2>1
<1> QED BY <1>1, <1>2, <1>7, <1>10, <1>11 DEF t, d

\* Frames have their minimum not above their maximum, and so have their medians.
LEMMA MediansOfFrames ==
  ASSUME NEW d, Some(d)
  PROVE  Median(Pixels(d, 1), Len(d)) <= Median(Pixels(d, 2), Len(d))
<1> DEFINE n == Len(d)
           D == 1 .. n
           v == Pixels(d, 1)
           w == Pixels(d, 2)
           a == Median(v, n)
           b == Median(w, n)
<1>1. n \in Nat \ {0} /\ DOMAIN d = D /\ \A i \in D : d[i] \in Frames
  BY DEF Some
<1>2. IsWindow(v, D, n) /\ IsWindow(w, D, n)
  BY FramesAreWindows
<1>3. ASSUME NEW i \in D PROVE v[i] <= w[i]
  <2>1. /\ d[i] \in Frames /\ d[i].temps[1] <= d[i].temps[2]
        /\ d[i].temps[1] \in Nat /\ d[i].temps[2] \in Nat
    BY <1>1, ColorizeAssumption DEF Frames, Pairs
  <2>2. d[i].by \in [scale : Nat \ {0}, offset : Int] /\ MaxRaw \in Nat
    BY <2>1, ColorizeAssumption DEF Frames
  <2>3. Raw(d[i], 1) <= Raw(d[i], 2)
    BY <2>1, <2>2, RawMonotone DEF Raw
  <2> QED BY <1>1, <2>3 DEF Pixels
<1> HIDE DEF v, w, a, b, D, n
<1>4. a \in Nat /\ b \in Nat /\ n \div 2 \in Nat
      /\ Cardinality(Below(v, a)) <= n \div 2 /\ Cardinality(NotAbove(w, b)) > n \div 2
  <2>1. \E i \in D : a = v[i]
    BY <1>1, <1>2, RawMedianIsOne DEF IsWindow, a
  <2>2. \E i \in D : b = w[i]
    BY <1>1, <1>2, RawMedianIsOne DEF IsWindow, b
  <2>3. /\ Cardinality(Below(v, a)) <= n \div 2
        /\ Cardinality(NotAbove(w, b)) > n \div 2
    BY <1>1, <1>2, RawMedianIsOne DEF IsWindow, a, b
  <2>4. n \div 2 \in Nat
    BY <1>1
  <2> QED BY <1>2, <2>1, <2>2, <2>3, <2>4 DEF IsWindow
<1>5. a <= b
  BY <1>2, <1>3, <1>4, MediansInOrder DEF IsWindow
<1> QED BY <1>5 DEF a, b, v, w, n

\* If frames share a transform, the median of their pixels is the pixel value of the median
\* of their temperatures.
LEMMA MedianOfTransform ==
  ASSUME NEW d, Some(d), NEW k \in {1, 2}, NEW by \in Transforms,
         \A i \in DOMAIN d : d[i].by = by
  PROVE  Median(Pixels(d, k), Len(d)) = cK_to_raw(Median(Temperatures(d, k), Len(d)), by)
<1> DEFINE n == Len(d)
           D == 1 .. n
           w == Pixels(d, k)
           t == Temperatures(d, k)
           m == [i \in D |-> i]
<1>1. n \in Nat \ {0} /\ DOMAIN d = D
  BY DEF Some
<1>2. IsWindow(w, D, n) /\ IsWindow(t, D, n)
  BY FramesAreWindows
<1>3. Rearranges(m, m, D, D)
  BY DEF Rearranges
<1>4. RawOf(w, t, m, D, by)
  BY <1>1 DEF RawOf, Pixels, Temperatures, Raw
<1>5. by \in [scale : Nat \ {0}, offset : Int] /\ MaxRaw \in Nat
  BY ColorizeAssumption
<1> HIDE DEF w, t, m, D, n
<1>6. Median(w, n) = cK_to_raw(Median(t, n), by)
  BY <1>1, <1>2, <1>3, <1>4, <1>5, MedianOfRaw
<1> QED BY <1>6 DEF w, t, n

\* The window holds the pixel values of the frames it has seen since it was filled, a frame
\* that is about to enter it brings its own, and one that has entered it has its medians.
CSeen ==
  /\ seen \in Seq(Frames) /\ Len(seen) <= count /\ (firstFrame <=> Len(seen) = 0)
  /\ ~firstFrame => Holds(minW, count, index, seen, 1) /\ Holds(maxW, count, index, seen, 2)
  /\ pc \in {"checking", "entering"} => autoMin = Raw(frame, 1) /\ autoMax = Raw(frame, 2)
  /\ due # None => Some(due) /\ autoMin = OfPixels(1) /\ autoMax = OfPixels(2)

Smaller(a, b) == IF a <= b THEN a ELSE b

\* The newest n of a sequence, after one more.
LEMMA NewestAfter ==
  ASSUME NEW P, NEW old \in Seq(P), NEW f \in P, NEW n \in 1 .. Len(old) + 1
  PROVE  /\ SubSeq(<<f>> \o old, 1, n) \in Seq(P)
         /\ Len(SubSeq(<<f>> \o old, 1, n)) = n
         /\ \A j \in 1 .. n : SubSeq(<<f>> \o old, 1, n)[j] = IF j = 1 THEN f ELSE old[j - 1]
<1>1. Len(old) \in Nat
  OBVIOUS
<1> DEFINE s == <<f>> \o old
<1>2. Len(s) = Len(old) + 1 /\ \A j \in 1 .. Len(s) : s[j] = IF j = 1 THEN f ELSE old[j - 1]
  BY <1>1
<1>3. s \in Seq(P)
  BY <1>1
<1> HIDE DEF s
<1> QED BY <1>2, <1>3

\* The newest n of a frame and of those before it.
NewestOf(r, f, s, n) ==
  /\ Len(r) = Smaller(Len(s) + 1, n)
  /\ \A j \in 1 .. Len(r) : r[j] = IF j = 1 THEN f ELSE s[j - 1]

\* A window after a value has been entered; the first one fills it.
WithEntered(w, s, y, v) ==
  [(IF Len(s) = 0 THEN [i \in DOMAIN w |-> v] ELSE w) EXCEPT ![y] = v]

\* A frame that enters a window makes it hold the newest frames.
LEMMA EnteredHolds ==
  ASSUME NEW n \in Nat \ {0}, NEW x \in 0 .. n - 1, NEW y,
         y = IF x + 1 >= n THEN 0 ELSE x + 1,
         NEW P, NEW s \in Seq(P), Len(s) <= n, NEW f \in P, NEW r \in Seq(P),
         NewestOf(r, f, s, n), NEW V, NEW w \in [0 .. n - 1 -> V], NEW k,
         Len(s) # 0 => Holds(w, n, x, s, k)
  PROVE  Holds(WithEntered(w, s, y, Raw(f, k)), n, y, r, k)
<1> USE DEF NewestOf
<1> DEFINE v == Raw(f, k)
           w2 == WithEntered(w, s, y, v)
           At(z, j) == IF j <= z THEN z - j ELSE z - j + n
<1> SUFFICES ASSUME NEW j \in 0 .. n - 1
             PROVE  w2[At(y, j)] = Raw(r[Slot(r, j)], k)
  BY DEF Holds
<1>1. y \in 0 .. n - 1 /\ At(y, j) \in 0 .. n - 1 /\ Len(s) \in Nat /\ Len(r) \in 1 .. n
  <2>1. y \in 0 .. n - 1 /\ At(y, j) \in 0 .. n - 1
    OBVIOUS
  <2>2. Len(s) \in Nat /\ Len(r) = Smaller(Len(s) + 1, n)
    OBVIOUS
  <2> QED BY <2>1, <2>2 DEF Smaller
<1>2. \A p \in 0 .. n - 1 : w2[p] = IF p = y \/ Len(s) = 0 THEN v ELSE w[p]
  <2>1. w2 = [(IF Len(s) = 0 THEN [i \in 0 .. n - 1 |-> v] ELSE w) EXCEPT ![y] = v]
    BY DEF WithEntered
  <2> HIDE DEF v, w2
  <2>2. CASE Len(s) = 0
    <3>1. w2 = [[i \in 0 .. n - 1 |-> v] EXCEPT ![y] = v]
      BY <2>1, <2>2
    <3> QED BY <1>1, <2>2, <3>1
  <2>3. CASE Len(s) # 0
    <3>1. w2 = [w EXCEPT ![y] = v]
      BY <2>1, <2>3
    <3> QED BY <1>1, <2>3, <3>1
  <2> QED BY <2>2, <2>3
<1>3. CASE j = 0 \/ Len(s) = 0
  <2>1. At(y, j) = y \/ Len(s) = 0
    BY <1>1, <1>3
  <2>2. r[Slot(r, j)] = f
    BY <1>1, <1>3 DEF Slot, Smaller
  <2> QED BY <1>1, <1>2, <2>1, <2>2
<1>4. CASE j # 0 /\ Len(s) # 0
  <2>1. At(y, j) = At(x, j - 1) /\ At(y, j) # y /\ j - 1 \in 0 .. n - 1
    BY <1>1, <1>4
  <2>2. Slot(r, j) \in 2 .. Len(r) /\ Slot(r, j) - 1 = Slot(s, j - 1)
    <3> DEFINE o == Len(s)
               q == Len(r)
    <3>1. o \in Nat /\ o # 0 /\ q = IF o + 1 <= n THEN o + 1 ELSE n
      BY <1>1, <1>4 DEF Smaller
    <3>2. Slot(r, j) = IF j < q THEN j + 1 ELSE q
      BY DEF Slot
    <3>3. Slot(s, j - 1) = IF j - 1 < o THEN (j - 1) + 1 ELSE o
      BY DEF Slot
    <3> HIDE DEF o, q
    <3>4. Slot(r, j) \in 2 .. q /\ Slot(r, j) - 1 = Slot(s, j - 1)
      BY <1>4, <3>1, <3>2, <3>3
    <3> QED BY <3>4 DEF q
  <2>3. r[Slot(r, j)] = s[Slot(s, j - 1)]
    BY <1>1, <2>2
  <2>4. w[At(x, j - 1)] = Raw(s[Slot(s, j - 1)], k)
    BY <1>4, <2>1 DEF Holds
  <2> QED BY <1>1, <1>2, <1>4, <2>1, <2>3, <2>4
<1> QED BY <1>3, <1>4

\* A frame that enters leaves the window holding what was seen since the reset, and finds
\* its medians.
LEMMA EnterKeepsSeen ==
  ASSUME CTyped, CSeen, Enter
  PROVE  CSeen'
<1> DEFINE x == NextIndex
<1>1. count \in Nat \ {0} /\ index \in 0 .. count - 1 /\ x \in 0 .. count - 1
  BY CountFacts DEF CTyped
<1>2. frame \in Frames /\ autoMin = Raw(frame, 1) /\ autoMax = Raw(frame, 2)
  BY DEF CTyped, CSeen, Enter
<1>3. seen' \in Seq(Frames) /\ NewestOf(seen', frame, seen, count)
  <2> DEFINE n == Smaller(Len(seen) + 1, count)
  <2>1. seen \in Seq(Frames) /\ Len(seen) \in Nat /\ Len(seen) <= count
    BY DEF CSeen
  <2>2. n \in 1 .. Len(seen) + 1
    BY <1>1, <2>1 DEF Smaller
  <2>3. seen' = SubSeq(<<frame>> \o seen, 1, n)
    <3>1. Len(<<frame>> \o seen) = Len(seen) + 1
      BY <2>1
    <3>2. (IF Len(<<frame>> \o seen) < count THEN Len(<<frame>> \o seen) ELSE count) = n
      BY <1>1, <2>1, <3>1 DEF Smaller
    <3> QED BY <3>2 DEF Enter, Newest
  <2> HIDE DEF n
  <2>4. /\ seen' \in Seq(Frames) /\ Len(seen') = n
        /\ \A j \in 1 .. n : seen'[j] = IF j = 1 THEN frame ELSE seen[j - 1]
    BY <1>2, <2>1, <2>2, <2>3, NewestAfter
  <2> QED BY <2>4 DEF n, NewestOf
<1>4. /\ minW' = WithEntered(minW, seen, x, Raw(frame, 1))
      /\ maxW' = WithEntered(maxW, seen, x, Raw(frame, 2))
      /\ index' = x /\ count' = count /\ firstFrame' = FALSE /\ pc' = "low"
  BY <1>2 DEF Enter, Entered, CSeen, WithEntered
<1>5. Holds(minW', count, x, seen', 1) /\ Holds(maxW', count, x, seen', 2)
  <2>1. seen \in Seq(Frames) /\ Len(seen) <= count
    BY DEF CSeen
  <2>2. Len(seen) # 0 =>
          Holds(minW, count, index, seen, 1) /\ Holds(maxW, count, index, seen, 2)
    BY DEF CSeen
  <2>3. /\ minW \in [0 .. count - 1 -> 0 .. MaxRaw] /\ maxW \in [0 .. count - 1 -> 0 .. MaxRaw]
    BY DEF CTyped
  <2>4. x = IF index + 1 >= count THEN 0 ELSE index + 1
    BY DEF NextIndex
  <2> HIDE DEF x
  <2>5. Holds(minW', count, x, seen', 1)
    BY <1>1, <1>2, <1>3, <1>4, <2>1, <2>2, <2>3, <2>4, EnteredHolds
  <2>6. Holds(maxW', count, x, seen', 2)
    BY <1>1, <1>2, <1>3, <1>4, <2>1, <2>2, <2>3, <2>4, EnteredHolds
  <2> QED BY <2>5, <2>6
<1> HIDE DEF x
<1>6. Len(seen) \in Nat /\ Len(seen') \in 1 .. count
  BY <1>1, <1>3 DEF CSeen, Smaller, NewestOf
<1>7. Some(due') /\ autoMin' = OfPixels(1)' /\ autoMax' = OfPixels(2)'
  <2>1. /\ minW' \in [0 .. count - 1 -> 0 .. MaxRaw] /\ maxW' \in [0 .. count - 1 -> 0 .. MaxRaw]
    BY <1>4, EnterKeepsTypes DEF CTyped
  <2>2. Some(seen') /\ Len(seen') <= count
    BY <1>1, <1>3, <1>6 DEF Some
  <2>3. /\ due' = Filled(seen', count)
        /\ autoMin' = Median(minW', count) /\ autoMax' = Median(maxW', count)
    BY DEF Enter
  <2>4. Some(due') /\ autoMin' = Median(Pixels(due', 1), Len(due'))
    BY <1>1, <1>5, <2>1, <2>2, <2>3, HeldIsMedian
  <2>5. autoMax' = Median(Pixels(due', 2), Len(due'))
    BY <1>1, <1>5, <2>1, <2>2, <2>3, HeldIsMedian
  <2> QED BY <2>4, <2>5 DEF OfPixels, Pixels
<1> QED BY <1>1, <1>3, <1>4, <1>5, <1>6, <1>7 DEF CSeen

\* Every step keeps it.
LEMMA SeenStep ==
  ASSUME CTyped, CTyped', CHad, CHad', CSeen, [Next]_vars
  PROVE  CSeen'
<1> USE DEF window, bounds, had
<1>1. ASSUME NEW n \in 1 .. MaxCount, SetFrames(n) PROVE CSeen'
  <2>1. /\ seen' = <<>> /\ firstFrame' = TRUE /\ count' = n
        /\ UNCHANGED <<pc, frame, autoMin, autoMax, due>>
    BY <1>1 DEF SetFrames, Restart
  <2>2. seen' \in Seq(Frames) /\ Len(seen') = 0 /\ n \in Nat
    BY <2>1
  <2> QED BY <2>1, <2>2 DEF CSeen, OfPixels
<1>2. CASE UNCHANGED <<window, frame, autoMin, autoMax, due>>
           /\ (pc' = pc \/ pc = "checking" \/ pc' \in Ranging)
  BY <1>2 DEF CSeen, OfPixels, Ranging
<1>3. ASSUME NEW b \in Bounds, SetMin(b) \/ SetMax(b) PROVE CSeen'
  BY <1>2, <1>3 DEF SetMin, SetMax
<1>4. ASSUME NEW f \in Frames, Analyse(f) PROVE CSeen'
  <2>1. due' = None /\ UNCHANGED window
    BY <1>4 DEF Analyse, CHad, Ranging
  <2> QED BY <1>4, <2>1 DEF Analyse, CSeen
<1>5. CASE Enter
  BY <1>5, EnterKeepsSeen
<1>6. CASE CheckNeed \/ CheckLow \/ UseLow \/ CheckHigh \/ UseHigh
  BY <1>2, <1>6 DEF CheckNeed, CheckLow, UseLow, CheckHigh, UseHigh, Ranging
<1>7. CASE Colorize
  BY <1>7 DEF Colorize, CSeen
<1>8. CASE UNCHANGED vars
  BY <1>2, <1>8 DEF vars
<1> QED BY <1>1, <1>3, <1>4, <1>5, <1>6, <1>7, <1>8 DEF Next

\* An end that stays automatic is the median of the newest frames, found in pixels, for every
\* size of the window, whatever the application sets meanwhile and however the transform of
\* the frames changes; and it is that of their temperatures while the transform does not.
THEOREM AutomaticEndsAreMedians == Spec => []AutomaticIsMedian
<1> DEFINE Inv == CTyped /\ CHad /\ CRange /\ CSeen
<1>1. Init => CSeen
  <2> SUFFICES ASSUME Init PROVE CSeen
    OBVIOUS
  <2>1. count \in Nat /\ seen = <<>> /\ firstFrame = TRUE /\ pc = "idle" /\ due = None
    BY ColorizeAssumption DEF Init
  <2>2. seen \in Seq(Frames) /\ Len(seen) = 0
    BY <2>1
  <2> QED BY <2>1, <2>2 DEF CSeen
<1>2. Inv => AutomaticIsMedian
  <2> SUFFICES ASSUME Inv, pc = "coloring", lowHad = {AutoBound} \/ highHad = {AutoBound}
               PROVE  AutomaticIsMedian
    BY DEF AutomaticIsMedian
  <2>1. Some(due) /\ autoMin = OfPixels(1) /\ autoMax = OfPixels(2)
    BY DEF CHad, CSeen, Ranging
  <2>2. PICK a \in LowEnds, b \in HighEnds :
          /\ lo = (IF a > b THEN b ELSE a)
          /\ hi = (IF a > b THEN a ELSE IF a = b THEN a + 1 ELSE b)
          /\ lowHad = {AutoBound} => a = autoMin
          /\ highHad = {AutoBound} => b = autoMax
    BY DEF CRange
  <2>3. a \in Int /\ b \in Int /\ a \in {lo, hi} /\ b \in {lo, hi}
    BY <2>2, EndsInRange
  <2>4. OfPixels(1) <= OfPixels(2)
    BY <2>1, MediansOfFrames DEF OfPixels, Pixels
  <2>5. ASSUME NEW k \in {1, 2}, OneTransform PROVE OfPixels(k) = OfTemperatures(k)
    <3>1. frame.by \in Transforms
      BY DEF CTyped, Frames
    <3>2. Median(Pixels(due, k), Len(due)) =
            cK_to_raw(Median(Temperatures(due, k), Len(due)), frame.by)
      BY <2>1, <2>5, <3>1, MedianOfTransform DEF OneTransform
    <3> QED BY <3>2 DEF OfPixels, OfTemperatures, Pixels, Temperatures
  <2>6. lowHad = {AutoBound} /\ highHad = {AutoBound} => lo = OfPixels(1)
    BY <2>1, <2>2, <2>3, <2>4
  <2>7. lowHad = {AutoBound} =>
          OfPixels(1) \in {lo, hi} /\ (OneTransform => OfTemperatures(1) \in {lo, hi})
    BY <2>1, <2>2, <2>3, <2>5
  <2>8. highHad = {AutoBound} =>
          OfPixels(2) \in {lo, hi} /\ (OneTransform => OfTemperatures(2) \in {lo, hi})
    BY <2>1, <2>2, <2>3, <2>5
  <2> QED BY <2>6, <2>7, <2>8 DEF AutomaticIsMedian
<1> QED BY <1>1, <1>2, SeenStep, RangeInvariant, PTL DEF Spec

-----------------------------------------------------------------------------
(* The medians of the source element.                                      *)

\* The element that get_stable_mean() takes has at most half of the window below it, and
\* more than half of it not above it.
LEMMA MedianIsOne ==
  ASSUME Window!WindowAssumption, NEW n \in Nat \ {0}, NEW w \in [0 .. n - 1 -> Values]
  PROVE  /\ Window!Median(w) \in Nat
         /\ Cardinality(Below(w, Window!Median(w))) <= n \div 2
         /\ Cardinality(NotAbove(w, Window!Median(w))) > n \div 2
<1> DEFINE D == 0 .. n - 1
           half  == n \div 2
           Is(v) == Cardinality(Below(w, v)) <= half /\ Cardinality(NotAbove(w, v)) > half
<1>1. IsFiniteSet(D) /\ Cardinality(D) = n
  BY FS_Interval
<1>2. w \in [0 .. n - 1 -> Nat]
  BY DEF Window!WindowAssumption
<1>3. PICK b \in Nat : \A i \in D : w[i] <= b
  BY <1>2, WindowBounded
<1>4. n \div 2 \in Nat /\ n \div 2 < n
  OBVIOUS
<1>5. PICK i \in D : Is(w[i])
  <2>1. half \in Nat /\ half < Cardinality(D) /\ w \in [D -> Nat]
    BY <1>1, <1>2, <1>4
  <2> HIDE DEF D, half
  <2> QED BY <1>1, <1>3, <2>1, MedianExists
<1>6. DOMAIN w = D
  OBVIOUS
<1>7. Window!Median(w) = CHOOSE v \in Values : Is(v)
  BY <1>1, <1>6 DEF Window!Median, Window!Cardinality, Cardinality, Below, NotAbove
<1>8. w[i] \in Values
  OBVIOUS
<1> HIDE DEF Is
<1>9. Window!Median(w) \in Values /\ Is(Window!Median(w))
  BY <1>5, <1>7, <1>8
<1> QED BY <1>9 DEF Is, Window!WindowAssumption

\* Frames have their minimum below their maximum, and so has each place of the window.
OrderedPairs ==
  /\ count \in 1 .. MaxCount /\ index \in 0 .. count - 1 /\ clean \subseteq 0 .. count - 1
  /\ minW \in [0 .. count - 1 -> Values] /\ maxW \in [0 .. count - 1 -> Values]
  /\ frame # Window!None => frame \in Window!Pairs /\ first_frame = FALSE
  /\ \A i \in clean : minW[i] <= maxW[i]

\* A frame that enters the window keeps it ordered.
LEMMA NormalizeOrders ==
  ASSUME Window!WindowAssumption, OrderedPairs, Window!Normalize
  PROVE  OrderedPairs'
<1>1. frame \in Window!Pairs /\ first_frame = FALSE
  BY DEF Window!Normalize, OrderedPairs
<1>2. frame[1] \in Values /\ frame[2] \in Values /\ frame[1] <= frame[2]
  BY <1>1 DEF Window!Pairs
<1>3. Window!NextIndex \in 0 .. count - 1
  BY DEF Window!WindowAssumption, OrderedPairs, Window!NextIndex
<1>4. /\ minW' = [minW EXCEPT ![Window!NextIndex] = frame[1]]
      /\ maxW' = [maxW EXCEPT ![Window!NextIndex] = frame[2]]
      /\ clean' = clean \cup {Window!NextIndex}
      /\ count' = count /\ index' = Window!NextIndex /\ frame' = Window!None
  BY <1>1 DEF Window!Normalize, Window!EnteredMin, Window!EnteredMax, Window!Filled
<1> QED BY <1>2, <1>3, <1>4 DEF OrderedPairs

\* Whatever the window is resized to, it repeats what it had.
LEMMA SetCountOrders ==
  ASSUME Window!WindowAssumption, OrderedPairs, NEW m \in 1 .. MaxCount, Window!SetCount(m)
  PROVE  OrderedPairs'
<1>1. /\ minW' = [i \in 0 .. m - 1 |-> minW[i % count]]
      /\ maxW' = [i \in 0 .. m - 1 |-> maxW[i % count]]
      /\ clean' = {i \in 0 .. m - 1 : i % count \in clean}
      /\ count' = m /\ index' = 0 /\ UNCHANGED <<first_frame, frame>>
  BY DEF Window!SetCount, Window!Grown, Window!Kept
<1>2. \A i \in 0 .. m - 1 : i % count \in 0 .. count - 1
  BY DEF Window!WindowAssumption, OrderedPairs
<1> QED BY <1>1, <1>2 DEF OrderedPairs

\* The medians of the source element are sorted out of the minima and the maxima apart, and
\* yet their unsigned difference never wraps, once the window has seen only frames.
THEOREM WindowNeverWraps ==
  ASSUME Window!WindowAssumption
  PROVE  Window!WindowSpec => []Window!MediansOrdered
<1>1. Window!WindowInit => OrderedPairs
  BY DEF Window!WindowInit, Window!WindowAssumption, OrderedPairs
<1>2. OrderedPairs /\ [Window!WindowNext]_(Window!windowVars) => OrderedPairs'
  <2> SUFFICES ASSUME OrderedPairs, [Window!WindowNext]_(Window!windowVars)
               PROVE  OrderedPairs'
    OBVIOUS
  <2>1. CASE UNCHANGED <<count, index, minW, maxW, clean>>
             /\ (frame' = frame \/ frame' \in Window!Pairs) /\ first_frame' \in BOOLEAN
             /\ (frame' # Window!None => first_frame' = FALSE)
    BY <2>1 DEF OrderedPairs
  <2>2. CASE Window!CameraOpened
    BY <2>2, <2>1 DEF Window!CameraOpened
  <2>3. ASSUME NEW p \in Window!Pairs, Window!Analyse(p) PROVE OrderedPairs'
    BY <2>3, <2>1 DEF Window!Analyse
  <2>4. CASE UNCHANGED Window!windowVars
    BY <2>4 DEF Window!windowVars, OrderedPairs
  <2> QED
    BY <2>2, <2>3, <2>4, NormalizeOrders, SetCountOrders DEF Window!WindowNext
<1>3. OrderedPairs => Window!MediansOrdered
  <2> SUFFICES ASSUME OrderedPairs, clean = 0 .. count - 1
               PROVE  Window!Median(minW) <= Window!Median(maxW)
    <3>1. OrderedPairs => Window!Median(minW) \in Nat /\ Window!Median(maxW) \in Nat
      BY MedianIsOne DEF OrderedPairs, Window!WindowAssumption
    <3>2. ASSUME Window!Median(minW) \in Nat, Window!Median(maxW) \in Nat,
                 Window!Median(minW) <= Window!Median(maxW)
          PROVE  Window!Scale(minW, maxW) # "wrapped"
      <4>1. \/ Window!Median(minW) = Window!Median(maxW)
            \/ Window!Median(minW) < Window!Median(maxW)
        BY <3>2
      <4> QED BY <4>1 DEF Window!Scale
    <3> QED BY <3>1, <3>2 DEF Window!MediansOrdered
  <2> DEFINE D    == 0 .. count - 1
             half == count \div 2
             a    == Window!Median(minW)
             b    == Window!Median(maxW)
  <2>1. count \in Nat \ {0} /\ Values \subseteq Nat
    BY DEF OrderedPairs, Window!WindowAssumption
  <2>2. minW \in [D -> Values] /\ maxW \in [D -> Values] /\ \A i \in D : minW[i] <= maxW[i]
    BY DEF OrderedPairs
  <2>3. a \in Nat /\ Cardinality(Below(minW, a)) <= half
    BY <2>1, <2>2, MedianIsOne
  <2>4. b \in Nat /\ Cardinality(NotAbove(maxW, b)) > half
    BY <2>1, <2>2, MedianIsOne
  <2>5. half \in Nat /\ IsFiniteSet(D)
    BY <2>1, FS_Interval
  <2>6. minW \in [D -> Nat] /\ maxW \in [D -> Nat]
    BY <2>1, <2>2
  <2>7. a <= b
    <3> HIDE DEF D, half, a, b
    <3> QED BY <2>2, <2>3, <2>4, <2>5, <2>6, MediansInOrder
  <2> QED BY <2>7
<1> QED BY <1>1, <1>2, <1>3, PTL DEF Window!WindowSpec

=============================================================================
