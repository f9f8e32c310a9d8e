------------------------ MODULE DeadPixelMaskProofs ------------------------
(***************************************************************************)
(* The frame pipeline, for every size, sensor, mask, vignette model and    *)
(* frame.  DeadPixelMask::apply() may work in place: what the weighted     *)
(* mean of the neighbours is does not matter there.  Where it does, it is  *)
(* a quotient of sums over sets, which grow and move with their terms: so  *)
(* a pixel that is filled in lies between its neighbours, no sample leaves *)
(* its 16 bits, and a uniform scene comes out uniform.                     *)
(***************************************************************************)
EXTENDS FramePipeline, TLAPS, FiniteSetTheorems, WellFoundedInduction

-----------------------------------------------------------------------------
(* Sums.                                                                   *)

\* What holds of 0 and of every successor holds of every number.
LEMMA EveryNumber ==
  ASSUME NEW T, 0 \in T, \A n \in Nat : n \in T => n + 1 \in T
  PROVE  Nat \subseteq T
<1> SUFFICES ASSUME Nat \ T # {} PROVE FALSE
  OBVIOUS
<1> DEFINE Rest == Nat \ T
<1>1. PICK n \in Rest : \A k \in Rest : <<k, n>> \notin OpToRel(<, Nat)
  BY WFMin, NatLessThanWellFounded
<1>2. \A k \in Rest : ~(k < n)
  BY <1>1 DEF OpToRel
<1>3. n \in Nat /\ n \notin T /\ n # 0
  OBVIOUS
<1>4. n - 1 \in Nat /\ n - 1 < n /\ (n - 1) + 1 = n
  BY <1>3
<1>5. n - 1 \in T
  BY <1>2, <1>4
<1> QED BY <1>3, <1>4, <1>5

\* The element that a fold takes out of a set first.
Taken(s) == CHOOSE x \in s : TRUE

\* What holds of the empty set, and of a set if it does without the element that is taken
\* first, holds of every subset of a finite set.
LEMMA EverySubset ==
  ASSUME NEW D, IsFiniteSet(D), NEW T, {} \in T,
         \A s \in SUBSET D : s # {} /\ s \ {Taken(s)} \in T => s \in T
  PROVE  SUBSET D \subseteq T
<1> DEFINE Upto == {n \in Nat : \A s \in SUBSET D : Cardinality(s) = n => s \in T}
<1>1. 0 \in Upto
  BY FS_EmptySet, FS_Subset
<1>2. ASSUME NEW n \in Nat, n \in Upto PROVE n + 1 \in Upto
  <2> SUFFICES ASSUME NEW s \in SUBSET D, Cardinality(s) = n + 1 PROVE s \in T
    OBVIOUS
  <2>1. IsFiniteSet(s) /\ s # {}
    BY FS_Subset, FS_EmptySet
  <2>2. Taken(s) \in s
    BY <2>1 DEF Taken
  <2>3. Cardinality(s \ {Taken(s)}) = n /\ s \ {Taken(s)} \in SUBSET D
    <3>1. Cardinality(s \ {Taken(s)}) = Cardinality(s) - 1
      BY <2>1, <2>2, FS_RemoveElement
    <3> QED BY <3>1
  <2> QED BY <1>2, <2>1, <2>3
<1>3. Nat \subseteq Upto
  <2> HIDE DEF Upto
  <2> QED BY <1>1, <1>2, EveryNumber
<1> QED BY <1>3, FS_Subset, FS_CardinalityType

\* it gives the sum of f over every subset of D.
Sums(it, f, D) ==
  it = [s \in SUBSET D |-> IF s = {} THEN 0 ELSE f[Taken(s)] + it[s \ {Taken(s)}]]

\* There are such sums: those over small sets define those over larger ones.
LEMMA SumsExist ==
  ASSUME NEW D, IsFiniteSet(D), NEW f
  PROVE  \E it : Sums(it, f, D)
<1> DEFINE Small(n) == {s \in SUBSET D : Cardinality(s) <= n}
           Next1(it, s) == IF s = {} THEN 0 ELSE f[Taken(s)] + it[s \ {Taken(s)}]
           Defined == {n \in Nat : \E it : it = [s \in Small(n) |-> Next1(it, s)]}
<1>0. ASSUME NEW s \in SUBSET D PROVE Cardinality(s) \in Nat /\ IsFiniteSet(s)
  BY FS_Subset, FS_CardinalityType
<1>1. 0 \in Defined
  <2>1. Small(0) = {{}}
    BY <1>0, FS_EmptySet
  <2>2. [s \in Small(0) |-> 0] = [s \in Small(0) |-> Next1([t \in Small(0) |-> 0], s)]
    BY <2>1
  <2> QED BY <2>2
<1>2. ASSUME NEW n \in Nat, n \in Defined PROVE n + 1 \in Defined
  <2>1. PICK it : it = [s \in Small(n) |-> Next1(it, s)]
    BY <1>2
  <2> DEFINE more == [s \in Small(n + 1) |-> Next1(it, s)]
  <2>2. \A s \in Small(n) : s \in Small(n + 1) /\ more[s] = it[s]
    <3> SUFFICES ASSUME NEW s \in Small(n) PROVE s \in Small(n + 1) /\ more[s] = it[s]
      OBVIOUS
    <3>1. s \in Small(n + 1)
      BY <1>0
    <3>2. it[s] = Next1(it, s)
      <4> HIDE DEF Next1, Small
      <4> QED BY <2>1
    <3> QED BY <3>1, <3>2
  <2>3. ASSUME NEW s \in Small(n + 1), s # {} PROVE s \ {Taken(s)} \in Small(n)
    <3>1. Taken(s) \in s
      BY <2>3 DEF Taken
    <3> QED BY <1>0, <3>1, FS_RemoveElement
  <2>4. ASSUME NEW s \in Small(n + 1) PROVE Next1(more, s) = Next1(it, s)
    <3> HIDE DEF more, Small
    <3> QED BY <2>2, <2>3
  <2>5. more = [s \in Small(n + 1) |-> Next1(more, s)]
    <3> HIDE DEF Next1, Small
    <3> QED BY <2>4
  <2>6. \E g : g = [s \in Small(n + 1) |-> Next1(g, s)]
    <3> HIDE DEF Next1, Small, more
    <3> QED BY <2>5
  <2>7. n + 1 \in Nat
    OBVIOUS
  <2> QED
    <3> HIDE DEF Next1, Small, more
    <3> QED BY <2>6, <2>7
<1>3. Nat \subseteq Defined
  <2> HIDE DEF Defined
  <2> QED BY <1>1, <1>2, EveryNumber
<1>4. Cardinality(D) \in Nat /\ Small(Cardinality(D)) = SUBSET D
  BY FS_Subset, FS_CardinalityType
<1>5. PICK it : it = [s \in Small(Cardinality(D)) |-> Next1(it, s)]
  BY <1>3, <1>4
<1>6. it = [s \in SUBSET D |-> Next1(it, s)]
  <2> HIDE DEF Next1, Small
  <2> QED BY <1>4, <1>5
<1> QED BY <1>6 DEF Sums

\* SumFunction() is the last of the sums over subsets, which are numbers.
LEMMA SumIsLast ==
  ASSUME NEW D, IsFiniteSet(D), NEW f \in [D -> Int]
  PROVE  \E it \in [SUBSET D -> Int] : Sums(it, f, D) /\ SumFunction(f) = it[D]
<1> DEFINE it == CHOOSE g : Sums(g, f, D)
<1>1. Sums(it, f, D)
  BY SumsExist
<1>2. SumFunction(f) = it[D]
  BY DEF Sums, Taken, SumFunction, SumFunctionOnSet, FoldFunctionOnSet, MapThenFoldSet
<1> HIDE DEF it
<1> DEFINE Typed == {s \in SUBSET D : it[s] \in Int}
<1>3. {} \in Typed
  BY <1>1 DEF Sums
<1>4. ASSUME NEW s \in SUBSET D, s # {}, s \ {Taken(s)} \in Typed PROVE s \in Typed
  <2>1. f[Taken(s)] \in Int
    BY <1>4 DEF Taken
  <2>2. it[s] = f[Taken(s)] + it[s \ {Taken(s)}]
    BY <1>1, <1>4 DEF Sums
  <2> QED BY <1>4, <2>1, <2>2
<1>5. SUBSET D \subseteq Typed
  <2> HIDE DEF Typed
  <2> QED BY <1>3, <1>4, EverySubset
<1>6. it \in [SUBSET D -> Int]
  <2>1. it = [s \in SUBSET D |-> it[s]]
    BY <1>1 DEF Sums
  <2> QED BY <1>5, <2>1
<1> QED BY <1>1, <1>2, <1>6

LEMMA SumStep ==
  ASSUME NEW D, NEW it, NEW f, Sums(it, f, D)
  PROVE  /\ it[{}] = 0
         /\ \A s \in SUBSET D : s # {} =>
              /\ Taken(s) \in D /\ s \ {Taken(s)} \in SUBSET D
              /\ it[s] = f[Taken(s)] + it[s \ {Taken(s)}]
<1>1. \A s \in SUBSET D : it[s] = IF s = {} THEN 0 ELSE f[Taken(s)] + it[s \ {Taken(s)}]
  BY DEF Sums
<1> QED BY <1>1 DEF Taken

\* A sum is a number, and no less than that of smaller summands.
LEMMA SumGrows ==
  ASSUME NEW D, IsFiniteSet(D), NEW f \in [D -> Int], NEW g \in [D -> Int],
         \A x \in D : f[x] <= g[x]
  PROVE  SumFunction(f) \in Int /\ SumFunction(g) \in Int /\ SumFunction(f) <= SumFunction(g)
<1>1. PICK a \in [SUBSET D -> Int] : Sums(a, f, D) /\ SumFunction(f) = a[D]
  BY SumIsLast
<1>2. PICK b \in [SUBSET D -> Int] : Sums(b, g, D) /\ SumFunction(g) = b[D]
  BY SumIsLast
<1> DEFINE T == {s \in SUBSET D : a[s] <= b[s]}
<1>3. {} \in T
  BY <1>1, <1>2, SumStep
<1>4. ASSUME NEW s \in SUBSET D, s # {}, s \ {Taken(s)} \in T PROVE s \in T
  <2>1. a[s] = f[Taken(s)] + a[s \ {Taken(s)}] /\ b[s] = g[Taken(s)] + b[s \ {Taken(s)}]
    BY <1>1, <1>2, <1>4, SumStep
  <2>2. Taken(s) \in D
    BY <1>4, <1>1, SumStep
  <2>3. /\ f[Taken(s)] \in Int /\ g[Taken(s)] \in Int /\ f[Taken(s)] <= g[Taken(s)]
        /\ a[s \ {Taken(s)}] \in Int /\ b[s \ {Taken(s)}] \in Int
        /\ a[s \ {Taken(s)}] <= b[s \ {Taken(s)}]
    BY <1>4, <2>2
  <2> QED BY <2>1, <2>3
<1>5. SUBSET D \subseteq T
  <2> HIDE DEF T
  <2> QED BY <1>3, <1>4, EverySubset
<1> QED BY <1>1, <1>2, <1>5

\* Of f + c * w the sum is that of f and c times that of w.
LEMMA SumIsLinear ==
  ASSUME NEW D, IsFiniteSet(D), NEW f \in [D -> Int], NEW w \in [D -> Int], NEW c \in Int
  PROVE  SumFunction([x \in D |-> f[x] + c * w[x]]) = SumFunction(f) + c * SumFunction(w)
<1> DEFINE g == [x \in D |-> f[x] + c * w[x]]
<1>0. g \in [D -> Int]
  OBVIOUS
<1>1. PICK a \in [SUBSET D -> Int] : Sums(a, f, D) /\ SumFunction(f) = a[D]
  BY SumIsLast
<1>2. PICK b \in [SUBSET D -> Int] : Sums(b, w, D) /\ SumFunction(w) = b[D]
  BY SumIsLast
<1>3. PICK e \in [SUBSET D -> Int] : Sums(e, g, D) /\ SumFunction(g) = e[D]
  <2> HIDE DEF g
  <2> QED BY <1>0, SumIsLast
<1> DEFINE T == {s \in SUBSET D : e[s] = a[s] + c * b[s]}
<1>4. {} \in T
  <2>1. e[{}] = 0 /\ a[{}] = 0 /\ b[{}] = 0
    <3> HIDE DEF g
    <3> QED BY <1>1, <1>2, <1>3, SumStep
  <2> QED BY <2>1
<1>5. ASSUME NEW s \in SUBSET D, s # {}, s \ {Taken(s)} \in T PROVE s \in T
  <2> DEFINE x == Taken(s)  r == s \ {x}
  <2>1. a[s] = f[x] + a[r] /\ b[s] = w[x] + b[r] /\ e[s] = g[x] + e[r] /\ x \in D
    <3> HIDE DEF g
    <3>1. /\ Sums(a, f, D) /\ Sums(b, w, D) /\ Sums(e, g, D)
          /\ s \in SUBSET D /\ s # {}
      BY <1>1, <1>2, <1>3, <1>5
    <3>2. a[s] = f[x] + a[r]
      BY <3>1, SumStep
    <3>5. x \in D
      BY <3>1 DEF Taken
    <3>3. b[s] = w[x] + b[r]
      BY <3>1, SumStep
    <3>4. e[s] = g[x] + e[r]
      BY <3>1, SumStep
    <3> QED BY <3>2, <3>3, <3>4, <3>5
  <2>2. r \in SUBSET D /\ e[r] = a[r] + c * b[r]
    BY <1>5
  <2>3. f[x] \in Int /\ w[x] \in Int /\ a[r] \in Int /\ b[r] \in Int /\ g[x] = f[x] + c * w[x]
    BY <2>1, <2>2
  <2>4. \A i, j, k, l \in Int : (i + c * j) + (k + c * l) = (i + k) + c * (j + l)
    OBVIOUS
  <2>5. e[s] = a[s] + c * b[s]
    <3> HIDE DEF g, x, r
    <3> QED BY <2>1, <2>2, <2>3, <2>4
  <2> QED BY <2>5
<1>6. SUBSET D \subseteq T
  <2> HIDE DEF T
  <2> QED BY <1>4, <1>5, EverySubset
<1>7. e[D] = a[D] + c * b[D]
  BY <1>6
<1> QED BY <1>1, <1>2, <1>3, <1>7

\* Of as many ones as D has elements the sum is that number.
LEMMA SumOfOnes ==
  ASSUME NEW D, IsFiniteSet(D)
  PROVE  SumFunction([x \in D |-> 1]) = Cardinality(D)
<1> DEFINE ones == [x \in D |-> 1]
<1>1. PICK a \in [SUBSET D -> Int] : Sums(a, ones, D) /\ SumFunction(ones) = a[D]
  <2>1. ones \in [D -> Int]
    OBVIOUS
  <2> HIDE DEF ones
  <2> QED BY <2>1, SumIsLast
<1> DEFINE T == {s \in SUBSET D : a[s] = Cardinality(s)}
<1>2. {} \in T
  <2> HIDE DEF ones
  <2> QED BY <1>1, SumStep, FS_EmptySet
<1>3. ASSUME NEW s \in SUBSET D, s # {}, s \ {Taken(s)} \in T PROVE s \in T
  <2>1. a[s] = ones[Taken(s)] + a[s \ {Taken(s)}] /\ Taken(s) \in D
    <3> HIDE DEF ones
    <3> QED BY <1>1, <1>3, SumStep
  <2>2. IsFiniteSet(s) /\ Taken(s) \in s
    BY <1>3, FS_Subset DEF Taken
  <2>3. Cardinality(s) \in Nat /\ Cardinality(s \ {Taken(s)}) = Cardinality(s) - 1
    BY <2>2, FS_RemoveElement, FS_CardinalityType
  <2> QED BY <1>3, <2>1, <2>3
<1>4. SUBSET D \subseteq T
  <2> HIDE DEF T
  <2> QED BY <1>2, <1>3, EverySubset
<1> QED BY <1>1, <1>4

LEMMA SumOfZeros ==
  ASSUME NEW D, IsFiniteSet(D)
  PROVE  SumFunction([x \in D |-> 0]) = 0
<1> DEFINE ones == [x \in D |-> 1]
<1>1. ones \in [D -> Int] /\ [x \in D |-> ones[x] + (-1) * ones[x]] = [x \in D |-> 0]
  OBVIOUS
<1> HIDE DEF ones
<1>2. SumFunction([x \in D |-> ones[x] + (-1) * ones[x]])
        = SumFunction(ones) + (-1) * SumFunction(ones)
  BY <1>1, SumIsLinear
<1>3. SumFunction(ones) \in Int
  BY <1>1, SumGrows
<1> QED BY <1>1, <1>2, <1>3

-----------------------------------------------------------------------------
(* Means.                                                                  *)

\* A pixel has a column and a row.
LEMMA PixelPlace ==
  ASSUME NEW p \in Pixels
  PROVE  Width > 0 /\ Width \in Nat /\ p \in Int /\ p % Width \in Int /\ p \div Width \in Int
<1>1. Width \in Nat /\ Height \in Nat /\ p \in 0 .. Width * Height - 1
  BY MaskAssumption DEF Pixels
<1>2. Width # 0
  <2> SUFFICES ASSUME Width = 0 PROVE FALSE
    OBVIOUS
  <2>1. Width * Height = 0
    BY <1>1
  <2> QED BY <1>1, <2>1
<1> QED BY <1>1, <1>2

LEMMA PixelsFinite == IsFiniteSet(Pixels)
<1>1. Width * Height - 1 \in Int
  BY MaskAssumption
<1> QED BY <1>1, FS_Interval DEF Pixels

\* The weight of a neighbour is not zero.
LEMMA WeightPositive ==
  ASSUME NEW p \in Pixels, NEW q \in Neighbours(p)
  PROVE  Weight(p, q) \in Int /\ Weight(p, q) >= 1
<1>1. /\ q \in Pixels /\ Distance(p % Width, q % Width) <= 1
      /\ Distance(p \div Width, q \div Width) <= 1
  BY DEF Neighbours
<1>2. /\ p % Width \in Int /\ p \div Width \in Int
      /\ q % Width \in Int /\ q \div Width \in Int
  BY <1>1, PixelPlace
<1>3. \A i, j \in Int : Distance(i, j) \in Nat
  BY DEF Distance
<1>4. /\ Distance(p % Width, q % Width) \in {0, 1}
      /\ Distance(p \div Width, q \div Width) \in {0, 1}
  <2>1. \A n \in Nat : n <= 1 => n \in {0, 1}
    OBVIOUS
  <2> QED BY <1>1, <1>2, <1>3, <2>1
<1> QED BY <1>4 DEF Weight

\* The weights of some neighbours, and what they add up to.
LEMMA Weights ==
  ASSUME NEW p \in Pixels, NEW S, S \subseteq Neighbours(p), S # {}
  PROVE  LET w == [q \in S |-> Weight(p, q)]
         IN  /\ IsFiniteSet(S) /\ w \in [S -> Int] /\ \A q \in S : w[q] >= 1
             /\ SumFunction(w) \in Int /\ SumFunction(w) >= 1
<1> DEFINE w    == [q \in S |-> Weight(p, q)]
           ones == [q \in S |-> 1]
<1>1. S \subseteq Pixels
  BY DEF Neighbours
<1>2. IsFiniteSet(S)
  BY <1>1, PixelsFinite, FS_Subset
<1>3. w \in [S -> Int] /\ ones \in [S -> Int] /\ \A q \in S : w[q] >= 1 /\ ones[q] <= w[q]
  BY WeightPositive
<1>4. SumFunction(ones) = Cardinality(S) /\ Cardinality(S) \in Nat /\ Cardinality(S) # 0
  BY <1>2, SumOfOnes, FS_CardinalityType, FS_EmptySet
<1>5. SumFunction(w) \in Int /\ SumFunction(ones) <= SumFunction(w)
  <2> HIDE DEF w, ones
  <2> QED BY <1>2, <1>3, SumGrows
<1> HIDE DEF ones
<1> QED BY <1>2, <1>3, <1>4, <1>5

\* The weighted sum, and its division by the weights.
LEMMA MeanIs ==
  ASSUME NEW p \in Pixels, NEW S, S \subseteq Neighbours(p), S # {}, NEW g \in [S -> Int]
  PROVE  LET w  == [q \in S |-> Weight(p, q)]
             gw == [q \in S |-> g[q] * w[q]]
         IN  /\ gw \in [S -> Int] /\ SumFunction(gw) \in Int
             /\ Mean(g, p) = SumFunction(gw) \div SumFunction(w)
             /\ Mean(g, p) \in Int
<1> DEFINE w  == [q \in S |-> Weight(p, q)]
           gw == [q \in S |-> g[q] * w[q]]
<1>1. IsFiniteSet(S) /\ w \in [S -> Int] /\ SumFunction(w) \in Int /\ SumFunction(w) >= 1
  BY Weights
<1>2. gw \in [S -> Int]
  BY <1>1
<1>3. SumFunction(gw) \in Int
  <2> HIDE DEF gw
  <2>1. \A q \in S : gw[q] <= gw[q]
    BY <1>2
  <2> QED BY <1>1, <1>2, <2>1, SumGrows
<1>4. gw = [q \in DOMAIN g |-> g[q] * Weight(p, q)] /\ w = [q \in DOMAIN g |-> Weight(p, q)]
  OBVIOUS
<1>5. Mean(g, p) = SumFunction(gw) \div SumFunction(w)
  BY <1>4 DEF Mean
<1> HIDE DEF w, gw
<1>6. Mean(g, p) \in Int
  BY <1>1, <1>3, <1>5
<1> QED BY <1>2, <1>3, <1>5, <1>6 DEF w, gw

\* Larger values have no smaller mean.
LEMMA MeanGrows ==
  ASSUME NEW p \in Pixels, NEW S, S \subseteq Neighbours(p), S # {},
         NEW f \in [S -> Int], NEW g \in [S -> Int], \A q \in S : f[q] <= g[q]
  PROVE  Mean(f, p) \in Int /\ Mean(g, p) \in Int /\ Mean(f, p) <= Mean(g, p)
<1> DEFINE w  == [q \in S |-> Weight(p, q)]
           fw == [q \in S |-> f[q] * w[q]]
           gw == [q \in S |-> g[q] * w[q]]
<1>1. /\ IsFiniteSet(S) /\ w \in [S -> Int] /\ \A q \in S : w[q] >= 1
      /\ SumFunction(w) \in Int /\ SumFunction(w) >= 1
  BY Weights
<1>2. /\ fw \in [S -> Int] /\ SumFunction(fw) \in Int
      /\ Mean(f, p) = SumFunction(fw) \div SumFunction(w) /\ Mean(f, p) \in Int
  BY MeanIs
<1>3. /\ gw \in [S -> Int] /\ SumFunction(gw) \in Int
      /\ Mean(g, p) = SumFunction(gw) \div SumFunction(w) /\ Mean(g, p) \in Int
  BY MeanIs
<1>4. \A q \in S : fw[q] <= gw[q]
  <2> SUFFICES ASSUME NEW q \in S PROVE f[q] * w[q] <= g[q] * w[q]
    OBVIOUS
  <2> HIDE DEF w
  <2>1. f[q] \in Int /\ g[q] \in Int /\ w[q] \in Int /\ w[q] >= 1 /\ f[q] <= g[q]
    BY <1>1
  <2>2. \A i, j, k \in Int : i <= j /\ k >= 1 => i * k <= j * k
    OBVIOUS
  <2> QED BY <2>1, <2>2
<1> HIDE DEF w, fw, gw
<1>5. SumFunction(fw) <= SumFunction(gw)
  BY <1>1, <1>2, <1>3, <1>4, SumGrows
<1>6. \A a, b, k \in Int : a <= b /\ k >= 1 => a \div k <= b \div k
  OBVIOUS
<1> QED BY <1>1, <1>2, <1>3, <1>5, <1>6

\* The mean moves with the values.
LEMMA MeanShifts ==
  ASSUME NEW p \in Pixels, NEW S, S \subseteq Neighbours(p), S # {},
         NEW g \in [S -> Int], NEW c \in Int
  PROVE  Mean([q \in S |-> g[q] + c], p) = Mean(g, p) + c
<1> DEFINE w  == [q \in S |-> Weight(p, q)]
           gw == [q \in S |-> g[q] * w[q]]
<1>1. /\ IsFiniteSet(S) /\ w \in [S -> Int] /\ SumFunction(w) \in Int /\ SumFunction(w) >= 1
  BY Weights
<1>2. /\ gw \in [S -> Int] /\ SumFunction(gw) \in Int
      /\ Mean(g, p) = SumFunction(gw) \div SumFunction(w) /\ Mean(g, p) \in Int
  BY MeanIs
<1> DEFINE h  == [q \in S |-> g[q] + c]
           hw == [q \in S |-> h[q] * w[q]]
<1>3. Mean(h, p) = SumFunction(hw) \div SumFunction(w)
  <2>1. h \in [S -> Int]
    OBVIOUS
  <2> HIDE DEF h
  <2> QED BY <2>1, MeanIs
<1>4. hw = [q \in S |-> gw[q] + c * w[q]]
  <2> SUFFICES ASSUME NEW q \in S PROVE (g[q] + c) * w[q] = g[q] * w[q] + c * w[q]
    OBVIOUS
  <2> HIDE DEF w
  <2>1. g[q] \in Int /\ w[q] \in Int
    BY <1>1
  <2>2. \A i, k \in Int : (i + c) * k = i * k + c * k
    OBVIOUS
  <2> QED BY <2>1, <2>2
<1>5. SumFunction(hw) = SumFunction(gw) + c * SumFunction(w)
  <2> HIDE DEF gw, w, hw
  <2> QED BY <1>1, <1>2, <1>4, SumIsLinear
<1> HIDE DEF w, gw, hw
<1>6. \A a, k \in Int : k >= 1 => (a + c * k) \div k = (a \div k) + c
  OBVIOUS
<1> QED BY <1>1, <1>2, <1>3, <1>5, <1>6

\* The mean of values that lie between two numbers does, too.
LEMMA MeanBetween ==
  ASSUME NEW p \in Pixels, NEW S, S \subseteq Neighbours(p), S # {}, NEW g \in [S -> Int],
         NEW low \in Int, NEW high \in Int, \A q \in S : low <= g[q] /\ g[q] <= high
  PROVE  Mean(g, p) \in Int /\ low <= Mean(g, p) /\ Mean(g, p) <= high
<1> DEFINE zero == [q \in S |-> 0]
<1>1. Mean(zero, p) = 0
  <2> DEFINE w == [q \in S |-> Weight(p, q)]
  <2>1. zero \in [S -> Int]
    OBVIOUS
  <2>2. IsFiniteSet(S) /\ w \in [S -> Int] /\ SumFunction(w) \in Int /\ SumFunction(w) >= 1
    BY Weights
  <2>3. Mean(zero, p) = SumFunction([q \in S |-> zero[q] * w[q]]) \div SumFunction(w)
    BY <2>1, MeanIs
  <2>4. [q \in S |-> zero[q] * w[q]] = [q \in S |-> 0]
    BY <2>2
  <2>5. SumFunction([q \in S |-> 0]) = 0
    BY <2>2, SumOfZeros
  <2> HIDE DEF zero, w
  <2> QED BY <2>2, <2>3, <2>4, <2>5
<1>2. ASSUME NEW c \in Int PROVE Mean([q \in S |-> c], p) = c
  <2>1. zero \in [S -> Int] /\ [q \in S |-> zero[q] + c] = [q \in S |-> c]
    OBVIOUS
  <2>2. Mean([q \in S |-> zero[q] + c], p) = Mean(zero, p) + c
    <3> HIDE DEF zero
    <3> QED BY <2>1, MeanShifts
  <2> QED BY <1>1, <2>1, <2>2
<1> DEFINE lows  == [q \in S |-> low]
           highs == [q \in S |-> high]
<1>3. lows \in [S -> Int] /\ highs \in [S -> Int]
  OBVIOUS
<1>4. \A q \in S : lows[q] <= g[q] /\ g[q] <= highs[q]
  OBVIOUS
<1>5. Mean(lows, p) = low /\ Mean(highs, p) = high
  BY <1>2
<1> HIDE DEF lows, highs
<1>6. Mean(lows, p) <= Mean(g, p) /\ Mean(g, p) \in Int
  BY <1>3, <1>4, MeanGrows
<1>7. Mean(g, p) <= Mean(highs, p)
  BY <1>3, <1>4, MeanGrows
<1> QED BY <1>5, <1>6, <1>7

-----------------------------------------------------------------------------
(* The mask works in place.                                                *)

\* The frame, when the entries of `todo` are still to be visited: the visited
\* entries hold what apply() puts there given the frame it was called with.
Partial ==
  [p \in Pixels |->
    IF p \in dead \ todo THEN Inpainted(entered, p, dead) ELSE entered[p]]

IInv ==
  /\ dead \subseteq Pixels /\ todo \subseteq dead
  /\ stage \in {"inpainting", "delivered"} => frame = Partial
  /\ stage # "inpainting" => todo = {}

\* Replacing an entry reads no entry: a frame that has its other pixels from
\* `entered` gives the same as `entered`.
LEMMA ReadsNoEntry ==
  ASSUME NEW f, NEW g, NEW m, NEW p \in m,
         \A q \in Pixels \ m : f[q] = g[q], f[p] = g[p]
  PROVE  Inpainted(f, p, m) = Inpainted(g, p, m)
<1>1. Good(p, m) \subseteq Pixels \ m
  BY DEF Good, Neighbours
<1>2. Restrict(f, Good(p, m)) = Restrict(g, Good(p, m))
  BY <1>1 DEF Restrict
<1> QED
  BY <1>2 DEF Inpainted

\* The typing and the partial replacement hold initially and are kept by every
\* action: the only one that writes a visited frame is Inpaint.
THEOREM Inductive == PipelineSpec => []IInv
<1>1. PipelineInit => IInv
  BY DEF PipelineInit, Init, IInv
<1>2. IInv /\ [PipelineNext]_pipelineVars => IInv'
  <2> SUFFICES ASSUME IInv, [PipelineNext]_pipelineVars PROVE IInv'
    OBVIOUS
  <2> USE DEF IInv
  <2>1. ASSUME NEW m \in Masks, SetMask(m) PROVE IInv'
    <3>1. m \subseteq Pixels
      BY MaskAssumption
    <3> QED BY <2>1, <3>1 DEF SetMask
  <2>2. ASSUME NEW w, Extract(w) PROVE IInv'
    BY <2>2 DEF Extract
  <2>3. ASSUME NEW offset, Correct(offset) PROVE IInv'
    <3>1. dead' \ todo' = {} /\ entered' = frame'
      BY <2>3 DEF Correct
    <3>2. frame' = [p \in Pixels |-> frame'[p]]
      BY <2>3 DEF Correct
    <3>3. frame' = Partial'
      BY <3>1, <3>2 DEF Partial
    <3> QED BY <2>3, <3>3 DEF Correct
  <2>4. ASSUME Inpaint PROVE IInv'
    <3>1. PICK p \in todo :
            /\ frame' = [frame EXCEPT ![p] = Inpainted(frame, p, dead)]
            /\ todo' = todo \ {p}
      BY <2>4 DEF Inpaint
    <3>2. frame = Partial
      BY <2>4 DEF Inpaint
    <3>3. Inpainted(frame, p, dead) = Inpainted(entered, p, dead)
      <4>1. \A q \in Pixels \ dead : frame[q] = entered[q]
        BY <3>2 DEF Partial
      <4>2. frame[p] = entered[p]
        BY <3>2 DEF Partial
      <4> QED BY <4>1, <4>2, ReadsNoEntry
    <3>4. frame' = Partial'
      <4>1. dead' = dead /\ entered' = entered /\ dead \ todo' = (dead \ todo) \union {p}
        BY <2>4, <3>1 DEF Inpaint
      <4>2. DEFINE G == [q \in Pixels |->
                          IF q \in dead \ todo' THEN Inpainted(entered, q, dead) ELSE entered[q]]
      <4>3. frame' = G
        BY <3>1, <3>2, <3>3, <4>1 DEF Partial
      <4> QED BY <4>1, <4>3 DEF Partial
    <3> QED BY <2>4, <3>1, <3>4 DEF Inpaint
  <2>5. ASSUME Deliver PROVE IInv'
    BY <2>5 DEF Deliver, Partial
  <2>6. ASSUME Take PROVE IInv'
    BY <2>6 DEF Take
  <2>7. ASSUME UNCHANGED vars PROVE IInv'
    BY <2>7 DEF vars, Partial
  <2>8. CASE SetCorrections
    BY <2>8, <2>1 DEF SetCorrections
  <2>9. CASE ShutterFrame
    BY <2>9, <2>7 DEF ShutterFrame
  <2>10. CASE ThermalFrame
    BY <2>10, <2>2 DEF ThermalFrame
  <2>11. CASE CorrectAndInpaint
    BY <2>11, <2>3, <2>4 DEF CorrectAndInpaint
  <2>12. CASE DeliverCounts
    BY <2>12, <2>5 DEF DeliverCounts
  <2>13. CASE TakeCounts
    BY <2>13, <2>6 DEF TakeCounts
  <2>14. CASE UNCHANGED pipelineVars
    BY <2>14, <2>7 DEF pipelineVars
  <2> QED BY <2>8, <2>9, <2>10, <2>11, <2>12, <2>13, <2>14 DEF PipelineNext
<1> QED BY <1>1, <1>2, PTL DEF PipelineSpec

\* apply() may replace the masked pixels in place.
THEOREM InPlace == PipelineSpec => []InPlaceIsAtOnce
<1>1. IInv => InPlaceIsAtOnce
  BY DEF IInv, Partial, InPlaceIsAtOnce
<1> QED BY <1>1, Inductive, PTL

-----------------------------------------------------------------------------
(* Every pixel fits its 16 bits, and is filled in from valid neighbours.   *)

\* Of some numbers one is least, and one is greatest.
LEMMA Least ==
  ASSUME NEW D, IsFiniteSet(D), D # {}, NEW g \in [D -> Int]
  PROVE  \E x \in D : \A y \in D : g[x] <= g[y]
<1> DEFINE T == {s \in SUBSET D : s = {} \/ \E x \in s : \A y \in s : g[x] <= g[y]}
<1>1. {} \in T
  OBVIOUS
<1>2. ASSUME NEW s \in SUBSET D, s # {}, s \ {Taken(s)} \in T PROVE s \in T
  <2> DEFINE t == Taken(s)
  <2>1. t \in s
    BY <1>2 DEF Taken
  <2> HIDE DEF t
  <2>2. CASE s \ {t} = {}
    <3>1. \A y \in s : y = t
      BY <2>2
    <3>2. \A y \in s : g[t] <= g[y]
      BY <2>1, <3>1
    <3> QED BY <2>1, <3>2
  <2>3. CASE s \ {t} # {}
    <3>1. PICK x \in s \ {t} : \A y \in s \ {t} : g[x] <= g[y]
      BY <1>2, <2>3 DEF t
    <3>2. g[x] \in Int /\ g[t] \in Int /\ \A y \in s : g[y] \in Int
      BY <2>1
    <3>3. CASE g[x] <= g[t]
      <4>1. \A y \in s : g[x] <= g[y]
        BY <3>1, <3>3
      <4> QED BY <4>1
    <3>4. CASE g[t] < g[x]
      <4>1. \A y \in s : g[t] <= g[y]
        BY <3>1, <3>2, <3>4
      <4> QED BY <2>1, <4>1
    <3> QED BY <3>2, <3>3, <3>4
  <2> QED BY <2>2, <2>3
<1>3. SUBSET D \subseteq T
  <2> HIDE DEF T
  <2> QED BY <1>1, <1>2, EverySubset
<1> QED BY <1>3

LEMMA Greatest ==
  ASSUME NEW D, IsFiniteSet(D), D # {}, NEW g \in [D -> Int]
  PROVE  \E x \in D : \A y \in D : g[y] <= g[x]
<1> DEFINE h == [x \in D |-> 0 - g[x]]
<1>1. h \in [D -> Int]
  OBVIOUS
<1>2. PICK x \in D : \A y \in D : h[x] <= h[y]
  <2> HIDE DEF h
  <2> QED BY <1>1, Least
<1>3. \A y \in D : g[x] \in Int /\ g[y] \in Int /\ 0 - g[x] <= 0 - g[y]
  BY <1>2
<1> QED BY <1>3

\* The samples of a frame.
Samples == 0 .. Saturated

LEMMA SamplesAreInts == Samples \subseteq Int /\ 0 \in Samples /\ Black \in [Pixels -> Samples]
BY MaskAssumption DEF Samples, Black

\* The mean of some neighbours' samples is a sample.
LEMMA MeanIsSample ==
  ASSUME NEW f \in [Pixels -> Samples], NEW p \in Pixels,
         NEW S, S \subseteq Neighbours(p), S # {}
  PROVE  Mean(Restrict(f, S), p) \in Samples
<1> DEFINE g == Restrict(f, S)
<1>1. S \subseteq Pixels
  BY DEF Neighbours
<1>2. g \in [S -> Samples]
  BY <1>1 DEF Restrict
<1> HIDE DEF g
<1>3. g \in [S -> Int] /\ \A q \in S : 0 <= g[q] /\ g[q] <= Saturated
  BY <1>2, MaskAssumption DEF Samples
<1>4. Mean(g, p) \in Int /\ 0 <= Mean(g, p) /\ Mean(g, p) <= Saturated
  <2>1. 0 \in Int /\ Saturated \in Int
    BY MaskAssumption
  <2> QED BY <1>3, <2>1, MeanBetween
<1> QED BY <1>4 DEF g, Samples

LEMMA ExtractTyped ==
  ASSUME NEW w \in [Pixels -> Samples]
  PROVE  extractFrame(w) \in [Pixels -> Samples]
<1> SUFFICES ASSUME NEW p \in Pixels PROVE extractFrame(w)[p] \in Samples
  BY DEF extractFrame
<1> DEFINE valid == {q \in Neighbours(p) : w[q] \notin Sentinels}
<1>1. valid # {} => Mean(Restrict(w, valid), p) \in Samples
  BY MeanIsSample
<1>2. w[p] \in Samples /\ 0 \in Samples
  BY SamplesAreInts
<1> QED BY <1>1, <1>2 DEF extractFrame

LEMMA ClampTyped == \A v \in Int : Clamp(v) \in Samples
BY MaskAssumption DEF Clamp, Samples

LEMMA InpaintTyped ==
  ASSUME NEW f \in [Pixels -> Samples], NEW p \in Pixels, NEW m
  PROVE  Inpainted(f, p, m) \in Samples
<1>1. Good(p, m) \subseteq Neighbours(p)
  BY DEF Good
<1> QED BY <1>1, MeanIsSample DEF Inpainted

\* The mean of a shutter frame, if it has a valid pixel.
LEMMA ShutterMeanTyped ==
  ASSUME NEW f \in [Pixels -> Samples], Valid(f) # {}
  PROVE  /\ IsFiniteSet(Valid(f)) /\ Cardinality(Valid(f)) \in Nat /\ Cardinality(Valid(f)) >= 1
         /\ SumFunction(Restrict(f, Valid(f))) \in Int /\ ShutterMean(f) \in Int
<1> DEFINE V == Valid(f)  g == Restrict(f, V)
<1>1. V \subseteq Pixels
  BY DEF Valid
<1>2. IsFiniteSet(V) /\ Cardinality(V) \in Nat /\ Cardinality(V) >= 1
  <2>1. IsFiniteSet(V)
    BY <1>1, PixelsFinite, FS_Subset
  <2>2. Cardinality(V) \in Nat /\ Cardinality(V) # 0
    BY <2>1, FS_CardinalityType, FS_EmptySet
  <2> QED BY <2>1, <2>2
<1>3. g \in [V -> Int]
  BY <1>1, SamplesAreInts DEF Restrict
<1>4. SumFunction(g) \in Int
  <2> HIDE DEF g, V
  <2>1. \A x \in V : g[x] <= g[x]
    BY <1>3
  <2> QED BY <1>2, <1>3, <2>1, SumGrows
<1>5. ShutterMean(f) = SumFunction(g) \div Cardinality(V)
  BY DEF ShutterMean
<1> HIDE DEF g, V
<1>6. ShutterMean(f) \in Int
  BY <1>2, <1>4, <1>5
<1> QED BY <1>2, <1>4, <1>6 DEF g, V

LEMMA OffsetsTyped ==
  ASSUME NEW f \in [Pixels -> Samples], NEW old \in [Pixels -> Int]
  PROVE  applyShutterReference(f, old) \in [Pixels -> Int]
<1>1. CASE Valid(f) = {}
  BY <1>1 DEF applyShutterReference
<1>2. CASE Valid(f) # {}
  <2>1. ShutterMean(f) \in Int
    BY <1>2, ShutterMeanTyped
  <2>2. \A p \in Pixels : f[p] \in Int
    BY SamplesAreInts
  <2> QED BY <1>2, <2>1, <2>2 DEF applyShutterReference
<1> QED BY <1>1, <1>2

\* What a sensor sends are samples.
LEMMA WireTyped ==
  ASSUME NEW s \in Sensors, NEW level \in Levels, NEW d \in Drifts \cup {0}
  PROVE  /\ Wire(s, level, s.shading, d) \in [Pixels -> Samples]
         /\ Blade(s, level, d) \in [Pixels -> Samples]
<1>1. \A p \in Pixels : p \notin s.stuck =>
        Blade(s, level, d)[p] \in Samples /\ Wire(s, level, s.shading, d)[p] \in Samples
  <2>1. 1 .. Saturated - 1 \subseteq Samples
    BY MaskAssumption DEF Samples
  <2>2. \A p \in Pixels : p \notin s.stuck =>
          {Blade(s, level, d)[p], Wire(s, level, s.shading, d)[p]} \subseteq 1 .. Saturated - 1
    BY RangeAssumption
  <2> QED BY <2>1, <2>2
<1>2. Saturated \in Samples
  BY MaskAssumption DEF Samples
<1>3. \A p \in Pixels : p \in s.stuck =>
        Blade(s, level, d)[p] = Saturated /\ Wire(s, level, s.shading, d)[p] = Saturated
  BY DEF Blade, Wire
<1>4. \A p \in Pixels :
        Blade(s, level, d)[p] \in Samples /\ Wire(s, level, s.shading, d)[p] \in Samples
  BY <1>1, <1>2, <1>3
<1>5. /\ Blade(s, level, d) = [p \in Pixels |-> Blade(s, level, d)[p]]
      /\ Wire(s, level, s.shading, d) = [p \in Pixels |-> Wire(s, level, s.shading, d)[p]]
  BY DEF Blade, Wire
<1> QED BY <1>4, <1>5

\* Between two steps, the types of everything; which set the frame in hand is extracted
\* from; and what comes out at the end.
SInv ==
  /\ PipelineTypeOK
  /\ vignette \in Vignettes \cup {Unset} /\ anchor \in {Pad + d : d \in Drifts}
  /\ stage = "extracted" => frame = extractFrame(wire)
  /\ stage = "delivered" => counts = Compensated(Flattened(frame))

LEMMA DeliveredTyped ==
  ASSUME SInv
  PROVE  Compensated(Flattened(frame)) \in [Pixels -> Samples]
<1>1. Flattened(frame) \in [Pixels -> Samples]
  <2>1. CASE vignette = Unset
    BY <2>1 DEF Flattened, SInv, PipelineTypeOK, Samples
  <2>2. CASE vignette # Unset
    <3>1. vignette \in Vignettes /\ frame \in [Pixels -> Samples]
      BY <2>2 DEF SInv, PipelineTypeOK, Samples
    <3>2. \A p \in Pixels : frame[p] - vignette.model[p] + vignette.mean_model \in Int
      <4>1. vignette.model \in [Pixels -> Int] /\ vignette.mean_model \in Int
        BY <3>1, PipelineAssumption
      <4>2. \A p \in Pixels : frame[p] \in Int /\ vignette.model[p] \in Int
        BY <3>1, <4>1, SamplesAreInts
      <4> QED BY <4>1, <4>2
    <3> QED BY <2>2, <3>2, ClampTyped DEF Flattened
  <2> QED BY <2>1, <2>2
<1> DEFINE f == Flattened(frame)
<1> HIDE DEF f
<1>2. f \in [Pixels -> Samples]
  BY <1>1 DEF f
<1>3. Gain * (pad - anchor) \in Int
  <2>1. pad \in Int /\ anchor \in Int /\ Gain \in Int
    BY PipelineAssumption DEF SInv, PipelineTypeOK
  <2> QED BY <2>1
<1>4. \A p \in Pixels : f[p] - Gain * (pad - anchor) \in Int
  <2>1. \A p \in Pixels : f[p] \in Int
    BY <1>2, SamplesAreInts
  <2>2. \A i, j \in Int : i - j \in Int
    OBVIOUS
  <2> QED BY <1>3, <2>1, <2>2
<1>5. Compensated(f) \in [Pixels -> Samples]
  BY <1>2, <1>4, ClampTyped DEF Compensated
<1> QED BY <1>5 DEF f

\* Every action keeps the types: means of samples are samples, sums are clamped.
THEOREM SamplesInductive == PipelineSpec => []SInv
<1>1. PipelineInit => SInv
  <2> SUFFICES ASSUME PipelineInit PROVE SInv
    OBVIOUS
  <2>1. PICK level \in Levels, d \in Drifts :
          offsets = applyShutterReference(extractFrame(Blade(sensor, level, d)), Black)
    BY DEF PipelineInit
  <2>2. Blade(sensor, level, d) \in [Pixels -> Samples]
    BY WireTyped DEF PipelineInit
  <2>3. Black \in [Pixels -> Int] /\ Black \in [Pixels -> Samples]
    BY SamplesAreInts
  <2>4. offsets \in [Pixels -> Int]
    BY <2>1, <2>2, <2>3, ExtractTyped, OffsetsTyped
  <2>5. PipelineTypeOK
    BY <2>3, <2>4 DEF PipelineInit, Init, PipelineTypeOK, Samples
  <2> QED BY <2>5 DEF PipelineInit, Init, SInv
<1>2. SInv /\ IInv /\ [PipelineNext]_pipelineVars => SInv'
  <2> SUFFICES ASSUME SInv, IInv, [PipelineNext]_pipelineVars PROVE SInv'
    OBVIOUS
  <2> USE DEF SInv, PipelineTypeOK
  <2>0. {wire, frame, entered, counts} \subseteq [Pixels -> Samples] /\ offsets \in [Pixels -> Int]
    BY DEF Samples
  <2>1. CASE SetCorrections
    <3>1. PICK m \in Masks : SetMask(m)
      BY <2>1 DEF SetCorrections
    <3>2. m \subseteq Pixels
      BY MaskAssumption
    <3> QED BY <2>1, <3>1, <3>2 DEF SetCorrections, SetMask, IInv
  <2>2. CASE ShutterFrame
    <3>1. PICK w \in {Blade(sensor, level, d) : level \in Levels, d \in Drifts} \cup {Black} :
            offsets' = applyShutterReference(extractFrame(w), offsets)
      BY <2>2 DEF ShutterFrame
    <3>2. w \in [Pixels -> Samples]
      BY WireTyped, SamplesAreInts
    <3>3. offsets' \in [Pixels -> Int]
      BY <2>0, <3>1, <3>2, ExtractTyped, OffsetsTyped
    <3> QED BY <2>2, <3>3 DEF ShutterFrame, vars
  <2>3. CASE ThermalFrame
    <3>1. ASSUME NEW w \in [Pixels -> Samples], Extract(w), pad' \in Nat PROVE SInv'
      <4>1. extractFrame(w) \in [Pixels -> Samples]
        BY ExtractTyped
      <4>2. {wire', frame', entered', counts'} \subseteq [Pixels -> Samples]
        BY <2>0, <2>3, <3>1, <4>1 DEF Extract, ThermalFrame
      <4> QED BY <2>3, <3>1, <4>2 DEF Extract, ThermalFrame, Samples
    <3>2. CASE \E level \in Levels, d \in Drifts :
                 /\ Extract(Wire(sensor, level, sensor.shading, d))
                 /\ scene' = [level |-> level, drift |-> d] /\ pad' \in {0, Pad + d}
      <4>1. PICK level \in Levels, d \in Drifts :
              Extract(Wire(sensor, level, sensor.shading, d)) /\ pad' \in {0, Pad + d}
        BY <3>2
      <4>2. pad' \in Nat
        BY <4>1, PipelineAssumption
      <4> QED BY <3>1, <4>1, <4>2, WireTyped
    <3>3. CASE \E w \in Noise : Extract(w) /\ scene' = Unset /\ pad' = 0
      BY <3>1, <3>3, PipelineAssumption DEF Samples
    <3> QED BY <2>3, <3>2, <3>3 DEF ThermalFrame
  <2>4. ASSUME CorrectAndInpaint, NEW offset \in {offsets, Black}, Correct(offset) PROVE SInv'
    <3>1. offset \in [Pixels -> Int]
      BY <2>0, SamplesAreInts
    <3>2. \A p \in Pixels : frame[p] + offset[p] \in Int
      BY <2>0, <3>1, SamplesAreInts
    <3>3. frame' \in [Pixels -> Samples] /\ entered' = frame'
      BY <2>4, <3>2, ClampTyped DEF Correct
    <3>4. {wire', frame', entered', counts'} \subseteq [Pixels -> Samples]
      BY <2>0, <2>4, <3>3 DEF Correct, CorrectAndInpaint
    <3> QED BY <2>4, <3>4 DEF Correct, CorrectAndInpaint, Samples
  <2>5. ASSUME CorrectAndInpaint, Inpaint PROVE SInv'
    <3>1. PICK p \in todo : frame' = [frame EXCEPT ![p] = Inpainted(frame, p, dead)]
                           /\ todo' = todo \ {p}
      BY <2>5 DEF Inpaint
    <3>2. frame' \in [Pixels -> Samples]
      BY <2>0, <3>1, InpaintTyped
    <3>3. {wire', frame', entered', counts'} \subseteq [Pixels -> Samples]
      BY <2>0, <2>5, <3>2 DEF Inpaint, CorrectAndInpaint
    <3> QED BY <2>5, <3>1, <3>3 DEF Inpaint, CorrectAndInpaint, Samples
  <2>6. CASE CorrectAndInpaint
    BY <2>4, <2>5, <2>6 DEF CorrectAndInpaint
  <2>7. CASE DeliverCounts
    <3>1. counts' \in [Pixels -> Samples] /\ counts' = Compensated(Flattened(frame))
      BY <2>7, DeliveredTyped DEF DeliverCounts
    <3>2. counts' = Compensated(Flattened(frame))'
      BY <2>7, <3>1 DEF DeliverCounts, Deliver, Compensated, Flattened
    <3>3. {wire', frame', entered', counts'} \subseteq [Pixels -> Samples]
      BY <2>0, <2>7, <3>1 DEF Deliver, DeliverCounts
    <3> QED BY <2>7, <3>2, <3>3 DEF DeliverCounts, Deliver, Samples
  <2>8. CASE TakeCounts
    <3>1. {wire', frame', entered', counts'} \subseteq [Pixels -> Samples]
      BY <2>8, SamplesAreInts DEF Take, TakeCounts
    <3> QED BY <2>8, <3>1 DEF TakeCounts, Take, Samples
  <2>9. CASE UNCHANGED pipelineVars
    BY <2>9 DEF pipelineVars, vars, Compensated, Flattened
  <2> QED BY <2>1, <2>2, <2>3, <2>6, <2>7, <2>8, <2>9 DEF PipelineNext
<1> QED BY <1>1, <1>2, Inductive, PTL DEF PipelineSpec

\* No sum, mean or correction leaves the 16 bits of a sample.
THEOREM SamplesFit == PipelineSpec => []PipelineTypeOK
<1>1. SInv => PipelineTypeOK
  BY DEF SInv
<1> QED BY <1>1, SamplesInductive, PTL

\* A pixel that is filled in lies between its valid neighbours.
THEOREM Filled == PipelineSpec => []FilledFromValid
<1>1. SInv => FilledFromValid
  <2> SUFFICES ASSUME SInv, stage = "extracted", NEW p \in Pixels, wire[p] \in Sentinels,
                      NEW valid, valid = {n \in Neighbours(p) : wire[n] \notin Sentinels},
                      {wire[q] : q \in valid} # {}
               PROVE  \E low, high \in {wire[q] : q \in valid} : low <= frame[p] /\ frame[p] <= high
    BY DEF FilledFromValid
  <2> DEFINE g == Restrict(wire, valid)
  <2>1. wire \in [Pixels -> Samples] /\ frame = extractFrame(wire)
    BY DEF SInv, PipelineTypeOK, Samples
  <2>2. valid \subseteq Neighbours(p) /\ valid \subseteq Pixels /\ valid # {}
    BY DEF Neighbours
  <2>3. g \in [valid -> Int] /\ IsFiniteSet(valid) /\ \A q \in valid : g[q] = wire[q]
    BY <2>1, <2>2, SamplesAreInts, PixelsFinite, FS_Subset DEF Restrict
  <2>4. frame[p] = Mean(g, p)
    BY <2>1, <2>2 DEF extractFrame
  <2> HIDE DEF g
  <2>5. PICK a \in valid : \A q \in valid : g[a] <= g[q]
    BY <2>2, <2>3, Least
  <2>6. PICK b \in valid : \A q \in valid : g[q] <= g[b]
    BY <2>2, <2>3, Greatest
  <2>7. g[a] \in Int /\ g[b] \in Int
    BY <2>3
  <2>8. g[a] <= Mean(g, p) /\ Mean(g, p) <= g[b]
    BY <2>2, <2>3, <2>5, <2>6, <2>7, MeanBetween
  <2> QED BY <2>3, <2>4, <2>8
<1> QED BY <1>1, SamplesInductive, PTL

-----------------------------------------------------------------------------
(* A uniform scene comes out uniform.                                      *)

\* The neighbours that a stuck pixel is filled in from.
Working(s, p) == Neighbours(p) \ s.stuck

\* A sensor's transfer of a uniform scene, or of the blade, and what is extracted of it.
LEMMA UniformWire ==
  ASSUME NEW s \in Sensors, NEW level \in Levels, NEW d \in Drifts \cup {0},
         NEW shading \in {Black, s.shading}, NEW w, w = Wire(s, level, shading, d)
  PROVE  /\ s.pattern \in [Pixels -> Int] /\ shading \in [Pixels -> Int]
         /\ level \in Int /\ Gain * d \in Int /\ w \in [Pixels -> Samples]
         /\ \A p \in Pixels : p \notin s.stuck =>
              /\ w[p] = level + shading[p] - s.pattern[p] + Gain * d
              /\ w[p] \in 1 .. Saturated - 1 /\ extractFrame(w)[p] = w[p]
         /\ \A p \in Pixels : p \in s.stuck =>
              /\ Working(s, p) # {} /\ Working(s, p) \subseteq Neighbours(p)
              /\ extractFrame(w)[p] = Mean(Restrict(w, Working(s, p)), p)
<1>1. /\ s.pattern \in [Pixels -> Int] /\ shading \in [Pixels -> Int]
      /\ level \in Int /\ Gain * d \in Int
  <2>1. Black \in [Pixels -> Int]
    BY SamplesAreInts
  <2>2. {s.pattern, s.shading} \subseteq [Pixels -> Int]
    BY PipelineAssumption
  <2>3. level \in Int /\ Gain \in Int /\ d \in Int
    BY PipelineAssumption
  <2> QED BY <2>1, <2>2, <2>3
<1>2. w \in [Pixels -> Samples]
  BY WireTyped DEF Blade
<1>3. ASSUME NEW p \in Pixels, p \notin s.stuck
      PROVE  w[p] = level + shading[p] - s.pattern[p] + Gain * d /\ w[p] \in 1 .. Saturated - 1
  <2>1. w[p] = level + shading[p] - s.pattern[p] + Gain * d
    BY <1>3 DEF Wire
  <2>2. {Blade(s, level, d)[p], Wire(s, level, s.shading, d)[p]} \subseteq 1 .. Saturated - 1
    BY <1>3, RangeAssumption
  <2> QED BY <2>1, <2>2 DEF Blade
<1>4. \A p \in Pixels : w[p] \in Sentinels <=> p \in s.stuck
  <2>1. \A p \in Pixels : p \in s.stuck => w[p] = Saturated
    BY DEF Wire
  <2>2. \A i \in 1 .. Saturated - 1 : i \notin Sentinels
    BY MaskAssumption DEF Sentinels
  <2> QED BY <1>3, <2>1, <2>2 DEF Sentinels
<1>5. ASSUME NEW p \in Pixels, p \notin s.stuck PROVE extractFrame(w)[p] = w[p]
  BY <1>4, <1>5 DEF extractFrame
<1>6. ASSUME NEW p \in Pixels, p \in s.stuck
      PROVE  /\ Working(s, p) # {} /\ Working(s, p) \subseteq Neighbours(p)
             /\ extractFrame(w)[p] = Mean(Restrict(w, Working(s, p)), p)
  <2>1. Working(s, p) # {}
    BY <1>6, PipelineAssumption DEF Working
  <2>2. {q \in Neighbours(p) : w[q] \notin Sentinels} = Working(s, p)
    BY <1>4 DEF Working, Neighbours
  <2>3. w[p] \in Sentinels
    BY <1>4, <1>6
  <2> QED BY <2>1, <2>2, <2>3 DEF extractFrame, Working
<1> QED BY <1>1, <1>2, <1>3, <1>5, <1>6

\* What a pixel of the frame reads if its neighbours, or it, read c more, or between low
\* and high more.
LEMMA ExtractMoves ==
  ASSUME NEW s \in Sensors, NEW level \in Levels, NEW d \in Drifts \cup {0},
         NEW shading \in {Black, s.shading},
         NEW level2 \in Levels, NEW d2 \in Drifts \cup {0}, NEW low \in Int, NEW high \in Int,
         \A p \in Pixels : low <= shading[p] /\ shading[p] <= high, NEW p \in Pixels
  PROVE  LET f    == extractFrame(Wire(s, level, shading, d))
             b    == extractFrame(Blade(s, level2, d2))
             more == level - level2 + Gain * d - Gain * d2
         IN  /\ f[p] \in Int /\ b[p] \in Int
             /\ p \notin s.stuck => f[p] = b[p] + more + shading[p]
             /\ b[p] + more + low <= f[p] /\ f[p] <= b[p] + more + high
<1> DEFINE v    == Wire(s, level, shading, d)
           w    == Wire(s, level2, Black, d2)
           more == level - level2 + Gain * d - Gain * d2
<1>1. /\ s.pattern \in [Pixels -> Int] /\ shading \in [Pixels -> Int]
      /\ level \in Int /\ Gain * d \in Int /\ v \in [Pixels -> Samples]
      /\ \A q \in Pixels : q \notin s.stuck =>
              /\ v[q] = level + shading[q] - s.pattern[q] + Gain * d
              /\ extractFrame(v)[q] = v[q]
      /\ p \in s.stuck =>
           /\ Working(s, p) # {} /\ Working(s, p) \subseteq Neighbours(p)
           /\ extractFrame(v)[p] = Mean(Restrict(v, Working(s, p)), p)
  BY UniformWire
<1>2. /\ level2 \in Int /\ Gain * d2 \in Int /\ w \in [Pixels -> Samples]
      /\ \A q \in Pixels : q \notin s.stuck =>
              /\ w[q] = level2 + Black[q] - s.pattern[q] + Gain * d2
              /\ extractFrame(w)[q] = w[q]
      /\ p \in s.stuck => extractFrame(w)[p] = Mean(Restrict(w, Working(s, p)), p)
  BY UniformWire
<1> HIDE DEF v, w
<1>3. more \in Int
  BY <1>1, <1>2
<1>4. ASSUME NEW q \in Pixels, q \notin s.stuck
      PROVE  /\ v[q] = w[q] + more + shading[q] /\ w[q] \in Int /\ shading[q] \in Int
             /\ v[q] \in Int
             /\ w[q] + (more + low) <= v[q] /\ v[q] <= w[q] + (more + high)
  <2>1. Black[q] = 0
    BY DEF Black
  <2>2. /\ v[q] = level + shading[q] - s.pattern[q] + Gain * d
        /\ w[q] = level2 + 0 - s.pattern[q] + Gain * d2
    BY <1>1, <1>2, <1>4, <2>1
  <2>3. shading[q] \in Int /\ s.pattern[q] \in Int /\ low <= shading[q] /\ shading[q] <= high
    BY <1>1
  <2>4. \A a, b, c, e, x, y \in Int : a + x - y + c = (b + 0 - y + e) + (a - b + c - e) + x
    OBVIOUS
  <2>5. v[q] = w[q] + more + shading[q]
    BY <1>1, <1>2, <2>2, <2>3, <2>4
  <2>6. v[q] \in Int /\ w[q] \in Int
    BY <1>1, <1>2, SamplesAreInts
  <2> HIDE DEF more
  <2> QED BY <1>3, <2>3, <2>5, <2>6
<1>5. CASE p \notin s.stuck
  <2>1. extractFrame(v)[p] = v[p] /\ extractFrame(w)[p] = w[p]
    BY <1>1, <1>2, <1>5
  <2>2. /\ v[p] = w[p] + more + shading[p] /\ w[p] \in Int /\ shading[p] \in Int
        /\ low <= shading[p] /\ shading[p] <= high
    BY <1>4, <1>5
  <2> HIDE DEF more
  <2>3. v[p] \in Int /\ w[p] + more + low <= v[p] /\ v[p] <= w[p] + more + high
    BY <1>3, <2>2
  <2> QED BY <1>5, <2>1, <2>2, <2>3 DEF v, w, Blade, more
<1>6. CASE p \in s.stuck
  <2> DEFINE S == Working(s, p)
             g == Restrict(w, S)
             h == Restrict(v, S)
  <2>1. S # {} /\ S \subseteq Neighbours(p) /\ S \subseteq Pixels
    BY <1>1, <1>6 DEF Working, Neighbours
  <2>2. extractFrame(v)[p] = Mean(h, p) /\ extractFrame(w)[p] = Mean(g, p)
    BY <1>1, <1>2, <1>6
  <2>3. \A q \in S : q \in Pixels /\ q \notin s.stuck
    BY <2>1 DEF Working
  <2> HIDE DEF more, S
  <2>4. g \in [S -> Int] /\ h \in [S -> Int]
    BY <1>4, <2>3 DEF Restrict
  <2>5. \A q \in S : g[q] + (more + low) <= h[q] /\ h[q] <= g[q] + (more + high)
    BY <1>4, <2>3 DEF Restrict
  <2> HIDE DEF g, h
  <2> DEFINE lows  == [q \in S |-> g[q] + (more + low)]
             highs == [q \in S |-> g[q] + (more + high)]
  <2>6. more + low \in Int /\ more + high \in Int
    BY <1>3
  <2>7. Mean(lows, p) = Mean(g, p) + (more + low) /\ Mean(highs, p) = Mean(g, p) + (more + high)
    BY <2>1, <2>4, <2>6, MeanShifts
  <2>8. lows \in [S -> Int] /\ highs \in [S -> Int]
    BY <2>4, <2>6
  <2>9. \A q \in S : lows[q] <= h[q] /\ h[q] <= highs[q]
    BY <2>5
  <2> HIDE DEF lows, highs
  <2>10. Mean(lows, p) <= Mean(h, p) /\ Mean(h, p) <= Mean(highs, p) /\ Mean(h, p) \in Int
    BY <2>1, <2>4, <2>8, <2>9, MeanGrows
  <2>11. Mean(g, p) \in Int
    BY <2>1, <2>4, MeanGrows, \A q \in S : g[q] <= g[q]
  <2>12. /\ Mean(g, p) + more + low <= Mean(h, p)
         /\ Mean(h, p) <= Mean(g, p) + more + high
    BY <1>3, <2>7, <2>10, <2>11
  <2> QED BY <1>6, <2>2, <2>10, <2>11, <2>12 DEF v, w, Blade, more
<1> QED BY <1>5, <1>6

\* Every pixel of the blade is valid when it is extracted, the stuck ones too.
LEMMA BladeValid ==
  ASSUME NEW s \in Sensors, NEW level \in Levels, NEW d \in Drifts \cup {0}
  PROVE  LET f == extractFrame(Blade(s, level, d))
         IN  f \in [Pixels -> Samples] /\ Valid(f) = Pixels
<1> DEFINE w == Wire(s, level, Black, d)
           f == extractFrame(w)
<1>1. /\ w \in [Pixels -> Samples]
      /\ \A p \in Pixels : p \notin s.stuck => w[p] \in 1 .. Saturated - 1 /\ f[p] = w[p]
      /\ \A p \in Pixels : p \in s.stuck =>
           /\ Working(s, p) # {} /\ Working(s, p) \subseteq Neighbours(p)
           /\ f[p] = Mean(Restrict(w, Working(s, p)), p)
  BY UniformWire
<1>2. f \in [Pixels -> Samples]
  BY <1>1, ExtractTyped
<1> HIDE DEF w, f
<1>3. ASSUME NEW p \in Pixels PROVE f[p] \in 1 .. Saturated - 1
  <2>1. CASE p \notin s.stuck
    BY <1>1, <2>1
  <2>2. CASE p \in s.stuck
    <3> DEFINE S == Working(s, p)
               g == Restrict(w, S)
    <3>1. S # {} /\ S \subseteq Neighbours(p) /\ f[p] = Mean(g, p)
      BY <1>1, <2>2
    <3>2. \A q \in S : q \in Pixels /\ w[q] \in 1 .. Saturated - 1
      BY <1>1 DEF Working, Neighbours
    <3> HIDE DEF S
    <3>3. g \in [S -> Int] /\ \A q \in S : 1 <= g[q] /\ g[q] <= Saturated - 1
      BY <3>2, MaskAssumption DEF Restrict
    <3> HIDE DEF g
    <3>4. Saturated - 1 \in Int
      BY MaskAssumption
    <3>5. Mean(g, p) \in Int /\ 1 <= Mean(g, p) /\ Mean(g, p) <= Saturated - 1
      BY <3>1, <3>3, <3>4, MeanBetween
    <3> QED BY <3>1, <3>4, <3>5
  <2> QED BY <2>1, <2>2
<1>4. \A i \in 1 .. Saturated - 1 : i \notin Sentinels
  BY MaskAssumption DEF Sentinels
<1>5. Valid(f) = Pixels
  BY <1>3, <1>4 DEF Valid
<1> QED BY <1>2, <1>5 DEF w, f, Blade

\* The mean of a frame of valid pixels that all read c more is c more.
LEMMA ShutterMeanMoves ==
  ASSUME NEW f \in [Pixels -> Samples], NEW g \in [Pixels -> Samples], NEW c \in Int,
         Valid(f) = Pixels, Valid(g) = Pixels, Pixels # {},
         \A p \in Pixels : g[p] = f[p] + c
  PROVE  ShutterMean(g) = ShutterMean(f) + c
<1> DEFINE ones == [p \in Pixels |-> 1]
<1>1. Restrict(f, Pixels) = f /\ Restrict(g, Pixels) = g
  BY DEF Restrict
<1>2. f \in [Pixels -> Int] /\ ones \in [Pixels -> Int]
  <2>1. f \in [Pixels -> Int]
    BY SamplesAreInts
  <2> QED BY <2>1
<1>3. g = [p \in Pixels |-> f[p] + c * ones[p]]
  <2>1. \A p \in Pixels : ones[p] = 1
    OBVIOUS
  <2> HIDE DEF ones
  <2>2. \A p \in Pixels : g[p] = f[p] + c * ones[p]
    BY <2>1
  <2> QED BY <2>2
<1>4. SumFunction(ones) = Cardinality(Pixels)
  BY PixelsFinite, SumOfOnes
<1> HIDE DEF ones
<1>5. SumFunction(g) = SumFunction(f) + c * SumFunction(ones)
  BY <1>2, <1>3, PixelsFinite, SumIsLinear
<1>6. /\ Cardinality(Pixels) \in Nat /\ Cardinality(Pixels) >= 1
      /\ SumFunction(f) \in Int
  BY <1>1, ShutterMeanTyped
<1>7. /\ ShutterMean(f) = SumFunction(f) \div Cardinality(Pixels)
      /\ ShutterMean(g) = SumFunction(g) \div Cardinality(Pixels)
  BY <1>1 DEF ShutterMean
<1>8. \A a, k \in Int : k >= 1 => (a + c * k) \div k = (a \div k) + c
  OBVIOUS
<1>9. (SumFunction(f) + c * Cardinality(Pixels)) \div Cardinality(Pixels)
        = (SumFunction(f) \div Cardinality(Pixels)) + c
  <2>1. Cardinality(Pixels) \in Int
    BY <1>6
  <2> QED BY <1>6, <1>8, <2>1, Zenon
<1> QED BY <1>4, <1>5, <1>7, <1>9

\* The offsets that take the fixed pattern away.
Offset(s, level, p) ==
  ShutterMean(extractFrame(Blade(s, level, 0))) - extractFrame(Blade(s, level, 0))[p]

\* They are those of every blade: neither its temperature nor the drift shows in them.
LEMMA BladeOffsets ==
  ASSUME NEW s \in Sensors, NEW level \in Levels, NEW d \in Drifts,
         NEW level2 \in Levels, NEW old, NEW p \in Pixels
  PROVE  applyShutterReference(extractFrame(Blade(s, level, d)), old)[p] = Offset(s, level2, p)
<1> DEFINE f    == extractFrame(Blade(s, level, d))
           b    == extractFrame(Blade(s, level2, 0))
           more == level - level2 + Gain * d - Gain * 0
<1>1. ASSUME NEW q \in Pixels
      PROVE  f[q] = b[q] + more /\ f[q] \in Int /\ b[q] \in Int
  <2>1. \A x \in Pixels : 0 <= Black[x] /\ Black[x] <= 0
    BY DEF Black
  <2>2. f[q] \in Int /\ b[q] \in Int /\ b[q] + more + 0 <= f[q] /\ f[q] <= b[q] + more + 0
    BY <2>1, ExtractMoves DEF Blade
  <2>3. more \in Int
    BY PipelineAssumption
  <2> HIDE DEF f, b, more
  <2> QED BY <2>2, <2>3
<1>2. more \in Int
  BY PipelineAssumption
<1>3. f \in [Pixels -> Samples] /\ Valid(f) = Pixels /\ b \in [Pixels -> Samples] /\ Valid(b) = Pixels
  BY BladeValid
<1> HIDE DEF more
<1>4. ShutterMean(f) = ShutterMean(b) + more
  <2> HIDE DEF f, b
  <2> QED BY <1>1, <1>2, <1>3, ShutterMeanMoves
<1>5. ShutterMean(b) \in Int
  <2> HIDE DEF b
  <2> QED BY <1>3, ShutterMeanTyped
<1>6. applyShutterReference(f, old)[p] = ShutterMean(f) - f[p]
  <2> HIDE DEF f
  <2> QED BY <1>3 DEF applyShutterReference
<1>7. Offset(s, level2, p) = ShutterMean(b) - b[p]
  BY DEF Offset
<1>8. f[p] = b[p] + more /\ b[p] \in Int
  BY <1>1
<1>9. \A i, j, c \in Int : (i + c) - (j + c) = i - j
  OBVIOUS
<1> HIDE DEF f, b
<1>10. applyShutterReference(f, old)[p] = Offset(s, level2, p)
  BY <1>2, <1>4, <1>5, <1>6, <1>7, <1>8, <1>9
<1> QED BY <1>10 DEF f

\* An offset does not depend on the level it is taken at, and is a number.
LEMMA OffsetTyped ==
  ASSUME NEW s \in Sensors, NEW level \in Levels, NEW p \in Pixels
  PROVE  /\ Offset(s, level, p) \in Int /\ PatternMean(s, level) \in Int
         /\ extractFrame(Blade(s, level, 0))[p] \in Int
         /\ Offset(s, level, p) = PatternMean(s, level) + level - extractFrame(Blade(s, level, 0))[p]
<1> DEFINE b == extractFrame(Blade(s, level, 0))
<1>1. b \in [Pixels -> Samples] /\ Valid(b) = Pixels
  BY BladeValid
<1>2. /\ Offset(s, level, p) = ShutterMean(b) - b[p]
      /\ PatternMean(s, level) = ShutterMean(b) - level
  BY DEF Offset, PatternMean
<1>3. level \in Int
  BY PipelineAssumption
<1> HIDE DEF b
<1>4. ShutterMean(b) \in Int /\ b[p] \in Int
  BY <1>1, ShutterMeanTyped, SamplesAreInts
<1>5. /\ Offset(s, level, p) \in Int /\ PatternMean(s, level) \in Int /\ b[p] \in Int
      /\ Offset(s, level, p) = PatternMean(s, level) + level - b[p]
  BY <1>2, <1>3, <1>4
<1> QED BY <1>5 DEF b

\* The offsets are those of the sensor, whatever its last shutter frame was; and where the
\* frame in hand comes from, until it is taken.
UInv ==
  /\ \A level \in Levels, p \in Pixels : offsets[p] = Offset(sensor, level, p)
  /\ stage # "idle" /\ scene # Unset =>
       /\ scene.level \in Levels /\ scene.drift \in Drifts /\ pad \in {0, Pad + scene.drift}
       /\ wire = Wire(sensor, scene.level, sensor.shading, scene.drift)
       /\ stage \in {"inpainting", "delivered"} /\ ffcOn =>
            entered = [p \in Pixels |-> Clamp(extractFrame(wire)[p] + offsets[p])]

\* Whatever shutter cycles came before, the offsets cancel the pattern of the sensor.
THEOREM UniformInductive == PipelineSpec => []UInv
<1>1. PipelineInit => UInv
  <2> SUFFICES ASSUME PipelineInit PROVE UInv
    OBVIOUS
  <2>1. PICK level \in Levels, d \in Drifts :
          offsets = applyShutterReference(extractFrame(Blade(sensor, level, d)), Black)
    BY DEF PipelineInit
  <2>2. sensor \in Sensors
    BY DEF PipelineInit
  <2>3. \A l \in Levels, p \in Pixels : offsets[p] = Offset(sensor, l, p)
    BY <2>1, <2>2, BladeOffsets
  <2> QED BY <2>3 DEF PipelineInit, Init, UInv
<1>2. UInv /\ SInv /\ [PipelineNext]_pipelineVars => UInv'
  <2> SUFFICES ASSUME UInv, SInv, [PipelineNext]_pipelineVars PROVE UInv'
    OBVIOUS
  <2>0. sensor \in Sensors /\ driftOn \in BOOLEAN /\ ffcOn \in BOOLEAN
    BY DEF SInv, PipelineTypeOK
  <2> USE DEF UInv
  <2>1. CASE SetCorrections
    BY <2>1 DEF SetCorrections, SetMask
  <2>2. CASE ShutterFrame
    <3>1. PICK w \in {Blade(sensor, level, d) : level \in Levels, d \in Drifts} \cup {Black} :
            offsets' = applyShutterReference(extractFrame(w), offsets)
      BY <2>2 DEF ShutterFrame
    <3>2. CASE w = Black
      <4>1. \A p \in Pixels : extractFrame(w)[p] = 0
        BY <3>2 DEF extractFrame, Black, Sentinels, Neighbours
      <4>2. Valid(extractFrame(w)) = {}
        BY <4>1 DEF Valid, Sentinels
      <4>3. offsets' = offsets
        BY <3>1, <4>2 DEF applyShutterReference
      <4> QED BY <2>2, <4>3 DEF ShutterFrame, vars
    <3>3. CASE w # Black
      <4>1. PICK level \in Levels, d \in Drifts : w = Blade(sensor, level, d)
        BY <3>3
      <4>2. \A l \in Levels, p \in Pixels : offsets'[p] = Offset(sensor, l, p)
        BY <2>0, <3>1, <4>1, BladeOffsets
      <4> QED BY <2>2, <4>2 DEF ShutterFrame, vars
    <3> QED BY <3>2, <3>3
  <2>3. CASE ThermalFrame
    <3>1. CASE \E level \in Levels, d \in Drifts :
                 /\ Extract(Wire(sensor, level, sensor.shading, d))
                 /\ scene' = [level |-> level, drift |-> d] /\ pad' \in {0, Pad + d}
      BY <2>3, <3>1 DEF ThermalFrame, Extract
    <3>2. CASE \E w \in Noise : Extract(w) /\ scene' = Unset /\ pad' = 0
      BY <2>3, <3>2 DEF ThermalFrame, Extract
    <3> QED BY <2>3, <3>1, <3>2 DEF ThermalFrame
  <2>4. ASSUME CorrectAndInpaint, ffcOn, Correct(offsets) PROVE UInv'
    <3>1. stage = "extracted" /\ frame = extractFrame(wire)
      BY <2>4 DEF Correct, SInv
    <3>2. entered' = [p \in Pixels |-> Clamp(extractFrame(wire)[p] + offsets[p])]
      BY <2>4, <3>1 DEF Correct
    <3> QED BY <2>4, <3>1, <3>2 DEF Correct, CorrectAndInpaint
  <2>5. ASSUME CorrectAndInpaint, ~ffcOn, Correct(Black) PROVE UInv'
    BY <2>5 DEF Correct, CorrectAndInpaint
  <2>6. ASSUME CorrectAndInpaint, Inpaint PROVE UInv'
    BY <2>6 DEF Inpaint, CorrectAndInpaint
  <2>7. CASE CorrectAndInpaint
    BY <2>4, <2>5, <2>6, <2>7 DEF CorrectAndInpaint
  <2>8. CASE DeliverCounts
    BY <2>8 DEF DeliverCounts, Deliver
  <2>9. CASE TakeCounts
    BY <2>9 DEF TakeCounts, Take
  <2>10. CASE UNCHANGED pipelineVars
    BY <2>10 DEF pipelineVars, vars
  <2> QED BY <2>1, <2>2, <2>3, <2>7, <2>8, <2>9, <2>10 DEF PipelineNext
<1> QED BY <1>1, <1>2, SamplesInductive, PTL DEF PipelineSpec

-----------------------------------------------------------------------------
(* From here on a frame of a uniform scene has been delivered, corrected.  *)

\* What the vignette model adds at a pixel.
Unshaded(p) == IF vignette = Unset THEN 0 ELSE vignette.mean_model - vignette.model[p]

\* The frame in hand without vignette, before any other correction.
Base == scene.level + PatternMean(sensor, scene.level) + Gain * scene.drift

LEMMA ReadingIs ==
  ASSUME SInv, UInv, stage # "idle", scene # Unset, NEW p \in Pixels, NEW q \in Pixels
  PROVE  /\ Base \in Int /\ Unshaded(p) \in Int /\ sensor.shading \in [Pixels -> Int]
         /\ Base + sensor.shading[q] \in 0 .. Saturated
         /\ Base + sensor.shading[q] + Unshaded(p) \in 0 .. Saturated
         /\ Gain * scene.drift \in Int /\ Gain * DriftLeft \in Int
         /\ Base + sensor.shading[q] + Unshaded(p) + (Gain * DriftLeft - Gain * scene.drift)
              \in 0 .. Saturated
         /\ Reads(p, sensor.shading[q])
              = Base + sensor.shading[q] + Unshaded(p) + (Gain * DriftLeft - Gain * scene.drift)
<1>1. /\ sensor \in Sensors /\ scene.level \in Levels /\ scene.drift \in Drifts
      /\ vignette \in Vignettes \cup {Unset}
  BY DEF SInv, PipelineTypeOK, UInv
<1>2. DriftLeft \in Drifts
  <2>1. PICK d \in Drifts : anchor = Pad + d
    BY DEF SInv
  <2>2. anchor - Pad = d
    BY <2>1, PipelineAssumption
  <2> QED BY <1>1, <2>2 DEF DriftLeft
<1>3. /\ scene.level \in Int /\ Gain * scene.drift \in Int /\ Gain * DriftLeft \in Int
      /\ sensor.shading \in [Pixels -> Int]
  <2>0. Levels \subseteq Int /\ Drifts \subseteq Int /\ Gain \in Int
    BY PipelineAssumption
  <2>1. Gain \in Int /\ scene.drift \in Int /\ DriftLeft \in Int /\ scene.level \in Int
    BY <1>1, <1>2, <2>0
  <2>2. sensor.shading \in [Pixels -> Int]
    BY <1>1, PipelineAssumption
  <2> QED BY <2>1, <2>2
<1>4. PatternMean(sensor, scene.level) \in Int
  BY <1>1, OffsetTyped
<1>5. Base \in Int
  BY <1>3, <1>4 DEF Base
<1>6. Unshaded(p) \in Int
  <2>1. CASE vignette = Unset
    BY <2>1 DEF Unshaded
  <2>2. CASE vignette # Unset
    <3>1. vignette.model[p] \in Int /\ vignette.mean_model \in Int
      BY <1>1, <2>2, PipelineAssumption
    <3> QED BY <2>2, <3>1 DEF Unshaded
  <2> QED BY <2>1, <2>2
<1> DEFINE sh == sensor.shading[q]
<1>7. sh \in Int
  BY <1>3
<1>8. /\ Reading(sensor, scene.level, scene.drift, Unset, p, sh) \in 0 .. Saturated
      /\ Reading(sensor, scene.level, scene.drift, vignette, p, sh) \in 0 .. Saturated
      /\ Reading(sensor, scene.level, DriftLeft, vignette, p, sh) \in 0 .. Saturated
  BY <1>1, <1>2, RangeAssumption
<1>9. Reading(sensor, scene.level, scene.drift, Unset, p, sh) = Base + sh
  BY <1>3, <1>4, <1>7 DEF Reading, Base
<1>10. Reading(sensor, scene.level, scene.drift, vignette, p, sh) = Base + sh + Unshaded(p)
  BY DEF Reading, Base, Unshaded
<1>11. Reading(sensor, scene.level, DriftLeft, vignette, p, sh)
         = scene.level + PatternMean(sensor, scene.level) + Gain * DriftLeft + sh + Unshaded(p)
  BY DEF Reading, Unshaded
<1>12. scene.level + PatternMean(sensor, scene.level) + Gain * DriftLeft + sh + Unshaded(p)
         = Base + sh + Unshaded(p) + (Gain * DriftLeft - Gain * scene.drift)
  <2> DEFINE a == scene.level          b == PatternMean(sensor, scene.level)
             x == Gain * DriftLeft     y == Gain * scene.drift
             z == sh                   u == Unshaded(p)
  <2>1. {a, b, x, y, z, u} \subseteq Int
    BY <1>3, <1>4, <1>6, <1>7
  <2>2. Base = a + b + y
    BY DEF Base
  <2> HIDE DEF a, b, x, y, z, u
  <2>3. a + b + x + z + u = (a + b + y) + z + u + (x - y)
    BY <2>1
  <2> QED BY <2>2, <2>3 DEF a, b, x, y, z, u
<1> QED BY <1>3, <1>5, <1>6, <1>8, <1>9, <1>10, <1>11, <1>12 DEF Reads

\* The pixels that the lens shades most and least.
Darkest(a)   == a \in Pixels /\ \A p \in Pixels : sensor.shading[a] <= sensor.shading[p]
Brightest(b) == b \in Pixels /\ \A p \in Pixels : sensor.shading[p] <= sensor.shading[b]

LEMMA ClampKeeps == \A v \in 0 .. Saturated : Clamp(v) = v
BY MaskAssumption DEF Clamp

\* With the offsets added a pixel that works reads what the lens leaves of the scene, a
\* stuck one no less and no more than the shading allows.
LEMMA UniformEntered ==
  ASSUME SInv, UInv, stage \in {"inpainting", "delivered"}, ffcOn, scene # Unset,
         NEW a, Darkest(a), NEW b, Brightest(b), NEW p \in Pixels
  PROVE  /\ p \notin sensor.stuck => entered[p] = Base + sensor.shading[p]
         /\ Base + sensor.shading[a] <= entered[p] /\ entered[p] <= Base + sensor.shading[b]
<1> DEFINE sh  == sensor.shading
           low == sh[a]  high == sh[b]
           f   == extractFrame(Wire(sensor, scene.level, sh, scene.drift))
           g   == extractFrame(Blade(sensor, scene.level, 0))
           more == scene.level - scene.level + Gain * scene.drift - Gain * 0
<1>1. /\ sensor \in Sensors /\ scene.level \in Levels /\ scene.drift \in Drifts
      /\ a \in Pixels /\ b \in Pixels /\ p \in Pixels
  BY DEF SInv, PipelineTypeOK, UInv, Darkest, Brightest
<1>2. /\ Base \in Int /\ sh \in [Pixels -> Int] /\ Gain * scene.drift \in Int
      /\ \A q \in Pixels : Base + sh[q] \in 0 .. Saturated
  BY <1>1, ReadingIs
<1>3. low \in Int /\ high \in Int /\ sh[p] \in Int
  BY <1>1, <1>2
<1>4. \A q \in Pixels : low <= sh[q] /\ sh[q] <= high
  BY DEF Darkest, Brightest
<1>5. /\ f[p] \in Int /\ g[p] \in Int
      /\ p \notin sensor.stuck => f[p] = g[p] + more + sh[p]
      /\ g[p] + more + low <= f[p] /\ f[p] <= g[p] + more + high
  <2>1. /\ sh \in {Black, sensor.shading} /\ scene.drift \in Drifts \cup {0}
        /\ 0 \in Drifts \cup {0} /\ low \in Int /\ high \in Int
    BY <1>1, <1>3
  <2> HIDE DEF low, high
  <2> QED BY <1>1, <1>4, <2>1, ExtractMoves
<1>6. more = Gain * scene.drift /\ scene.level \in Int
  <2>1. Levels \subseteq Int /\ Gain \in Int
    BY PipelineAssumption
  <2>2. scene.level \in Int
    BY <1>1, <2>1
  <2>3. Gain * 0 = 0
    BY <2>1
  <2> QED BY <1>2, <2>2, <2>3
<1>7. /\ entered[p] = Clamp(f[p] + offsets[p])
      /\ offsets[p] = PatternMean(sensor, scene.level) + scene.level - g[p]
      /\ PatternMean(sensor, scene.level) \in Int
  <2>1. stage # "idle"
    OBVIOUS
  <2>2. entered[p] = Clamp(f[p] + offsets[p]) /\ offsets[p] = Offset(sensor, scene.level, p)
    BY <1>1, <2>1 DEF UInv
  <2>3. /\ Offset(sensor, scene.level, p) = PatternMean(sensor, scene.level) + scene.level - g[p]
        /\ PatternMean(sensor, scene.level) \in Int
    BY <1>1, OffsetTyped
  <2> HIDE DEF f, g
  <2> QED BY <2>2, <2>3
<1> DEFINE v == f[p] + offsets[p]
<1> HIDE DEF f, g, more
<1>8. /\ v \in Int
      /\ p \notin sensor.stuck => v = Base + sh[p]
      /\ Base + low <= v /\ v <= Base + high
  <2> HIDE DEF sh, low, high
  <2> QED BY <1>2, <1>3, <1>5, <1>6, <1>7 DEF Base
<1>9. Base + low \in 0 .. Saturated /\ Base + high \in 0 .. Saturated
  BY <1>1, <1>2
<1> HIDE DEF v, low, high
<1>10. v \in 0 .. Saturated
  BY <1>8, <1>9, MaskAssumption
<1>11. entered[p] = v
  BY <1>7, <1>10, ClampKeeps DEF v
<1> QED BY <1>8, <1>11 DEF low, high

\* The same holds of the frame when the mask has been applied, but that what is masked is
\* filled in as what is stuck is.
LEMMA UniformFrame ==
  ASSUME SInv, UInv, IInv, stage = "delivered", ffcOn, scene # Unset,
         NEW a, Darkest(a), NEW b, Brightest(b), NEW p \in Pixels
  PROVE  /\ p \notin dead \cup sensor.stuck => frame[p] = Base + sensor.shading[p]
         /\ Base + sensor.shading[a] <= frame[p] /\ frame[p] <= Base + sensor.shading[b]
<1> DEFINE low  == Base + sensor.shading[a]
           high == Base + sensor.shading[b]
<1>1. /\ a \in Pixels /\ b \in Pixels /\ entered \in [Pixels -> Samples]
  BY DEF Darkest, Brightest, SInv, PipelineTypeOK, Samples
<1>2. low \in Int /\ high \in Int
  BY <1>1, ReadingIs
<1>3. \A q \in Pixels :
        /\ entered[q] \in Int /\ low <= entered[q] /\ entered[q] <= high
        /\ q \notin sensor.stuck => entered[q] = Base + sensor.shading[q]
  BY <1>1, UniformEntered, SamplesAreInts
<1>4. frame[p] = IF p \in dead THEN Inpainted(entered, p, dead) ELSE entered[p]
  BY DEF IInv, Partial
<1> HIDE DEF low, high
<1>5. CASE p \in dead /\ Good(p, dead) # {}
  <2> DEFINE S == Good(p, dead)
             g == Restrict(entered, S)
  <2>1. S \subseteq Neighbours(p) /\ S \subseteq Pixels /\ S # {}
    BY <1>5 DEF Good, Neighbours
  <2>2. frame[p] = Mean(g, p)
    BY <1>4, <1>5 DEF Inpainted
  <2> HIDE DEF S
  <2>3. g \in [S -> Int] /\ \A q \in S : low <= g[q] /\ g[q] <= high
    <3>1. g = [q \in S |-> entered[q]]
      BY DEF Restrict
    <3> QED BY <1>3, <2>1, <3>1
  <2> HIDE DEF g
  <2>4. low <= Mean(g, p) /\ Mean(g, p) <= high
    BY <1>2, <2>1, <2>3, MeanBetween
  <2> QED BY <1>5, <2>2, <2>4 DEF low, high
<1>6. CASE ~(p \in dead /\ Good(p, dead) # {})
  <2>1. frame[p] = entered[p]
    BY <1>4, <1>6 DEF Inpainted
  <2>2. /\ low <= entered[p] /\ entered[p] <= high
        /\ p \notin sensor.stuck => entered[p] = Base + sensor.shading[p]
    BY <1>3
  <2>3. p \notin dead \cup sensor.stuck => p \notin sensor.stuck
    OBVIOUS
  <2> QED BY <2>1, <2>2, <2>3 DEF low, high
<1> QED BY <1>5, <1>6

\* What is delivered differs from that by the vignette model and the drift that is left.
LEMMA UniformCounts ==
  ASSUME SInv, UInv, stage = "delivered", scene # Unset,
         NEW a \in Pixels, NEW b \in Pixels, NEW p \in Pixels,
         Base + sensor.shading[a] <= frame[p], frame[p] <= Base + sensor.shading[b]
  PROVE  /\ counts[p] = frame[p] + Unshaded(p) + (Gain * DriftLeft - Gain * scene.drift)
         /\ frame[p] \in Int
<1> DEFINE low == Base + sensor.shading[a]
           high == Base + sensor.shading[b]
           u == Unshaded(p)
           r == Gain * DriftLeft - Gain * scene.drift
           f == Flattened(frame)
<1>1. frame[p] \in Int /\ frame \in [Pixels -> Samples] /\ counts = Compensated(f)
  BY SamplesAreInts DEF SInv, PipelineTypeOK, Samples
<1>2. /\ low \in Int /\ high \in Int /\ u \in Int /\ r \in Int /\ Gain * scene.drift \in Int
      /\ low \in 0 .. Saturated /\ low + u \in 0 .. Saturated /\ low + u + r \in 0 .. Saturated
  BY ReadingIs
<1>3. /\ high \in 0 .. Saturated /\ high + u \in 0 .. Saturated /\ high + u + r \in 0 .. Saturated
  BY ReadingIs
<1>4. low <= frame[p] /\ frame[p] <= high
  OBVIOUS
<1> HIDE DEF low, high, u, r
<1>5. frame[p] + u \in 0 .. Saturated /\ frame[p] + u + r \in 0 .. Saturated
  BY <1>1, <1>2, <1>3, <1>4, MaskAssumption
<1>6. f[p] = frame[p] + u
  <2>1. CASE vignette = Unset
    BY <1>1, <2>1 DEF Flattened, Unshaded, u
  <2>2. CASE vignette # Unset
    <3>1. vignette.model[p] \in Int /\ vignette.mean_model \in Int
      BY <2>2, PipelineAssumption DEF SInv
    <3>2. frame[p] - vignette.model[p] + vignette.mean_model = frame[p] + u
      BY <1>1, <2>2, <3>1 DEF Unshaded, u
    <3>3. f[p] = Clamp(frame[p] - vignette.model[p] + vignette.mean_model)
      BY <2>2 DEF Flattened
    <3> QED BY <1>5, <3>2, <3>3, ClampKeeps
  <2> QED BY <2>1, <2>2
<1> HIDE DEF f
<1>7. counts[p] = frame[p] + u + r
  <2>1. CASE ~(driftOn /\ pad > 0)
    <3>1. DriftLeft = scene.drift /\ counts[p] = f[p]
      BY <1>1, <2>1 DEF DriftLeft, Compensated
    <3>2. r = 0
      BY <1>2, <3>1 DEF r
    <3> QED BY <1>1, <1>2, <1>6, <3>1, <3>2
  <2>2. CASE driftOn /\ pad > 0
    <3>1. /\ scene.drift \in Int /\ anchor \in Int /\ Pad \in Int /\ Gain \in Int
          /\ pad = Pad + scene.drift /\ DriftLeft = anchor - Pad
      <4>1. Drifts \subseteq Int /\ Pad \in Int /\ Gain \in Int
        BY PipelineAssumption
      <4>2. PICK d \in Drifts : anchor = Pad + d
        BY DEF SInv
      <4>3. scene.drift \in Drifts /\ pad \in {0, Pad + scene.drift}
        BY DEF UInv
      <4>4. pad = Pad + scene.drift
        BY <2>2, <4>3
      <4>5. DriftLeft = anchor - Pad
        BY <2>2 DEF DriftLeft
      <4>6. scene.drift \in Int /\ d \in Int
        BY <4>1, <4>3
      <4> QED BY <4>1, <4>2, <4>4, <4>5, <4>6
    <3>2. \A k, x, y, z \in Int : k * (y - z) - k * x = 0 - k * ((z + x) - y)
      OBVIOUS
    <3>3. r = 0 - Gain * (pad - anchor)
      <4>1. Gain * (anchor - Pad) - Gain * scene.drift = 0 - Gain * ((Pad + scene.drift) - anchor)
        <5> DEFINE x == scene.drift
        <5>1. x \in Int
          BY <3>1
        <5> HIDE DEF x
        <5>2. Gain * (anchor - Pad) - Gain * x = 0 - Gain * ((Pad + x) - anchor)
          BY <3>1, <3>2, <5>1
        <5> QED BY <5>2 DEF x
      <4> QED BY <3>1, <4>1, Zenon DEF r
    <3>4. counts[p] = Clamp(f[p] - Gain * (pad - anchor))
      BY <1>1, <2>2 DEF Compensated
    <3>5. Gain * (pad - anchor) \in Int
      BY <3>1
    <3>6. f[p] - Gain * (pad - anchor) = frame[p] + u + r
      BY <1>1, <1>2, <1>6, <3>3, <3>5
    <3> QED BY <1>5, <3>4, <3>6, ClampKeeps
  <2> QED BY <2>1, <2>2
<1> QED BY <1>1, <1>7 DEF u, r

\* A uniform scene comes out uniform.
THEOREM Uniform == PipelineSpec => []UniformSceneIsUniform
<1>1. SInv /\ UInv /\ IInv => UniformSceneIsUniform
  <2> SUFFICES ASSUME SInv, UInv, IInv, stage = "delivered", ffcOn, scene # Unset, NEW p \in Pixels
               PROVE  IF p \notin dead \cup sensor.stuck THEN counts[p] = Reads(p, sensor.shading[p])
                      ELSE /\ \E q \in Pixels : Reads(p, sensor.shading[q]) <= counts[p]
                           /\ \E q \in Pixels : counts[p] <= Reads(p, sensor.shading[q])
    BY DEF UniformSceneIsUniform
  <2> DEFINE sh == sensor.shading
             u  == Unshaded(p)
             r  == Gain * DriftLeft - Gain * scene.drift
  <2>1. sh \in [Pixels -> Int]
    BY ReadingIs
  <2>2. PICK a \in Pixels : \A q \in Pixels : sh[a] <= sh[q]
    <3> HIDE DEF sh
    <3> QED BY <2>1, PixelsFinite, Least
  <2>3. PICK b \in Pixels : \A q \in Pixels : sh[q] <= sh[b]
    <3> HIDE DEF sh
    <3> QED BY <2>1, PixelsFinite, Greatest
  <2>4. Darkest(a) /\ Brightest(b)
    BY <2>2, <2>3 DEF Darkest, Brightest
  <2>5. /\ p \notin dead \cup sensor.stuck => frame[p] = Base + sh[p]
        /\ Base + sh[a] <= frame[p] /\ frame[p] <= Base + sh[b]
    BY <2>4, UniformFrame
  <2>6. counts[p] = frame[p] + u + r /\ frame[p] \in Int
    BY <2>5, UniformCounts
  <2>7. Base \in Int /\ u \in Int /\ r \in Int
    BY ReadingIs
  <2>8. \A q \in Pixels : Reads(p, sh[q]) = Base + sh[q] + u + r /\ sh[q] \in Int
    BY <2>1, ReadingIs
  <2> HIDE DEF sh, u, r
  <2>9. CASE p \notin dead \cup sensor.stuck
    BY <2>5, <2>6, <2>8, <2>9 DEF sh
  <2>10. CASE p \in dead \cup sensor.stuck
    <3>1. Reads(p, sh[a]) <= counts[p] /\ counts[p] <= Reads(p, sh[b])
      BY <2>5, <2>6, <2>7, <2>8
    <3> QED BY <2>10, <3>1 DEF sh
  <2> QED BY <2>9, <2>10
<1> QED BY <1>1, Inductive, SamplesInductive, UniformInductive, PTL
=============================================================================
