--------------------------- MODULE DeadPixelMask ---------------------------
(***************************************************************************)
(* How the bad pixels of a thermal frame are filled in.  extractFrame()    *)
(* replaces a pixel that reads one of the two sentinels by the weighted    *)
(* mean of its valid neighbours; the shutter offsets are added; then       *)
(* DeadPixelMask::apply() replaces the pixels of the installed mask, one   *)
(* after the other and in place, by the mean of the neighbours that are    *)
(* not masked.  FramePipeline says which frames these steps are taken on,  *)
(* and what follows them.                                                  *)
(***************************************************************************)
EXTENDS Integers, FiniteSets, Functions

CONSTANTS
  Width, Height,
  Saturated,  \* the largest sample, 0xffff
  Masks       \* the masks that a calibration may bring

Pixels == 0 .. Width * Height - 1   \* by flat index, y * width + x

ASSUME MaskAssumption ==
  /\ Width \in Nat /\ Height \in Nat /\ Saturated \in Nat
  /\ Masks \subseteq SUBSET Pixels

VARIABLES
  dead,    \* the installed mask
  stage,   \* "idle", "extracted", "inpainting" or "delivered"
  wire,    \* the transfer of the frame
  frame,   \* the pixels of the frame
  entered, \* the frame as apply() is given it
  todo     \* the entries that apply() has yet to visit

vars == <<dead, stage, wire, frame, entered, todo>>

Black == [p \in Pixels |-> 0]

Init ==
  /\ dead = {} /\ stage = "idle" /\ todo = {}
  /\ wire = Black /\ frame = Black /\ entered = Black

-----------------------------------------------------------------------------
Sentinels == {0, Saturated}

Distance(i, j) == IF i < j THEN j - i ELSE i - j

\* kFilterWeights: 1 at the corners of the 3x3 window and 2 at its sides.
Weight(p, q) ==
  (2 - Distance(p % Width, q % Width)) * (2 - Distance(p \div Width, q \div Width))

Neighbours(p) ==
  {q \in Pixels \ {p} : /\ Distance(p % Width, q % Width) <= 1
                        /\ Distance(p \div Width, q \div Width) <= 1}

\* The mean of the values g of neighbours of p, with the weights of the window.
Mean(g, p) ==
  SumFunction([q \in DOMAIN g |-> g[q] * Weight(p, q)])
    \div SumFunction([q \in DOMAIN g |-> Weight(p, q)])

\* Mutant: the neighbours' values are used even if they are sentinels.
MutExtractFrame(w) ==
  [p \in Pixels |->
    IF w[p] \notin Sentinels THEN w[p] ELSE Mean(Restrict(w, Neighbours(p)), p)]

extractFrame(w) ==
  [p \in Pixels |->
    LET valid == {q \in Neighbours(p) : w[q] \notin Sentinels} IN
    CASE w[p] \notin Sentinels -> w[p]
      [] w[p] \in Sentinels /\ valid = {} -> 0
      [] OTHER -> Mean(Restrict(w, valid), p)]

Clamp(v) == IF v < 0 THEN 0 ELSE IF v > Saturated THEN Saturated ELSE v

MutGood(p, m) == Neighbours(p)   \* mutant: dead neighbours are kept

\* The neighbours of an entry of mask m: those that are not masked themselves.
Good(p, m) == Neighbours(p) \ m

\* What apply() puts at p, given a frame.
Inpainted(f, p, m) ==
  IF Good(p, m) = {} THEN f[p] ELSE Mean(Restrict(f, Good(p, m)), p)

-----------------------------------------------------------------------------
\* setCalibration(), between two frames.
SetMask(m) ==
  /\ stage = "idle" /\ dead' = m
  /\ UNCHANGED <<stage, wire, frame, entered, todo>>

\* A transfer is received, and its visible part extracted.
Extract(w) ==
  /\ stage = "idle" /\ stage' = "extracted"
  /\ wire' = w /\ frame' = extractFrame(w)
  /\ UNCHANGED <<dead, entered, todo>>

\* The offsets of the last shutter frame are added, and apply() begins.
Correct(offset) ==
  /\ stage = "extracted" /\ stage' = "inpainting"
  /\ frame' = [p \in Pixels |-> Clamp(frame[p] + offset[p])]
  /\ entered' = frame' /\ todo' = dead
  /\ UNCHANGED <<dead, wire>>

\* The entries are visited by index, and the frame is changed in place.
Inpaint ==
  /\ stage = "inpainting"
  /\ \E p \in todo :
     /\ \A q \in todo : p <= q
     /\ frame' = [frame EXCEPT ![p] = Inpainted(frame, p, dead)]
     /\ todo' = todo \ {p}
  /\ UNCHANGED <<dead, stage, wire, entered>>

Deliver ==
  /\ stage = "inpainting" /\ todo = {} /\ stage' = "delivered"
  /\ UNCHANGED <<dead, wire, frame, entered, todo>>

\* The caller takes the frame.
Take ==
  /\ stage = "delivered" /\ stage' = "idle"
  /\ wire' = Black /\ frame' = Black /\ entered' = Black
  /\ UNCHANGED <<dead, todo>>

-----------------------------------------------------------------------------
\* Replacing the masked pixels in place gives what replacing all of them at
\* once would: no replaced value is read again, whatever the mask, and no pixel
\* outside the mask is touched.
InPlaceIsAtOnce ==
  stage = "delivered" =>
    \A p \in Pixels :
      frame[p] = IF p \in dead THEN Inpainted(entered, p, dead) ELSE entered[p]

\* extractFrame() leaves a sentinel only where no neighbour is valid, and lets
\* no sentinel leak into a pixel that it fills in: that lies between its valid
\* neighbours.
FilledFromValid ==
  stage = "extracted" =>
    \A p \in Pixels :
      LET valid == {wire[q] : q \in {n \in Neighbours(p) : wire[n] \notin Sentinels}} IN
      wire[p] \in Sentinels /\ valid # {} =>
        \E low, high \in valid : low <= frame[p] /\ frame[p] <= high

\* detect_dead_pixels.hpp: pixels that read a sentinel are replaced "with a 3x3
\* gaussian over valid neighbours on every frame [...] so masking them is
\* redundant": with such a pixel in the mask too, it would come out the same.
MaskingRedundant ==
  stage = "delivered" =>
    \A p \in Pixels \ dead :
      wire[p] \in Sentinels /\ entered = extractFrame(wire) =>
        frame[p] = Inpainted(entered, p, dead \union {p})
=============================================================================
