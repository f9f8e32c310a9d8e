-------------------------- MODULE MCFramePipeline --------------------------
(* A sensor with corners and sides, and a mask for every kind of cluster. *)
EXTENDS FramePipeline

MCMasks == {{}, {1, 2}, {0, 1, 4}, Pixels}

\* A lens that is darker at the right, over a pattern and a stuck pixel; and a
\* sensor without faults.
MCSensors ==
  {[pattern |-> [p \in Pixels |-> 5 * (p % 2) - 2], stuck |-> {4},
    shading |-> [p \in Pixels |-> -2 * (p % Width)]],
   [pattern |-> Black, stuck |-> {}, shading |-> Black]}

\* A model that fits the first lens, around its mean.
MCVignettes == {[model |-> [p \in Pixels |-> 20 - 2 * (p % Width)], mean_model |-> 18]}

\* Frames over both sentinels and two values between them.
MCNoise == {w \in [Pixels -> {0, 15, 39, 40}] : w[5] = 15 /\ w[2] = 39}
=============================================================================
