----------------------------- MODULE WholeFrame -----------------------------
(***************************************************************************)
(* What a grab of a raw frame promises: it is answered once, with SUCCESS  *)
(* only if the buffer then holds one whole frame, and it leaves the buffer *)
(* unspecified otherwise.                                                  *)
(***************************************************************************)
VARIABLES busy,     \* is a grab under way?
          outcome,  \* the answer to the last one
          whole     \* does the buffer hold exactly the frame of this grab?

vars == <<busy, outcome, whole>>

Errors == {"DEVICE_NOT_OPEN", "BUFFER_TOO_SMALL", "FAILED_TO_START_TRANSFER",
           "TRANSFER_INCOMPLETE"}

Init == busy = FALSE /\ outcome = "none" /\ whole = TRUE

\* The caller may replace or free its buffer only between two grabs.
ReplaceBuffer ==
  /\ busy = FALSE
  /\ whole' \in BOOLEAN /\ UNCHANGED <<busy, outcome>>

Refuse ==
  /\ busy = FALSE
  /\ outcome' \in {"DEVICE_NOT_OPEN", "BUFFER_TOO_SMALL"}
  /\ whole' \in BOOLEAN /\ UNCHANGED busy

Begin ==
  /\ busy = FALSE /\ busy' = TRUE /\ outcome' = "none"
  /\ whole' \in BOOLEAN

Receive ==
  /\ busy = TRUE
  /\ whole' \in BOOLEAN /\ UNCHANGED <<busy, outcome>>

Deliver ==
  /\ busy = TRUE /\ whole = TRUE
  /\ busy' = FALSE /\ outcome' = "SUCCESS" /\ UNCHANGED whole

Fail ==
  /\ busy = TRUE /\ busy' = FALSE
  /\ outcome' \in Errors /\ whole' \in BOOLEAN

Next == ReplaceBuffer \/ Refuse \/ Begin \/ Receive \/ Deliver \/ Fail

Spec == Init /\ [][Next]_vars
=============================================================================
