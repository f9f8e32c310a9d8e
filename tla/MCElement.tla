------------------------------ MODULE MCElement ------------------------------
(* Units that share a product id; one of them has a serial. *)
EXTENDS SourceElement

MCTypeOf   == [u \in Units |-> IF u = "nano" THEN "Nano300" ELSE "CompactPro"]
MCSerialOf == [u \in Units |-> IF u = "nano" THEN "S1" ELSE ""]
=============================================================================
