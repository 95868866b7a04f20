----------------------------- MODULE MCHandleUse -----------------------------
(* HandleUse for TLC: a key that keeps the order of the rows, and another. *)
EXTENDS HandleUse
Orders == [i \in {"i1", "i2"} |->
             IF i = "i1" THEN <<3, 1, 2>> ELSE <<1, 2, 3>>]
=============================================================================
