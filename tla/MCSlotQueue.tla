---------------------------- MODULE MCSlotQueue ----------------------------
(* SlotQueue on four request goroutines, two of them look-ahead.           *)
EXTENDS SlotQueue

CONSTANTS a, b, c, d

AllReq == {a, b, c, d}
Ahead == {c, d}
=============================================================================
