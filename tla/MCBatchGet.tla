----------------------------- MODULE MCBatchGet -----------------------------
(***************************************************************************)
(* Two callers for one key and one for another.  Batches of two, one slot  *)
(* in the channel, room for one unrequested body.                          *)
(***************************************************************************)
EXTENDS BatchGet, TLC

CONSTANTS c1, c2, c3, k1, k2, x1

Callers == {c1, c2, c3}
Keys == {k1, k2}
IndexedKeys == {k1}
Extras == {x1}
FlawsOf == (k1 :> {"checksum"}) @@ (k2 :> {})
Wants == (c1 :> k1) @@ (c2 :> k1) @@ (c3 :> k2)
=============================================================================
