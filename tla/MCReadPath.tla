----------------------------- MODULE MCReadPath -----------------------------
(* ReadPath with one or two GETs, one batch request and one upload.         *)
EXTENDS ReadPath

CONSTANTS r1, r2, r3, p1, obj, junk

OneGet == {r1}
TwoGets == {r1, r2}
OneBatch == {r3}
OnePutter == {p1}
Bodies == {obj, junk}
OneBody == {obj}
=============================================================================
