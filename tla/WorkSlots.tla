----------------------------- MODULE WorkSlots -----------------------------
(***************************************************************************)
(* What admission control promises: a counting semaphore.  At most Slots   *)
(* requests hold a work slot; a request takes a slot that is left, gives   *)
(* it back, or a slot passes from one request straight to another.         *)
(***************************************************************************)
EXTENDS Integers, FiniteSets

CONSTANTS Req, Slots

VARIABLE holders

Init == holders = {}

Acquire(r) ==
    /\ r \notin holders /\ Cardinality(holders) < Slots
    /\ holders' = holders \cup {r}

Release(r) ==
    /\ r \in holders
    /\ holders' = holders \ {r}

HandOver(r, s) ==
    /\ r \in holders /\ s \notin holders
    /\ holders' = (holders \ {r}) \cup {s}

Next ==
    \/ \E r \in Req : Acquire(r) \/ Release(r)
    \/ \E r, s \in Req : HandOver(r, s)

Spec == Init /\ [][Next]_holders
=============================================================================
