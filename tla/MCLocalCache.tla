---------------------------- MODULE MCLocalCache ----------------------------
(***************************************************************************)
(* One action, two children: one gets it, and each puts an output for it,  *)
(* one of which the store holds too; the copy of the other may fail.  The  *)
(* larger instance has a second get.                                       *)
(***************************************************************************)
EXTENDS LocalCache

CONSTANTS c1, c2, g1, g2, p1, p2, a1, o1, o2

Children == {c1, c2}
Requests == {g1, p1, p2}
AllRequests == {g1, g2, p1, p2}
KindOf(q) == IF q \in {g1, g2} THEN "get" ELSE "put"
MadeBy(q) == IF q \in {g1, p1} THEN c1 ELSE c2
ActionOf(q) == a1
OutputOf(q) == IF q = p2 THEN o2 ELSE o1
ServedFor(x) == o1
LeftBehind == {o1}
FailOther == {o2}
FailSame == {o1}
=============================================================================
