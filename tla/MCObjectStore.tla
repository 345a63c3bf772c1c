--------------------------- MODULE MCObjectStore ---------------------------
(* ObjectStore with one or two keys, bodies and concurrent requests.        *)
EXTENDS ObjectStore, TLC

CONSTANTS k1, k2, p1, p2, d1, a, b

OneKey == {k1}
TwoKeys == {k1, k2}
OnePutter == {p1}
TwoPutters == {p1, p2}
OneDeleter == {d1}
OneBody == {a}
TwoBodies == {a, b}
AThenB == {<<a, b>>}

PutterPerms == Permutations(TwoPutters)
Perms == Permutations(TwoKeys) \cup Permutations(TwoPutters)
=============================================================================
