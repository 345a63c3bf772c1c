----------------------------- MODULE MCKeyIndex -----------------------------
(* KeyIndex with two cacheprog keys that share a short prefix, one key of   *)
(* another form, a full and a short serialization, and clients of each.     *)
EXTENDS KeyIndex, TLC

CONSTANTS k1, k2, other, p, full, short, c1, c2

AllKeys == {k1, k2, other}
CacheKeys == {k1, k2}
Forms == {full, short}
AllNames == {k1, k2, p}
Cut == full :> [h \in CacheKeys |-> h] @@ short :> [h \in CacheKeys |-> p]
Clients == {c1, c2}

Perms == Permutations(CacheKeys) \cup Permutations(Clients)
=============================================================================
