----------------------------- MODULE MCManifest -----------------------------
(***************************************************************************)
(* A manifest of two parts and three keys: one is looked up twice, one has *)
(* a body the client refuses, and one is not used.  The server holds no    *)
(* generation, as many of the command as the walk reads, or six of the     *)
(* module's fallback.                                                      *)
(***************************************************************************)
EXTENDS Manifest

CONSTANTS l1, l2, l3, c1, c2, k1, k2, k3

Lookups == {l1, l2, l3}
LookedUp(l) == IF l = l3 THEN k2 ELSE k1
Parts == {c1, c2}
Names(c) == IF c = c1 THEN {k1, k2} ELSE {k3}
Held == {k1, k2}
Refused == {k2}
Left == {[own |-> {}, back |-> {}], [own |-> 0 .. 1, back |-> 0 .. 1], [own |-> {}, back |-> 0 .. 5]}
FallbackLeft == {[own |-> {}, back |-> 0 .. 1]}
=============================================================================
