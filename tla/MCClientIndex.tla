---------------------------- MODULE MCClientIndex ----------------------------
(* ClientIndex with a key, a process that builds while it loads, and another *)
(* that loads the same copy.                                                 *)
EXTENDS ClientIndex

CONSTANTS p1, p2, k1

Procs == {p1, p2}
Builders == {p1}
Keys == {k1}
=============================================================================
