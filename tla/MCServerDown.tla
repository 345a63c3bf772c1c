---------------------------- MODULE MCServerDown ----------------------------
(***************************************************************************)
(* Two lookups and one Fetch, two attempts each.                           *)
(***************************************************************************)
EXTENDS ServerDown

CONSTANTS r1, r2, f1

Lookups == {r1, r2}
Fetchers == {f1}
=============================================================================
