----------------------------- MODULE MCUploads -----------------------------
(***************************************************************************)
(* Uploads with three objects, two prep workers, room for one object in    *)
(* each queue, two uploaders of which one may be killed, a sweep and a     *)
(* drain.                                                                  *)
(***************************************************************************)
EXTENDS Uploads

CONSTANTS o1, o2, o3, u1, u2

Objs == {o1, o2, o3}
Uploaders == {u1, u2}
=============================================================================
