--------------------------- MODULE AdvertisedKeys ---------------------------
(***************************************************************************)
(* What the rest of the server relies on of its key index: a set of        *)
(* advertised keys kept in two parts, a master list that a rebuild         *)
(* replaces and the uploads that are not merged into it yet.  KeyIndex     *)
(* implements this specification; ObjectStore is built on it.              *)
(***************************************************************************)
CONSTANT Key

VARIABLES hashes, pending

Advertised == hashes \cup pending

IndexInit(walk) == hashes = walk /\ pending = {}

\* Index.Put.
IndexPut(k) == pending' = pending \cup {k} /\ UNCHANGED hashes

\* Index.Remove and Index.RemoveKeys.
IndexRemove(K) == pending' = pending \ K /\ hashes' = hashes \ K

\* mergePendingLocked, which serving GET /_index runs.
IndexMerge == hashes' = Advertised /\ pending' = {}

\* Variant of IndexRebuild: the pending uploads are dropped with the old list.
RebuildDropsPending(walk) == hashes' = walk /\ pending' = {}

\* applyRebuild.
IndexRebuild(walk) == hashes' = walk /\ UNCHANGED pending

\* NewIndex in a new process.
IndexRestart(walk) == hashes' = walk /\ pending' = {}

IndexNext ==
    \/ \E k \in Key : IndexPut(k)
    \/ IndexMerge
    \/ \E K \in SUBSET Key : IndexRemove(K) \/ IndexRebuild(K) \/ IndexRestart(K)

IndexSpec ==
    /\ \E walk \in SUBSET Key : IndexInit(walk)
    /\ [][IndexNext]_<<hashes, pending>>
=============================================================================
