---------------------------- MODULE ObjectStore ----------------------------
(***************************************************************************)
(* The data directory (storage.go) and its two walkers, the eviction sweep *)
(* (eviction.go) and the index rebuild it ends with, over the index of     *)
(* AdvertisedKeys.  No lock covers a key: an upload, a delete and a sweep  *)
(* are sequences of file system calls and index calls, each one step, and  *)
(* they interleave.                                                        *)
(*                                                                         *)
(* Keys are cacheprog keys, the ones the index advertises.  A version of   *)
(* an object is the inode an upload renames into place; id numbers it and  *)
(* only properties read it.  Time is in seconds, as the sweep compares it; *)
(* used is lastUsedUnix.  A failed file system call that changes nothing   *)
(* is a stuttering step.                                                   *)
(***************************************************************************)
EXTENDS Integers, FiniteSets, Functions, AdvertisedKeys

CONSTANTS
    Putter,         \* concurrent uploads
    Deleter,        \* concurrent Storage.Delete calls
    Body,           \* object bodies
    Replaces,       \* <<stored, incoming>> pairs of replacesContentStamp
    WriteOnce,      \* "allow", or the notification of action deny
    EvictionBatch,  \* evictionBatchSize
    Excluded,       \* windows a run assumes nothing happens in, see below
    MaxUploads,     \* bound: versions written
    MaxTime         \* bound: seconds that pass

\* The windows of Excluded: "merge" is GET /_index served during a rebuild's walk;
\* "fresh" is a sweep whose cutoff lies after the start of an upload still running;
\* "gap" is a rename between evictOne's stat and its remove; "twin" is a second
\* upload of a key while one is running.
ASSUME StoreAssumption ==
    /\ Replaces \subseteq Body \X Body
    /\ WriteOnce \in {"allow", "never", "always", "content_differs"}
    /\ EvictionBatch \in Nat \ {0}
    /\ Excluded \subseteq {"merge", "fresh", "gap", "twin"}
    /\ MaxUploads \in Nat \ {0} /\ MaxTime \in Nat

VARIABLES
    file,     \* the version at each key's path
    put,      \* each running upload
    del,      \* each running delete
    sweep,    \* the sweeper goroutine
    uploads,  \* versions written so far
    clock

indexVars == <<hashes, pending>>
vars == <<hashes, pending, file, put, del, sweep, uploads, clock>>

NoVersion == [id |-> 0]
Versions == [id : 1..MaxUploads, body : Body, mtime : 0..MaxTime, used : 0..MaxTime]

Stored == {k \in Key : file[k] # NoVersion}

Idle == [pc |-> "idle"]

\* The sweeper between sweeps. batch holds the victims as the walk saw them,
\* doomed the one evictOne has just found unchanged.
NoVersions == [k \in Key |-> NoVersion]
Resting ==
    [pc |-> "idle", cutoff |-> 0, left |-> {}, batch |-> NoVersions,
     doomed |-> NoVersions, evicted |-> FALSE, seen |-> {}]

Init ==
    /\ \E walk \in SUBSET Key, b \in Body :
        /\ file = [k \in Key |-> IF k \in walk
                       THEN [id |-> 1, body |-> b, mtime |-> 0, used |-> 0]
                       ELSE NoVersion]
        /\ IndexInit(walk)
    /\ put = [p \in Putter |-> Idle] /\ del = [d \in Deleter |-> Idle]
    /\ sweep = Resting /\ uploads = 1 /\ clock = 0

----------------------------------------------------------------------------
(* PutStream.                                                              *)

Running == {p \in Putter : put[p] # Idle}

\* The body is in a temp file, whose mtime the version keeps.
WriteTemp(p, k, b) ==
    /\ put[p] = Idle /\ uploads < MaxUploads
    /\ "twin" \in Excluded => \A q \in Running : put[q].key # k
    /\ uploads' = uploads + 1
    /\ put' = [put EXCEPT ![p] =
           [pc |-> "temp", key |-> k,
            new |-> [id |-> uploads + 1, body |-> b, mtime |-> clock, used |-> clock]]]
    /\ UNCHANGED <<indexVars, file, del, sweep, clock>>

\* The upload continues at l, or returns.
PutGoes(p, l) == put' = [put EXCEPT ![p].pc = l]
PutReturns(p) == put' = [put EXCEPT ![p] = Idle]

\* The stat of write_once, and the answers that need no comparison.
CheckWriteOnce(p) ==
    /\ put[p].pc = "temp"
    /\ \/ /\ WriteOnce = "allow" \/ put[p].key \notin Stored
          /\ PutGoes(p, "rename")
       \/ /\ put[p].key \in Stored /\ WriteOnce = "content_differs"
          /\ PutGoes(p, "compare")
       \/ /\ put[p].key \in Stored /\ WriteOnce \in {"never", "always"}
          /\ PutReturns(p)
    /\ UNCHANGED <<indexVars, file, del, sweep, uploads, clock>>

\* filesEqual: equal bodies, or a stored file that is gone, end the upload.
CompareBodies(p) ==
    LET old == file[put[p].key] IN
    /\ put[p].pc = "compare"
    /\ \/ old = NoVersion /\ PutReturns(p)
       \/ old # NoVersion /\ old.body = put[p].new.body /\ PutReturns(p)
       \/ old # NoVersion /\ old.body # put[p].new.body /\ PutGoes(p, "stamp")
    /\ UNCHANGED <<indexVars, file, del, sweep, uploads, clock>>

\* replacesContentStamp, or ErrWriteOnceConflict.
CompareStamps(p) ==
    LET old == file[put[p].key]
        replaces == old # NoVersion /\ <<old.body, put[p].new.body>> \in Replaces IN
    /\ put[p].pc = "stamp"
    /\ \/ replaces /\ PutGoes(p, "rename")
       \/ ~replaces /\ PutReturns(p)
    /\ UNCHANGED <<indexVars, file, del, sweep, uploads, clock>>

Rename(p) ==
    /\ put[p].pc = "rename"
    /\ "gap" \in Excluded => sweep.doomed[put[p].key] = NoVersion
    /\ file' = [file EXCEPT ![put[p].key] = put[p].new]
    /\ PutGoes(p, "index")
    /\ UNCHANGED <<indexVars, del, sweep, uploads, clock>>

Advertise(p) ==
    /\ put[p].pc = "index"
    /\ IndexPut(put[p].key)
    /\ PutReturns(p)
    /\ UNCHANGED <<file, del, sweep, uploads, clock>>

----------------------------------------------------------------------------
(* Storage.Delete, and the reads that Open and OpenBody record.            *)

DeleteFile(d, k) ==
    /\ del[d] = Idle /\ k \in Stored
    /\ file' = [file EXCEPT ![k] = NoVersion]
    /\ del' = [del EXCEPT ![d] = [pc |-> "index", key |-> k]]
    /\ UNCHANGED <<indexVars, put, sweep, uploads, clock>>

DeleteEntry(d) ==
    /\ del[d] # Idle
    /\ IndexRemove({del[d].key})
    /\ del' = [del EXCEPT ![d] = Idle]
    /\ UNCHANGED <<file, put, sweep, uploads, clock>>

Read(k) ==
    /\ k \in Stored /\ file[k].used < clock
    /\ file' = [file EXCEPT ![k].used = clock]
    /\ UNCHANGED <<indexVars, put, del, sweep, uploads, clock>>

\* GET /_index.
ServeIndex ==
    /\ pending # {}
    /\ "merge" \in Excluded => sweep.pc # "rebuild"
    /\ IndexMerge
    /\ UNCHANGED <<file, put, del, sweep, uploads, clock>>

----------------------------------------------------------------------------
(* Evict: scanForEviction, sweepBelow and evictOne, Index.rebuild.         *)

\* The upper edge of a bucket some object's last use falls in, or max_age ago.
Cutoffs == {file[k].used + 1 : k \in Stored} \cup 1..clock

Scan ==
    /\ sweep = Resting
    /\ \E cutoff \in Cutoffs :
        /\ "fresh" \in Excluded =>
               cutoff <= clock /\ \A p \in Running : cutoff <= put[p].new.mtime
        /\ sweep' = [Resting EXCEPT !.pc = "walk", !.cutoff = cutoff, !.left = Key]
    /\ UNCHANGED <<indexVars, file, put, del, uploads, clock>>

Batched == {k \in Key : sweep.batch[k] # NoVersion}

\* The second walk reaches the path of k.
WalkVisit(k) ==
    /\ sweep.pc = "walk" /\ k \in sweep.left /\ Cardinality(Batched) < EvictionBatch
    /\ sweep' = [sweep EXCEPT !.left = @ \ {k},
           !.batch[k] = IF k \in Stored /\ file[k].used < sweep.cutoff
                        THEN file[k] ELSE NoVersion]
    /\ UNCHANGED <<indexVars, file, put, del, uploads, clock>>

\* Variant of Flush: the index is left to the rebuild.
FlushAdvertised ==
    /\ sweep.pc = "walk" /\ Batched # {}
    /\ sweep.left = {} \/ Cardinality(Batched) >= EvictionBatch
    /\ sweep' = [sweep EXCEPT !.pc = "evict"]
    /\ UNCHANGED <<indexVars, file, put, del, uploads, clock>>

\* flush: a full batch, or what is left when the walk ends, is de-advertised
\* before any of it is unlinked.
Flush ==
    /\ sweep.pc = "walk" /\ Batched # {}
    /\ sweep.left = {} \/ Cardinality(Batched) >= EvictionBatch
    /\ IndexRemove(Batched)
    /\ sweep' = [sweep EXCEPT !.pc = "evict"]
    /\ UNCHANGED <<file, put, del, uploads, clock>>

\* Variants of EvictStat: no comparison of mtimes, and a spared victim that stays
\* in the batch.
EvictStatBlind(k) ==
    /\ sweep.pc = "evict" /\ k \in Batched
    /\ \/ k \in Stored /\ sweep' = [sweep EXCEPT !.pc = "unlink", !.doomed[k] = file[k]]
       \/ k \notin Stored /\ sweep' = [sweep EXCEPT !.batch[k] = NoVersion]
    /\ UNCHANGED <<indexVars, file, put, del, uploads, clock>>
EvictStatRetries(k) ==
    /\ sweep.pc = "evict" /\ k \in Batched
    /\ \/ /\ k \in Stored /\ file[k].mtime = sweep.batch[k].mtime
          /\ sweep' = [sweep EXCEPT !.pc = "unlink", !.doomed[k] = file[k]]
       \/ k \in Stored /\ file[k].mtime # sweep.batch[k].mtime /\ UNCHANGED sweep
       \/ k \notin Stored /\ sweep' = [sweep EXCEPT !.batch[k] = NoVersion]
    /\ UNCHANGED <<indexVars, file, put, del, uploads, clock>>

\* evictOne's stat spares a version written in another second than the one the
\* walk saw.
EvictStat(k) ==
    LET same == k \in Stored /\ file[k].mtime = sweep.batch[k].mtime IN
    /\ sweep.pc = "evict" /\ k \in Batched
    /\ \/ same /\ sweep' = [sweep EXCEPT !.pc = "unlink", !.doomed[k] = file[k]]
       \/ ~same /\ sweep' = [sweep EXCEPT !.batch[k] = NoVersion]
    /\ UNCHANGED <<indexVars, file, put, del, uploads, clock>>

EvictUnlink(k) ==
    /\ sweep.pc = "unlink" /\ sweep.doomed[k] # NoVersion
    /\ file' = [file EXCEPT ![k] = NoVersion]
    /\ sweep' = [sweep EXCEPT !.pc = "evict", !.doomed[k] = NoVersion,
                     !.batch[k] = NoVersion, !.evicted = @ \/ k \in Stored]
    /\ UNCHANGED <<indexVars, put, del, uploads, clock>>

\* The batch is done and the walk goes on.
FlushEnd ==
    /\ sweep.pc = "evict" /\ Batched = {}
    /\ sweep' = [sweep EXCEPT !.pc = "walk"]
    /\ UNCHANGED <<indexVars, file, put, del, uploads, clock>>

\* The sweep ends, with a rebuild if it evicted anything.
WalkEnd ==
    /\ sweep.pc = "walk" /\ sweep.left = {} /\ Batched = {}
    /\ sweep' = IF sweep.evicted THEN [Resting EXCEPT !.pc = "rebuild", !.left = Key]
                                 ELSE Resting
    /\ UNCHANGED <<indexVars, file, put, del, uploads, clock>>

RebuildVisit(k) ==
    /\ sweep.pc = "rebuild" /\ k \in sweep.left
    /\ sweep' = [sweep EXCEPT !.left = @ \ {k}, !.seen = @ \cup ({k} \cap Stored)]
    /\ UNCHANGED <<indexVars, file, put, del, uploads, clock>>

RebuildApply ==
    /\ sweep.pc = "rebuild" /\ sweep.left = {}
    /\ IndexRebuild(sweep.seen)
    /\ sweep' = Resting
    /\ UNCHANGED <<file, put, del, uploads, clock>>

SweepStep ==
    \/ \E k \in Key : WalkVisit(k) \/ EvictStat(k) \/ EvictUnlink(k) \/ RebuildVisit(k)
    \/ Flush \/ FlushEnd \/ WalkEnd \/ RebuildApply

----------------------------------------------------------------------------
\* The process ends; NewStorage sweeps the temp files and NewIndex walks the
\* directory before the next one serves.
Crash ==
    /\ IndexRestart(Stored)
    /\ put' = [p \in Putter |-> Idle] /\ del' = [d \in Deleter |-> Idle]
    /\ sweep' = Resting
    /\ UNCHANGED <<file, uploads, clock>>

Tick == clock < MaxTime /\ clock' = clock + 1
        /\ UNCHANGED <<indexVars, file, put, del, sweep, uploads>>

PutStep(p) ==
    \/ \E k \in Key, b \in Body : WriteTemp(p, k, b)
    \/ CheckWriteOnce(p) \/ CompareBodies(p) \/ CompareStamps(p)
    \/ Rename(p) \/ Advertise(p)

Next ==
    \/ \E p \in Putter : PutStep(p)
    \/ \E d \in Deleter : DeleteEntry(d) \/ \E k \in Key : DeleteFile(d, k)
    \/ \E k \in Key : Read(k)
    \/ ServeIndex \/ Scan \/ SweepStep \/ Crash \/ Tick

Spec == Init /\ [][Next]_vars

\* The sweeper goroutine keeps running; nothing is assumed of the requests.
FairSpec == Spec /\ WF_vars(SweepStep)

----------------------------------------------------------------------------
Uploading == [pc : {"temp", "compare", "stamp", "rename", "index"}, key : Key, new : Versions]
Deleting == [pc : {"index"}, key : Key]
SomeVersions == [Key -> Versions \cup {NoVersion}]
Sweeping ==
    [pc : {"idle", "walk", "evict", "unlink", "rebuild"}, cutoff : 0..MaxTime + 1,
     left : SUBSET Key, batch : SomeVersions, doomed : SomeVersions,
     evicted : BOOLEAN, seen : SUBSET Key]

TypeOK ==
    /\ hashes \in SUBSET Key /\ pending \in SUBSET Key
    /\ file \in SomeVersions
    /\ put \in [Putter -> Uploading \cup {Idle}]
    /\ del \in [Deleter -> Deleting \cup {Idle}]
    /\ sweep \in Sweeping
    /\ uploads \in 1..MaxUploads /\ clock \in 0..MaxTime

\* The index advertises no key whose file is gone, at any point of a sweep: the
\* batch is de-advertised before the first unlink, the rebuild that follows
\* brings back no evicted key, and an upload advertises only what it renamed.
NoPhantom == Advertised \subseteq Stored

\* The keys the running batch has de-advertised and not settled yet.
Condemned == IF sweep.pc \in {"evict", "unlink"} THEN Batched ELSE {}

\* Every stored object is advertised, unless its upload is about to do it or the
\* sweep is about to unlink it: no upload is lost to the rebuild, which walks the
\* directory while uploads go on and then replaces the master list.
UploadsListed ==
    Stored \subseteq Advertised \cup Condemned
                       \cup {put[p].key : p \in {q \in Running : put[q].pc = "index"}}

\* A deleted key is not advertised once everything that touched it has returned:
\* "the server stops advertising a key it no longer stores" (Storage.Delete).
DeletedNotAdvertised ==
    Running = {} /\ sweep = Resting /\ (\A d \in Deleter : del[d] = Idle)
        => Advertised \subseteq Stored

\* What evictOne is about to unlink was last written in the second the walk saw,
\* unless a rename or a delete came after its stat: an upload that finished in
\* a later second than the walked version is never evicted for being old.
EvictsTheWalkedSecond ==
    \A k \in Key : sweep.doomed[k] # NoVersion =>
        \/ file[k].id # sweep.doomed[k].id
        \/ /\ file[k].mtime = sweep.batch[k].mtime
           /\ file[k].mtime < sweep.cutoff

\* Under write_once a stored object is replaced only by the stamp repair.
NeverReplaced ==
    [][\A k \in Key :
         file[k] # NoVersion /\ file'[k] # NoVersion /\ file'[k].id # file[k].id
             => <<file[k].body, file'[k].body>> \in Replaces]_vars

\* A sweep ends however requests write, overwrite and delete what it walks.
SweepEnds == sweep # Resting ~> sweep = Resting
=============================================================================
