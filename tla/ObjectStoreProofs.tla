------------------------- MODULE ObjectStoreProofs -------------------------
(***************************************************************************)
(* For every set of keys, uploads and bodies and every batch size:         *)
(*   a sweep never leaves a deleted key advertised, provided nothing falls *)
(*   into three windows: an upload older than the cutoff, a rename between *)
(*   evictOne's stat and remove, and two uploads of one key at once;       *)
(*   evictOne unlinks what the walk saw, whatever races with it;           *)
(*   write-once uploads stay advertised, provided no GET /_index merges    *)
(*   during a rebuild and no two uploads of one key run at once.           *)
(***************************************************************************)
EXTENDS ObjectStore, TLAPS

Indexing(p) == put[p].pc = "index"
Sweeps == sweep.pc \in {"walk", "evict", "unlink"}

\* A use is never before the write.
UsedAfterWritten ==
    /\ \A k \in Key : file[k] # NoVersion => file[k].mtime <= file[k].used
    /\ \A p \in Putter : put[p] # Idle => put[p].new.mtime <= put[p].new.used

\* An upload that has renamed finds its own version in place.
RenamedIsThere ==
    \A p \in Putter : Indexing(p) => file[put[p].key] # NoVersion
                                     /\ file[put[p].key].mtime = put[p].new.mtime

\* No two uploads of one key run at once.
NoTwins ==
    \A p, q \in Putter : put[p] # Idle /\ put[q] # Idle /\ put[p].key = put[q].key => p = q

\* The cutoff of a running sweep lies before every upload that still runs.
UploadsAreFresh ==
    Sweeps => /\ sweep.cutoff <= clock
              /\ \A p \in Putter : put[p] # Idle => sweep.cutoff <= put[p].new.mtime

\* A victim was written before the cutoff, and once its batch is flushed it is
\* advertised only if an upload has replaced it since.
VictimsAreOld ==
    \A k \in Key : sweep.batch[k] # NoVersion => sweep.batch[k].mtime < sweep.cutoff
Flushed ==
    sweep.pc \in {"evict", "unlink"} =>
        \A k \in Key : sweep.batch[k] # NoVersion /\ k \in Advertised =>
            file[k] # NoVersion /\ sweep.cutoff <= file[k].mtime

\* What evictOne is about to unlink is one old victim.
DoomedIsOld ==
    \A k \in Key : sweep.doomed[k] # NoVersion =>
        /\ sweep.pc = "unlink" /\ sweep.batch[k] # NoVersion
        /\ file[k] # NoVersion => file[k].mtime < sweep.cutoff
        /\ \A x \in Key : sweep.doomed[x] # NoVersion => x = k

\* A batch is held, and a rebuild's findings are, by the sweep that made them.
BatchIsSwept == \A k \in Key : sweep.batch[k] # NoVersion => Sweeps
SeenIsStored == sweep.seen \subseteq Stored /\ (Sweeps => sweep.seen = {})

Safe ==
    /\ NoPhantom
    /\ UsedAfterWritten /\ RenamedIsThere /\ NoTwins /\ UploadsAreFresh
    /\ VictimsAreOld /\ Flushed /\ DoomedIsOld /\ BatchIsSwept /\ SeenIsStored

IInv == TypeOK /\ Safe

\* The windows nothing falls into, and no deletes.
Quiet == Deleter = {} /\ {"fresh", "gap", "twin"} \subseteq Excluded

----------------------------------------------------------------------------
(* The invariants of the two other theorems.                               *)

\* A version is written once: no two uploads hold the same id, and one that has
\* not renamed holds an id that no file and no victim has.
IdsBounded ==
    /\ \A k \in Key : file[k].id <= uploads /\ sweep.doomed[k].id <= uploads
    /\ \A p \in Putter : put[p] # Idle => put[p].new.id <= uploads
IdsDistinct ==
    \A p, q \in Putter : put[p] # Idle /\ put[q] # Idle /\ p # q => put[p].new.id # put[q].new.id
IdsUnused ==
    \A p \in Putter, k \in Key : put[p] # Idle /\ ~Indexing(p) =>
        put[p].new.id # file[k].id /\ put[p].new.id # sweep.doomed[k].id

\* The one victim evictOne has found unchanged is still of the walked second, if
\* it is there.
DoomedIsWalked ==
    \A k \in Key : sweep.doomed[k] # NoVersion =>
        /\ sweep.pc = "unlink" /\ sweep.batch[k] # NoVersion
        /\ file[k].id = sweep.doomed[k].id => file[k].mtime = sweep.batch[k].mtime
        /\ \A x \in Key : sweep.doomed[x] # NoVersion => x = k

Walked ==
    /\ UsedAfterWritten /\ IdsBounded /\ IdsDistinct /\ IdsUnused
    /\ VictimsAreOld /\ DoomedIsWalked

\* An upload of k has renamed and not advertised yet; UploadsListed, key by key.
Arriving(k) == \E p \in Putter : Indexing(p) /\ put[p].key = k
Condemns(k) == sweep.pc \in {"evict", "unlink"} /\ sweep.batch[k] # NoVersion
KeyListed(k) == file[k] # NoVersion => k \in hashes \/ k \in pending \/ Condemns(k) \/ Arriving(k)

\* Under write_once never or always an upload renames only where no file is.
FirstWrites ==
    \A p \in Putter : /\ put[p].pc \notin {"compare", "stamp"}
                      /\ put[p].pc = "rename" => file[put[p].key] = NoVersion

\* A victim stays in place, as the walk saw it, until the sweep unlinks it.
VictimsStay ==
    \A k \in Key : sweep.batch[k] # NoVersion =>
        file[k] # NoVersion /\ file[k].mtime = sweep.batch[k].mtime

\* What the rebuild's walk has passed by is still pending, or about to be.
RebuildFinds ==
    sweep.pc = "rebuild" => \A k \in Key : file[k] # NoVersion =>
        k \in sweep.seen \/ k \in sweep.left \/ k \in pending \/ Arriving(k)

Listed == (\A k \in Key : KeyListed(k)) /\ NoTwins /\ FirstWrites /\ VictimsStay /\ RebuildFinds

\* Write-once uploads, no deletes, and the two windows nothing falls into.
QuietIndex == Deleter = {} /\ WriteOnce \in {"never", "always"} /\ {"merge", "twin"} \subseteq Excluded

----------------------------------------------------------------------------
(* Types.                                                                  *)

\* A path holds a version or nothing, and both have their fields apart.
LEMMA NoVersionApart == NoVersion \notin Versions
BY DEF NoVersion, Versions

\* An idle request is no running one.
LEMMA IdleApart == Idle \notin Uploading /\ Idle \notin Deleting
BY Zenon DEF Idle, Uploading, Deleting

\* A running upload is an Uploading record.
LEMMA RunningType ==
    ASSUME TypeOK, NEW p \in Putter, put[p] # Idle
    PROVE  put[p] \in Uploading /\ put[p].key \in Key /\ put[p].new \in Versions
BY Zenon DEF TypeOK, Uploading

\* A step of an upload from one place to another keeps the type of uploads.
LEMMA PutGoesType ==
    ASSUME TypeOK, NEW p \in Putter, put[p] # Idle,
           NEW l \in {"temp", "compare", "stamp", "rename", "index"}, PutGoes(p, l)
    PROVE  put' \in [Putter -> Uploading \cup {Idle}]
<1>1. put[p] \in Uploading
  BY RunningType, Zenon
<1>2. [put[p] EXCEPT !.pc = l] \in Uploading
  BY <1>1, Zenon DEF Uploading
<1> QED
  BY <1>2, Zenon DEF PutGoes, TypeOK

\* So does its return.
LEMMA PutReturnsType ==
    ASSUME TypeOK, NEW p \in Putter, PutReturns(p)
    PROVE  put' \in [Putter -> Uploading \cup {Idle}]
BY Zenon DEF PutReturns, TypeOK

\* An upload with a place in PutStream is running.
LEMMA PutPc ==
    ASSUME NEW p \in Putter,
           put[p].pc \in {"temp", "compare", "stamp", "rename", "index"}
    PROVE  put[p] # Idle
BY DEF Idle

\* PutStream's steps keep the types.
LEMMA PutType == ASSUME TypeOK, NEW p \in Putter, PutStep(p) PROVE TypeOK'
<1> USE StoreAssumption
<1>1. ASSUME NEW k \in Key, NEW b \in Body, WriteTemp(p, k, b) PROVE TypeOK'
  <2> DEFINE up == [pc |-> "temp", key |-> k,
                    new |-> [id |-> uploads + 1, body |-> b, mtime |-> clock, used |-> clock]]
  <2>1. uploads + 1 \in 1..MaxUploads
    BY <1>1 DEF TypeOK, WriteTemp
  <2>2. up \in Uploading
    BY <2>1, Zenon DEF Uploading, Versions, TypeOK
  <2>3. put' = [put EXCEPT ![p] = up] /\ uploads' = uploads + 1
    BY <1>1, Zenon DEF WriteTemp
  <2>4. put' \in [Putter -> Uploading \cup {Idle}] /\ uploads' \in 1..MaxUploads
    BY <2>1, <2>2, <2>3, Zenon DEF TypeOK
  <2> QED
    BY <1>1, <2>4, Zenon DEF WriteTemp, TypeOK, indexVars
<1>2. CASE CheckWriteOnce(p) \/ CompareBodies(p) \/ CompareStamps(p)
  <2>1. put' \in [Putter -> Uploading \cup {Idle}]
    BY <1>2, PutPc, PutGoesType, PutReturnsType, Zenon DEF CheckWriteOnce, CompareBodies,
       CompareStamps
  <2>2. UNCHANGED <<hashes, pending, file, del, sweep, uploads, clock>>
    BY <1>2, Zenon DEF CheckWriteOnce, CompareBodies, CompareStamps, indexVars
  <2> QED
    BY <2>1, <2>2, Zenon DEF TypeOK
<1>3. CASE Rename(p)
  <2>1. put[p] # Idle
    BY <1>3, PutPc, Zenon DEF Rename
  <2>2. put' \in [Putter -> Uploading \cup {Idle}]
    BY <1>3, <2>1, PutGoesType, Zenon DEF Rename
  <2>3. file' \in SomeVersions
    BY <1>3, <2>1, RunningType, Zenon DEF Rename, TypeOK, SomeVersions
  <2> QED
    BY <1>3, <2>2, <2>3, Zenon DEF Rename, TypeOK, indexVars
<1>4. CASE Advertise(p)
  <2>1. put[p] # Idle
    BY <1>4, PutPc, Zenon DEF Advertise
  <2>2. put' \in [Putter -> Uploading \cup {Idle}]
    BY <1>4, PutReturnsType, Zenon DEF Advertise
  <2>3. pending' \in SUBSET Key /\ hashes' \in SUBSET Key
    BY <1>4, <2>1, RunningType, Zenon DEF Advertise, IndexPut, TypeOK
  <2> QED
    BY <1>4, <2>2, <2>3, Zenon DEF Advertise, TypeOK
<1> QED
  BY <1>1, <1>2, <1>3, <1>4, Zenon DEF PutStep

\* The sweeper's steps keep the types.
LEMMA SweepType == ASSUME TypeOK, Scan \/ SweepStep PROVE TypeOK'
<1> USE StoreAssumption
<1>0. sweep \in Sweeping /\ NoVersions \in SomeVersions /\ Resting \in Sweeping
  BY SMTT(30) DEF TypeOK, NoVersions, SomeVersions, Resting, Sweeping
<1>1. CASE Scan
  <2>1. PICK cutoff \in Cutoffs :
            sweep' = [Resting EXCEPT !.pc = "walk", !.cutoff = cutoff, !.left = Key]
    BY Zenon, <1>1 DEF Scan
  <2>2. cutoff \in 0..MaxTime + 1
    BY DEF Cutoffs, TypeOK, Stored, SomeVersions, Versions
  <2>3. sweep' \in Sweeping
    BY Zenon, <1>0, <2>1, <2>2 DEF Sweeping
  <2> QED
    BY ZenonT(30), <1>1, <2>3 DEF Scan, TypeOK, indexVars
<1>2. ASSUME NEW k \in Key, WalkVisit(k) PROVE TypeOK'
  <2>1. (IF k \in Stored /\ file[k].used < sweep.cutoff THEN file[k] ELSE NoVersion)
            \in Versions \cup {NoVersion}
    BY Zenon DEF TypeOK, SomeVersions
  <2>2. sweep' \in Sweeping
    BY Zenon, <1>0, <1>2, <2>1 DEF WalkVisit, Sweeping, SomeVersions
  <2> QED
    BY <1>2, <2>2, Zenon DEF WalkVisit, TypeOK, indexVars
<1>3. CASE Flush
  <2>1. sweep' \in Sweeping
    BY <1>0, <1>3, Zenon DEF Flush, Sweeping
  <2> QED
    BY <1>3, <2>1, Zenon DEF Flush, TypeOK, IndexRemove
<1>4. ASSUME NEW k \in Key, EvictStat(k) PROVE TypeOK'
  <2>1. PICK v \in Versions \cup {NoVersion} : v = file[k]
    BY Zenon DEF TypeOK, SomeVersions
  <2>5. [sweep.doomed EXCEPT ![k] = v] \in SomeVersions
    BY <1>0, Zenon DEF Sweeping, SomeVersions
  <2>3. sweep' = [sweep EXCEPT !.pc = "unlink", !.doomed[k] = v] => sweep' \in Sweeping
    BY ZenonT(30), <1>0, <2>5 DEF Sweeping
  <2>4. sweep' = [sweep EXCEPT !.batch[k] = NoVersion] => sweep' \in Sweeping
    BY <1>0 DEF Sweeping, SomeVersions
  <2>2. sweep' \in Sweeping
    BY <1>4, <2>1, <2>3, <2>4, Zenon DEF EvictStat
  <2> QED
    BY <1>4, <2>2, Zenon DEF EvictStat, TypeOK, indexVars
<1>5. ASSUME NEW k \in Key, EvictUnlink(k) PROVE TypeOK'
  <2>0. PICK e \in BOOLEAN : e = (sweep.evicted \/ k \in Stored)
    BY Zenon
  <2>1. sweep' = [sweep EXCEPT !.pc = "evict", !.doomed[k] = NoVersion,
                     !.batch[k] = NoVersion, !.evicted = e]
    BY <1>5, <2>0, Zenon DEF EvictUnlink
  <2>2. sweep' \in Sweeping
    BY Zenon, <1>0, <2>1 DEF Sweeping, SomeVersions
  <2>3. file' \in SomeVersions
    BY <1>5, Zenon DEF EvictUnlink, TypeOK, SomeVersions
  <2> QED
    BY <1>5, <2>2, <2>3, Zenon DEF EvictUnlink, TypeOK, indexVars
<1>6. CASE FlushEnd \/ WalkEnd
  <2>2. sweep' = [sweep EXCEPT !.pc = "walk"] => sweep' \in Sweeping
    BY <1>0, Zenon DEF Sweeping
  <2>3. sweep' = [Resting EXCEPT !.pc = "rebuild", !.left = Key] => sweep' \in Sweeping
    BY ZenonT(30), <1>0 DEF Sweeping
  <2>1. sweep' \in Sweeping
    BY <1>0, <1>6, <2>2, <2>3, Zenon DEF FlushEnd, WalkEnd
  <2> QED
    BY <1>6, <2>1, Zenon DEF FlushEnd, WalkEnd, TypeOK, indexVars
<1>7. ASSUME NEW k \in Key, RebuildVisit(k) PROVE TypeOK'
  <2>1. sweep' \in Sweeping
    BY ZenonT(30), <1>0, <1>7 DEF RebuildVisit, Sweeping
  <2> QED
    BY <1>7, <2>1, Zenon DEF RebuildVisit, TypeOK, indexVars
<1>8. CASE RebuildApply
  <2>1. sweep.seen \in SUBSET Key
    BY <1>0, Zenon DEF Sweeping
  <2> QED
    BY <1>0, <1>8, <2>1, Zenon DEF RebuildApply, TypeOK, IndexRebuild
<1> QED
  BY <1>1, <1>2, <1>3, <1>4, <1>5, <1>6, <1>7, <1>8, Zenon DEF SweepStep

\* So do the deletes, the reads, the index request, a crash and the clock.
LEMMA TypeStep == ASSUME TypeOK, [Next]_vars PROVE TypeOK'
<1> USE StoreAssumption
<1>1. ASSUME NEW d \in Deleter, NEW k \in Key, DeleteFile(d, k) PROVE TypeOK'
  <2>1. file' \in SomeVersions
    BY <1>1, Zenon DEF DeleteFile, TypeOK, SomeVersions
  <2>2. del' \in [Deleter -> Deleting \cup {Idle}]
    BY <1>1, Zenon DEF DeleteFile, TypeOK, Deleting
  <2> QED
    BY <1>1, <2>1, <2>2, Zenon DEF DeleteFile, TypeOK, indexVars
<1>2. ASSUME NEW d \in Deleter, DeleteEntry(d) PROVE TypeOK'
  BY <1>2, Zenon DEF DeleteEntry, TypeOK, IndexRemove
<1>3. ASSUME NEW k \in Key, Read(k) PROVE TypeOK'
  <2>1. file[k] \in Versions
    BY <1>3, Zenon DEF Read, Stored, TypeOK, SomeVersions
  <2>2. [file[k] EXCEPT !.used = clock] \in Versions
    BY <2>1, Zenon DEF Versions, TypeOK
  <2>3. file' \in SomeVersions
    BY <1>3, <2>2, Zenon DEF Read, TypeOK, SomeVersions
  <2> QED
    BY <1>3, <2>3, Zenon DEF Read, TypeOK, indexVars
<1>4. CASE ServeIndex
  BY <1>4, Zenon DEF ServeIndex, IndexMerge, Advertised, TypeOK
<1>5. CASE Crash
  <2>1. Resting \in Sweeping
    BY DEF Resting, NoVersions, Sweeping, SomeVersions
  <2> QED
    BY <1>5, <2>1, Zenon DEF Crash, IndexRestart, Stored, TypeOK
<1>6. CASE Tick
  BY <1>6 DEF Tick, TypeOK, indexVars
<1>7. CASE UNCHANGED vars
  BY <1>7, Zenon DEF vars, TypeOK
<1> QED
  BY <1>1, <1>2, <1>3, <1>4, <1>5, <1>6, <1>7, PutType, SweepType, Zenon DEF Next

\* The initial state has them.
LEMMA TypeStart == ASSUME Init PROVE TypeOK
<1> USE StoreAssumption
<1>1. file \in SomeVersions
  BY DEF Init, SomeVersions, Versions
<1>2. sweep \in Sweeping
  BY DEF Init, Resting, NoVersions, Sweeping, SomeVersions
<1> QED
  BY <1>1, <1>2 DEF Init, IndexInit, TypeOK

\* Every run of the store stays within its types, deletes, races and all.
THEOREM StoreTypes == Spec => []TypeOK
<1>1. Init => TypeOK
  BY TypeStart, Zenon
<1>2. TypeOK /\ [Next]_vars => TypeOK'
  BY TypeStep, Zenon
<1> QED
  BY <1>1, <1>2, PTL DEF Spec

----------------------------------------------------------------------------
(* The invariant, one lemma per actor.                                     *)

\* Nothing the sweep or the index relies on changed.
LEMMA SweepKeeps ==
    ASSUME Safe, UNCHANGED <<hashes, pending, file, sweep>>
    PROVE  /\ NoPhantom' /\ VictimsAreOld' /\ Flushed' /\ DoomedIsOld'
           /\ BatchIsSwept' /\ SeenIsStored'
BY Zenon DEF Safe, NoPhantom, VictimsAreOld, Flushed, DoomedIsOld, BatchIsSwept, SeenIsStored,
   Stored, Advertised, Sweeps

\* An upload returns, or moves on before its rename.
LEMMA PutMoves ==
    ASSUME TypeOK, Safe, NEW p \in Putter, put[p] # Idle,
           UNCHANGED <<hashes, pending, file, sweep, clock>>,
           PutReturns(p) \/ \E l \in {"compare", "stamp", "rename"} : PutGoes(p, l)
    PROVE  Safe'
<1>0. /\ \A q \in Putter : q # p => put'[q] = put[q]
      /\ \/ put'[p] = Idle
         \/ /\ put'[p].key = put[p].key /\ put'[p].new = put[p].new
            /\ put'[p].pc # "index"
  BY RunningType DEF PutReturns, PutGoes, TypeOK, Uploading
<1>1. Idle.pc # "index"
  BY Zenon DEF Idle
<1>2. UsedAfterWritten'
  BY <1>0, Zenon DEF Safe, UsedAfterWritten
<1>3. RenamedIsThere'
  BY <1>0, <1>1, Zenon DEF Safe, RenamedIsThere, Indexing
<1>4. NoTwins'
  BY <1>0 DEF Safe, NoTwins
<1>5. UploadsAreFresh'
  BY <1>0, Zenon DEF Safe, UploadsAreFresh, Sweeps
<1> QED
  BY <1>2, <1>3, <1>4, <1>5, SweepKeeps, Zenon DEF Safe

\* PutStream.
LEMMA PutSafe ==
    ASSUME Quiet, TypeOK, Safe, NEW p \in Putter, PutStep(p), TypeOK'
    PROVE  Safe'
<1>1. ASSUME NEW k \in Key, NEW b \in Body, WriteTemp(p, k, b) PROVE Safe'
  <2>1. /\ UNCHANGED <<hashes, pending, file, sweep, clock>>
        /\ \A q \in Putter : q # p => put'[q] = put[q]
        /\ put'[p].pc = "temp" /\ put'[p].key = k
        /\ put'[p].new.mtime = clock /\ put'[p].new.used = clock
    BY <1>1, Zenon DEF WriteTemp, indexVars, TypeOK
  <2>2. \A q \in Putter : put[q] # Idle => put[q].key # k
    BY <1>1, Zenon DEF WriteTemp, Quiet, Running
  <2>3. clock \in Nat
    BY StoreAssumption DEF TypeOK
  <2>4. UsedAfterWritten'
    BY SMTT(30), <2>1, <2>3 DEF Safe, UsedAfterWritten
  <2>5. RenamedIsThere'
    BY <2>1, Zenon DEF Safe, RenamedIsThere, Indexing
  <2>6. NoTwins'
    BY <2>1, <2>2, ZenonT(40) DEF Safe, NoTwins
  <2>7. UploadsAreFresh'
    BY <2>1, Zenon DEF Safe, UploadsAreFresh, Sweeps
  <2> QED
    BY <2>1, <2>4, <2>5, <2>6, <2>7, SweepKeeps, Zenon DEF Safe
<1>2. CASE CheckWriteOnce(p) \/ CompareBodies(p) \/ CompareStamps(p)
  <2>1. put[p] # Idle
    BY <1>2, PutPc, Zenon DEF CheckWriteOnce, CompareBodies, CompareStamps
  <2>2. /\ UNCHANGED <<hashes, pending, file, sweep, clock>>
        /\ PutReturns(p) \/ \E l \in {"compare", "stamp", "rename"} : PutGoes(p, l)
    BY <1>2, Zenon DEF CheckWriteOnce, CompareBodies, CompareStamps, indexVars
  <2> QED
    BY <2>1, <2>2, PutMoves, Zenon
<1>3. CASE Rename(p)
  <2>0. put[p] # Idle
    BY <1>3, PutPc, Zenon DEF Rename
  <2>1. PICK k \in Key, new \in Versions : k = put[p].key /\ new = put[p].new
    BY <2>0, RunningType, Zenon
  <2>2. /\ UNCHANGED <<hashes, pending, sweep, clock>>
        /\ file'[k] = new /\ \A x \in Key : x # k => file'[x] = file[x]
        /\ sweep.doomed[k] = NoVersion
        /\ \A q \in Putter : q # p => put'[q] = put[q]
    BY <1>3, <2>1, Zenon DEF Rename, Quiet, TypeOK, SomeVersions, PutGoes, indexVars
  <2>3. put'[p].key = k /\ put'[p].new = new
    BY <1>3, <2>0, <2>1, RunningType, Zenon DEF Rename, PutGoes, TypeOK, Uploading
  <2>4. new # NoVersion /\ new.mtime <= new.used
    BY <2>0, <2>1, NoVersionApart, Zenon DEF Safe, UsedAfterWritten
  <2>5. Sweeps => sweep.cutoff <= new.mtime
    BY <2>0, <2>1, Zenon DEF Safe, UploadsAreFresh
  <2>6. \A x \in Stored : x \in Stored'
    BY <2>2, <2>4, Zenon DEF Stored
  <2>7. NoPhantom' /\ SeenIsStored'
    BY <2>2, <2>6, Zenon DEF Safe, NoPhantom, SeenIsStored, Advertised, Sweeps
  <2>8. UsedAfterWritten'
    BY <2>0, <2>2, <2>3, <2>4, Zenon DEF Safe, UsedAfterWritten
  <2>9. RenamedIsThere'
    <3> SUFFICES ASSUME NEW q \in Putter, Indexing(q)'
                 PROVE  file'[put'[q].key] # NoVersion
                        /\ file'[put'[q].key].mtime = put'[q].new.mtime
      BY Zenon DEF RenamedIsThere
    <3>1. CASE q = p
      BY <2>2, <2>3, <2>4, <3>1, Zenon
    <3>2. CASE q # p
      <4>1. put'[q] = put[q] /\ put[q].pc = "index" /\ put[q] # Idle
        BY <2>2, <3>2, PutPc, Zenon DEF Indexing
      <4>2. put[q].key # k /\ put[q].key \in Key
        BY <2>0, <2>1, <3>2, <4>1, RunningType, Zenon DEF Safe, NoTwins
      <4> QED
        BY <2>2, <4>1, <4>2, ZenonT(40) DEF Safe, RenamedIsThere, Indexing
    <3> QED
      BY <3>1, <3>2, Zenon
  <2>10. NoTwins'
    BY <2>0, <2>1, <2>2, <2>3 DEF Safe, NoTwins
  <2>11. UploadsAreFresh'
    BY <2>0, <2>1, <2>2, <2>3, Zenon DEF Safe, UploadsAreFresh, Sweeps
  <2>12. VictimsAreOld' /\ BatchIsSwept'
    BY <2>2, Zenon DEF Safe, VictimsAreOld, BatchIsSwept, Sweeps
  <2>13. Flushed'
    BY <2>2, <2>4, <2>5, Zenon DEF Safe, Flushed, Sweeps, Advertised
  <2>14. DoomedIsOld'
    BY <2>2, Zenon DEF Safe, DoomedIsOld
  <2> QED
    BY <2>7, <2>8, <2>9, <2>10, <2>11, <2>12, <2>13, <2>14, Zenon DEF Safe
<1>4. CASE Advertise(p)
  <2>0. put[p] # Idle /\ Indexing(p)
    BY <1>4, PutPc, Zenon DEF Advertise, Indexing
  <2>1. PICK k \in Key : k = put[p].key
    BY <2>0, RunningType, Zenon
  <2>2. /\ UNCHANGED <<file, sweep, clock, hashes>> /\ pending' = pending \cup {k}
        /\ put'[p] = Idle /\ \A q \in Putter : q # p => put'[q] = put[q]
    BY <1>4, <2>1, Zenon DEF Advertise, IndexPut, PutReturns, TypeOK
  <2>3. /\ file[k] # NoVersion /\ k \in Stored
        /\ Sweeps => sweep.cutoff <= file[k].mtime
    BY <2>0, <2>1, Zenon DEF Safe, RenamedIsThere, UploadsAreFresh, Stored
  <2>4. Advertised' = Advertised \cup {k} /\ Stored' = Stored
    BY <2>2, Zenon DEF Advertised, Stored
  <2>5. NoPhantom' /\ SeenIsStored'
    BY <2>2, <2>3, <2>4, Zenon DEF Safe, NoPhantom, SeenIsStored, Sweeps
  <2>6. UsedAfterWritten' /\ NoTwins'
    BY <2>2, Zenon DEF Safe, UsedAfterWritten, NoTwins
  <2>7. RenamedIsThere'
    BY <2>2 DEF Safe, RenamedIsThere, Indexing, Idle
  <2>8. UploadsAreFresh'
    BY <2>2, Zenon DEF Safe, UploadsAreFresh, Sweeps
  <2>9. VictimsAreOld' /\ BatchIsSwept' /\ DoomedIsOld'
    BY <2>2, Zenon DEF Safe, VictimsAreOld, BatchIsSwept, DoomedIsOld, Sweeps
  <2>10. Flushed'
    BY <2>2, <2>3, <2>4, Zenon DEF Safe, Flushed, Sweeps
  <2> QED
    BY <2>5, <2>6, <2>7, <2>8, <2>9, <2>10, Zenon DEF Safe
<1> QED
  BY <1>1, <1>2, <1>3, <1>4, Zenon DEF PutStep

\* The sweeper between two sweeps holds no batch.
LEMMA RestingHolds ==
    /\ Resting.pc = "idle" /\ Resting.batch = NoVersions /\ Resting.doomed = NoVersions
    /\ Resting.seen = {} /\ \A k \in Key : NoVersions[k] = NoVersion
BY Zenon DEF Resting, NoVersions

\* A sweeper that holds no batch and does not walk satisfies its part.
LEMMA EmptyHanded ==
    ASSUME \A k \in Key : sweep.batch[k] = NoVersion /\ sweep.doomed[k] = NoVersion,
           ~Sweeps
    PROVE  VictimsAreOld /\ Flushed /\ DoomedIsOld /\ BatchIsSwept /\ UploadsAreFresh
BY Zenon DEF VictimsAreOld, Flushed, DoomedIsOld, BatchIsSwept, UploadsAreFresh, Sweeps

\* The fields the arguments compare are numbers.
LEMMA SweepNumbers ==
    ASSUME TypeOK
    PROVE  /\ sweep \in Sweeping /\ sweep.cutoff \in Int /\ clock \in Int
           /\ \A k \in Key : file[k] # NoVersion =>
                 file[k].mtime \in Int /\ file[k].used \in Int
           /\ \A k \in Key : sweep.batch[k] # NoVersion => sweep.batch[k].mtime \in Int
BY SMTT(30), StoreAssumption DEF TypeOK, Sweeping, SomeVersions, Versions

\* Facts about uploads and versions that only files and uploads decide.
LEMMA PutKeeps ==
    ASSUME Safe, UNCHANGED <<file, put>>
    PROVE  UsedAfterWritten' /\ RenamedIsThere' /\ NoTwins'
BY Zenon DEF Safe, UsedAfterWritten, RenamedIsThere, NoTwins, Indexing

\* The sweep: Evict, sweepBelow, evictOne and the rebuild.
LEMMA SweepSafe ==
    ASSUME Quiet, TypeOK, Safe, Scan \/ SweepStep, TypeOK'
    PROVE  Safe'
<1>0. sweep \in Sweeping
  BY SweepNumbers, Zenon
<1>1. CASE Scan
  <2>1. PICK cutoff \in Cutoffs :
            /\ cutoff <= clock /\ \A p \in Running : cutoff <= put[p].new.mtime
            /\ sweep' = [Resting EXCEPT !.pc = "walk", !.cutoff = cutoff, !.left = Key]
    BY ZenonT(30), <1>1 DEF Scan, Quiet
  <2>2. UNCHANGED <<hashes, pending, file, put, clock>>
    BY Zenon, <1>1 DEF Scan, indexVars
  <2>3. /\ sweep'.pc = "walk" /\ sweep'.cutoff = cutoff /\ sweep'.seen = {}
        /\ \A k \in Key : sweep'.batch[k] = NoVersion /\ sweep'.doomed[k] = NoVersion
    BY <2>1, RestingHolds, Zenon DEF Resting
  <2>4. UploadsAreFresh'
    BY <2>1, <2>2, <2>3, Zenon DEF UploadsAreFresh, Running
  <2>5. NoPhantom' /\ SeenIsStored'
    BY <2>2, <2>3, Zenon DEF Safe, NoPhantom, SeenIsStored, Advertised, Stored
  <2>6. VictimsAreOld' /\ Flushed' /\ DoomedIsOld' /\ BatchIsSwept'
    BY <2>3, Zenon DEF VictimsAreOld, Flushed, DoomedIsOld, BatchIsSwept
  <2> QED
    BY <2>2, <2>4, <2>5, <2>6, PutKeeps, Zenon DEF Safe
<1>2. ASSUME NEW k \in Key, WalkVisit(k) PROVE Safe'
  <2>1. /\ UNCHANGED <<hashes, pending, file, put, clock>> /\ sweep.pc = "walk"
        /\ sweep'.pc = "walk" /\ sweep'.cutoff = sweep.cutoff /\ sweep'.seen = sweep.seen
        /\ sweep'.doomed = sweep.doomed
    BY <1>0, <1>2, Zenon DEF WalkVisit, indexVars, Sweeping
  <2>2. /\ \A x \in Key : x # k => sweep'.batch[x] = sweep.batch[x]
        /\ sweep'.batch[k] # NoVersion =>
               sweep'.batch[k] = file[k] /\ file[k].used < sweep.cutoff
    BY <1>0, <1>2, Zenon DEF WalkVisit, Sweeping, SomeVersions
  <2>3. sweep'.batch[k] # NoVersion => sweep'.batch[k].mtime < sweep.cutoff
    BY <2>2, SweepNumbers DEF Safe, UsedAfterWritten
  <2>4. VictimsAreOld'
    BY <2>1, <2>2, <2>3, Zenon DEF Safe, VictimsAreOld
  <2>5. Flushed' /\ BatchIsSwept' /\ UploadsAreFresh' /\ SeenIsStored' /\ NoPhantom'
    BY <2>1, Zenon DEF Safe, Flushed, BatchIsSwept, UploadsAreFresh, SeenIsStored, NoPhantom,
       Sweeps, Stored, Advertised
  <2>6. DoomedIsOld'
    BY <2>1, Zenon DEF Safe, DoomedIsOld
  <2> QED
    BY <2>1, <2>4, <2>5, <2>6, PutKeeps, Zenon DEF Safe
<1>3. CASE Flush
  <2>1. /\ UNCHANGED <<file, put, clock>> /\ sweep.pc = "walk" /\ sweep'.pc = "evict"
        /\ sweep'.cutoff = sweep.cutoff /\ sweep'.seen = sweep.seen
        /\ sweep'.doomed = sweep.doomed /\ sweep'.batch = sweep.batch
    BY <1>0, <1>3, Zenon DEF Flush, Sweeping
  <2>2. Advertised' = Advertised \ Batched
    BY <1>3, Zenon DEF Flush, IndexRemove, Advertised
  <2>3. NoPhantom' /\ SeenIsStored'
    BY <2>1, <2>2, Zenon DEF Safe, NoPhantom, SeenIsStored, Sweeps, Stored
  <2>4. Flushed'
    BY <2>1, <2>2, Zenon DEF Flushed, Batched
  <2>5. VictimsAreOld' /\ DoomedIsOld' /\ BatchIsSwept' /\ UploadsAreFresh'
    BY <2>1, Zenon DEF Safe, VictimsAreOld, DoomedIsOld, BatchIsSwept, UploadsAreFresh, Sweeps
  <2> QED
    BY <2>1, <2>3, <2>4, <2>5, PutKeeps, Zenon DEF Safe
<1>4. ASSUME NEW k \in Key, EvictStat(k) PROVE Safe'
  <2>1. /\ UNCHANGED <<hashes, pending, file, put, clock>>
        /\ sweep.pc = "evict" /\ sweep.batch[k] # NoVersion
    BY <1>4, Zenon DEF EvictStat, indexVars, Batched
  <2>2. \/ /\ sweep' = [sweep EXCEPT !.pc = "unlink", !.doomed[k] = file[k]]
           /\ file[k].mtime = sweep.batch[k].mtime
        \/ sweep' = [sweep EXCEPT !.batch[k] = NoVersion]
    BY <1>4, Zenon DEF EvictStat
  <2>3. /\ sweep'.pc \in {"evict", "unlink"}
        /\ sweep'.cutoff = sweep.cutoff /\ sweep'.seen = sweep.seen
        /\ \A x \in Key : sweep'.batch[x] # NoVersion => sweep'.batch[x] = sweep.batch[x]
        /\ \A x \in Key : x # k => sweep'.doomed[x] = sweep.doomed[x]
    <3>1. CASE sweep' = [sweep EXCEPT !.pc = "unlink", !.doomed[k] = file[k]]
      <4>1. /\ sweep'.pc = "unlink" /\ sweep'.cutoff = sweep.cutoff
            /\ sweep'.seen = sweep.seen /\ sweep'.batch = sweep.batch
            /\ sweep'.doomed = [sweep.doomed EXCEPT ![k] = file[k]]
        BY <1>0, <3>1, Zenon DEF Sweeping
      <4>2. sweep.doomed \in SomeVersions
        BY <1>0, Zenon DEF Sweeping
      <4> QED
        BY <4>1, <4>2, Zenon DEF SomeVersions
    <3>2. CASE sweep' = [sweep EXCEPT !.batch[k] = NoVersion]
      <4>1. /\ sweep'.pc = sweep.pc /\ sweep'.cutoff = sweep.cutoff
            /\ sweep'.seen = sweep.seen /\ sweep'.doomed = sweep.doomed
            /\ sweep'.batch = [sweep.batch EXCEPT ![k] = NoVersion]
        BY <1>0, <3>2, Zenon DEF Sweeping
      <4>2. sweep.batch \in SomeVersions
        BY <1>0, Zenon DEF Sweeping
      <4> QED
        BY <2>1, <4>1, <4>2, Zenon DEF SomeVersions
    <3> QED
      BY <2>2, <3>1, <3>2, Zenon
  <2>4. \A x \in Key : sweep.doomed[x] = NoVersion
    BY <2>1, Zenon DEF Safe, DoomedIsOld
  <2>5. sweep'.doomed[k] # NoVersion =>
            sweep'.pc = "unlink" /\ sweep'.batch[k] # NoVersion
            /\ file[k].mtime = sweep.batch[k].mtime
    BY ZenonT(30), <1>0, <2>1, <2>2, <2>4 DEF Sweeping, SomeVersions
  <2>6. DoomedIsOld'
    BY <2>1, <2>3, <2>4, <2>5, ZenonT(40) DEF Safe, DoomedIsOld, VictimsAreOld
  <2>7. VictimsAreOld' /\ BatchIsSwept' /\ UploadsAreFresh'
    BY ZenonT(30), <2>1, <2>3 DEF Safe, VictimsAreOld, BatchIsSwept, UploadsAreFresh, Sweeps
  <2>8. Flushed'
    BY <2>1, <2>3, Zenon DEF Safe, Flushed, Advertised
  <2>9. NoPhantom' /\ SeenIsStored'
    BY <2>1, <2>3, Zenon DEF Safe, NoPhantom, SeenIsStored, Sweeps, Stored, Advertised
  <2> QED
    BY <2>1, <2>6, <2>7, <2>8, <2>9, PutKeeps, Zenon DEF Safe
<1>5. ASSUME NEW k \in Key, EvictUnlink(k) PROVE Safe'
  <2>1. /\ UNCHANGED <<hashes, pending, put, clock>>
        /\ sweep.pc = "unlink" /\ sweep.doomed[k] # NoVersion
        /\ file'[k] = NoVersion /\ \A x \in Key : x # k => file'[x] = file[x]
    BY <1>5, Zenon DEF EvictUnlink, indexVars, TypeOK, SomeVersions
  <2>2. /\ sweep'.pc = "evict" /\ sweep'.cutoff = sweep.cutoff /\ sweep'.seen = sweep.seen
        /\ sweep'.batch[k] = NoVersion /\ sweep'.doomed[k] = NoVersion
        /\ \A x \in Key : x # k => /\ sweep'.batch[x] = sweep.batch[x]
                                   /\ sweep'.doomed[x] = sweep.doomed[x]
    BY <1>0, <1>5, Zenon DEF EvictUnlink, Sweeping, SomeVersions
  <2>3. /\ sweep.batch[k] # NoVersion
        /\ file[k] # NoVersion => file[k].mtime < sweep.cutoff
        /\ \A x \in Key : sweep'.doomed[x] = NoVersion
    BY <2>1, <2>2, Zenon DEF Safe, DoomedIsOld
  <2>4. k \notin Advertised
    BY <2>1, <2>3, SweepNumbers DEF Safe, Flushed
  <2>5. Stored' = Stored \ {k} /\ Advertised' = Advertised
    BY <2>1, Zenon DEF Stored, Advertised
  <2>6. NoPhantom' /\ SeenIsStored'
    BY <2>1, <2>2, <2>4, <2>5, Zenon DEF Safe, NoPhantom, SeenIsStored, Sweeps
  <2>7. RenamedIsThere'
    <3> SUFFICES ASSUME NEW q \in Putter, Indexing(q)
                 PROVE  file'[put[q].key] # NoVersion
                        /\ file'[put[q].key].mtime = put[q].new.mtime
      BY <2>1, Zenon DEF RenamedIsThere, Indexing
    <3>1. put[q] # Idle /\ put[q].key \in Key
      BY PutPc, RunningType, Zenon DEF Indexing
    <3>2. /\ file[put[q].key] # NoVersion
          /\ file[put[q].key].mtime = put[q].new.mtime
          /\ sweep.cutoff <= put[q].new.mtime
      BY <2>1, <3>1, Zenon DEF Safe, RenamedIsThere, UploadsAreFresh, Sweeps
    <3>3. put[q].key # k
      BY <2>3, <3>1, <3>2, SweepNumbers
    <3> QED
      BY <2>1, <3>1, <3>2, <3>3, Zenon
  <2>8. UsedAfterWritten' /\ NoTwins'
    BY <2>1, Zenon DEF Safe, UsedAfterWritten, NoTwins
  <2>9. VictimsAreOld' /\ BatchIsSwept' /\ UploadsAreFresh' /\ DoomedIsOld'
    BY ZenonT(30), <2>1, <2>2, <2>3 DEF Safe, VictimsAreOld, BatchIsSwept, UploadsAreFresh,
       DoomedIsOld, Sweeps
  <2>10. Flushed'
    BY <2>1, <2>2, <2>5, Zenon DEF Safe, Flushed
  <2> QED
    BY <2>6, <2>7, <2>8, <2>9, <2>10, Zenon DEF Safe
<1>6. CASE FlushEnd
  <2>1. /\ UNCHANGED <<hashes, pending, file, put, clock>>
        /\ sweep.pc = "evict" /\ sweep'.pc = "walk" /\ sweep'.cutoff = sweep.cutoff
        /\ sweep'.seen = sweep.seen /\ sweep'.batch = sweep.batch
        /\ sweep'.doomed = sweep.doomed
    BY <1>0, <1>6, Zenon DEF FlushEnd, indexVars, Sweeping
  <2>2. NoPhantom' /\ SeenIsStored'
    BY <2>1, Zenon DEF Safe, NoPhantom, SeenIsStored, Sweeps, Stored, Advertised
  <2>3. VictimsAreOld' /\ Flushed' /\ DoomedIsOld' /\ BatchIsSwept' /\ UploadsAreFresh'
    BY Zenon, <2>1 DEF Safe, VictimsAreOld, Flushed, DoomedIsOld, BatchIsSwept, UploadsAreFresh,
       Sweeps
  <2> QED
    BY <2>1, <2>2, <2>3, PutKeeps, Zenon DEF Safe
<1>7. CASE WalkEnd
  <2>1. /\ UNCHANGED <<hashes, pending, file, put, clock>>
        /\ \/ sweep' = [Resting EXCEPT !.pc = "rebuild", !.left = Key]
           \/ sweep' = Resting
    BY <1>7, Zenon DEF WalkEnd, indexVars
  <2>2. /\ sweep'.pc \in {"idle", "rebuild"} /\ sweep'.seen = {}
        /\ \A k \in Key : sweep'.batch[k] = NoVersion /\ sweep'.doomed[k] = NoVersion
    BY ZenonT(30), <2>1, RestingHolds DEF Resting
  <2>3. NoPhantom' /\ SeenIsStored'
    BY <2>1, <2>2, Zenon DEF Safe, NoPhantom, SeenIsStored, Stored, Advertised
  <2>4. VictimsAreOld' /\ Flushed' /\ DoomedIsOld' /\ BatchIsSwept' /\ UploadsAreFresh'
    BY <2>2, Zenon DEF VictimsAreOld, Flushed, DoomedIsOld, BatchIsSwept, UploadsAreFresh,
       Sweeps
  <2> QED
    BY <2>1, <2>3, <2>4, PutKeeps, Zenon DEF Safe
<1>8. ASSUME NEW k \in Key, RebuildVisit(k) PROVE Safe'
  <2>1. /\ UNCHANGED <<hashes, pending, file, put, clock>>
        /\ sweep.pc = "rebuild" /\ sweep'.pc = "rebuild"
        /\ sweep'.seen = sweep.seen \cup ({k} \cap Stored)
        /\ sweep'.batch = sweep.batch /\ sweep'.doomed = sweep.doomed
    BY <1>0, <1>8, Zenon DEF RebuildVisit, indexVars, Sweeping
  <2>2. NoPhantom' /\ SeenIsStored'
    BY <2>1, Zenon DEF Safe, NoPhantom, SeenIsStored, Sweeps, Stored, Advertised
  <2>3. VictimsAreOld' /\ Flushed' /\ DoomedIsOld' /\ BatchIsSwept' /\ UploadsAreFresh'
    BY ZenonT(30), <2>1 DEF Safe, VictimsAreOld, Flushed, DoomedIsOld, BatchIsSwept,
       UploadsAreFresh, Sweeps
  <2> QED
    BY <2>1, <2>2, <2>3, PutKeeps, Zenon DEF Safe
<1>9. CASE RebuildApply
  <2>1. /\ UNCHANGED <<file, put, clock, pending>> /\ hashes' = sweep.seen
        /\ sweep' = Resting
    BY <1>9, Zenon DEF RebuildApply, IndexRebuild
  <2>2. /\ sweep'.pc = "idle" /\ sweep'.seen = {}
        /\ \A k \in Key : sweep'.batch[k] = NoVersion /\ sweep'.doomed[k] = NoVersion
    BY <2>1, RestingHolds, Zenon
  <2>3. NoPhantom' /\ SeenIsStored'
    BY <2>1, <2>2, Zenon DEF Safe, NoPhantom, SeenIsStored, Stored, Advertised
  <2>4. VictimsAreOld' /\ Flushed' /\ DoomedIsOld' /\ BatchIsSwept' /\ UploadsAreFresh'
    BY ZenonT(30), <2>2 DEF VictimsAreOld, Flushed, DoomedIsOld, BatchIsSwept, UploadsAreFresh,
       Sweeps
  <2> QED
    BY <2>1, <2>3, <2>4, PutKeeps, Zenon DEF Safe
<1> QED
  BY <1>1, <1>2, <1>3, <1>4, <1>5, <1>6, <1>7, <1>8, <1>9, Zenon DEF SweepStep

\* The rest: reads, GET /_index, a crash, the clock, and no deletes.
LEMMA SafeStep ==
    ASSUME Quiet, IInv, [Next]_vars
    PROVE  IInv'
<1>0. TypeOK /\ Safe /\ TypeOK'
  BY TypeStep, Zenon DEF IInv
<1>1. ASSUME NEW k \in Key, Read(k) PROVE Safe'
  <2>1. /\ UNCHANGED <<hashes, pending, put, sweep, clock>> /\ Stored' = Stored
        /\ file[k] \in Versions /\ file'[k] \in Versions
        /\ file'[k].mtime = file[k].mtime /\ file[k].used <= file'[k].used
        /\ \A x \in Key : x # k => file'[x] = file[x]
    <3>1. file[k] \in Versions /\ clock \in Int /\ file[k].used < clock
      BY <1>0, <1>1, SweepNumbers, Zenon DEF Read, Stored, TypeOK, SomeVersions
    <3>2. file' = [file EXCEPT ![k] = [file[k] EXCEPT !.used = clock]]
      BY <1>1, Zenon DEF Read
    <3>3. file'[k] = [file[k] EXCEPT !.used = clock]
      BY <1>0, <3>2, Zenon DEF TypeOK, SomeVersions
    <3>4. /\ file'[k].mtime = file[k].mtime /\ file'[k].used = clock
          /\ file'[k].id = file[k].id
      BY <3>1, <3>3, Zenon DEF Versions
    <3>5. file'[k] # NoVersion
      BY <3>1, <3>4 DEF Versions, NoVersion
    <3>6. \A x \in Key : x # k => file'[x] = file[x]
      BY <1>0, <3>2, Zenon DEF TypeOK, SomeVersions
    <3>7. Stored' = Stored
      BY <1>1, <3>5, <3>6, Zenon DEF Stored, Read
    <3>8. file[k].used <= file'[k].used
      BY <3>1, <3>4 DEF Versions
    <3>9. file'[k] \in Versions
      BY <1>0, <3>5, Zenon DEF TypeOK, SomeVersions
    <3> QED
      BY <1>1, <3>1, <3>4, <3>6, <3>7, <3>8, <3>9, Zenon DEF Read, indexVars
  <2>2. file[k] # NoVersion /\ file'[k] # NoVersion
    BY <2>1, NoVersionApart, Zenon
  <2>3. NoPhantom' /\ SeenIsStored'
    BY <1>0, <2>1, Zenon DEF Safe, NoPhantom, SeenIsStored, Advertised, Sweeps
  <2>4. file'[k].mtime <= file'[k].used
    BY SMTT(30), <1>0, <2>1, <2>2, StoreAssumption DEF Safe, UsedAfterWritten, Versions
  <2>5. UsedAfterWritten'
    BY <1>0, <2>1, <2>4, Zenon DEF Safe, UsedAfterWritten
  <2>6. RenamedIsThere'
    BY <1>0, <2>1, <2>2, PutPc, RunningType, Zenon DEF Safe, RenamedIsThere, Indexing
  <2>7. NoTwins' /\ UploadsAreFresh' /\ VictimsAreOld' /\ BatchIsSwept'
    BY <1>0, <2>1, Zenon DEF Safe, NoTwins, UploadsAreFresh, VictimsAreOld, BatchIsSwept, Sweeps
  <2>8. Flushed' /\ DoomedIsOld'
    BY <1>0, <2>1, <2>2, Zenon DEF Safe, Flushed, DoomedIsOld, Advertised
  <2> QED
    BY <2>3, <2>5, <2>6, <2>7, <2>8, Zenon DEF Safe
<1>2. CASE ServeIndex
  <2>1. UNCHANGED <<file, put, sweep, clock>> /\ Advertised' = Advertised
    BY <1>2, Zenon DEF ServeIndex, IndexMerge, Advertised
  <2>2. /\ NoPhantom' /\ SeenIsStored' /\ UploadsAreFresh'
        /\ VictimsAreOld' /\ Flushed' /\ DoomedIsOld' /\ BatchIsSwept'
    BY ZenonT(30), <1>0, <2>1 DEF Safe, NoPhantom, SeenIsStored, UploadsAreFresh, VictimsAreOld,
       Flushed, DoomedIsOld, BatchIsSwept, Sweeps, Stored
  <2> QED
    BY <1>0, <2>1, <2>2, PutKeeps, Zenon DEF Safe, IInv
<1>3. CASE Crash
  <2>1. /\ UNCHANGED file /\ hashes' = Stored /\ pending' = {} /\ sweep' = Resting
        /\ \A p \in Putter : put'[p] = Idle
    BY <1>3, Zenon DEF Crash, IndexRestart
  <2>2. /\ sweep'.pc = "idle" /\ sweep'.seen = {}
        /\ \A k \in Key : sweep'.batch[k] = NoVersion /\ sweep'.doomed[k] = NoVersion
    BY <2>1, RestingHolds, Zenon
  <2>3. NoPhantom' /\ SeenIsStored'
    BY <2>1, <2>2, Zenon DEF NoPhantom, SeenIsStored, Stored, Advertised
  <2>4. VictimsAreOld' /\ Flushed' /\ DoomedIsOld' /\ BatchIsSwept' /\ UploadsAreFresh'
    BY <2>2, Zenon DEF VictimsAreOld, Flushed, DoomedIsOld, BatchIsSwept, UploadsAreFresh,
       Sweeps
  <2>5. UsedAfterWritten' /\ RenamedIsThere' /\ NoTwins'
    BY SMTT(40), <1>0, <2>1 DEF Safe, UsedAfterWritten, RenamedIsThere, NoTwins, Indexing, Idle
  <2> QED
    BY <1>0, <2>3, <2>4, <2>5, Zenon DEF Safe, IInv
<1>4. CASE Tick
  <2>1. UNCHANGED <<hashes, pending, file, put, sweep>> /\ clock' = clock + 1
    BY <1>4, Zenon DEF Tick, indexVars
  <2>2. UploadsAreFresh'
    BY SMTT(40), <1>0, <2>1, SweepNumbers DEF Safe, UploadsAreFresh, Sweeps
  <2> QED
    BY <1>0, <2>1, <2>2, SweepKeeps, PutKeeps, Zenon DEF Safe, IInv
<1>5. CASE UNCHANGED vars
  <2>1. UNCHANGED <<hashes, pending, file, put, sweep, clock>>
    BY <1>5, Zenon DEF vars
  <2>2. UploadsAreFresh'
    BY <1>0, <2>1, Zenon DEF Safe, UploadsAreFresh, Sweeps
  <2> QED
    BY <1>0, <2>1, <2>2, SweepKeeps, PutKeeps, Zenon DEF Safe, IInv
<1> QED
  BY <1>0, <1>1, <1>2, <1>3, <1>4, <1>5, PutSafe, SweepSafe, Zenon DEF Next, Quiet, IInv

\* Whatever the numbers of keys, uploads and batches, no sweep, rebuild or crash
\* leaves the index advertising a key whose file is gone (sweepBelow's order),
\* when nothing is deleted and nothing falls into the excluded windows.
THEOREM SweepLeavesNoPhantom ==
    ASSUME Quiet
    PROVE  Spec => []NoPhantom
<1>1. Init => IInv
  <2> SUFFICES ASSUME Init PROVE IInv
    BY Zenon
  <2>1. TypeOK
    BY TypeStart, Zenon
  <2>2. /\ \A p \in Putter : put[p] = Idle
        /\ sweep.pc = "idle" /\ sweep.seen = {}
        /\ \A k \in Key : sweep.batch[k] = NoVersion /\ sweep.doomed[k] = NoVersion
    BY RestingHolds, Zenon DEF Init
  <2>3. NoPhantom /\ UsedAfterWritten
    BY SMTT(40), <2>2 DEF Init, IndexInit, NoPhantom, Advertised, Stored, UsedAfterWritten,
       NoVersion
  <2>4. RenamedIsThere /\ NoTwins /\ SeenIsStored
    BY <2>2 DEF RenamedIsThere, NoTwins, SeenIsStored, Indexing, Idle
  <2>5. VictimsAreOld /\ Flushed /\ DoomedIsOld /\ BatchIsSwept /\ UploadsAreFresh
    BY <2>2, EmptyHanded, Zenon DEF Sweeps
  <2> QED
    BY <2>1, <2>3, <2>4, <2>5, Zenon DEF IInv, Safe
<1>2. IInv /\ [Next]_vars => IInv'
  BY SafeStep, Zenon
<1>3. IInv => NoPhantom
  BY Zenon DEF IInv, Safe
<1> QED
  BY <1>1, <1>2, <1>3, PTL DEF Spec
----------------------------------------------------------------------------
(* What the steps change, key by key and upload by upload.                 *)

\* PutStream before its rename.
LEMMA WriteEffect ==
    ASSUME TypeOK, NEW p \in Putter, NEW k \in Key, NEW b \in Body, WriteTemp(p, k, b)
    PROVE  /\ UNCHANGED <<hashes, pending, file, sweep>> /\ put[p] = Idle
           /\ uploads \in Nat /\ uploads' = uploads + 1 /\ clock \in Nat
           /\ \A q \in Putter : q # p => put'[q] = put[q]
           /\ put'[p].pc = "temp" /\ put'[p].key = k /\ put'[p].new.id = uploads + 1
           /\ put'[p].new.mtime = clock /\ put'[p].new.used = clock
<1> DEFINE up == [pc |-> "temp", key |-> k,
                  new |-> [id |-> uploads + 1, body |-> b, mtime |-> clock, used |-> clock]]
<1>1. put' = [put EXCEPT ![p] = up] /\ put[p] = Idle /\ uploads' = uploads + 1
      /\ UNCHANGED <<hashes, pending, file, sweep>>
    BY Zenon DEF WriteTemp, indexVars
<1>2. put'[p] = up /\ \A q \in Putter : q # p => put'[q] = put[q]
    BY <1>1, Zenon DEF TypeOK
<1>3. uploads \in Nat /\ clock \in Nat
    BY StoreAssumption DEF TypeOK
<1>4. /\ put'[p].pc = "temp" /\ put'[p].key = k /\ put'[p].new.id = uploads + 1
      /\ put'[p].new.mtime = clock /\ put'[p].new.used = clock
    BY <1>2
<1> QED
    BY <1>1, <1>2, <1>3, <1>4, Zenon

\* The write_once checks of PutStream.
LEMMA CheckEffect ==
    ASSUME TypeOK, NEW p \in Putter, CheckWriteOnce(p) \/ CompareBodies(p) \/ CompareStamps(p)
    PROVE  /\ UNCHANGED <<hashes, pending, file, sweep, uploads>>
           /\ put[p] # Idle /\ ~Indexing(p) /\ \A q \in Putter : q # p => put'[q] = put[q]
           /\ \/ put'[p] = Idle
              \/ /\ put'[p].key = put[p].key /\ put'[p].new = put[p].new
                 /\ put'[p].pc \in {"compare", "stamp", "rename"}
<1>1. /\ UNCHANGED <<hashes, pending, file, sweep, uploads>>
      /\ put[p].pc \in {"temp", "compare", "stamp"}
      /\ PutReturns(p) \/ \E l \in {"compare", "stamp", "rename"} : PutGoes(p, l)
    BY Zenon DEF CheckWriteOnce, CompareBodies, CompareStamps, indexVars
<1>2. put[p] # Idle /\ ~Indexing(p)
    BY <1>1 DEF Idle, Indexing
<1>3. put[p] \in Uploading
    BY <1>2, RunningType, Zenon
<1>4. CASE PutReturns(p)
    BY <1>1, <1>2, <1>4, Zenon DEF PutReturns, TypeOK
<1>5. ASSUME NEW l \in {"compare", "stamp", "rename"}, PutGoes(p, l)
      PROVE  /\ \A q \in Putter : q # p => put'[q] = put[q]
             /\ put'[p].key = put[p].key /\ put'[p].new = put[p].new /\ put'[p].pc = l
    BY <1>3, <1>5, Zenon DEF PutGoes, TypeOK, Uploading
<1> QED
    BY <1>1, <1>2, <1>4, <1>5, Zenon

\* The rename.
LEMMA RenameEffect ==
    ASSUME TypeOK, NEW p \in Putter, Rename(p)
    PROVE  /\ UNCHANGED <<hashes, pending, sweep, uploads>>
           /\ put[p] # Idle /\ put[p].pc = "rename" /\ put[p].key \in Key /\ put[p].new \in Versions
           /\ file'[put[p].key] = put[p].new /\ file'[put[p].key] # NoVersion
           /\ \A x \in Key : x # put[p].key => file'[x] = file[x]
           /\ \A q \in Putter : q # p => put'[q] = put[q]
           /\ put'[p].key = put[p].key /\ put'[p].new = put[p].new /\ put'[p].pc = "index"
           /\ put'[p] # Idle
<1>1. /\ UNCHANGED <<hashes, pending, sweep, uploads>> /\ put[p].pc = "rename"
      /\ file' = [file EXCEPT ![put[p].key] = put[p].new] /\ PutGoes(p, "index")
    BY Zenon DEF Rename, indexVars
<1>2. put[p] # Idle
    BY <1>1 DEF Idle
<1>3. put[p] \in Uploading /\ put[p].key \in Key /\ put[p].new \in Versions
    BY <1>2, RunningType, Zenon
<1>4. /\ \A q \in Putter : q # p => put'[q] = put[q]
      /\ put'[p].key = put[p].key /\ put'[p].new = put[p].new /\ put'[p].pc = "index"
    BY <1>1, <1>3, Zenon DEF PutGoes, TypeOK, Uploading
<1>5. file'[put[p].key] = put[p].new /\ \A x \in Key : x # put[p].key => file'[x] = file[x]
    BY <1>1, <1>3, Zenon DEF TypeOK, SomeVersions
<1>6. put'[p] # Idle
    BY <1>4 DEF Idle
<1> QED
    BY <1>1, <1>2, <1>3, <1>4, <1>5, <1>6, NoVersionApart, Zenon

\* Index.Put at the end of PutStream.
LEMMA AdvertiseEffect ==
    ASSUME TypeOK, NEW p \in Putter, Advertise(p)
    PROVE  /\ UNCHANGED <<hashes, file, sweep, uploads>> /\ pending' = pending \cup {put[p].key}
           /\ put[p] # Idle /\ Indexing(p) /\ put[p].key \in Key
           /\ put'[p] = Idle /\ \A q \in Putter : q # p => put'[q] = put[q]
<1>1. /\ UNCHANGED <<hashes, file, sweep, uploads>> /\ pending' = pending \cup {put[p].key}
      /\ put[p].pc = "index" /\ put' = [put EXCEPT ![p] = Idle]
    BY Zenon DEF Advertise, IndexPut, PutReturns
<1>2. put[p] # Idle
    BY <1>1 DEF Idle
<1> QED
    BY <1>1, <1>2, RunningType, Zenon DEF TypeOK, Indexing

\* A recorded read changes the last use alone.
LEMMA ReadEffect ==
    ASSUME TypeOK, NEW k \in Key, Read(k)
    PROVE  /\ UNCHANGED <<hashes, pending, put, sweep, uploads>>
           /\ file[k] # NoVersion /\ file'[k] # NoVersion
           /\ file'[k].id = file[k].id /\ file'[k].mtime = file[k].mtime
           /\ file[k].used < file'[k].used /\ \A x \in Key : x # k => file'[x] = file[x]
<1>1. /\ file' = [file EXCEPT ![k] = [file[k] EXCEPT !.used = clock]] /\ file[k].used < clock
      /\ file[k] # NoVersion /\ UNCHANGED <<hashes, pending, put, sweep, uploads>>
    BY Zenon DEF Read, Stored, indexVars
<1>2. file[k] \in Versions /\ file'[k] = [file[k] EXCEPT !.used = clock]
    BY <1>1, Zenon DEF TypeOK, SomeVersions
<1>3. /\ file'[k].id = file[k].id /\ file'[k].mtime = file[k].mtime
      /\ file'[k].used = clock /\ file[k].id # 0
    BY <1>2 DEF Versions
<1>4. file'[k] # NoVersion
    BY <1>3 DEF NoVersion
<1>5. \A x \in Key : x # k => file'[x] = file[x]
    BY <1>1, Zenon DEF TypeOK, SomeVersions
<1> QED
    BY <1>1, <1>3, <1>4, <1>5, Zenon

\* The walk takes a victim as it finds it.
LEMMA VisitEffect ==
    ASSUME TypeOK, NEW k \in Key, WalkVisit(k)
    PROVE  /\ UNCHANGED <<hashes, pending, file, put, uploads>> /\ sweep.pc = "walk"
           /\ sweep'.pc = "walk" /\ sweep'.cutoff = sweep.cutoff /\ sweep'.doomed = sweep.doomed
           /\ \A x \in Key : x # k => sweep'.batch[x] = sweep.batch[x]
           /\ sweep'.batch[k] # NoVersion =>
                  sweep'.batch[k] = file[k] /\ file[k] # NoVersion /\ file[k].used < sweep.cutoff
<1>0. sweep \in Sweeping
    BY Zenon DEF TypeOK
<1>1. /\ UNCHANGED <<hashes, pending, file, put, uploads>> /\ sweep.pc = "walk"
      /\ sweep'.pc = "walk" /\ sweep'.cutoff = sweep.cutoff /\ sweep'.doomed = sweep.doomed
    BY <1>0, Zenon DEF WalkVisit, indexVars, Sweeping
<1>2. /\ \A x \in Key : x # k => sweep'.batch[x] = sweep.batch[x]
      /\ sweep'.batch[k] # NoVersion =>
             sweep'.batch[k] = file[k] /\ file[k] # NoVersion /\ file[k].used < sweep.cutoff
    BY <1>0, Zenon DEF WalkVisit, Sweeping, SomeVersions
<1> QED
    BY <1>1, <1>2, Zenon

\* evictOne's stat dooms an unchanged victim or spares the key.
LEMMA StatEffect ==
    ASSUME TypeOK, NEW k \in Key, EvictStat(k)
    PROVE  /\ UNCHANGED <<hashes, pending, file, put, uploads>>
           /\ sweep.pc = "evict" /\ sweep.batch[k] # NoVersion /\ sweep'.cutoff = sweep.cutoff
           /\ sweep'.pc \in {"evict", "unlink"}
           /\ \A x \in Key : x # k => sweep'.batch[x] = sweep.batch[x]
                                      /\ sweep'.doomed[x] = sweep.doomed[x]
           /\ \/ /\ file[k] # NoVersion /\ file[k].mtime = sweep.batch[k].mtime
                 /\ sweep'.pc = "unlink" /\ sweep'.doomed[k] = file[k]
                 /\ sweep'.batch[k] = sweep.batch[k]
              \/ /\ ~(file[k] # NoVersion /\ file[k].mtime = sweep.batch[k].mtime)
                 /\ sweep'.pc = "evict" /\ sweep'.doomed[k] = sweep.doomed[k]
                 /\ sweep'.batch[k] = NoVersion
<1>0. sweep \in Sweeping /\ sweep.doomed \in SomeVersions /\ sweep.batch \in SomeVersions
    BY Zenon DEF TypeOK, Sweeping
<1>1. /\ UNCHANGED <<hashes, pending, file, put, uploads>>
      /\ sweep.pc = "evict" /\ sweep.batch[k] # NoVersion
      /\ \/ /\ file[k] # NoVersion /\ file[k].mtime = sweep.batch[k].mtime
            /\ sweep' = [sweep EXCEPT !.pc = "unlink", !.doomed[k] = file[k]]
         \/ /\ ~(file[k] # NoVersion /\ file[k].mtime = sweep.batch[k].mtime)
            /\ sweep' = [sweep EXCEPT !.batch[k] = NoVersion]
    BY Zenon DEF EvictStat, indexVars, Batched, Stored
<1>2. CASE /\ file[k] # NoVersion /\ file[k].mtime = sweep.batch[k].mtime
           /\ sweep' = [sweep EXCEPT !.pc = "unlink", !.doomed[k] = file[k]]
    <2>1. /\ sweep'.pc = "unlink" /\ sweep'.cutoff = sweep.cutoff /\ sweep'.batch = sweep.batch
          /\ sweep'.doomed = [sweep.doomed EXCEPT ![k] = file[k]]
        BY <1>0, <1>2, Zenon DEF Sweeping
    <2>2. sweep'.doomed[k] = file[k] /\ \A x \in Key : x # k => sweep'.doomed[x] = sweep.doomed[x]
        BY <1>0, <2>1, Zenon DEF SomeVersions
    <2> QED
        BY <1>1, <1>2, <2>1, <2>2, Zenon
<1>3. CASE /\ ~(file[k] # NoVersion /\ file[k].mtime = sweep.batch[k].mtime)
           /\ sweep' = [sweep EXCEPT !.batch[k] = NoVersion]
    <2>1. /\ sweep'.pc = sweep.pc /\ sweep'.cutoff = sweep.cutoff /\ sweep'.doomed = sweep.doomed
          /\ sweep'.batch = [sweep.batch EXCEPT ![k] = NoVersion]
        BY <1>0, <1>3, Zenon DEF Sweeping
    <2>2. sweep'.batch[k] = NoVersion /\ \A x \in Key : x # k => sweep'.batch[x] = sweep.batch[x]
        BY <1>0, <2>1, Zenon DEF SomeVersions
    <2> QED
        BY <1>1, <1>3, <2>1, <2>2, Zenon
<1> QED
    BY <1>1, <1>2, <1>3, Zenon

\* The remove of evictOne.
LEMMA UnlinkEffect ==
    ASSUME TypeOK, NEW k \in Key, EvictUnlink(k)
    PROVE  /\ UNCHANGED <<hashes, pending, put, uploads>>
           /\ sweep.pc = "unlink" /\ sweep'.pc = "evict" /\ sweep'.cutoff = sweep.cutoff
           /\ file'[k] = NoVersion /\ sweep'.batch[k] = NoVersion /\ sweep'.doomed[k] = NoVersion
           /\ \A x \in Key : x # k => /\ file'[x] = file[x] /\ sweep'.batch[x] = sweep.batch[x]
                                      /\ sweep'.doomed[x] = sweep.doomed[x]
<1>0. sweep \in Sweeping
    BY Zenon DEF TypeOK
<1>1. /\ UNCHANGED <<hashes, pending, put, uploads>> /\ sweep.pc = "unlink"
      /\ file'[k] = NoVersion /\ \A x \in Key : x # k => file'[x] = file[x]
    BY Zenon DEF EvictUnlink, indexVars, TypeOK, SomeVersions
<1>2. /\ sweep'.pc = "evict" /\ sweep'.cutoff = sweep.cutoff
      /\ sweep'.batch[k] = NoVersion /\ sweep'.doomed[k] = NoVersion
      /\ \A x \in Key : x # k => /\ sweep'.batch[x] = sweep.batch[x]
                                 /\ sweep'.doomed[x] = sweep.doomed[x]
    BY <1>0, Zenon DEF EvictUnlink, Sweeping, SomeVersions
<1> QED
    BY <1>1, <1>2, Zenon

----------------------------------------------------------------------------
(* What evictOne unlinks, with every window open.                          *)

\* The numbers the arguments compare.
LEMMA Numbers ==
    ASSUME TypeOK
    PROVE  /\ uploads \in Nat /\ uploads >= 1 /\ NoVersion.id = 0
           /\ \A k \in Key : file[k].id \in Nat /\ sweep.doomed[k].id \in Nat
           /\ \A k \in Key : file[k] # NoVersion => file[k].id >= 1
           /\ \A k \in Key : sweep.doomed[k] # NoVersion => sweep.doomed[k].id >= 1
           /\ \A p \in Putter : put[p] # Idle => put[p].new.id \in Nat /\ put[p].new.id >= 1
<1>1. uploads \in Nat /\ uploads >= 1 /\ NoVersion.id = 0
    BY StoreAssumption DEF TypeOK, NoVersion
<1>2. \A v \in Versions : v.id \in Nat /\ v.id >= 1
    BY StoreAssumption DEF Versions
<1>3. \A k \in Key : file[k] \in Versions \cup {NoVersion} /\ sweep.doomed[k] \in Versions \cup {NoVersion}
    BY Zenon DEF TypeOK, Sweeping, SomeVersions
<1>4. \A p \in Putter : put[p] # Idle => put[p].new \in Versions
    BY RunningType, Zenon
<1> QED
    BY <1>1, <1>2, <1>3, <1>4

\* A step of the sweep that dooms nothing and keeps its victims old.
LEMMA NothingDoomed ==
    ASSUME TypeOK, Walked, UNCHANGED <<file, put, uploads>>,
           \A k \in Key : sweep'.doomed[k] = NoVersion,
           \A k \in Key : sweep'.batch[k] # NoVersion => sweep'.batch[k].mtime < sweep'.cutoff
    PROVE  Walked'
<1>1. UsedAfterWritten' /\ VictimsAreOld' /\ DoomedIsWalked'
    BY Zenon DEF Walked, UsedAfterWritten, VictimsAreOld, DoomedIsWalked
<1>2. \A k \in Key : sweep'.doomed[k].id = 0
    BY Numbers, Zenon
<1>3. 0 <= uploads /\ \A p \in Putter : put[p] # Idle => put[p].new.id # 0
    BY Numbers
<1>4. IdsBounded' /\ IdsDistinct' /\ IdsUnused'
    BY <1>2, <1>3, Zenon DEF Walked, IdsBounded, IdsDistinct, IdsUnused, Indexing
<1> QED
    BY <1>1, <1>4, Zenon DEF Walked

\* PutStream.
LEMMA PutWalked == ASSUME TypeOK, Walked, NEW p \in Putter, PutStep(p) PROVE Walked'
<1> USE Numbers
<1>1. ASSUME NEW k \in Key, NEW b \in Body, WriteTemp(p, k, b) PROVE Walked'
    <2>1. /\ UNCHANGED <<file, sweep>> /\ put[p] = Idle /\ uploads' = uploads + 1
          /\ \A q \in Putter : q # p => put'[q] = put[q]
          /\ put'[p].new.id = uploads + 1 /\ put'[p].new.mtime <= put'[p].new.used
        BY <1>1, WriteEffect
    <2>2. VictimsAreOld' /\ DoomedIsWalked'
        BY <2>1, Zenon DEF Walked, VictimsAreOld, DoomedIsWalked
    <2>3. UsedAfterWritten'
        BY <2>1, Zenon DEF Walked, UsedAfterWritten
    <2>4. /\ \A x \in Key : file[x].id <= uploads + 1 /\ sweep.doomed[x].id <= uploads + 1
          /\ \A x \in Key : file[x].id # uploads + 1 /\ sweep.doomed[x].id # uploads + 1
          /\ \A q \in Putter : put[q] # Idle => /\ put[q].new.id <= uploads + 1
                                                /\ put[q].new.id # uploads + 1
          /\ uploads + 1 <= uploads + 1
        BY DEF Walked, IdsBounded
    <2>5. IdsBounded'
        BY <2>1, <2>4, Zenon DEF IdsBounded
    <2>6. IdsDistinct'
        BY <2>1, <2>4 DEF Walked, IdsDistinct
    <2>7. IdsUnused'
        BY <2>1, <2>4, ZenonT(40) DEF Walked, IdsUnused, Indexing
    <2> QED
        BY <2>2, <2>3, <2>5, <2>6, <2>7, Zenon DEF Walked
<1>2. CASE CheckWriteOnce(p) \/ CompareBodies(p) \/ CompareStamps(p)
    <2>1. /\ UNCHANGED <<file, sweep, uploads>> /\ put[p] # Idle /\ ~Indexing(p)
          /\ \A q \in Putter : q # p => put'[q] = put[q]
          /\ put'[p] = Idle \/ put'[p].new = put[p].new
        BY <1>2, CheckEffect, Zenon
    <2>2. VictimsAreOld' /\ DoomedIsWalked' /\ UsedAfterWritten'
        BY <2>1, Zenon DEF Walked, VictimsAreOld, DoomedIsWalked, UsedAfterWritten
    <2>3. IdsBounded'
        BY <2>1, Zenon DEF Walked, IdsBounded
    <2>4. IdsDistinct'
        BY <2>1 DEF Walked, IdsDistinct
    <2>5. IdsUnused'
        BY <2>1, ZenonT(40) DEF Walked, IdsUnused, Indexing
    <2> QED
        BY <2>2, <2>3, <2>4, <2>5, Zenon DEF Walked
<1>3. CASE Rename(p)
    <2> DEFINE k == put[p].key
    <2>1. /\ UNCHANGED <<sweep, uploads>> /\ put[p] # Idle /\ put[p].pc = "rename" /\ k \in Key
          /\ file'[k] = put[p].new /\ \A x \in Key : x # k => file'[x] = file[x]
          /\ \A q \in Putter : q # p => put'[q] = put[q]
          /\ put'[p].new = put[p].new /\ put'[p].pc = "index"
        BY <1>3, RenameEffect, Zenon
    <2>2. ~Indexing(p) /\ Indexing(p)'
        BY <2>1, Zenon DEF Indexing
    <2>3. UsedAfterWritten'
        BY <2>1, Zenon DEF Walked, UsedAfterWritten
    <2>4. VictimsAreOld'
        BY <2>1, Zenon DEF Walked, VictimsAreOld
    <2>5. file'[k].id # sweep.doomed[k].id
        BY <2>1, <2>2, ZenonT(40) DEF Walked, IdsUnused
    <2>6. DoomedIsWalked'
        BY <2>1, <2>5, ZenonT(30) DEF Walked, DoomedIsWalked
    <2>7. IdsBounded'
        BY <2>1, Zenon DEF Walked, IdsBounded
    <2>9. IdsDistinct'
        BY <2>1 DEF Walked, IdsDistinct
    <2>8. IdsUnused'
        <3> SUFFICES ASSUME NEW q \in Putter, NEW x \in Key, put'[q] # Idle, ~Indexing(q)'
                     PROVE  put'[q].new.id # file'[x].id /\ put'[q].new.id # sweep'.doomed[x].id
            BY Zenon DEF IdsUnused
        <3>1. q # p /\ put'[q] = put[q] /\ put[q] # Idle /\ ~Indexing(q)
            BY <2>1, <2>2, Zenon DEF Indexing
        <3>2. put[q].new.id # put[p].new.id /\ put[q].new.id # file[x].id
              /\ put[q].new.id # sweep.doomed[x].id
            BY <2>1, <3>1, ZenonT(30) DEF Walked, IdsDistinct, IdsUnused
        <3> QED
            BY <2>1, <3>1, <3>2, Zenon
    <2> QED
        BY <2>3, <2>4, <2>6, <2>7, <2>8, <2>9, Zenon DEF Walked
<1>4. CASE Advertise(p)
    <2>1. /\ UNCHANGED <<file, sweep, uploads>> /\ put'[p] = Idle
          /\ \A q \in Putter : q # p => put'[q] = put[q]
        BY <1>4, AdvertiseEffect, Zenon
    <2>2. VictimsAreOld' /\ DoomedIsWalked' /\ UsedAfterWritten'
        BY <2>1, Zenon DEF Walked, VictimsAreOld, DoomedIsWalked, UsedAfterWritten
    <2>3. IdsBounded' /\ IdsDistinct'
        BY <2>1, Zenon DEF Walked, IdsBounded, IdsDistinct
    <2>4. IdsUnused'
        BY <2>1, ZenonT(40) DEF Walked, IdsUnused, Indexing
    <2> QED
        BY <2>2, <2>3, <2>4, Zenon DEF Walked
<1> QED
    BY <1>1, <1>2, <1>3, <1>4, Zenon DEF PutStep

\* The sweep.
LEMMA SweepWalked == ASSUME TypeOK, Walked, Scan \/ SweepStep PROVE Walked'
<1>0. sweep \in Sweeping
    BY Zenon DEF TypeOK
<1>1. sweep.pc # "unlink" => \A k \in Key : sweep.doomed[k] = NoVersion
    BY Zenon DEF Walked, DoomedIsWalked
<1>2. CASE Scan
    <2>1. PICK cutoff \in Cutoffs :
              sweep' = [Resting EXCEPT !.pc = "walk", !.cutoff = cutoff, !.left = Key]
        BY <1>2, Zenon DEF Scan
    <2>2. \A k \in Key : sweep'.batch[k] = NoVersion /\ sweep'.doomed[k] = NoVersion
        BY <2>1, RestingHolds, Zenon DEF Resting
    <2>3. UNCHANGED <<file, put, uploads>>
        BY <1>2, Zenon DEF Scan
    <2> QED
        BY <2>2, <2>3, NothingDoomed, Zenon
<1>3. ASSUME NEW k \in Key, WalkVisit(k) PROVE Walked'
    <2>1. /\ UNCHANGED <<file, put, uploads>> /\ sweep.pc = "walk"
          /\ sweep'.cutoff = sweep.cutoff /\ sweep'.doomed = sweep.doomed
          /\ \A x \in Key : x # k => sweep'.batch[x] = sweep.batch[x]
          /\ sweep'.batch[k] # NoVersion =>
                 sweep'.batch[k] = file[k] /\ file[k] # NoVersion /\ file[k].used < sweep.cutoff
        BY <1>3, VisitEffect, Zenon
    <2>2. sweep'.batch[k] # NoVersion => sweep'.batch[k].mtime < sweep'.cutoff
        BY <2>1, SweepNumbers DEF Walked, UsedAfterWritten
    <2>3. \A x \in Key : sweep'.batch[x] # NoVersion => sweep'.batch[x].mtime < sweep'.cutoff
        BY <2>1, <2>2, Zenon DEF Walked, VictimsAreOld
    <2>4. \A x \in Key : sweep'.doomed[x] = NoVersion
        BY <1>1, <2>1, Zenon
    <2> QED
        BY <2>1, <2>3, <2>4, NothingDoomed, Zenon
<1>4. CASE Flush \/ FlushEnd \/ \E k \in Key : RebuildVisit(k)
    <2>1. /\ UNCHANGED <<file, put, uploads>> /\ sweep.pc # "unlink"
          /\ sweep'.batch = sweep.batch /\ sweep'.doomed = sweep.doomed
          /\ sweep'.cutoff = sweep.cutoff
        BY <1>0, <1>4, Zenon DEF Flush, FlushEnd, RebuildVisit, Sweeping
    <2>2. /\ \A k \in Key : sweep'.doomed[k] = NoVersion
          /\ \A k \in Key : sweep'.batch[k] # NoVersion => sweep'.batch[k].mtime < sweep'.cutoff
        BY <1>1, <2>1, Zenon DEF Walked, VictimsAreOld
    <2> QED
        BY <2>1, <2>2, NothingDoomed, Zenon
<1>5. CASE WalkEnd \/ RebuildApply
    <2>1. /\ UNCHANGED <<file, put, uploads>>
          /\ \/ sweep' = [Resting EXCEPT !.pc = "rebuild", !.left = Key]
             \/ sweep' = Resting
        BY <1>5, Zenon DEF WalkEnd, RebuildApply
    <2>2. \A k \in Key : sweep'.batch[k] = NoVersion /\ sweep'.doomed[k] = NoVersion
        BY <2>1, RestingHolds, Zenon DEF Resting
    <2> QED
        BY <2>1, <2>2, NothingDoomed, Zenon
<1>6. ASSUME NEW k \in Key, EvictStat(k) PROVE Walked'
    <2>1. /\ UNCHANGED <<file, put, uploads>> /\ sweep.pc = "evict" /\ sweep'.cutoff = sweep.cutoff
          /\ sweep.batch[k] # NoVersion
          /\ \A x \in Key : x # k => sweep'.batch[x] = sweep.batch[x]
                                     /\ sweep'.doomed[x] = sweep.doomed[x]
          /\ \/ /\ file[k] # NoVersion /\ file[k].mtime = sweep.batch[k].mtime
                /\ sweep'.pc = "unlink" /\ sweep'.doomed[k] = file[k]
                /\ sweep'.batch[k] = sweep.batch[k]
             \/ sweep'.doomed[k] = sweep.doomed[k] /\ sweep'.batch[k] = NoVersion
        BY <1>6, StatEffect, Zenon
    <2>2. \A x \in Key : sweep'.doomed[x] = NoVersion \/ sweep'.doomed[x] = file[x]
        BY <1>1, <2>1, Zenon
    <2>3. UsedAfterWritten' /\ VictimsAreOld'
        BY <2>1, Zenon DEF Walked, UsedAfterWritten, VictimsAreOld
    <2>4. DoomedIsWalked'
        BY <1>1, <2>1, ZenonT(40) DEF DoomedIsWalked
    <2>5. /\ NoVersion.id <= uploads /\ \A x \in Key : file[x].id <= uploads
          /\ \A p \in Putter : put[p] # Idle => put[p].new.id # NoVersion.id
        BY Numbers DEF Walked, IdsBounded
    <2>6. IdsBounded' /\ IdsDistinct'
        BY <2>1, <2>2, <2>5, Zenon DEF Walked, IdsBounded, IdsDistinct
    <2>7. IdsUnused'
        <3> SUFFICES ASSUME NEW p \in Putter, NEW x \in Key, put[p] # Idle, ~Indexing(p)
                     PROVE  put[p].new.id # file'[x].id /\ put[p].new.id # sweep'.doomed[x].id
            BY <2>1, Zenon DEF IdsUnused, Indexing
        <3>1. put[p].new.id # file[x].id /\ put[p].new.id # sweep.doomed[x].id /\ put[p].new.id # NoVersion.id
            BY <2>5, Zenon DEF Walked, IdsUnused
        <3> QED
            BY <2>1, <2>2, <3>1, Zenon
    <2> QED
        BY <2>3, <2>4, <2>6, <2>7, Zenon DEF Walked
<1>7. ASSUME NEW k \in Key, EvictUnlink(k) PROVE Walked'
    <2>1. /\ UNCHANGED <<put, uploads>> /\ sweep'.cutoff = sweep.cutoff /\ sweep'.pc = "evict"
          /\ file'[k] = NoVersion /\ sweep'.batch[k] = NoVersion /\ sweep'.doomed[k] = NoVersion
          /\ \A x \in Key : x # k => /\ file'[x] = file[x] /\ sweep'.batch[x] = sweep.batch[x]
                                     /\ sweep'.doomed[x] = sweep.doomed[x]
        BY <1>7, UnlinkEffect, Zenon
    <2>2. sweep.doomed[k] # NoVersion /\ \A x \in Key : x # k => sweep.doomed[x] = NoVersion
        BY <1>7, Zenon DEF EvictUnlink, Walked, DoomedIsWalked
    <2>3. UsedAfterWritten' /\ VictimsAreOld'
        BY <2>1, Zenon DEF Walked, UsedAfterWritten, VictimsAreOld
    <2>4. DoomedIsWalked'
        BY <2>1, <2>2, Zenon DEF DoomedIsWalked
    <2>5. NoVersion.id <= uploads /\ \A p \in Putter : put[p] # Idle => put[p].new.id # NoVersion.id
        BY Numbers
    <2>6. IdsBounded' /\ IdsDistinct'
        BY <2>1, <2>5, Zenon DEF Walked, IdsBounded, IdsDistinct
    <2>7. IdsUnused'
        <3> SUFFICES ASSUME NEW p \in Putter, NEW x \in Key, put[p] # Idle, ~Indexing(p)
                     PROVE  put[p].new.id # file'[x].id /\ put[p].new.id # sweep'.doomed[x].id
            BY <2>1, Zenon DEF IdsUnused, Indexing
        <3>1. put[p].new.id # file[x].id /\ put[p].new.id # sweep.doomed[x].id /\ put[p].new.id # NoVersion.id
            BY <2>5, Zenon DEF Walked, IdsUnused
        <3> QED
            BY <2>1, <3>1, Zenon
    <2> QED
        BY <2>3, <2>4, <2>6, <2>7, Zenon DEF Walked
<1> QED
    BY <1>2, <1>3, <1>4, <1>5, <1>6, <1>7, Zenon DEF SweepStep

\* Deletes, reads, the index request, a crash and the clock.
LEMMA WalkedStep == ASSUME TypeOK, Walked, [Next]_vars PROVE Walked'
<1>1. ASSUME NEW k \in Key, NEW d \in Deleter, DeleteFile(d, k) PROVE Walked'
    <2>1. /\ UNCHANGED <<put, sweep, uploads>> /\ file'[k] = NoVersion
          /\ \A x \in Key : x # k => file'[x] = file[x]
        BY <1>1, Zenon DEF DeleteFile, TypeOK, SomeVersions
    <2>2. /\ NoVersion.id <= uploads /\ \A p \in Putter : put[p] # Idle => put[p].new.id # NoVersion.id
          /\ \A x \in Key : sweep.doomed[x] # NoVersion => sweep.doomed[x].id # NoVersion.id
        BY Numbers
    <2>3. UsedAfterWritten' /\ VictimsAreOld'
        BY <2>1, Zenon DEF Walked, UsedAfterWritten, VictimsAreOld
    <2>4. DoomedIsWalked'
        BY <2>1, <2>2, ZenonT(40) DEF Walked, DoomedIsWalked
    <2>5. IdsBounded' /\ IdsDistinct'
        BY <2>1, <2>2, Zenon DEF Walked, IdsBounded, IdsDistinct
    <2>6. IdsUnused'
        BY <2>1, <2>2, ZenonT(40) DEF Walked, IdsUnused, Indexing
    <2> QED
        BY <2>3, <2>4, <2>5, <2>6, Zenon DEF Walked
<1>2. ASSUME NEW k \in Key, Read(k) PROVE Walked'
    <2>1. /\ UNCHANGED <<put, sweep, uploads>> /\ file'[k] # NoVersion
          /\ file[k] # NoVersion /\ file'[k].id = file[k].id /\ file'[k].mtime = file[k].mtime
          /\ file[k].used < file'[k].used /\ \A x \in Key : x # k => file'[x] = file[x]
        BY <1>2, ReadEffect, Zenon
    <2>2. file'[k].used \in Int
        BY <1>2, <2>1, TypeStep, SweepNumbers, ZenonT(40) DEF Next, TypeOK, SomeVersions,
           Versions, Read
    <2>3. file'[k].mtime <= file'[k].used
        BY <2>1, <2>2, SweepNumbers DEF Walked, UsedAfterWritten
    <2>4. UsedAfterWritten'
        BY <2>1, <2>3, Zenon DEF Walked, UsedAfterWritten
    <2>5. VictimsAreOld'
        BY <2>1, Zenon DEF Walked, VictimsAreOld
    <2>6. \A x \in Key : file'[x].id = file[x].id /\ file'[x].mtime = file[x].mtime
        BY <2>1, Zenon
    <2>7. DoomedIsWalked'
        BY <2>1, <2>6, ZenonT(40) DEF Walked, DoomedIsWalked
    <2>8. IdsBounded' /\ IdsDistinct'
        BY <2>1, <2>6, Zenon DEF Walked, IdsBounded, IdsDistinct
    <2>9. IdsUnused'
        BY <2>1, <2>6, ZenonT(40) DEF Walked, IdsUnused, Indexing
    <2> QED
        BY <2>4, <2>5, <2>7, <2>8, <2>9, Zenon DEF Walked
<1>3. CASE Crash
    <2>1. /\ UNCHANGED <<file, uploads>> /\ sweep' = Resting /\ \A p \in Putter : put'[p] = Idle
        BY <1>3, Zenon DEF Crash
    <2>2. \A k \in Key : sweep'.batch[k] = NoVersion /\ sweep'.doomed[k] = NoVersion
        BY <2>1, RestingHolds, Zenon
    <2>3. UsedAfterWritten' /\ VictimsAreOld' /\ DoomedIsWalked'
        BY <2>1, <2>2, Zenon DEF Walked, UsedAfterWritten, VictimsAreOld, DoomedIsWalked
    <2>4. NoVersion.id <= uploads
        BY Numbers
    <2>5. IdsBounded' /\ IdsDistinct' /\ IdsUnused'
        BY <2>1, <2>2, <2>4, Zenon DEF Walked, IdsBounded, IdsDistinct, IdsUnused
    <2> QED
        BY <2>3, <2>5, Zenon DEF Walked
<1>4. CASE UNCHANGED <<file, put, sweep, uploads>>
    <2>1. UsedAfterWritten' /\ VictimsAreOld' /\ DoomedIsWalked' /\ IdsBounded' /\ IdsDistinct'
        BY <1>4, Zenon DEF Walked, UsedAfterWritten, VictimsAreOld, DoomedIsWalked, IdsBounded,
           IdsDistinct
    <2>2. IdsUnused'
        BY <1>4, Zenon DEF Walked, IdsUnused, Indexing
    <2> QED
        BY <2>1, <2>2, Zenon DEF Walked
<1>5. ServeIndex \/ Tick \/ (\E d \in Deleter : DeleteEntry(d)) \/ UNCHANGED vars
          => UNCHANGED <<file, put, sweep, uploads>>
    BY Zenon DEF ServeIndex, Tick, DeleteEntry, vars
<1> QED
    BY <1>1, <1>2, <1>3, <1>4, <1>5, PutWalked, SweepWalked, Zenon DEF Next

\* However many uploads, deletes, reads and sweeps race on however many keys, what
\* evictOne unlinks is the version of the second the walk saw, older than the
\* cutoff, or a file that came between its stat and its remove.
THEOREM EvictsOnlyWalked == Spec => []EvictsTheWalkedSecond
<1>1. Init => TypeOK /\ Walked
    <2> SUFFICES ASSUME Init PROVE Walked
        BY TypeStart, Zenon
    <2>1. /\ \A p \in Putter : put[p] = Idle
          /\ \A k \in Key : sweep.batch[k] = NoVersion /\ sweep.doomed[k] = NoVersion
        BY RestingHolds, Zenon DEF Init
    <2>2. UsedAfterWritten
        BY <2>1 DEF Init, UsedAfterWritten, NoVersion
    <2>3. \A k \in Key : file[k].id <= uploads /\ NoVersion.id <= uploads
        BY DEF Init, NoVersion
    <2>4. IdsBounded /\ IdsDistinct /\ IdsUnused /\ VictimsAreOld /\ DoomedIsWalked
        BY <2>1, <2>3, Zenon DEF IdsBounded, IdsDistinct, IdsUnused, VictimsAreOld,
           DoomedIsWalked
    <2> QED
        BY <2>2, <2>4, Zenon DEF Walked
<1>2. TypeOK /\ Walked /\ [Next]_vars => TypeOK' /\ Walked'
    BY TypeStep, WalkedStep, Zenon
<1>3. TypeOK /\ Walked => EvictsTheWalkedSecond
    BY Zenon DEF Walked, DoomedIsWalked, VictimsAreOld, EvictsTheWalkedSecond
<1> QED
    BY <1>1, <1>2, <1>3, PTL DEF Spec

----------------------------------------------------------------------------
(* Every stored object is advertised.                                      *)

\* UploadsListed, key by key.
LEMMA ListedByKey == ASSUME TypeOK, \A k \in Key : KeyListed(k) PROVE UploadsListed
<1> SUFFICES ASSUME NEW k \in Stored
             PROVE  \/ k \in Advertised \cup Condemned
                    \/ k \in {put[p].key : p \in {q \in Running : put[q].pc = "index"}}
    BY Zenon DEF UploadsListed
<1>1. k \in Key /\ file[k] # NoVersion
    BY Zenon DEF Stored
<1>2. k \in hashes \/ k \in pending \/ Condemns(k) => k \in Advertised \cup Condemned
    BY <1>1, Zenon DEF Condemns, Condemned, Batched, Advertised
<1>3. ASSUME NEW p \in Putter, Indexing(p), put[p].key = k
      PROVE  k \in {put[q].key : q \in {r \in Running : put[r].pc = "index"}}
    BY <1>3, PutPc, Zenon DEF Indexing, Running
<1> QED
    BY <1>1, <1>2, <1>3, Zenon DEF KeyListed, Arriving

\* An upload moves, and every upload about to advertise still is.
LEMMA UploadMoves ==
    ASSUME Listed, UNCHANGED <<hashes, pending, file, sweep>>,
           \A q \in Putter : Indexing(q) => Indexing(q)' /\ put'[q].key = put[q].key
    PROVE  (\A k \in Key : KeyListed(k)') /\ VictimsStay' /\ RebuildFinds'
<1>1. \A k : Arriving(k) => Arriving(k)'
    BY Zenon DEF Arriving
<1>2. \A k \in Key : KeyListed(k)'
    BY <1>1, Zenon DEF Listed, KeyListed, Condemns
<1>3. VictimsStay'
    BY Zenon DEF Listed, VictimsStay
<1>4. RebuildFinds'
    BY <1>1, Zenon DEF Listed, RebuildFinds
<1> QED
    BY <1>2, <1>3, <1>4, Zenon

\* PutStream.
LEMMA PutListed ==
    ASSUME QuietIndex, TypeOK, Listed, NEW p \in Putter, PutStep(p) PROVE Listed'
<1>0. Idle.pc = "idle"
    BY Zenon DEF Idle
<1>1. ASSUME NEW k \in Key, NEW b \in Body, WriteTemp(p, k, b) PROVE Listed'
    <2>1. /\ UNCHANGED <<hashes, pending, file, sweep>> /\ put[p] = Idle
          /\ \A q \in Putter : q # p => put'[q] = put[q]
          /\ put'[p].pc = "temp" /\ put'[p].key = k
        BY <1>1, WriteEffect, Zenon
    <2>2. \A q \in Putter : put[q] # Idle => put[q].key # k
        BY <1>1, Zenon DEF WriteTemp, QuietIndex, Running
    <2>3. NoTwins'
        BY <2>1, <2>2, ZenonT(40) DEF Listed, NoTwins
    <2>4. FirstWrites'
        BY <2>1, Zenon DEF Listed, FirstWrites
    <2>5. \A q \in Putter : Indexing(q) => Indexing(q)' /\ put'[q].key = put[q].key
        BY <1>0, <2>1, Zenon DEF Indexing
    <2> QED
        BY <2>1, <2>3, <2>4, <2>5, UploadMoves, Zenon DEF Listed
<1>2. CASE CheckWriteOnce(p) \/ CompareBodies(p) \/ CompareStamps(p)
    <2>1. /\ UNCHANGED <<hashes, pending, file, sweep>> /\ put[p] # Idle /\ ~Indexing(p)
          /\ \A q \in Putter : q # p => put'[q] = put[q]
          /\ put'[p] = Idle \/ put'[p].key = put[p].key
        BY <1>2, CheckEffect, Zenon
    <2>2. CheckWriteOnce(p)
        BY <1>2, Zenon DEF Listed, FirstWrites, CompareBodies, CompareStamps
    <2>3. put[p].key \in Key /\ put[p] \in Uploading
        BY <2>1, RunningType, Zenon
    <2>4. put'[p] = Idle \/ (put'[p].pc = "rename" /\ put[p].key \notin Stored)
        BY <2>2, <2>3, ZenonT(40) DEF CheckWriteOnce, QuietIndex, PutGoes, PutReturns, TypeOK,
           Uploading
    <2>5. put'[p].pc \notin {"compare", "stamp"}
          /\ (put'[p].pc = "rename" => file'[put'[p].key] = NoVersion)
        BY <1>0, <2>1, <2>3, <2>4, Zenon DEF Stored
    <2>6. FirstWrites'
        BY <2>1, <2>5, Zenon DEF Listed, FirstWrites
    <2>7. NoTwins'
        BY <2>1, ZenonT(40) DEF Listed, NoTwins
    <2>8. \A q \in Putter : Indexing(q) => Indexing(q)' /\ put'[q].key = put[q].key
        BY <2>1, Zenon DEF Indexing
    <2> QED
        BY <2>1, <2>6, <2>7, <2>8, UploadMoves, Zenon DEF Listed
<1>3. CASE Rename(p)
    <2> DEFINE k == put[p].key
    <2>1. /\ UNCHANGED <<hashes, pending, sweep>> /\ put[p] # Idle /\ put[p].pc = "rename" /\ k \in Key
          /\ file'[k] # NoVersion /\ \A x \in Key : x # k => file'[x] = file[x]
          /\ \A q \in Putter : q # p => put'[q] = put[q]
          /\ put'[p].key = k /\ put'[p].pc = "index" /\ put'[p] # Idle
        BY <1>3, RenameEffect, Zenon
    <2>2. file[k] = NoVersion /\ sweep.batch[k] = NoVersion
        BY <2>1, Zenon DEF Listed, FirstWrites, VictimsStay
    <2>3. Arriving(k)' /\ \A x : Arriving(x) => Arriving(x)'
        BY <2>1, Zenon DEF Arriving, Indexing
    <2>4. \A x \in Key : KeyListed(x)'
        BY <2>1, <2>3, Zenon DEF Listed, KeyListed, Condemns
    <2>5. VictimsStay'
        BY <2>1, <2>2, Zenon DEF Listed, VictimsStay
    <2>6. RebuildFinds'
        BY <2>1, <2>3, Zenon DEF Listed, RebuildFinds
    <2>7. NoTwins'
        BY <2>1 DEF Listed, NoTwins
    <2>8. FirstWrites'
        <3> SUFFICES ASSUME NEW q \in Putter, q # p, put[q].pc = "rename"
                     PROVE  file'[put[q].key] = NoVersion
            BY <2>1, ZenonT(40) DEF Listed, FirstWrites
        <3>1. put[q] # Idle
            BY <1>0, Zenon
        <3>2. put[q].key \in Key /\ put[q].key # k
            BY <2>1, <3>1, RunningType, Zenon DEF Listed, NoTwins
        <3> QED
            BY <2>1, <3>2, Zenon DEF Listed, FirstWrites
    <2> QED
        BY <2>4, <2>5, <2>6, <2>7, <2>8, Zenon DEF Listed
<1>4. CASE Advertise(p)
    <2> DEFINE k == put[p].key
    <2>1. /\ UNCHANGED <<hashes, file, sweep>> /\ pending' = pending \cup {k} /\ k \in Key
          /\ put'[p] = Idle /\ \A q \in Putter : q # p => put'[q] = put[q]
        BY <1>4, AdvertiseEffect, Zenon
    <2>2. \A x : Arriving(x) => x \in pending' \/ Arriving(x)'
        BY <2>1, Zenon DEF Arriving, Indexing
    <2>3. \A x \in Key : KeyListed(x)'
        BY <2>1, <2>2, Zenon DEF Listed, KeyListed, Condemns
    <2>4. VictimsStay' /\ NoTwins'
        BY <2>1, ZenonT(30) DEF Listed, VictimsStay, NoTwins
    <2>5. RebuildFinds'
        BY <2>1, <2>2, Zenon DEF Listed, RebuildFinds
    <2>6. FirstWrites'
        BY <1>0, <2>1, Zenon DEF Listed, FirstWrites
    <2> QED
        BY <2>3, <2>4, <2>5, <2>6, Zenon DEF Listed
<1> QED
    BY <1>1, <1>2, <1>3, <1>4, Zenon DEF PutStep

\* A step of the sweep leaves the uploads alone, and no file appears.
LEMMA UploadsStand ==
    ASSUME TypeOK, Listed, UNCHANGED put,
           \A k \in Key : file'[k] = file[k] \/ file'[k] = NoVersion
    PROVE  NoTwins' /\ FirstWrites' /\ \A k : Arriving(k)' <=> Arriving(k)
<1>1. NoTwins' /\ \A k : Arriving(k)' <=> Arriving(k)
    BY Zenon DEF Listed, NoTwins, Arriving, Indexing
<1>2. \A p \in Putter : put[p].pc = "rename" => put[p].key \in Key
    BY RunningType, PutPc, Zenon
<1>3. FirstWrites'
    BY <1>2, Zenon DEF Listed, FirstWrites
<1> QED
    BY <1>1, <1>3, Zenon

\* The sweep and its rebuild.
LEMMA SweepListed ==
    ASSUME QuietIndex, TypeOK, Listed, Scan \/ SweepStep PROVE Listed'
<1>0. sweep \in Sweeping
    BY Zenon DEF TypeOK
<1>1. CASE Scan
    <2>1. PICK cutoff \in Cutoffs :
              sweep' = [Resting EXCEPT !.pc = "walk", !.cutoff = cutoff, !.left = Key]
        BY <1>1, Zenon DEF Scan
    <2>2. /\ sweep'.pc = "walk" /\ sweep.pc = "idle"
          /\ \A k \in Key : sweep'.batch[k] = NoVersion
        BY <1>1, <2>1, RestingHolds, Zenon DEF Resting, Scan
    <2>3. UNCHANGED <<hashes, pending, file, put>>
        BY <1>1, Zenon DEF Scan, indexVars
    <2>4. \A k \in Key : KeyListed(k)'
        BY <2>2, <2>3, UploadsStand, Zenon DEF Listed, KeyListed, Condemns
    <2>5. VictimsStay' /\ RebuildFinds'
        BY <2>2, Zenon DEF VictimsStay, RebuildFinds
    <2> QED
        BY <2>3, <2>4, <2>5, UploadsStand, Zenon DEF Listed
<1>2. ASSUME NEW k \in Key, WalkVisit(k) PROVE Listed'
    <2>1. /\ UNCHANGED <<hashes, pending, file, put>> /\ sweep.pc = "walk" /\ sweep'.pc = "walk"
          /\ \A x \in Key : x # k => sweep'.batch[x] = sweep.batch[x]
          /\ sweep'.batch[k] # NoVersion => sweep'.batch[k] = file[k] /\ file[k] # NoVersion
        BY <1>2, VisitEffect, Zenon
    <2>2. \A x \in Key : KeyListed(x)'
        BY <2>1, UploadsStand, Zenon DEF Listed, KeyListed, Condemns
    <2>3. VictimsStay' /\ RebuildFinds'
        BY <2>1, Zenon DEF Listed, VictimsStay, RebuildFinds
    <2> QED
        BY <2>1, <2>2, <2>3, UploadsStand, Zenon DEF Listed
<1>3. CASE Flush
    <2>1. /\ UNCHANGED <<file, put>> /\ sweep.pc = "walk" /\ sweep'.pc = "evict"
          /\ sweep'.batch = sweep.batch
        BY <1>0, <1>3, Zenon DEF Flush, Sweeping
    <2>2. hashes' = hashes \ Batched /\ pending' = pending \ Batched
        BY <1>3, Zenon DEF Flush, IndexRemove
    <2>3. \A k \in Key : KeyListed(k)'
        BY <2>1, <2>2, UploadsStand, Zenon DEF Listed, KeyListed, Condemns, Batched
    <2>4. VictimsStay' /\ RebuildFinds'
        BY <2>1, Zenon DEF Listed, VictimsStay, RebuildFinds
    <2> QED
        BY <2>1, <2>3, <2>4, UploadsStand, Zenon DEF Listed
<1>4. ASSUME NEW k \in Key, EvictStat(k) PROVE Listed'
    <2>1. /\ UNCHANGED <<hashes, pending, file, put>> /\ sweep.pc = "evict"
          /\ sweep.batch[k] # NoVersion /\ sweep'.pc \in {"evict", "unlink"}
          /\ \A x \in Key : x # k => sweep'.batch[x] = sweep.batch[x]
          /\ \/ sweep'.batch[k] = sweep.batch[k]
             \/ ~(file[k] # NoVersion /\ file[k].mtime = sweep.batch[k].mtime)
        BY <1>4, StatEffect, Zenon
    <2>2. \A x \in Key : sweep'.batch[x] = sweep.batch[x]
        BY <2>1, Zenon DEF Listed, VictimsStay
    <2>3. \A x \in Key : KeyListed(x)'
        BY <2>1, <2>2, UploadsStand, Zenon DEF Listed, KeyListed, Condemns
    <2>4. VictimsStay' /\ RebuildFinds'
        BY <2>1, <2>2, ZenonT(40) DEF Listed, VictimsStay, RebuildFinds
    <2> QED
        BY <2>1, <2>3, <2>4, UploadsStand, Zenon DEF Listed
<1>5. ASSUME NEW k \in Key, EvictUnlink(k) PROVE Listed'
    <2>1. /\ UNCHANGED <<hashes, pending, put>> /\ sweep.pc = "unlink" /\ sweep'.pc = "evict"
          /\ file'[k] = NoVersion /\ sweep'.batch[k] = NoVersion
          /\ \A x \in Key : x # k => file'[x] = file[x] /\ sweep'.batch[x] = sweep.batch[x]
        BY <1>5, UnlinkEffect, Zenon
    <2>2. NoTwins' /\ FirstWrites' /\ \A x : Arriving(x)' <=> Arriving(x)
        BY <2>1, UploadsStand, Zenon
    <2>3. \A x \in Key : KeyListed(x)'
        BY <2>1, <2>2, Zenon DEF Listed, KeyListed, Condemns
    <2>4. VictimsStay' /\ RebuildFinds'
        BY <2>1, Zenon DEF Listed, VictimsStay, RebuildFinds
    <2> QED
        BY <2>2, <2>3, <2>4, Zenon DEF Listed
<1>6. CASE FlushEnd
    <2>1. /\ UNCHANGED <<hashes, pending, file, put>> /\ sweep'.pc = "walk"
          /\ sweep'.batch = sweep.batch /\ \A k \in Key : sweep.batch[k] = NoVersion
        BY <1>0, <1>6, Zenon DEF FlushEnd, Sweeping, indexVars, Batched
    <2>2. \A k \in Key : KeyListed(k)'
        BY <2>1, UploadsStand, Zenon DEF Listed, KeyListed, Condemns
    <2>3. VictimsStay' /\ RebuildFinds'
        BY <2>1, Zenon DEF VictimsStay, RebuildFinds
    <2> QED
        BY <2>1, <2>2, <2>3, UploadsStand, Zenon DEF Listed
<1>7. CASE WalkEnd
    <2>1. /\ UNCHANGED <<hashes, pending, file, put>> /\ sweep.pc = "walk"
          /\ \/ sweep' = [Resting EXCEPT !.pc = "rebuild", !.left = Key]
             \/ sweep' = Resting
        BY <1>7, Zenon DEF WalkEnd, indexVars
    <2>2. /\ sweep'.pc \in {"idle", "rebuild"} /\ \A k \in Key : sweep'.batch[k] = NoVersion
          /\ sweep'.pc = "rebuild" => sweep'.left = Key
        BY <2>1, RestingHolds, Zenon DEF Resting
    <2>3. \A k \in Key : KeyListed(k)'
        BY <2>1, <2>2, UploadsStand, Zenon DEF Listed, KeyListed, Condemns
    <2>4. VictimsStay' /\ RebuildFinds'
        BY <2>2, Zenon DEF VictimsStay, RebuildFinds
    <2> QED
        BY <2>1, <2>3, <2>4, UploadsStand, Zenon DEF Listed
<1>8. ASSUME NEW k \in Key, RebuildVisit(k) PROVE Listed'
    <2>1. /\ UNCHANGED <<hashes, pending, file, put>> /\ sweep.pc = "rebuild"
          /\ sweep'.pc = "rebuild" /\ sweep'.batch = sweep.batch
          /\ sweep'.left = sweep.left \ {k} /\ sweep'.seen = sweep.seen \cup ({k} \cap Stored)
        BY <1>0, <1>8, Zenon DEF RebuildVisit, indexVars, Sweeping
    <2>2. \A x \in Key : KeyListed(x)'
        BY <2>1, UploadsStand, Zenon DEF Listed, KeyListed, Condemns
    <2>3. VictimsStay'
        BY <2>1, Zenon DEF Listed, VictimsStay
    <2>4. RebuildFinds'
        BY <2>1, UploadsStand, Zenon DEF Listed, RebuildFinds, Stored
    <2> QED
        BY <2>1, <2>2, <2>3, <2>4, UploadsStand, Zenon DEF Listed
<1>9. CASE RebuildApply
    <2>1. /\ UNCHANGED <<pending, file, put>> /\ hashes' = sweep.seen /\ sweep.left = {}
          /\ sweep.pc = "rebuild" /\ sweep' = Resting
        BY <1>9, Zenon DEF RebuildApply, IndexRebuild
    <2>2. sweep'.pc = "idle" /\ \A k \in Key : sweep'.batch[k] = NoVersion
        BY <2>1, RestingHolds, Zenon
    <2>3. \A k \in Key : KeyListed(k)'
        BY <2>1, UploadsStand, Zenon DEF Listed, RebuildFinds, KeyListed
    <2>4. VictimsStay' /\ RebuildFinds'
        BY <2>2, Zenon DEF VictimsStay, RebuildFinds
    <2> QED
        BY <2>1, <2>3, <2>4, UploadsStand, Zenon DEF Listed
<1> QED
    BY <1>1, <1>2, <1>3, <1>4, <1>5, <1>6, <1>7, <1>8, <1>9, Zenon DEF SweepStep

\* Reads, the index request, a crash and the clock.
LEMMA ListedStep == ASSUME QuietIndex, TypeOK, Listed, [Next]_vars PROVE Listed'
<1>1. ASSUME NEW k \in Key, Read(k) PROVE Listed'
    <2>1. /\ UNCHANGED <<hashes, pending, put, sweep>> /\ file'[k] # NoVersion
          /\ file[k] # NoVersion /\ file'[k].mtime = file[k].mtime
          /\ \A x \in Key : x # k => file'[x] = file[x]
        BY <1>1, ReadEffect, Zenon
    <2>2. \A x \in Key : (file'[x] = NoVersion <=> file[x] = NoVersion) /\ file'[x].mtime = file[x].mtime
        BY <2>1, Zenon
    <2>3. NoTwins' /\ \A x : Arriving(x)' <=> Arriving(x)
        BY <2>1, Zenon DEF Listed, NoTwins, Arriving, Indexing
    <2>4. \A x \in Key : KeyListed(x)'
        BY <2>1, <2>2, <2>3, Zenon DEF Listed, KeyListed, Condemns
    <2>5. VictimsStay' /\ RebuildFinds'
        BY <2>1, <2>2, <2>3, Zenon DEF Listed, VictimsStay, RebuildFinds
    <2>6. \A p \in Putter : put[p].pc = "rename" => put[p].key \in Key
        BY RunningType, PutPc, Zenon
    <2>7. FirstWrites'
        BY <2>1, <2>2, <2>6, Zenon DEF Listed, FirstWrites
    <2> QED
        BY <2>3, <2>4, <2>5, <2>7, Zenon DEF Listed
<1>2. CASE ServeIndex
    <2>1. /\ UNCHANGED <<file, put, sweep>> /\ sweep.pc # "rebuild"
          /\ \A k : k \in hashes \/ k \in pending => k \in hashes'
        BY <1>2, Zenon DEF ServeIndex, IndexMerge, Advertised, QuietIndex
    <2>2. \A k \in Key : KeyListed(k)'
        BY <2>1, UploadsStand, Zenon DEF Listed, KeyListed, Condemns
    <2>3. VictimsStay' /\ RebuildFinds'
        BY <2>1, Zenon DEF Listed, VictimsStay, RebuildFinds
    <2> QED
        BY <2>1, <2>2, <2>3, UploadsStand, Zenon DEF Listed
<1>3. CASE Crash
    <2>1. /\ UNCHANGED file /\ hashes' = Stored /\ sweep' = Resting
          /\ \A p \in Putter : put'[p] = Idle
        BY <1>3, Zenon DEF Crash, IndexRestart
    <2>2. sweep'.pc = "idle" /\ \A k \in Key : sweep'.batch[k] = NoVersion
        BY <2>1, RestingHolds, Zenon
    <2>3. (\A k \in Key : KeyListed(k)') /\ VictimsStay' /\ RebuildFinds'
        BY <2>1, <2>2, Zenon DEF KeyListed, Stored, VictimsStay, RebuildFinds
    <2>4. NoTwins' /\ FirstWrites'
        BY <2>1 DEF NoTwins, FirstWrites, Idle
    <2> QED
        BY <2>3, <2>4, Zenon DEF Listed
<1>4. CASE UNCHANGED <<hashes, pending, file, put, sweep>>
    <2>1. (\A k \in Key : KeyListed(k)') /\ VictimsStay' /\ RebuildFinds'
        BY <1>4, UploadMoves, Zenon DEF Indexing
    <2> QED
        BY <1>4, <2>1, UploadsStand, Zenon DEF Listed
<1>5. Tick \/ UNCHANGED vars => UNCHANGED <<hashes, pending, file, put, sweep>>
    BY Zenon DEF Tick, vars, indexVars
<1> QED
    BY <1>1, <1>2, <1>3, <1>4, <1>5, PutListed, SweepListed, Zenon DEF Next, QuietIndex

\* With write-once uploads and no deletes, whatever the numbers of keys, uploads
\* and batches, no sweep, rebuild or crash loses a stored object from the index,
\* provided no GET /_index merges during a rebuild's walk (applyRebuild) and no
\* two uploads of one key run at once.
THEOREM NoUploadLost ==
    ASSUME QuietIndex
    PROVE  Spec => []UploadsListed
<1>1. Init => TypeOK /\ Listed
    <2> SUFFICES ASSUME Init PROVE Listed
        BY TypeStart, Zenon
    <2>1. /\ \A p \in Putter : put[p] = Idle
          /\ sweep.pc = "idle" /\ \A k \in Key : sweep.batch[k] = NoVersion
        BY RestingHolds, Zenon DEF Init
    <2>2. \A k \in Key : KeyListed(k)
        BY Zenon DEF Init, IndexInit, KeyListed
    <2>3. NoTwins /\ FirstWrites
        BY <2>1 DEF NoTwins, FirstWrites, Idle
    <2>4. VictimsStay /\ RebuildFinds
        BY <2>1, Zenon DEF VictimsStay, RebuildFinds
    <2> QED
        BY <2>2, <2>3, <2>4, Zenon DEF Listed
<1>2. TypeOK /\ Listed /\ [Next]_vars => TypeOK' /\ Listed'
    BY TypeStep, ListedStep, Zenon
<1>3. TypeOK /\ Listed => UploadsListed
    BY ListedByKey, Zenon DEF Listed
<1> QED
    BY <1>1, <1>2, <1>3, PTL DEF Spec
=============================================================================
