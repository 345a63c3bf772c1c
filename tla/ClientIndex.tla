---------------------------- MODULE ClientIndex ----------------------------
(***************************************************************************)
(* The key set a build process works from (cacheclient/web_index*.go, and  *)
(* the claims and drops of web.go, webget.go and webput.go).  A process    *)
(* installs the copy of the index it finds on disk, brings it current in   *)
(* the background by a delta or a whole fetch, and meanwhile claims keys   *)
(* it uploads and drops keys the server turns out not to have.             *)
(*                                                                         *)
(* The copy is shared by the processes of a machine: a file with the keys  *)
(* and a file with the position in the server's add log, written one after *)
(* the other.  An ETag is the hash of a copy's contents, so the model      *)
(* writes the set of keys for it.  The server is what KeyIndex shows it to *)
(* be: a set, an epoch that a removal ends, and a log of the keys added    *)
(* since.                                                                  *)
(*                                                                         *)
(* The reads, requests and writes of a load are steps of their own; what   *)
(* runs under keysMu is one step.  Errors and crashes may come anywhere.   *)
(***************************************************************************)
EXTENDS Integers, Sequences, FiniteSets

CONSTANTS
    Proc,             \* processes of one machine
    Key,
    Builder,          \* processes that look up and upload while they load
    Used,             \* bound: keys they look up and upload
    MaxEpoch,         \* bound: epochs of the server's log
    NoProc

ASSUME ClientAssumption ==
    /\ MaxEpoch \in Nat
    /\ Builder \subseteq Proc /\ Used \subseteq Key /\ NoProc \notin Proc

VARIABLES
    stored, epoch, log,   \* the server: keys, epoch, keys added in it
    ever,                 \* keys it has ever stored
    copy, copyGen,        \* the copy and its position file
    lock,                 \* holder of the lock file beside the copy
    pc,                   \* step of the load
    disk,                 \* diskIndex as the load read it
    changed,              \* the copy's mtime moved since that read
    reply,                \* keys and position the load received
    res, after,           \* what refreshIndex returns; where a write leads
    keys, authoritative, journal, liveGen,   \* under keysMu
    live,                 \* a live delta received and not yet applied
    up,                   \* uploads of claimed keys
    missed,               \* keys answered absent, not yet reclaimed
    dropped               \* keys dropped since last claimed or delivered

serverVars == <<stored, epoch, log, ever>>
diskVars == <<copy, copyGen, changed>>
loadVars == <<pc, disk, reply, res, after>>
keysVars == <<keys, authoritative, journal, liveGen>>
useVars == <<up, missed, dropped>>
vars == <<serverVars, diskVars, lock, loadVars, keysVars, live, useVars>>

\* The keys the log gained after position seq.
Since(seq) == {log[i] : i \in seq + 1..Len(log)}

Gen == [epoch : 0..MaxEpoch, seq : Nat]
\* A zero epoch is no position.
NoGen == [epoch |-> 0, seq |-> 0]
Here == [epoch |-> epoch, seq |-> Len(log)]

NoDisk == [has |-> FALSE, keys |-> {}, gen |-> NoGen]
NoReply == [keys |-> {}, gen |-> NoGen]
NoRes == [got |-> "nil", auth |-> FALSE]
NoLive == [on |-> FALSE, keys |-> {}, gen |-> NoGen]
Closed == [open |-> FALSE, added |-> {}, dropped |-> {}]
Opened == [open |-> TRUE, added |-> {}, dropped |-> {}]
Idle == [k \in Key |-> "none"]

\* The copy, if an earlier process left one, is what the server had when it was
\* fetched; its position was written with it, or the writer died first.
Init ==
    /\ stored \in SUBSET Key /\ ever = stored /\ epoch = 1 /\ log = <<>>
    /\ \/ copy = [has |-> FALSE, keys |-> {}] /\ copyGen = [gen |-> NoGen, etag |-> {}]
       \/ /\ copy = [has |-> TRUE, keys |-> stored]
          /\ copyGen \in {[gen |-> NoGen, etag |-> {}], [gen |-> Here, etag |-> stored]}
    /\ changed = [p \in Proc |-> FALSE] /\ lock = NoProc
    /\ pc = [p \in Proc |-> "stat"] /\ disk = [p \in Proc |-> NoDisk]
    /\ reply = [p \in Proc |-> NoReply] /\ res = [p \in Proc |-> NoRes]
    /\ after = [p \in Proc |-> "done"]
    /\ keys = [p \in Proc |-> {}] /\ authoritative = [p \in Proc |-> FALSE]
    /\ journal = [p \in Proc |-> Closed] /\ liveGen = [p \in Proc |-> NoGen]
    /\ live = [p \in Proc |-> NoLive] /\ up = [p \in Proc |-> Idle]
    /\ missed = [p \in Proc |-> {}] /\ dropped = [p \in Proc |-> {}]

----------------------------------------------------------------------------
(* The server: an upload of another machine, and an eviction.              *)

Add(k) ==
    /\ stored' = stored \cup {k} /\ ever' = ever \cup {k}
    /\ log' = IF k \in stored THEN log ELSE Append(log, k)
    /\ UNCHANGED epoch

ServerStore(k) ==
    /\ k \notin stored /\ Add(k)
    /\ UNCHANGED <<diskVars, lock, loadVars, keysVars, live, useVars>>

ServerRemove(k) ==
    /\ k \in stored /\ epoch < MaxEpoch
    /\ stored' = stored \ {k} /\ epoch' = epoch + 1 /\ log' = <<>>
    /\ UNCHANGED <<ever, diskVars, lock, loadVars, keysVars, live, useVars>>

----------------------------------------------------------------------------
(* The start of a load: readDiskIndex and startIndexLoad.                  *)

Goto(p, l) == pc' = [pc EXCEPT ![p] = l]

\* The load's goroutine ends and its variables with it.
End(p, l) ==
    /\ Goto(p, l) /\ disk' = [disk EXCEPT ![p] = NoDisk]
    /\ reply' = [reply EXCEPT ![p] = NoReply]
    /\ res' = [res EXCEPT ![p] = NoRes] /\ after' = [after EXCEPT ![p] = "done"]
Finish(p) == End(p, "done")

\* The mtime is read first; Moved records that it is no longer the copy's.
StatCopy(p) ==
    /\ pc[p] = "stat" /\ Goto(p, "read")
    /\ UNCHANGED <<serverVars, diskVars, lock, disk, reply, res, after,
                   keysVars, live, useVars>>

ReadCopy(p) ==
    /\ pc[p] = "read" /\ Goto(p, "gen")
    /\ disk' = [disk EXCEPT ![p].has = copy.has, ![p].keys = copy.keys]
    /\ UNCHANGED <<serverVars, diskVars, lock, reply, res, after, keysVars,
                   live, useVars>>

\* Variant of ReadIndexGen: the ETag in the position file is not compared.
ReadAnyGen(etag) == copyGen.gen

\* readIndexGen: the position, if it was written for this copy.
ReadIndexGen(etag) == IF copyGen.etag = etag THEN copyGen.gen ELSE NoGen

\* A copy with a position is brought current by a delta at any age; one
\* without is trusted while it is young, and the model lets any copy be young;
\* otherwise the index is fetched.
StartIndexLoad(p) ==
    /\ pc[p] = "gen"
    /\ LET gen == IF disk[p].has THEN ReadIndexGen(disk[p].keys) ELSE NoGen
       IN \/ /\ disk[p].has /\ gen = NoGen /\ Finish(p)
             /\ authoritative' = [authoritative EXCEPT ![p] = TRUE]
             /\ UNCHANGED journal
          \/ /\ Goto(p, IF gen # NoGen THEN "delta" ELSE "lock")
             /\ disk' = [disk EXCEPT ![p].gen = gen]
             /\ journal' = [journal EXCEPT ![p] = Opened]
             /\ UNCHANGED <<reply, res, after, authoritative>>
    /\ keys' = [keys EXCEPT ![p] = disk[p].keys]
    /\ UNCHANGED <<serverVars, diskVars, lock, liveGen, live, useVars>>

----------------------------------------------------------------------------
(* applyDelta and persistDelta.                                            *)

\* The server answers from the position, or that its epoch is gone.
AskDelta(p) ==
    /\ pc[p] = "delta"
    /\ \/ /\ disk[p].gen.epoch = epoch
          /\ reply' = [reply EXCEPT ![p] = [keys |-> Since(disk[p].gen.seq), gen |-> Here]]
          /\ Goto(p, "apply")
       \/ disk[p].gen.epoch # epoch /\ Goto(p, "lock") /\ UNCHANGED reply
    /\ UNCHANGED <<serverVars, diskVars, lock, disk, res, after, keysVars,
                   live, useVars>>

\* A failed or cancelled delta leaves the copy as one with no position would be.
DeltaFails(p) ==
    /\ pc[p] = "delta" /\ Finish(p)
    /\ \E young \in BOOLEAN : authoritative' = [authoritative EXCEPT ![p] = young]
    /\ journal' = [journal EXCEPT ![p] = Closed]
    /\ UNCHANGED <<serverVars, diskVars, lock, keys, liveGen, live, useVars>>

\* The live set carries every claim and drop already, so nothing is replayed.
\* persistDelta follows: an empty delta confirms the copy, one of at least
\* persistDeltaMin keys rewrites it, a smaller one does neither.
ApplyDelta(p) ==
    /\ pc[p] = "apply"
    /\ keys' = [keys EXCEPT ![p] = @ \cup reply[p].keys]
    /\ dropped' = [dropped EXCEPT ![p] = @ \ reply[p].keys]
    /\ journal' = [journal EXCEPT ![p] = Closed]
    /\ liveGen' = [liveGen EXCEPT ![p] = reply[p].gen]
    /\ authoritative' = [authoritative EXCEPT ![p] = TRUE]
    /\ \/ reply[p].keys # {} /\ Finish(p)
       \/ /\ Goto(p, IF reply[p].keys = {} THEN "touch" ELSE "blob")
          /\ UNCHANGED <<disk, reply, res, after>>
    /\ UNCHANGED <<serverVars, diskVars, lock, live, up, missed>>

----------------------------------------------------------------------------
(* The two files: writeIndexBlob, Chtimes and writeIndexGen, for a delta   *)
(* that is persisted and for a fetch.  Each rename may fail.               *)

\* The contents a write is about: the merged copy, or what was fetched.
Target(p) == IF after[p] = "done" THEN disk[p].keys \cup reply[p].keys ELSE reply[p].keys

Moved == changed' = [q \in Proc |-> pc[q] \notin {"stat", "done", "gone"}]

TouchCopy(p) ==
    /\ pc[p] = "touch" /\ Goto(p, "wgen")
    /\ \/ copy.has /\ Moved
       \/ UNCHANGED changed
    /\ UNCHANGED <<serverVars, copy, copyGen, lock, disk, reply, res, after,
                   keysVars, live, useVars>>

WriteIndexBlob(p) ==
    /\ pc[p] = "blob" /\ Goto(p, "wgen")
    /\ \/ copy' = [has |-> TRUE, keys |-> Target(p)] /\ Moved
       \/ UNCHANGED <<copy, changed>>
    /\ UNCHANGED <<serverVars, copyGen, lock, disk, reply, res, after,
                   keysVars, live, useVars>>

Unlock(p) == lock' = IF lock = p THEN NoProc ELSE lock

\* A fetch records its position and gives up the lock; adoptIndex is next.
WriteIndexGen(p) ==
    /\ pc[p] = "wgen"
    /\ \/ copyGen' = [gen |-> reply[p].gen, etag |-> Target(p)]
       \/ UNCHANGED copyGen
    /\ \/ after[p] = "done" /\ Finish(p) /\ UNCHANGED <<liveGen, lock>>
       \/ /\ after[p] = "adopt" /\ Goto(p, "adopt") /\ Unlock(p)
          /\ liveGen' = [liveGen EXCEPT ![p] = reply[p].gen]
          /\ UNCHANGED <<disk, reply, res, after>>
    /\ UNCHANGED <<serverVars, copy, changed, keys, authoritative,
                   journal, live, useVars>>

----------------------------------------------------------------------------
(* refreshIndex and fetchIndex.                                            *)

Return(p, got, auth) == res' = [res EXCEPT ![p] = [got |-> got, auth |-> auth]]

\* The lock is taken and the copy's mtime read again; or the lock cannot be had
\* and the fetch goes on without it; or the wait is cancelled.
LockCopy(p) ==
    /\ pc[p] = "lock"
    /\ \/ /\ lock = NoProc /\ lock' = p
          /\ Goto(p, IF copy.has /\ changed[p] THEN "read2" ELSE "fetch")
          /\ UNCHANGED res
       \/ Goto(p, "fetch") /\ UNCHANGED <<lock, res>>
       \/ Return(p, "nil", FALSE) /\ Goto(p, "adopt") /\ UNCHANGED lock
    /\ UNCHANGED <<serverVars, diskVars, disk, reply, after, keysVars, live,
                   useVars>>

\* refreshedSince: a copy whose mtime moved is another process's refresh.
ReadAgain(p) ==
    /\ pc[p] = "read2" /\ Goto(p, "gen2")
    /\ reply' = [reply EXCEPT ![p] = [keys |-> copy.keys, gen |-> NoGen]]
    /\ UNCHANGED <<serverVars, diskVars, lock, disk, res, after, keysVars,
                   live, useVars>>

TakeRefreshed(p) ==
    /\ pc[p] = "gen2" /\ Goto(p, "adopt")
    /\ LET gen == ReadIndexGen(reply[p].keys)
       IN /\ reply' = [reply EXCEPT ![p].gen = gen]
          /\ liveGen' = [liveGen EXCEPT ![p] = gen]
    /\ Return(p, "new", TRUE) /\ Unlock(p)
    /\ UNCHANGED <<serverVars, diskVars, disk, after, keys, authoritative,
                   journal, live, useVars>>

\* GET /_index answers the keys at a position of its epoch, which may lie
\* behind the log by the age of its blob.  An equal copy is confirmed (304).
AskIndex(p) ==
    /\ pc[p] = "fetch" /\ after' = [after EXCEPT ![p] = "adopt"]
    /\ \E seq \in 0..Len(log) :
         LET blob == stored \ Since(seq)
             same == disk[p].has /\ disk[p].keys = blob
         IN /\ reply' = [reply EXCEPT ![p] = [keys |-> blob, gen |-> [epoch |-> epoch, seq |-> seq]]]
            /\ Return(p, IF same THEN "same" ELSE "new", TRUE)
            /\ Goto(p, IF same THEN "touch" ELSE "blob")
    /\ UNCHANGED <<serverVars, diskVars, lock, disk, keysVars, live, useVars>>

\* The request fails (the copy stands, or nothing), or is cancelled.
FetchFails(p) ==
    /\ pc[p] = "fetch" /\ Goto(p, "adopt") /\ Unlock(p)
    /\ \/ disk[p].has /\ Return(p, "same", FALSE) /\ UNCHANGED reply
       \/ /\ ~disk[p].has /\ Return(p, "new", FALSE)
          /\ reply' = [reply EXCEPT ![p] = NoReply]
       \/ Return(p, "nil", FALSE) /\ UNCHANGED reply
    /\ UNCHANGED <<serverVars, diskVars, disk, after, keysVars, live, useVars>>

\* Variant of AdoptIndex: the drops made during the load are not replayed.
AdoptWithoutDrops(p) ==
    /\ pc[p] = "adopt" /\ Finish(p)
    /\ journal' = [journal EXCEPT ![p] = Closed]
    /\ authoritative' = [authoritative EXCEPT ![p] = IF res[p].got = "nil" THEN @ ELSE res[p].auth]
    /\ keys' = [keys EXCEPT ![p] =
           IF res[p].got = "new" THEN reply[p].keys \cup journal[p].added ELSE @]
    /\ UNCHANGED <<serverVars, diskVars, lock, liveGen, live, useVars>>

\* adoptIndex: a loaded set is installed with the claims and drops made while
\* the load ran; the set already live stands; a cancelled load changes nothing.
AdoptIndex(p) ==
    /\ pc[p] = "adopt" /\ Finish(p)
    /\ journal' = [journal EXCEPT ![p] = Closed]
    /\ authoritative' = [authoritative EXCEPT ![p] = IF res[p].got = "nil" THEN @ ELSE res[p].auth]
    /\ keys' = [keys EXCEPT ![p] =
           IF res[p].got = "new" THEN (reply[p].keys \cup journal[p].added) \ journal[p].dropped ELSE @]
    /\ UNCHANGED <<serverVars, diskVars, lock, liveGen, live, useVars>>

----------------------------------------------------------------------------
(* What the build does meanwhile.                                          *)

Installed(p) == pc[p] \notin {"stat", "read", "gen", "gone"}

\* dropKeyLocked.
DropKey(p, k) ==
    /\ keys' = [keys EXCEPT ![p] = @ \ {k}]
    /\ dropped' = [dropped EXCEPT ![p] = @ \cup {k}]
    /\ journal' = [journal EXCEPT ![p] =
           IF @.open THEN [open |-> TRUE, added |-> @.added \ {k}, dropped |-> @.dropped \cup {k}] ELSE @]

\* enqueuePut: a key that is not known is claimed (addKeyLocked), and its
\* upload begins.  A known key is not uploaded.
Claim(p, k) ==
    /\ Installed(p) /\ k \notin keys[p]
    /\ keys' = [keys EXCEPT ![p] = @ \cup {k}]
    /\ dropped' = [dropped EXCEPT ![p] = @ \ {k}]
    /\ journal' = [journal EXCEPT ![p] =
           IF @.open THEN [open |-> TRUE, added |-> @.added \cup {k}, dropped |-> @.dropped \ {k}] ELSE @]
    /\ up' = [up EXCEPT ![p][k] = "sent"]
    /\ UNCHANGED <<serverVars, diskVars, lock, loadVars, authoritative,
                   liveGen, live, missed>>

UploadLands(p, k) ==
    /\ up[p][k] = "sent" /\ Add(k)
    /\ up' = [up EXCEPT ![p][k] = "landed"]
    /\ UNCHANGED <<diskVars, lock, loadVars, keysVars, live, missed, dropped>>

\* settle: the answer arrives and the claim stands.
UploadConfirmed(p, k) ==
    /\ up[p][k] = "landed" /\ up' = [up EXCEPT ![p][k] = "none"]
    /\ UNCHANGED <<serverVars, diskVars, lock, loadVars, keysVars, live,
                   missed, dropped>>

\* Variant of UploadFails: the claim of an upload that failed is kept.
UploadFailsKeepsClaim(p, k) ==
    /\ up[p][k] # "none" /\ up' = [up EXCEPT ![p][k] = "none"]
    /\ UNCHANGED <<serverVars, diskVars, lock, loadVars, keysVars, live,
                   missed, dropped>>

\* failUpload, dropUpload: the claim is removed, whether the object arrived or not.
UploadFails(p, k) ==
    /\ up[p][k] # "none" /\ up' = [up EXCEPT ![p][k] = "none"]
    /\ DropKey(p, k)
    /\ UNCHANGED <<serverVars, diskVars, lock, loadVars, authoritative,
                   liveGen, live, missed>>

\* A lookup of a known key, or of any key while the set proves nothing, asks
\* the server, which does not have it.
AskAbsent(p, k) ==
    /\ Installed(p) /\ k \notin stored /\ (authoritative[p] => k \in keys[p])
    /\ missed' = [missed EXCEPT ![p] = @ \cup {k}]
    /\ UNCHANGED <<serverVars, diskVars, lock, loadVars, keysVars, live, up,
                   dropped>>

\* reclaimAbsent: the answer arrives.
ReclaimAbsent(p, k) ==
    /\ k \in missed[p] /\ missed' = [missed EXCEPT ![p] = @ \ {k}]
    /\ DropKey(p, k)
    /\ UNCHANGED <<serverVars, diskVars, lock, loadVars, authoritative,
                   liveGen, live, up>>

\* refreshLiveDelta: a lookup that misses a complete set with a position asks
\* for what was stored since; an ended epoch ends the live updates.
AskLive(p) ==
    /\ Installed(p) /\ liveGen[p] # NoGen /\ ~journal[p].open
    /\ authoritative[p] /\ ~live[p].on
    /\ \/ /\ liveGen[p].epoch = epoch
          /\ live' = [live EXCEPT ![p] = [on |-> TRUE, keys |-> Since(liveGen[p].seq), gen |-> Here]]
          /\ UNCHANGED liveGen
       \/ /\ liveGen[p].epoch # epoch
          /\ liveGen' = [liveGen EXCEPT ![p] = NoGen] /\ UNCHANGED live
    /\ UNCHANGED <<serverVars, diskVars, lock, loadVars, keys, authoritative,
                   journal, useVars>>

\* Variant of ApplyLive: the position advances although the keys are not added.
ApplyLiveGenOnly(p) ==
    /\ live[p].on
    /\ liveGen' = [liveGen EXCEPT ![p] = live[p].gen]
    /\ live' = [live EXCEPT ![p] = NoLive]
    /\ UNCHANGED <<serverVars, diskVars, lock, loadVars, keys, authoritative,
                   journal, useVars>>

ApplyLive(p) ==
    /\ live[p].on
    /\ keys' = [keys EXCEPT ![p] = @ \cup live[p].keys]
    /\ dropped' = [dropped EXCEPT ![p] = @ \ live[p].keys]
    /\ liveGen' = [liveGen EXCEPT ![p] = live[p].gen]
    /\ live' = [live EXCEPT ![p] = NoLive]
    /\ UNCHANGED <<serverVars, diskVars, lock, loadVars, authoritative,
                   journal, up, missed>>

\* The process ends, by Close or by a crash, and the system releases its lock.
Exit(p) ==
    /\ pc[p] # "gone" /\ End(p, "gone") /\ Unlock(p)
    /\ keys' = [keys EXCEPT ![p] = {}] /\ authoritative' = [authoritative EXCEPT ![p] = FALSE]
    /\ journal' = [journal EXCEPT ![p] = Closed] /\ liveGen' = [liveGen EXCEPT ![p] = NoGen]
    /\ live' = [live EXCEPT ![p] = NoLive] /\ up' = [up EXCEPT ![p] = Idle]
    /\ missed' = [missed EXCEPT ![p] = {}] /\ dropped' = [dropped EXCEPT ![p] = {}]
    /\ changed' = [changed EXCEPT ![p] = FALSE]
    /\ UNCHANGED <<serverVars, copy, copyGen>>

LoadStep(p) ==
    \/ StatCopy(p) \/ ReadCopy(p) \/ StartIndexLoad(p)
    \/ AskDelta(p) \/ DeltaFails(p) \/ ApplyDelta(p)
    \/ TouchCopy(p) \/ WriteIndexBlob(p) \/ WriteIndexGen(p)
    \/ LockCopy(p) \/ ReadAgain(p) \/ TakeRefreshed(p)
    \/ AskIndex(p) \/ FetchFails(p) \/ AdoptIndex(p)

UseStep(p) ==
    \/ AskLive(p) \/ ApplyLive(p)
    \/ \E k \in Used :
         \/ Claim(p, k) \/ UploadLands(p, k) \/ UploadConfirmed(p, k)
         \/ UploadFails(p, k) \/ AskAbsent(p, k) \/ ReclaimAbsent(p, k)

Next ==
    \/ \E k \in Key : ServerStore(k) \/ ServerRemove(k)
    \/ \E p \in Proc : LoadStep(p) \/ Exit(p)
    \/ \E p \in Builder : UseStep(p)

Spec == Init /\ [][Next]_vars

----------------------------------------------------------------------------
(* Properties.                                                             *)

TypeOK ==
    /\ stored \subseteq Key /\ ever \subseteq Key /\ epoch \in 0..MaxEpoch
    /\ log \in Seq(Key)
    /\ copy \in [has : BOOLEAN, keys : SUBSET Key]
    /\ copyGen \in [gen : Gen, etag : SUBSET Key]
    /\ changed \in [Proc -> BOOLEAN] /\ lock \in Proc \cup {NoProc}
    /\ pc \in [Proc -> {"stat", "read", "gen", "delta", "apply", "touch", "blob",
                        "wgen", "lock", "read2", "gen2", "fetch", "adopt", "done", "gone"}]
    /\ disk \in [Proc -> [has : BOOLEAN, keys : SUBSET Key, gen : Gen]]
    /\ reply \in [Proc -> [keys : SUBSET Key, gen : Gen]]
    /\ res \in [Proc -> [got : {"nil", "same", "new"}, auth : BOOLEAN]]
    /\ after \in [Proc -> {"done", "adopt"}]
    /\ keys \in [Proc -> SUBSET Key] /\ authoritative \in [Proc -> BOOLEAN]
    /\ journal \in [Proc -> [open : BOOLEAN, added : SUBSET Key, dropped : SUBSET Key]]
    /\ liveGen \in [Proc -> Gen]
    /\ live \in [Proc -> [on : BOOLEAN, keys : SUBSET Key, gen : Gen]]
    /\ up \in [Proc -> [Key -> {"none", "sent", "landed"}]]
    /\ missed \in [Proc -> SUBSET Key] /\ dropped \in [Proc -> SUBSET Key]

\* No claim and no drop is lost to a load or a delta that was asked for before
\* it (adoptIndex replays the journal, applyDelta): a key whose upload is under
\* way stays claimed, unless an answer that it was absent dropped it, so Put
\* does not upload it twice; a dropped key comes back only with a claim or a
\* delta that names it.
ChangesSurvive ==
    \A p \in Proc :
        /\ \A k \in Key : up[p][k] # "none" => k \in keys[p] \cup dropped[p]
        /\ keys[p] \cap dropped[p] = {}

\* A key in the live set, or in the copy on disk, has been on the server,
\* except for this process's own claims: Put skips no object that nobody
\* uploaded, and a claim never reaches the disk (mergeIndexBlob, writeIndexBlob).
NoPhantomKey ==
    /\ copy.keys \subseteq ever
    /\ \A p \in Proc : keys[p] \subseteq ever \cup {k \in Key : up[p][k] # "none"}

\* What a position in the epoch promises of a set of keys: the keys and the
\* log since are what the server has.
Fits(K, gen) ==
    gen.epoch = epoch => gen.seq <= Len(log) /\ K \cup Since(gen.seq) = stored

\* The two files of the copy are written one after the other by processes
\* that may hold no common lock (persistDelta takes none): a position that
\* readIndexGen accepts is a position of the copy beside it.
PositionFitsCopy == copy.has => Fits(copy.keys, ReadIndexGen(copy.keys))

\* A complete set with a position misses nothing it will not be told of: a key
\* on the server is in the set, was dropped by this process, or comes with
\* the next live delta (refreshLiveDelta).
LiveSetComplete ==
    \A p \in Proc :
        authoritative[p] /\ ~journal[p].open /\ liveGen[p].epoch = epoch =>
            stored \subseteq keys[p] \cup dropped[p] \cup Since(liveGen[p].seq)
=============================================================================
