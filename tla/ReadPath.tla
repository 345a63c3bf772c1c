------------------------------ MODULE ReadPath ------------------------------
(***************************************************************************)
(* One key under GET, batch GET, DELETE and PUT (handlers.go, batch.go,    *)
(* modindex.go, selfheal.go), with the memos that let a read skip a check  *)
(* (metacache.go, cleanmemo.go, digestmemo.go).  A version is the file an  *)
(* upload renamed into place; a request that opened it keeps reading it    *)
(* after it was replaced or unlinked.  Keys share no state but the budget  *)
(* of the memos, so one cacheprog key is enough.                           *)
(*                                                                         *)
(* The user metadata of a version is one extended attribute, read at once: *)
(* the digest recorded with the bytes, and the outputid.  Digests and      *)
(* outputids stand for the bytes they hash.  Two versions differ in inode  *)
(* and in mtime, which is what the memos compare.                          *)
(***************************************************************************)
EXTENDS Integers, FiniteSets

CONSTANTS
    GetReader,    \* concurrent GETs or DELETEs of the key
    BatchReader,  \* concurrent batch requests that name the key
    Putter,       \* concurrent uploads
    Body,         \* what a client uploads
    Frame,        \* the bodies that decompress
    Index,        \* a Go module index, from before the guard
    None,         \* no digest, no outputid
    MaxVersions   \* bound: files written

ASSUME ReadAssumption ==
    /\ Frame \subseteq Body /\ Index \notin Body /\ None \notin Body \cup {Index}
    /\ MaxVersions \in Nat \ {0} /\ GetReader \cap BatchReader = {}
    /\ (Body \cup {Index, None}) \cap 1..MaxVersions = {}

VARIABLES
    deny,        \* write_once denies (notification content_differs), or allows
    version,     \* every file, by inode
    uploads,     \* how many were written
    path,        \* the one at the key's path, 0 if there is none
    advertised,  \* the key is in the index
    metaCache,   \* cached metadata, and the version it was recorded for
    cleanKeys,   \* the key passed the module-index probe
    digestOK,    \* the version that matched its digest, or 0
    req, put     \* requests in progress

memos == <<metaCache, cleanKeys, digestOK>>
vars == <<deny, version, uploads, path, advertised, metaCache, cleanKeys, digestOK, req, put>>

Reader == GetReader \cup BatchReader
Inode == 1..MaxVersions

\* The bytes version i has once its file is damaged on disk.
Rotten(i) == i

NoAttrs == [sum |-> None, outputid |-> None]
NoEntry == [id |-> 0, attrs |-> NoAttrs]
NoFile == [was |-> None, bytes |-> None, attrs |-> NoAttrs]

\* A file of body b as PutStream leaves it, or one from before digests.
File(b, sum, named) ==
    [was |-> b, bytes |-> b,
     attrs |-> [sum |-> IF sum THEN b ELSE None, outputid |-> IF named THEN b ELSE None]]

Idle == [pc |-> "idle", kind |-> "get", first |-> 0, fd |-> 0,
         attrs |-> NoAttrs, peeked |-> TRUE]
NoPut == [pc |-> "idle", new |-> 0]

Init ==
    /\ \E b \in Body \cup {Index}, sum \in BOOLEAN, named \in BOOLEAN :
          /\ b = Index => named
          /\ version = [i \in Inode |-> IF i = 1 THEN File(b, sum, named) ELSE NoFile]
    /\ deny \in BOOLEAN /\ uploads = 1 /\ path = 1 /\ advertised = TRUE
    /\ metaCache = NoEntry /\ cleanKeys = FALSE /\ digestOK = 0
    /\ req = [r \in Reader |-> Idle] /\ put = [p \in Putter |-> NoPut]

----------------------------------------------------------------------------
(* The steps of a read.                                                    *)

Goes(r, l) == req' = [req EXCEPT ![r].pc = l]
Done(r) == req' = [req EXCEPT ![r] = Idle]

\* The read refuses what it found and calls Storage.Delete.
Evicts(r) == req' = [req EXCEPT ![r] = [Idle EXCEPT !.pc = "evict", !.kind = req[r].kind,
                                                    !.first = req[r].first]]

\* The metadata is known; a batch entry keeps no file open.
Loaded(r, attrs) ==
    req' = [req EXCEPT ![r].attrs = attrs, ![r].pc = "guard",
                       ![r].fd = IF req[r].kind = "get" THEN @ ELSE 0]

\* Storage.Open of a GET, the os.Stat of a batch entry. A missing file is 404.
Open(r, kind) ==
    /\ req[r].pc = "idle" /\ path # 0
    /\ req' = [req EXCEPT ![r] = [Idle EXCEPT !.pc = "meta", !.kind = kind,
                                              !.first = path, !.fd = path]]
    /\ UNCHANGED <<version, uploads, path, advertised, memos, put>>

\* The attributes at the path, which may be those of a later version by now.
AttrsAtPath == IF path = 0 THEN NoAttrs ELSE version[path].attrs

\* Variant of LoadMetadata: any cached entry of the key is used.
LoadAnyMetadata(r) ==
    /\ req[r].pc = "meta"
    /\ \/ /\ metaCache.id # 0
          /\ Loaded(r, metaCache.attrs)
       \/ /\ metaCache.id = 0
          /\ req' = [req EXCEPT ![r].attrs = AttrsAtPath, ![r].pc = "fill"]
    /\ UNCHANGED <<version, uploads, path, advertised, memos, put>>

\* loadMetadata: an entry recorded for this version, or the attributes by path.
LoadMetadata(r) ==
    /\ req[r].pc = "meta"
    /\ \/ /\ metaCache.id = req[r].fd
          /\ Loaded(r, metaCache.attrs)
       \/ /\ metaCache.id # req[r].fd
          /\ req' = [req EXCEPT ![r].attrs = AttrsAtPath, ![r].pc = "fill"]
    /\ UNCHANGED <<version, uploads, path, advertised, memos, put>>

\* loadMetadata's metaCache.Put.
FillMetadata(r) ==
    /\ req[r].pc = "fill"
    /\ metaCache' = [id |-> req[r].fd, attrs |-> req[r].attrs]
    /\ Loaded(r, req[r].attrs)
    /\ UNCHANGED <<version, uploads, path, advertised, cleanKeys, digestOK, put>>

\* The check and the self-heal come in this order for a GET, and the other way
\* round for a batch entry, whose body is opened in between.
\* An outputid makes the self-heal a no-op.
AfterGuard(r) ==
    IF req[r].kind = "get" THEN "verify"
    ELSE IF req[r].attrs.outputid = None THEN "heal" ELSE "body"
AfterVerify(r) ==
    IF req[r].kind = "get" /\ req[r].attrs.outputid = None THEN "heal" ELSE "serve"
AfterHeal(r) == IF req[r].kind = "get" THEN "serve" ELSE "body"

\* evictModuleIndexOnRead, over the open file. A file it cannot read is a miss.
GuardGet(r) ==
    /\ req[r].pc = "guard" /\ req[r].kind = "get"
    /\ \/ cleanKeys /\ Goes(r, AfterGuard(r)) /\ UNCHANGED cleanKeys
       \/ /\ ~cleanKeys /\ version[req[r].fd].bytes = Index
          /\ Evicts(r) /\ UNCHANGED cleanKeys
       \/ /\ ~cleanKeys /\ version[req[r].fd].bytes # Index
          /\ Goes(r, AfterGuard(r)) /\ cleanKeys' = TRUE
       \/ ~cleanKeys /\ Done(r) /\ UNCHANGED cleanKeys
    /\ UNCHANGED <<version, uploads, path, advertised, metaCache, digestOK, put>>

\* Variant of GuardBatch: a file it cannot read is remembered as clean.
GuardBatchMarks(r) ==
    /\ req[r].pc = "guard" /\ req[r].kind = "batch"
    /\ \/ /\ cleanKeys \/ path = 0
          /\ Goes(r, AfterGuard(r)) /\ UNCHANGED cleanKeys
       \/ /\ ~cleanKeys /\ path # 0 /\ version[path].bytes = Index
          /\ Evicts(r) /\ UNCHANGED cleanKeys
       \/ /\ ~cleanKeys /\ path # 0
          /\ Goes(r, AfterGuard(r)) /\ cleanKeys' = TRUE
    /\ UNCHANGED <<version, uploads, path, advertised, metaCache, digestOK, put>>

\* evictModuleIndexOnReadByKey, over whatever is at the path. A file it cannot
\* open or read counts as no index.
GuardBatch(r) ==
    /\ req[r].pc = "guard" /\ req[r].kind = "batch"
    /\ \/ /\ cleanKeys \/ path = 0
          /\ Goes(r, AfterGuard(r)) /\ UNCHANGED cleanKeys
       \/ /\ ~cleanKeys /\ path # 0 /\ version[path].bytes = Index
          /\ Evicts(r) /\ UNCHANGED cleanKeys
       \/ /\ ~cleanKeys /\ path # 0 /\ version[path].bytes # Index
          /\ Goes(r, AfterGuard(r)) /\ cleanKeys' = TRUE
       \/ /\ ~cleanKeys /\ path # 0
          /\ req' = [req EXCEPT ![r].pc = AfterGuard(r), ![r].peeked = FALSE]
          /\ UNCHANGED cleanKeys
    /\ UNCHANGED <<version, uploads, path, advertised, metaCache, digestOK, put>>

\* OpenBody of a batch entry.
OpenBody(r) ==
    /\ req[r].pc = "body"
    /\ \/ path = 0 /\ Done(r)
       \/ path # 0 /\ req' = [req EXCEPT ![r].fd = path, ![r].pc = "verify"]
    /\ UNCHANGED <<version, uploads, path, advertised, memos, put>>

\* The digest memo applies to a read that carries an outputid.
Memo(r) == req[r].attrs.outputid # None
Known(r) == Memo(r) /\ digestOK = req[r].fd
Matches(r) == req[r].attrs.sum \in {None, version[req[r].fd].bytes}

\* verifyStoredDigestFor: the recorded digest against the bytes, unless this
\* version is known to match. A file that cannot be read is a miss.
Verify(r) ==
    /\ req[r].pc = "verify"
    /\ \/ Known(r) /\ Goes(r, AfterVerify(r)) /\ UNCHANGED digestOK
       \/ /\ ~Known(r) /\ Matches(r)
          /\ digestOK' = IF Memo(r) THEN req[r].fd ELSE digestOK
          /\ Goes(r, AfterVerify(r))
       \/ ~Known(r) /\ ~Matches(r) /\ Evicts(r) /\ UNCHANGED digestOK
       \/ ~Known(r) /\ req[r].attrs.sum # None /\ Done(r) /\ UNCHANGED digestOK
    /\ UNCHANGED <<version, uploads, path, advertised, metaCache, cleanKeys, put>>

\* What the self-heal reads: the open file of a GET, the path of a batch entry.
HealTarget(r) == IF req[r].kind = "get" THEN req[r].fd ELSE path

\* Variant of Mintable: the recorded digest is not consulted.
MintableUnchecked(v) == version[v].bytes \notin Body \ Frame

\* The bytes match the digest beside them, and they decompress.
Mintable(v) ==
    /\ version[v].attrs.sum \in {None, version[v].bytes}
    /\ version[v].bytes \notin Body \ Frame

\* Variant of EnsureOutputID: the outputid is written by path.
EnsureOutputIDByPath(r) ==
    LET v == HealTarget(r) IN
    /\ req[r].pc = "heal"
    /\ \/ /\ v # 0 /\ path # 0 /\ Mintable(v)
          /\ version' = [version EXCEPT ![path].attrs.outputid = version[v].bytes]
          /\ metaCache' = NoEntry
          /\ req' = [req EXCEPT ![r].attrs.outputid = version[v].bytes, ![r].pc = AfterHeal(r)]
          /\ UNCHANGED advertised
       \/ /\ advertised' = FALSE
          /\ Done(r) /\ UNCHANGED <<version, metaCache>>
    /\ UNCHANGED <<uploads, path, cleanKeys, digestOK, put>>

\* ensureOutputID. Any failure, a read error included, de-advertises the key.
EnsureOutputID(r) ==
    LET v == HealTarget(r) IN
    /\ req[r].pc = "heal"
    /\ \/ /\ v # 0 /\ Mintable(v)
          /\ version' = [version EXCEPT ![v].attrs.outputid = version[v].bytes]
          /\ metaCache' = NoEntry
          /\ req' = [req EXCEPT ![r].attrs.outputid = version[v].bytes, ![r].pc = AfterHeal(r)]
          /\ UNCHANGED advertised
       \/ /\ advertised' = FALSE
          /\ Done(r) /\ UNCHANGED <<version, metaCache>>
    /\ UNCHANGED <<uploads, path, cleanKeys, digestOK, put>>

\* The headers and the body go out.
Serve(r) ==
    /\ req[r].pc = "serve"
    /\ Done(r)
    /\ UNCHANGED <<version, uploads, path, advertised, memos, put>>

\* handleDeleteObject.
DeleteObject(r) ==
    /\ req[r].pc = "idle"
    /\ req' = [req EXCEPT ![r].pc = "evict", ![r].kind = "delete"]
    /\ UNCHANGED <<version, uploads, path, advertised, memos, put>>

\* Storage.Delete unlinks whatever is at the path; if it finds nothing, or fails,
\* that is all.
Unlink(r) ==
    /\ req[r].pc = "evict"
    /\ \/ path' = path /\ Done(r)
       \/ /\ path # 0 /\ path' = 0
          /\ req' = [req EXCEPT ![r] = [Idle EXCEPT !.pc = "forget"]]
    /\ UNCHANGED <<version, uploads, advertised, memos, put>>

\* forgetMeta and forgetClean. No step consults two memos, so they count as one.
ForgetKey == metaCache' = NoEntry /\ cleanKeys' = FALSE /\ digestOK' = 0

\* The rest of Storage.Delete.
ForgetDeleted(r) ==
    /\ req[r].pc = "forget"
    /\ advertised' = FALSE /\ ForgetKey
    /\ Done(r)
    /\ UNCHANGED <<version, uploads, path, put>>

----------------------------------------------------------------------------
(* storeOneObject and PutStream. An upload that is a module index is        *)
(* refused and changes nothing, so Body holds none.                         *)

WriteTemp(p, b, named) ==
    /\ put[p].pc = "idle" /\ uploads < MaxVersions
    /\ uploads' = uploads + 1
    /\ version' = [version EXCEPT ![uploads + 1] = File(b, TRUE, named)]
    /\ put' = [put EXCEPT ![p] = [pc |-> "check", new |-> uploads + 1]]
    /\ UNCHANGED <<path, advertised, memos, req>>

\* write_once: equal contents answer "stored", others are a conflict; neither is
\* stored or advertised. A file of the same object under a content stamp is
\* replaced (replacesContentStamp).
CheckWriteOnce(p) ==
    /\ put[p].pc = "check"
    /\ \/ /\ deny /\ path # 0 => version[path].bytes # version[put[p].new].bytes
          /\ put' = [put EXCEPT ![p].pc = "rename"]
       \/ /\ deny /\ path # 0
          /\ put' = [put EXCEPT ![p] = NoPut]
    /\ UNCHANGED <<version, uploads, path, advertised, memos, req>>

\* A write, a compare, the attributes or the rename fail: the temp file goes.
FailPut(p) ==
    /\ put[p].pc \in {"check", "rename"}
    /\ put' = [put EXCEPT ![p] = NoPut]
    /\ UNCHANGED <<version, uploads, path, advertised, memos, req>>

Rename(p) ==
    /\ put[p].pc = "rename"
    /\ path' = put[p].new
    /\ put' = [put EXCEPT ![p].pc = "forget"]
    /\ UNCHANGED <<version, uploads, advertised, memos, req>>

ForgetReplaced(p) ==
    /\ put[p].pc = "forget"
    /\ ForgetKey
    /\ put' = [put EXCEPT ![p].pc = "index"]
    /\ UNCHANGED <<version, uploads, path, advertised, req>>

Advertise(p) ==
    /\ put[p].pc = "index"
    /\ advertised' = TRUE
    /\ put' = [put EXCEPT ![p] = NoPut]
    /\ UNCHANGED <<version, uploads, path, memos, req>>

----------------------------------------------------------------------------
\* A stored file is damaged on disk; at most one is.
Rot ==
    /\ path # 0 /\ \A i \in Inode : version[i].bytes # Rotten(i)
    /\ version' = [version EXCEPT ![path].bytes = Rotten(path)]
    /\ UNCHANGED <<uploads, path, advertised, memos, req, put>>

\* The budget of a memo runs out and its LRU drops the key's entry.
Drop ==
    /\ \/ metaCache # NoEntry /\ metaCache' = NoEntry /\ UNCHANGED <<cleanKeys, digestOK>>
       \/ cleanKeys /\ cleanKeys' = FALSE /\ UNCHANGED <<metaCache, digestOK>>
       \/ digestOK # 0 /\ digestOK' = 0 /\ UNCHANGED <<metaCache, cleanKeys>>
    /\ UNCHANGED <<version, uploads, path, advertised, req, put>>

\* The process ends and another starts.
Restart ==
    /\ advertised' = (path # 0) /\ ForgetKey
    /\ req' = [r \in Reader |-> Idle] /\ put' = [p \in Putter |-> NoPut]
    /\ UNCHANGED <<version, uploads, path>>

ReadStep(r) ==
    \/ r \in GetReader /\ Open(r, "get")
    \/ r \in BatchReader /\ Open(r, "batch")
    \/ LoadMetadata(r) \/ FillMetadata(r) \/ GuardGet(r) \/ GuardBatch(r)
    \/ OpenBody(r) \/ Verify(r) \/ EnsureOutputID(r) \/ Serve(r)
    \/ r \in GetReader /\ DeleteObject(r)
    \/ Unlink(r) \/ ForgetDeleted(r)

PutStep(p) ==
    \/ \E b \in Body, named \in BOOLEAN : WriteTemp(p, b, named)
    \/ CheckWriteOnce(p) \/ FailPut(p) \/ Rename(p) \/ ForgetReplaced(p) \/ Advertise(p)

Next ==
    /\ \/ \E r \in Reader : ReadStep(r)
       \/ \E p \in Putter : PutStep(p)
       \/ Rot \/ Drop \/ Restart
    /\ UNCHANGED deny

Spec == Init /\ [][Next]_vars

----------------------------------------------------------------------------
Content == Body \cup {Index, None} \cup Inode
Attrs == [sum : Content, outputid : Content]
Step == {"idle", "meta", "fill", "guard", "verify", "heal", "body", "serve",
         "evict", "forget"}
Request ==
    [pc : Step, kind : {"get", "batch", "delete"}, first : 0..MaxVersions, fd : 0..MaxVersions,
     attrs : Attrs, peeked : BOOLEAN]

TypeOK ==
    /\ deny \in BOOLEAN
    /\ version \in [Inode -> [was : Content, bytes : Content, attrs : Attrs]]
    /\ uploads \in Inode /\ path \in 0..uploads /\ advertised \in BOOLEAN
    /\ metaCache \in [id : 0..MaxVersions, attrs : Attrs]
    /\ cleanKeys \in BOOLEAN /\ digestOK \in 0..MaxVersions
    /\ req \in [Reader -> Request]
    /\ \A r \in Reader : req[r].pc \in {"meta", "fill", "verify", "serve"} => req[r].fd # 0
    /\ put \in [Putter -> [pc : {"idle", "check", "rename", "forget", "index"},
                           new : 0..uploads]]

\* A file the server did not damage: its bytes are what was uploaded, and that
\* was no module index.
Sound(i) == version[i].bytes = version[i].was /\ version[i].was # Index

Serving == {r \in Reader : req[r].pc = "serve"}

\* A module index at the key's path is never sent, by a GET or in a batch,
\* whatever the clean memo learnt about other versions; only a batch that could
\* not read the file to inspect it lets one through.
IndexAtPathRefused ==
    \A r \in Serving : req[r].fd = path /\ version[path].bytes = Index
        => req[r].kind = "batch" /\ ~req[r].peeked

\* A read that evicts for a bad body (a module index, a digest that does not
\* match) takes a sound version with it only if that is not the version the read
\* found, but one stored since: metadata cached for one version never condemns
\* another.
EvictsWhatItRead ==
    [][\A r \in Reader : Unlink(r) /\ req[r].kind # "delete" /\ path' # path /\ Sound(path)
         => path # req[r].first]_vars

\* The outputid beside a recorded digest is that of the uploaded bytes: the
\* self-heal mints none from a body that rotted, whichever version it met.
StampsAreTrue ==
    \A i \in Inode : version[i].attrs.sum # None =>
        version[i].attrs.outputid \in {None, version[i].was}

\* A body that rotted although a digest was recorded with it may still be sent
\* from the memo, but only with an outputid it does not hash to, so "rot after
\* the first check still never reaches a build" (verifyStoredDigestFor).
RotIsDetectable ==
    \A r \in Serving : LET i == req[r].fd IN
        version[i].bytes = Rotten(i) /\ version[i].attrs.sum # None
            => req[r].attrs.outputid \notin {None, Rotten(i)}

\* A module index is never sent.
IndexRefused ==
    \A r \in Serving : version[req[r].fd].bytes = Index
        => req[r].kind = "batch" /\ ~req[r].peeked

\* An upload answered "stored" because the same contents are there already finds
\* its key in the index.
StoredIsListed ==
    [][\A p \in Putter : CheckWriteOnce(p) /\ path # 0 /\ deny
          /\ version[path].bytes = version[put[p].new].bytes => advertised]_vars
=============================================================================
