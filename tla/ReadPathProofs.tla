--------------------------- MODULE ReadPathProofs ---------------------------
(***************************************************************************)
(* Proofs that hold for every number of requests, uploads and versions:    *)
(* outputids beside a digest are those of the uploaded bytes, rot is sent  *)
(* only where a client can tell, a module index at the path is refused,    *)
(* and a read evicts what it found only if that is bad.                    *)
(***************************************************************************)
EXTENDS ReadPath, TLAPS

\* What a stored file keeps true of itself. Only the first is a module index.
Files ==
    \A i \in Inode :
        /\ version[i].was \in Body \cup {Index, None}
        /\ version[i].bytes \in {version[i].was, i}
        /\ version[i].attrs.sum \in {None, version[i].was}
        /\ version[i].was = Index => i = 1
        /\ i <= uploads => version[i].was # None

\* An outputid minted from a damaged body is that of a file with no digest.
Minted(x) == x \in Inode => x <= uploads /\ version[x].attrs.sum = None

\* Every copy of an outputid, on disk, in the memo or in a request.
Copies ==
    /\ \A i \in Inode : Minted(version[i].attrs.outputid)
    /\ Minted(metaCache.attrs.outputid)
    /\ \A r \in Reader : Minted(req[r].attrs.outputid)

\* What a request holds at each of its steps.
Progress ==
    /\ \A r \in Reader :
        /\ req[r].fd <= uploads
        /\ req[r].kind = "get" /\ req[r].pc \in {"guard", "heal"} => req[r].fd # 0
        /\ req[r].pc = "serve" \/ req[r].pc = "body"
             \/ (req[r].pc = "verify" /\ req[r].kind # "get")
             => req[r].attrs.outputid # None
    /\ \A p \in Putter : put[p].pc # "idle" => put[p].new > 1

\* While a module index is at the path no request has judged the key clean.
Guarded ==
    /\ path = 1 => \A r \in Reader : req[r].fd <= 1
    /\ path = 1 /\ version[1].bytes = Index =>
        /\ ~cleanKeys
        /\ \A r \in Reader : req[r].pc \in {"verify", "heal", "body", "serve"}
             => req[r].kind = "batch" /\ ~req[r].peeked

IInv == TypeOK /\ StampsAreTrue /\ Files /\ Copies /\ Progress /\ Guarded

\* TypeOK in two parts.
Flags == deny \in BOOLEAN /\ advertised \in BOOLEAN /\ cleanKeys \in BOOLEAN
Shapes ==
    /\ version \in [Inode -> [was : Content, bytes : Content, attrs : Attrs]]
    /\ uploads \in Inode /\ path \in 0..uploads
    /\ metaCache \in [id : 0..MaxVersions, attrs : Attrs] /\ digestOK \in 0..MaxVersions
    /\ req \in [Reader -> Request]
    /\ \A r \in Reader : req[r].pc \in {"meta", "fill", "verify", "serve"} => req[r].fd # 0
    /\ put \in [Putter -> [pc : {"idle", "check", "rename", "forget", "index"},
                           new : 0..uploads]]

\* Request r, and no other, is now at step pc with these contents.
Moved(r, pc, kind, fd, attrs, peeked) ==
    /\ req' \in [Reader -> Request]
    /\ \A q \in Reader \ {r} : req'[q] = req[q]
    /\ req'[r].pc = pc /\ req'[r].kind = kind /\ req'[r].fd = fd
    /\ req'[r].attrs = attrs /\ req'[r].peeked = peeked

\* The two parts make up the type invariant.
LEMMA TypeParts == TypeOK <=> Flags /\ Shapes
    BY DEF TypeOK, Flags, Shapes

\* The empty values have their types.
LEMMA Empties ==
    /\ NoAttrs \in Attrs /\ NoAttrs.outputid = None /\ NoAttrs.sum = None
    /\ NoEntry \in [id : 0..MaxVersions, attrs : Attrs] /\ NoEntry.attrs = NoAttrs
    /\ Idle \in Request
    BY ReadAssumption DEF NoAttrs, Attrs, Content, NoEntry, Idle, Request, Step

\* What the updates of a request do to it.
LEMMA Updates ==
    ASSUME req \in [Reader -> Request], NEW r \in Reader
    PROVE  /\ \A l \in Step : Goes(r, l) =>
                Moved(r, l, req[r].kind, req[r].fd, req[r].attrs, req[r].peeked)
           /\ Done(r) => Moved(r, "idle", "get", 0, NoAttrs, TRUE)
           /\ Evicts(r) => Moved(r, "evict", req[r].kind, 0, NoAttrs, TRUE)
           /\ \A a \in Attrs : Loaded(r, a) =>
                Moved(r, "guard", req[r].kind, IF req[r].kind = "get" THEN req[r].fd ELSE 0,
                      a, req[r].peeked)
<1>0. 0 \in 0..MaxVersions
    BY ReadAssumption
<1> USE Empties DEF Request
<1>1. ASSUME NEW l \in Step, Goes(r, l)
      PROVE  Moved(r, l, req[r].kind, req[r].fd, req[r].attrs, req[r].peeked)
    BY <1>1 DEF Goes, Moved
<1>2. ASSUME Done(r)
      PROVE  Moved(r, "idle", "get", 0, NoAttrs, TRUE)
    BY <1>2 DEF Done, Moved, Idle
<1>3. ASSUME Evicts(r)
      PROVE  Moved(r, "evict", req[r].kind, 0, NoAttrs, TRUE)
    BY <1>3, <1>0, ZenonT(30) DEF Evicts, Moved, Idle, Step
<1>4. ASSUME NEW a \in Attrs, Loaded(r, a)
      PROVE  Moved(r, "guard", req[r].kind,
                   IF req[r].kind = "get" THEN req[r].fd ELSE 0, a, req[r].peeked)
    <2> DEFINE f == IF req[r].kind = "get" THEN req[r].fd ELSE 0
    <2>1. f \in 0..MaxVersions /\ "guard" \in Step
        BY <1>0 DEF Step
    <2>2. req' = [req EXCEPT ![r].attrs = a, ![r].pc = "guard", ![r].fd = f]
        BY <1>4 DEF Loaded
    <2> HIDE DEF f
    <2>3. Moved(r, "guard", req[r].kind, f, a, req[r].peeked)
        BY <2>1, <2>2, ZenonT(30) DEF Moved
    <2> QED
        BY <2>3 DEF f
<1> QED
    BY <1>1, <1>2, <1>3, <1>4, ZenonT(30)

\* Replacing a request whole.
LEMMA Replaces ==
    ASSUME req \in [Reader -> Request], NEW r \in Reader, NEW q \in Request,
           req' = [req EXCEPT ![r] = q]
    PROVE  Moved(r, q.pc, q.kind, q.fd, q.attrs, q.peeked)
    BY DEF Moved, Request

\* Copies survives a step that changes no recorded digest and copies outputids.
LEMMA CopiesKept ==
    ASSUME uploads \in Nat, uploads' \in Nat, uploads <= uploads', Inode \subseteq Nat,
           \A x \in Inode : x <= uploads => version'[x].attrs.sum = version[x].attrs.sum,
           \A i \in Inode : Minted(version'[i].attrs.outputid),
           Minted(metaCache'.attrs.outputid),
           \A q \in Reader : Minted(req'[q].attrs.outputid)
    PROVE  Copies'
<1>1. ASSUME NEW x, Minted(x)
      PROVE  x \in Inode => x <= uploads' /\ version'[x].attrs.sum = None
    <2>1. SUFFICES ASSUME x \in Inode
                   PROVE  x <= uploads' /\ version'[x].attrs.sum = None
        OBVIOUS
    <2>2. x \in Nat /\ x <= uploads /\ version[x].attrs.sum = None
        BY <1>1, <2>1, ZenonT(30) DEF Minted
    <2>3. x <= uploads'
        BY <2>2
    <2> QED
        BY <2>1, <2>2, <2>3
<1> DEFINE N(x) == x \in Inode => x <= uploads' /\ version'[x].attrs.sum = None
<1>2. \A i \in Inode : N(version'[i].attrs.outputid)
    BY <1>1, ZenonT(30)
<1>3. N(metaCache'.attrs.outputid)
    BY <1>1
<1>4. \A q \in Reader : N(req'[q].attrs.outputid)
    BY <1>1
<1> QED
    BY <1>2, <1>3, <1>4 DEF Copies, Minted

\* Copies survives a step of one request that leaves the files alone.
LEMMA CopiesMoved ==
    ASSUME Copies, uploads \in Nat, Inode \subseteq Nat, UNCHANGED <<version, uploads>>,
           NEW r \in Reader, NEW pc, NEW kind, NEW fd, NEW attrs, NEW peeked,
           Moved(r, pc, kind, fd, attrs, peeked),
           Minted(attrs.outputid), Minted(metaCache'.attrs.outputid)
    PROVE  Copies'
<1>1. \A q \in Reader : Minted(req'[q].attrs.outputid)
    BY DEF Copies, Moved
<1>2. \A i \in Inode : Minted(version'[i].attrs.outputid)
    BY DEF Copies
<1>3. uploads' \in Nat /\ uploads <= uploads'
    OBVIOUS
<1> QED
    BY <1>1, <1>2, <1>3, CopiesKept

\* So does Shapes.
LEMMA ShapesMoved ==
    ASSUME Shapes, UNCHANGED <<uploads, put>>, path' \in 0..uploads,
           version' \in [Inode -> [was : Content, bytes : Content, attrs : Attrs]],
           metaCache' \in [id : 0..MaxVersions, attrs : Attrs], digestOK' \in 0..MaxVersions,
           NEW r \in Reader, NEW pc, NEW kind, NEW fd, NEW attrs, NEW peeked,
           Moved(r, pc, kind, fd, attrs, peeked),
           pc \in {"meta", "fill", "verify", "serve"} => fd # 0
    PROVE  Shapes'
    BY ZenonT(30) DEF Shapes, Moved

\* A step of a GET, a batch entry or a DELETE preserves the invariant.
LEMMA ReadStepIInv ==
    ASSUME IInv, NEW r \in Reader, ReadStep(r), UNCHANGED deny
    PROVE  IInv'
<1> USE DEF memos
<1>a. Flags /\ Shapes /\ StampsAreTrue /\ Files /\ Copies /\ Progress /\ Guarded
    BY TypeParts DEF IInv
<1>b. /\ uploads \in Nat /\ path \in Nat /\ path <= uploads /\ 0 \in 0..MaxVersions
      /\ uploads <= MaxVersions /\ path \in 0..MaxVersions /\ None \notin Inode
      /\ \A q \in Reader : req[q] \in Request /\ req[q].fd \in Nat
    BY <1>a, ReadAssumption, SMTT(20) DEF Shapes, Request, Inode
<1>c. AttrsAtPath \in Attrs /\ metaCache.attrs \in Attrs
      /\ Minted(AttrsAtPath.outputid) /\ Minted(metaCache.attrs.outputid)
    BY <1>a, <1>b, Empties, ReadAssumption
    DEF Shapes, AttrsAtPath, Copies, Minted, Inode
<1>d. req \in [Reader -> Request]
    BY <1>a, Zenon DEF Shapes
<1>n. Minted(None) /\ Inode \subseteq Nat /\ \A q \in Reader : Minted(req[q].attrs.outputid)
    BY <1>a, <1>b DEF Minted, Inode, Copies
<1>e. AfterGuard(r) \in Step
    BY DEF AfterGuard, Step
<1> USE <1>a, <1>b
<1>1. CASE Open(r, "get")
    <2>1. Moved(r, "meta", "get", path, NoAttrs, TRUE)
        BY <1>1, Empties, ZenonT(30) DEF Open, Moved, Shapes, Request, Step, Idle, Inode
    <2>2. Shapes'
        BY <1>1, <2>1, ShapesMoved, ZenonT(30) DEF Open, Shapes
    <2>3. Flags'
        BY <1>1, SMTT(20) DEF Open, Flags
    <2>4. StampsAreTrue' /\ Files'
        BY <1>1, SMTT(20) DEF Open, StampsAreTrue, Files
    <2>5. Copies'
        BY <1>1, <2>1, <1>n, CopiesMoved, Empties, ZenonT(30) DEF Open, Copies
    <2>6. Progress'
        BY <1>1, <2>1, SMTT(20) DEF Open, Progress, Moved
    <2>7. Guarded'
        BY <1>1, <2>1, SMTT(20) DEF Open, Guarded, Moved
    <2> QED
        BY <2>2, <2>3, <2>4, <2>5, <2>6, <2>7 DEF IInv, TypeOK, Flags, Shapes
<1>2. CASE Open(r, "batch")
    <2>1. Moved(r, "meta", "batch", path, NoAttrs, TRUE)
        BY <1>2, Empties, ZenonT(30) DEF Open, Moved, Shapes, Request, Step, Idle, Inode
    <2>2. Shapes'
        BY <1>2, <2>1, ShapesMoved, ZenonT(30) DEF Open, Shapes
    <2>3. Flags'
        BY <1>2, SMTT(20) DEF Open, Flags
    <2>4. StampsAreTrue' /\ Files'
        BY <1>2, SMTT(20) DEF Open, StampsAreTrue, Files
    <2>5. Copies'
        BY <1>2, <2>1, <1>n, CopiesMoved, Empties, ZenonT(30) DEF Open, Copies
    <2>6. Progress'
        BY <1>2, <2>1, SMTT(20) DEF Open, Progress, Moved
    <2>7. Guarded'
        BY <1>2, <2>1, SMTT(20) DEF Open, Guarded, Moved
    <2> QED
        BY <2>2, <2>3, <2>4, <2>5, <2>6, <2>7 DEF IInv, TypeOK, Flags, Shapes
<1>3. CASE LoadMetadata(r)
    <2>1. UNCHANGED <<version, uploads, path, metaCache, cleanKeys, digestOK, advertised, put>>
        BY <1>3 DEF LoadMetadata
    <2>2. req[r].pc = "meta"
        BY <1>3 DEF LoadMetadata
    <2>3. Flags' /\ StampsAreTrue' /\ Files'
        BY <1>3, <2>1, SMTT(20) DEF LoadMetadata, Flags, StampsAreTrue, Files
    <2>4. ASSUME Loaded(r, metaCache.attrs)
          PROVE  IInv'
        <3>1. Moved(r, "guard", req[r].kind, IF req[r].kind = "get" THEN req[r].fd ELSE 0,
                metaCache.attrs, req[r].peeked)
            BY <1>3, <2>4, <1>d, <1>c, Updates, ZenonT(30) DEF LoadMetadata
        <3>2. Shapes'
            BY <2>1, <2>2, <3>1, ShapesMoved, SMTT(20) DEF Shapes
        <3>3. Copies'
            BY <2>1, <3>1, <1>n, CopiesMoved, <1>c, SMTT(20) DEF Copies
        <3>4. Progress'
            BY <2>1, <2>2, <2>4, <3>1, SMTT(20) DEF Progress, Moved, Shapes
        <3>5. Guarded'
            BY <2>1, <2>2, <2>4, <3>1, SMTT(20) DEF Guarded, Moved
        <3> QED
            BY <2>3, <3>2, <3>3, <3>4, <3>5 DEF IInv, TypeOK, Flags, Shapes
    <2>5. ASSUME req' = [req EXCEPT ![r].attrs = AttrsAtPath, ![r].pc = "fill"]
          PROVE  IInv'
        <3>1. Moved(r, "fill", req[r].kind, req[r].fd, AttrsAtPath, req[r].peeked)
            BY <1>3, <2>5, <1>d, <1>c, ZenonT(30) DEF Moved, Request, Step
        <3>2. Shapes'
            BY <2>1, <2>2, <3>1, ShapesMoved, SMTT(20) DEF Shapes
        <3>3. Copies'
            BY <2>1, <3>1, <1>n, CopiesMoved, <1>c, ZenonT(30) DEF Copies
        <3>4. Progress'
            BY <2>1, <2>2, <2>5, <3>1, SMTT(20) DEF Progress, Moved
        <3>5. Guarded'
            BY <2>1, <2>2, <2>5, <3>1, SMTT(20) DEF Guarded, Moved
        <3> QED
            BY <2>3, <3>2, <3>3, <3>4, <3>5 DEF IInv, TypeOK, Flags, Shapes
    <2> QED
        BY <1>3, <2>4, <2>5 DEF LoadMetadata
<1>4. CASE FillMetadata(r)
    <2>1. UNCHANGED <<version, uploads, path, cleanKeys, digestOK, advertised, put>>
        BY <1>4 DEF FillMetadata
    <2>2. /\ req[r].pc = "fill"
          /\ metaCache' = [id |-> req[r].fd, attrs |-> req[r].attrs]
        BY <1>4 DEF FillMetadata
    <2>3. Flags' /\ StampsAreTrue' /\ Files'
        BY <1>4, <2>1, SMTT(20) DEF FillMetadata, Flags, StampsAreTrue, Files
    <2>4. ASSUME Loaded(r, req[r].attrs)
          PROVE  IInv'
        <3>1. Moved(r, "guard", req[r].kind, IF req[r].kind = "get" THEN req[r].fd ELSE 0,
                req[r].attrs, req[r].peeked)
            BY <1>4, <2>4, <1>d, Updates, ZenonT(30) DEF Request
        <3>2. Shapes'
            BY <2>1, <2>2, <3>1, ShapesMoved, Zenon DEF Shapes, Request
        <3>3. Copies'
            BY <2>1, <3>1, <1>n, CopiesMoved, <2>2, SMTT(20) DEF Copies
        <3>4. Progress'
            BY <2>1, <2>2, <2>4, <3>1, SMTT(20) DEF Progress, Moved, Shapes
        <3>5. Guarded'
            BY <2>1, <2>2, <2>4, <3>1, SMTT(20) DEF Guarded, Moved
        <3> QED
            BY <2>3, <3>2, <3>3, <3>4, <3>5 DEF IInv, TypeOK, Flags, Shapes
    <2> QED
        BY <1>4, <2>4 DEF FillMetadata
<1>5. CASE GuardGet(r)
    <2>1. UNCHANGED <<version, uploads, path, metaCache, digestOK, advertised, put>>
        BY <1>5 DEF GuardGet
    <2>2. req[r].pc = "guard" /\ req[r].kind = "get"
        BY <1>5 DEF GuardGet
    <2>3. Flags' /\ StampsAreTrue' /\ Files'
        BY <1>5, <2>1, ZenonT(30) DEF GuardGet, Flags, StampsAreTrue, Files
    <2>4. ASSUME Goes(r, AfterGuard(r)), cleanKeys, UNCHANGED cleanKeys
          PROVE  IInv'
        <3>1. Moved(r, "verify", req[r].kind, req[r].fd, req[r].attrs, req[r].peeked)
            BY <1>5, <2>4, <1>d, Updates, <2>2, ZenonT(30) DEF AfterGuard, Step
        <3>2. Shapes'
            BY <2>1, <2>2, <3>1, ShapesMoved, Zenon DEF Shapes, Progress
        <3>3. Copies'
            BY <2>1, <3>1, <1>n, CopiesMoved, Zenon DEF Copies
        <3>4. Progress'
            BY <2>1, <2>2, <2>4, <3>1, ZenonT(30) DEF Progress, Moved
        <3>5. Guarded'
            BY <2>1, <2>2, <2>4, <3>1, SMTT(20) DEF Guarded, Moved
        <3> QED
            BY <2>3, <3>2, <3>3, <3>4, <3>5 DEF IInv, TypeOK, Flags, Shapes
    <2>5. ASSUME Goes(r, AfterGuard(r)), version[req[r].fd].bytes # Index
          PROVE  IInv'
        <3>1. Moved(r, "verify", req[r].kind, req[r].fd, req[r].attrs, req[r].peeked)
            BY <1>5, <2>5, <1>d, Updates, <2>2, ZenonT(30) DEF AfterGuard, Step
        <3>2. Shapes'
            BY <2>1, <2>2, <3>1, ShapesMoved, SMTT(20) DEF Shapes, Progress
        <3>3. Copies'
            BY <2>1, <3>1, <1>n, CopiesMoved, SMTT(20) DEF Copies
        <3>4. Progress'
            BY <2>1, <2>2, <2>5, <3>1, SMTT(20) DEF Progress, Moved
        <3>5. Guarded'
            BY <2>1, <2>2, <2>5, <3>1, SMTT(20) DEF Guarded, Moved, Progress
        <3> QED
            BY <2>3, <3>2, <3>3, <3>4, <3>5 DEF IInv, TypeOK, Flags, Shapes
    <2>6. ASSUME Evicts(r), UNCHANGED cleanKeys
          PROVE  IInv'
        <3>1. Moved(r, "evict", req[r].kind, 0, NoAttrs, TRUE)
            BY <1>5, <2>6, <1>d, Updates, ZenonT(30) DEF Step
        <3>2. Shapes'
            BY <2>1, <2>2, <3>1, ShapesMoved, ZenonT(30) DEF Shapes
        <3>3. Copies'
            BY <2>1, <3>1, <1>n, CopiesMoved, Empties, ZenonT(30) DEF Copies
        <3>4. Progress'
            BY <2>1, <2>2, <2>6, <3>1, SMTT(20) DEF Progress, Moved
        <3>5. Guarded'
            BY <2>1, <2>2, <2>6, <3>1, SMTT(20) DEF Guarded, Moved
        <3> QED
            BY <2>3, <3>2, <3>3, <3>4, <3>5 DEF IInv, TypeOK, Flags, Shapes
    <2>7. ASSUME Done(r), UNCHANGED cleanKeys
          PROVE  IInv'
        <3>1. Moved(r, "idle", "get", 0, NoAttrs, TRUE)
            BY <1>5, <2>7, <1>d, Updates, ZenonT(30) DEF Step
        <3>2. Shapes'
            BY <2>1, <2>2, <3>1, ShapesMoved, ZenonT(30) DEF Shapes
        <3>3. Copies'
            BY <2>1, <3>1, <1>n, CopiesMoved, Empties, ZenonT(30) DEF Copies
        <3>4. Progress'
            BY <2>1, <2>2, <2>7, <3>1, SMTT(20) DEF Progress, Moved
        <3>5. Guarded'
            BY <2>1, <2>2, <2>7, <3>1, SMTT(20) DEF Guarded, Moved
        <3> QED
            BY <2>3, <3>2, <3>3, <3>4, <3>5 DEF IInv, TypeOK, Flags, Shapes
    <2> QED
        BY <1>5, <2>4, <2>5, <2>6, <2>7, Zenon DEF GuardGet
<1>6. CASE GuardBatch(r)
    <2>1. UNCHANGED <<version, uploads, path, metaCache, digestOK, advertised, put>>
        BY <1>6 DEF GuardBatch
    <2>2. req[r].pc = "guard" /\ req[r].kind = "batch"
        BY <1>6 DEF GuardBatch
    <2>3. Flags' /\ StampsAreTrue' /\ Files'
        BY <1>6, <2>1, ZenonT(30) DEF GuardBatch, Flags, StampsAreTrue, Files
    <2>4. ASSUME Goes(r, AfterGuard(r)), cleanKeys \/ path = 0, UNCHANGED cleanKeys
          PROVE  IInv'
        <3>1. Moved(r, AfterGuard(r), req[r].kind, req[r].fd, req[r].attrs, req[r].peeked)
            BY <1>6, <2>4, <1>d, Updates, ZenonT(30) DEF AfterGuard, Step
        <3>2. Shapes'
            BY <2>1, <2>2, <3>1, ShapesMoved, SMTT(20) DEF Shapes, AfterGuard
        <3>3. Copies'
            BY <2>1, <3>1, <1>n, CopiesMoved, ZenonT(30) DEF Copies
        <3>4. Progress'
            BY <2>1, <2>2, <2>4, <3>1, ZenonT(20) DEF Progress, Moved, AfterGuard
        <3>5. Guarded'
            BY <2>1, <2>2, <2>4, <3>1, SMTT(20) DEF Guarded, Moved
        <3> QED
            BY <2>3, <3>2, <3>3, <3>4, <3>5 DEF IInv, TypeOK, Flags, Shapes
    <2>5. ASSUME Goes(r, AfterGuard(r)), path # 0, version[path].bytes # Index
          PROVE  IInv'
        <3>1. Moved(r, AfterGuard(r), req[r].kind, req[r].fd, req[r].attrs, req[r].peeked)
            BY <1>6, <2>5, <1>d, Updates, ZenonT(30) DEF AfterGuard, Step
        <3>2. Shapes'
            BY <2>1, <2>2, <3>1, ShapesMoved, SMTT(20) DEF Shapes, AfterGuard
        <3>3. Copies'
            BY <2>1, <3>1, <1>n, CopiesMoved, ZenonT(30) DEF Copies
        <3>4. Progress'
            BY <2>1, <2>2, <2>5, <3>1, ZenonT(20) DEF Progress, Moved, AfterGuard
        <3>5. Guarded'
            BY <2>1, <2>2, <2>5, <3>1, SMTT(20) DEF Guarded, Moved
        <3> QED
            BY <2>3, <3>2, <3>3, <3>4, <3>5 DEF IInv, TypeOK, Flags, Shapes
    <2>6. ASSUME req' = [req EXCEPT ![r].pc = AfterGuard(r), ![r].peeked = FALSE], UNCHANGED cleanKeys
          PROVE  IInv'
        <3>1. Moved(r, AfterGuard(r), req[r].kind, req[r].fd, req[r].attrs, FALSE)
            BY <1>6, <2>6, <1>d, <1>e, ZenonT(30) DEF Moved, Request
        <3>2. Shapes'
            BY <2>1, <2>2, <3>1, ShapesMoved, ZenonT(30) DEF Shapes, AfterGuard
        <3>3. Copies'
            BY <2>1, <3>1, <1>n, CopiesMoved, ZenonT(30) DEF Copies
        <3>4. Progress'
            BY <2>1, <2>2, <3>1, SMTT(20) DEF Progress, Moved, AfterGuard
        <3>5. Guarded'
            BY <2>1, <2>2, <2>6, <3>1, SMTT(20) DEF Guarded, Moved
        <3> QED
            BY <2>3, <3>2, <3>3, <3>4, <3>5 DEF IInv, TypeOK, Flags, Shapes
    <2>7. ASSUME Evicts(r), UNCHANGED cleanKeys
          PROVE  IInv'
        <3>1. Moved(r, "evict", req[r].kind, 0, NoAttrs, TRUE)
            BY <1>6, <2>7, <1>d, Updates, ZenonT(30) DEF Step
        <3>2. Shapes'
            BY <2>1, <2>2, <3>1, ShapesMoved, ZenonT(30) DEF Shapes
        <3>3. Copies'
            BY <2>1, <3>1, <1>n, CopiesMoved, Empties, ZenonT(30) DEF Copies
        <3>4. Progress'
            BY <2>1, <2>2, <2>7, <3>1, SMTT(20) DEF Progress, Moved
        <3>5. Guarded'
            BY <2>1, <2>2, <2>7, <3>1, SMTT(20) DEF Guarded, Moved
        <3> QED
            BY <2>3, <3>2, <3>3, <3>4, <3>5 DEF IInv, TypeOK, Flags, Shapes
    <2> QED
        BY <1>6, <2>4, <2>5, <2>6, <2>7 DEF GuardBatch
<1>7. CASE OpenBody(r)
    <2>1. UNCHANGED <<version, uploads, path, metaCache, cleanKeys, digestOK, advertised, put>>
        BY <1>7 DEF OpenBody
    <2>2. req[r].pc = "body"
        BY <1>7 DEF OpenBody
    <2>3. Flags' /\ StampsAreTrue' /\ Files'
        BY <1>7, <2>1, SMTT(20) DEF OpenBody, Flags, StampsAreTrue, Files
    <2>4. ASSUME Done(r)
          PROVE  IInv'
        <3>1. Moved(r, "idle", "get", 0, NoAttrs, TRUE)
            BY <1>7, <2>4, <1>d, Updates, ZenonT(30) DEF Step
        <3>2. Shapes'
            BY <2>1, <2>2, <3>1, ShapesMoved, ZenonT(30) DEF Shapes
        <3>3. Copies'
            BY <2>1, <3>1, <1>n, CopiesMoved, Empties, ZenonT(30) DEF Copies
        <3>4. Progress'
            BY <2>1, <2>2, <2>4, <3>1, SMTT(20) DEF Progress, Moved
        <3>5. Guarded'
            BY <2>1, <2>2, <2>4, <3>1, SMTT(20) DEF Guarded, Moved
        <3> QED
            BY <2>3, <3>2, <3>3, <3>4, <3>5 DEF IInv, TypeOK, Flags, Shapes
    <2>5. ASSUME path # 0, req' = [req EXCEPT ![r].fd = path, ![r].pc = "verify"]
          PROVE  IInv'
        <3>1. Moved(r, "verify", req[r].kind, path, req[r].attrs, req[r].peeked)
            BY <1>7, <2>5, <1>d, ZenonT(30) DEF Moved, Request, Step
        <3>2. Shapes'
            BY <2>1, <2>2, <3>1, ShapesMoved, <2>5, SMTT(20) DEF Shapes
        <3>3. Copies'
            BY <2>1, <3>1, <1>n, CopiesMoved, SMTT(20) DEF Copies
        <3>4. Progress'
            BY <2>1, <2>2, <2>5, <3>1, SMTT(20) DEF Progress, Moved
        <3>5. Guarded'
            BY <2>1, <2>2, <2>5, <3>1, SMTT(20) DEF Guarded, Moved
        <3> QED
            BY <2>3, <3>2, <3>3, <3>4, <3>5 DEF IInv, TypeOK, Flags, Shapes
    <2> QED
        BY <1>7, <2>4, <2>5 DEF OpenBody
<1>8. CASE Verify(r)
    <2>1. UNCHANGED <<version, uploads, path, metaCache, cleanKeys, advertised, put>>
        BY <1>8 DEF Verify
    <2>2. req[r].pc = "verify" /\ digestOK' \in 0..MaxVersions
        BY <1>8, Zenon DEF Verify, Shapes, Request
    <2>3. Flags' /\ StampsAreTrue' /\ Files'
        BY <1>8, <2>1, SMTT(20) DEF Verify, Flags, StampsAreTrue, Files
    <2>4. ASSUME Goes(r, AfterVerify(r))
          PROVE  IInv'
        <3>1. Moved(r, AfterVerify(r), req[r].kind, req[r].fd, req[r].attrs, req[r].peeked)
            BY <1>8, <2>4, <1>d, Updates, ZenonT(30) DEF AfterVerify, Step
        <3>2. Shapes'
            BY <2>1, <2>2, <3>1, ShapesMoved, ZenonT(20) DEF Shapes, AfterVerify
        <3>3. Copies'
            BY <2>1, <3>1, <1>n, CopiesMoved, ZenonT(30) DEF Copies
        <3>4. Progress'
            BY <2>1, <2>2, <2>4, <3>1, SMTT(20) DEF Progress, Moved, AfterVerify, Shapes
        <3>5. Guarded'
            BY <2>1, <2>2, <2>4, <3>1, SMTT(20) DEF Guarded, Moved
        <3> QED
            BY <2>3, <3>2, <3>3, <3>4, <3>5 DEF IInv, TypeOK, Flags, Shapes
    <2>5. ASSUME Evicts(r)
          PROVE  IInv'
        <3>1. Moved(r, "evict", req[r].kind, 0, NoAttrs, TRUE)
            BY <1>8, <2>5, <1>d, Updates, ZenonT(30) DEF Step
        <3>2. Shapes'
            BY <2>1, <2>2, <3>1, ShapesMoved, ZenonT(30) DEF Shapes
        <3>3. Copies'
            BY <2>1, <3>1, <1>n, CopiesMoved, Empties, ZenonT(30) DEF Copies
        <3>4. Progress'
            BY <2>1, <2>2, <2>5, <3>1, SMTT(20) DEF Progress, Moved
        <3>5. Guarded'
            BY <2>1, <2>2, <2>5, <3>1, SMTT(20) DEF Guarded, Moved
        <3> QED
            BY <2>3, <3>2, <3>3, <3>4, <3>5 DEF IInv, TypeOK, Flags, Shapes
    <2>6. ASSUME Done(r)
          PROVE  IInv'
        <3>1. Moved(r, "idle", "get", 0, NoAttrs, TRUE)
            BY <1>8, <2>6, <1>d, Updates, ZenonT(30) DEF Step
        <3>2. Shapes'
            BY <2>1, <2>2, <3>1, ShapesMoved, ZenonT(30) DEF Shapes
        <3>3. Copies'
            BY <2>1, <3>1, <1>n, CopiesMoved, Empties, ZenonT(30) DEF Copies
        <3>4. Progress'
            BY <2>1, <2>2, <2>6, <3>1, SMTT(20) DEF Progress, Moved
        <3>5. Guarded'
            BY <2>1, <2>2, <2>6, <3>1, SMTT(20) DEF Guarded, Moved
        <3> QED
            BY <2>3, <3>2, <3>3, <3>4, <3>5 DEF IInv, TypeOK, Flags, Shapes
    <2> QED
        BY <1>8, <2>4, <2>5, <2>6, ZenonT(30) DEF Verify
<1>9. CASE EnsureOutputID(r)
    <2> DEFINE v == HealTarget(r)
    <2>1. UNCHANGED <<uploads, path, cleanKeys, digestOK, put>> /\ req[r].pc = "heal"
        BY <1>9, SMTT(30) DEF EnsureOutputID
    <2>2. ASSUME v # 0, Mintable(v), metaCache' = NoEntry, UNCHANGED advertised,
                 version' = [version EXCEPT ![v].attrs.outputid = version[v].bytes],
                 req' = [req EXCEPT ![r].attrs.outputid = version[v].bytes,
                                    ![r].pc = AfterHeal(r)]
          PROVE  IInv'
        <3>1. v \in Inode /\ v <= uploads /\ version[v].bytes \in Content
            BY <2>2, ReadAssumption DEF HealTarget, Progress, Inode, Shapes
        <3>2. /\ version' \in [Inode -> [was : Content, bytes : Content, attrs : Attrs]]
              /\ \A i \in Inode : /\ version'[i].was = version[i].was
                                  /\ version'[i].bytes = version[i].bytes
                                  /\ version'[i].attrs.sum = version[i].attrs.sum
              /\ \A i \in Inode \ {v} : version'[i].attrs.outputid = version[i].attrs.outputid
              /\ version'[v].attrs.outputid = version[v].bytes
            BY <2>2, <3>1, ZenonT(20) DEF Shapes, Attrs
        <3>3. /\ version[v].bytes # None
              /\ Minted(version[v].bytes)
              /\ version[v].attrs.sum # None => version[v].bytes = version[v].was
            BY <2>2, <3>1, ReadAssumption DEF Mintable, Files, Minted, Inode
        <3>4. AfterHeal(r) \in Step /\ [req[r].attrs EXCEPT !.outputid = version[v].bytes] \in Attrs
            BY <3>1 DEF AfterHeal, Step, Request, Attrs
        <3>5. Moved(r, AfterHeal(r), req[r].kind, req[r].fd,
                    [req[r].attrs EXCEPT !.outputid = version[v].bytes], req[r].peeked)
            BY <2>2, <3>4, <1>d, ZenonT(30) DEF Moved, Request
        <3>6. /\ req'[r].attrs.outputid = version[v].bytes
              /\ AfterHeal(r) = IF req[r].kind = "get" THEN "serve" ELSE "body"
            BY <3>4, <3>5 DEF Moved, AfterHeal, Request, Attrs
        <3>7. Shapes'
            <4>1. AfterHeal(r) \in {"meta", "fill", "verify", "serve"} => req[r].fd # 0
                BY <2>1, <3>6 DEF Progress
            <4>2. metaCache' \in [id : 0..MaxVersions, attrs : Attrs]
                BY <2>2, Empties
            <4>3. UNCHANGED <<uploads, path, digestOK, put>>
                BY <2>1
            <4> QED
                BY <3>2, <3>5, <4>1, <4>2, <4>3, ShapesMoved, SMTT(30) DEF Shapes
        <3>8. Flags' /\ StampsAreTrue'
            BY <2>1, <2>2, <3>1, <3>2, <3>3, Zenon DEF Flags, StampsAreTrue
        <3>9. Files'
            BY <2>1, <3>2, SMTT(20) DEF Files
        <3>10. Copies'
            <4>1. \A i \in Inode : Minted(version'[i].attrs.outputid)
                BY <3>2, <3>3 DEF Copies
            <4>2. \A q \in Reader : Minted(req'[q].attrs.outputid)
                BY <3>3, <3>5, <3>6, ZenonT(30) DEF Copies, Moved
            <4>3. Minted(metaCache'.attrs.outputid)
                BY <2>2, Empties, Zenon DEF Minted
            <4> QED
                BY <2>1, <3>2, <4>1, <4>2, <4>3, <1>n, CopiesKept, SMTT(30)
        <3>11. Progress'
            <4>1. /\ req'[r].pc \in {"serve", "body"} /\ req'[r].fd <= uploads
                  /\ req'[r].attrs.outputid # None
                BY <3>3, <3>5, <3>6 DEF Progress, Moved
            <4>2. \A q \in Reader \ {r} : req'[q] = req[q]
                BY <3>5 DEF Moved
            <4> QED
                BY <2>1, <4>1, <4>2 DEF Progress
        <3>12. Guarded'
            BY <2>1, <3>2, <3>5, <3>6, ReadAssumption, SMTT(20) DEF Guarded, Moved, Inode
        <3> QED
            BY <3>7, <3>8, <3>9, <3>10, <3>11, <3>12, ZenonT(30) DEF IInv, TypeOK, Flags, Shapes
    <2>3. ASSUME advertised' = FALSE, Done(r), UNCHANGED <<version, metaCache>>
          PROVE  IInv'
        <3>1. Moved(r, "idle", "get", 0, NoAttrs, TRUE)
            BY <2>3, <1>d, Updates, ZenonT(30)
        <3>2. Shapes'
            BY <2>1, <2>3, <3>1, ShapesMoved, ZenonT(30) DEF Shapes
        <3>3. Flags' /\ StampsAreTrue' /\ Files'
            BY <2>1, <2>3, ZenonT(30) DEF Flags, StampsAreTrue, Files
        <3>4. Copies'
            BY <2>1, <2>3, <3>1, <1>n, Empties, CopiesMoved, ZenonT(30) DEF Copies
        <3>5. Progress' /\ Guarded'
            BY <2>1, <2>3, <3>1, SMTT(20) DEF Progress, Guarded, Moved
        <3> QED
            BY <3>2, <3>3, <3>4, <3>5 DEF IInv, TypeOK, Flags, Shapes
    <2> QED
        BY <1>9, <2>2, <2>3, ZenonT(30) DEF EnsureOutputID
<1>10. CASE Serve(r)
    <2>1. Moved(r, "idle", "get", 0, NoAttrs, TRUE)
        BY <1>10, Updates, ZenonT(30) DEF Serve, Shapes
    <2>2. Shapes'
        BY <1>10, <2>1, ShapesMoved, ZenonT(30) DEF Serve, Shapes
    <2>3. Flags'
        BY <1>10, ZenonT(30) DEF Serve, Flags
    <2>4. StampsAreTrue' /\ Files'
        BY <1>10, SMTT(20) DEF Serve, StampsAreTrue, Files
    <2>5. Copies'
        BY <1>10, <2>1, <1>n, CopiesMoved, Empties, ZenonT(30) DEF Serve, Copies
    <2>6. Progress'
        BY <1>10, <2>1, SMTT(20) DEF Serve, Progress, Moved
    <2>7. Guarded'
        BY <1>10, <2>1, SMTT(20) DEF Serve, Guarded, Moved
    <2> QED
        BY <2>2, <2>3, <2>4, <2>5, <2>6, <2>7 DEF IInv, TypeOK, Flags, Shapes
<1>11. CASE DeleteObject(r)
    <2>1. Moved(r, "evict", "delete", req[r].fd, req[r].attrs, req[r].peeked)
        BY <1>11, <1>d, ZenonT(30) DEF DeleteObject, Moved, Request, Step
    <2>2. Shapes'
        BY <1>11, <2>1, ShapesMoved, Zenon DEF DeleteObject, Shapes
    <2>3. Flags'
        BY <1>11, SMTT(20) DEF DeleteObject, Flags
    <2>4. StampsAreTrue' /\ Files'
        BY <1>11, SMTT(20) DEF DeleteObject, StampsAreTrue, Files
    <2>5. Copies'
        BY <1>11, <2>1, <1>n, CopiesMoved, ZenonT(30) DEF DeleteObject, Copies
    <2>6. Progress'
        BY <1>11, <2>1, SMTT(20) DEF DeleteObject, Progress, Moved
    <2>7. Guarded'
        BY <1>11, <2>1, SMTT(20) DEF DeleteObject, Guarded, Moved
    <2> QED
        BY <2>2, <2>3, <2>4, <2>5, <2>6, <2>7 DEF IInv, TypeOK, Flags, Shapes
<1>12. CASE Unlink(r)
    <2>1. UNCHANGED <<version, uploads, metaCache, cleanKeys, digestOK, advertised, put>>
        BY <1>12 DEF Unlink
    <2>2. path' \in {0, path} /\ path' \in 0..uploads
        BY <1>12 DEF Unlink
    <2>3. Flags' /\ StampsAreTrue' /\ Files'
        BY <1>12, <2>1, SMTT(20) DEF Unlink, Flags, StampsAreTrue, Files
    <2>4. ASSUME Done(r)
          PROVE  IInv'
        <3>1. Moved(r, "idle", "get", 0, NoAttrs, TRUE)
            BY <1>12, <2>4, <1>d, Updates, ZenonT(30) DEF Step
        <3>2. Shapes'
            BY <2>1, <2>2, <3>1, ShapesMoved, ZenonT(30) DEF Shapes
        <3>3. Copies'
            BY <2>1, <3>1, <1>n, CopiesMoved, Empties, ZenonT(30) DEF Copies
        <3>4. Progress'
            BY <2>1, <2>2, <2>4, <3>1, SMTT(20) DEF Progress, Moved
        <3>5. Guarded'
            BY <2>1, <2>2, <2>4, <3>1, SMTT(20) DEF Guarded, Moved
        <3> QED
            BY <2>3, <3>2, <3>3, <3>4, <3>5 DEF IInv, TypeOK, Flags, Shapes
    <2>5. ASSUME req' = [req EXCEPT ![r] = [Idle EXCEPT !.pc = "forget"]]
          PROVE  IInv'
        <3>1. Moved(r, "forget", "get", 0, NoAttrs, TRUE)
            BY <1>12, <2>5, <1>d, Empties, ZenonT(30) DEF Moved, Request, Step, Idle
        <3>2. Shapes'
            BY <2>1, <2>2, <3>1, ShapesMoved, ZenonT(30) DEF Shapes
        <3>3. Copies'
            BY <2>1, <3>1, <1>n, CopiesMoved, Empties, ZenonT(30) DEF Copies
        <3>4. Progress'
            BY <2>1, <2>2, <2>5, <3>1, SMTT(20) DEF Progress, Moved
        <3>5. Guarded'
            BY <2>1, <2>2, <2>5, <3>1, SMTT(20) DEF Guarded, Moved
        <3> QED
            BY <2>3, <3>2, <3>3, <3>4, <3>5 DEF IInv, TypeOK, Flags, Shapes
    <2> QED
        BY <1>12, <2>4, <2>5 DEF Unlink
<1>13. CASE ForgetDeleted(r)
    <2>1. Moved(r, "idle", "get", 0, NoAttrs, TRUE)
        BY <1>13, Updates, ZenonT(30) DEF ForgetDeleted, Shapes
    <2>2. Shapes'
        BY <1>13, <2>1, ShapesMoved, Empties, ZenonT(30) DEF ForgetDeleted, Shapes, ForgetKey
    <2>3. Flags'
        BY <1>13, ZenonT(30) DEF ForgetDeleted, Flags, ForgetKey
    <2>4. StampsAreTrue' /\ Files'
        BY <1>13, SMTT(20) DEF ForgetDeleted, StampsAreTrue, Files
    <2>5. Copies'
        BY <1>13, <2>1, <1>n, CopiesMoved, Empties, ZenonT(30) DEF ForgetDeleted, Copies, ForgetKey
    <2>6. Progress'
        BY <1>13, <2>1, SMTT(20) DEF ForgetDeleted, Progress, Moved, ForgetKey
    <2>7. Guarded'
        BY <1>13, <2>1, SMTT(20) DEF ForgetDeleted, Guarded, Moved, ForgetKey
    <2> QED
        BY <2>2, <2>3, <2>4, <2>5, <2>6, <2>7 DEF IInv, TypeOK, Flags, Shapes
<1> QED
    BY <1>1, <1>2, <1>3, <1>4, <1>5, <1>6, <1>7, <1>8, <1>9, <1>10, <1>11, <1>12, <1>13 DEF ReadStep

\* A step of an upload preserves the invariant.
LEMMA PutStepIInv ==
    ASSUME IInv, NEW p \in Putter, PutStep(p), UNCHANGED deny
    PROVE  IInv'
<1> USE DEF memos
<1>a. Flags /\ Shapes /\ StampsAreTrue /\ Files /\ Copies /\ Progress /\ Guarded
    BY TypeParts, SMTT(30) DEF IInv
<1>b. /\ uploads \in Nat \ {0} /\ path \in Nat /\ path <= uploads /\ MaxVersions \in Nat
      /\ put[p].new \in 0..uploads /\ None \notin Inode /\ Inode \subseteq Nat
    BY <1>a, ReadAssumption, SMTT(30) DEF Shapes, Inode
<1> USE <1>a, <1>b
<1>1. ASSUME NEW b \in Body, NEW named \in BOOLEAN, WriteTemp(p, b, named)
      PROVE  IInv'
    <2> DEFINE u == uploads + 1
    <2>1. /\ u \in Inode /\ uploads' = u
          /\ UNCHANGED <<path, advertised, metaCache, cleanKeys, digestOK, req>>
          /\ b \in Content /\ b \notin Inode /\ b # Index /\ b # None
        BY <1>1, ReadAssumption, SMTT(30) DEF WriteTemp, Inode, Content
    <2>2. /\ version' \in [Inode -> [was : Content, bytes : Content, attrs : Attrs]]
          /\ \A i \in Inode \ {u} : version'[i] = version[i]
          /\ version'[u].was = b /\ version'[u].bytes = b
          /\ version'[u].attrs.sum = b /\ version'[u].attrs.outputid \in {None, b}
        BY <1>1, <2>1 DEF WriteTemp, File, Shapes, Attrs, Content
    <2>3. /\ put' = [put EXCEPT ![p] = [pc |-> "check", new |-> u]]
          /\ put' \in [Putter -> [pc : {"idle", "check", "rename", "forget", "index"},
                                  new : 0..u]]
        BY <1>1, SMTT(30) DEF WriteTemp, Shapes
    <2>4. Shapes'
        BY <2>1, <2>2, <2>3, SMTT(20) DEF Shapes
    <2>5. Flags' /\ StampsAreTrue'
        BY <2>1, <2>2, Zenon DEF Flags, StampsAreTrue
    <2>6. Files'
        <3>1. \A i \in Inode \ {u} : i <= u => i <= uploads
            BY <2>1
        <3>2. ASSUME NEW i \in Inode \ {u}
              PROVE  /\ version'[i].was \in Body \cup {Index, None} /\ version'[i].bytes \in {version'[i].was, i}
                     /\ version'[i].attrs.sum \in {None, version'[i].was}
                     /\ version'[i].was = Index => i = 1
                     /\ i <= u => version'[i].was # None
            BY <2>2, <3>1, Zenon DEF Files
        <3>3. /\ version'[u].was \in Body \cup {Index, None} /\ version'[u].bytes \in {version'[u].was, u}
              /\ version'[u].attrs.sum \in {None, version'[u].was}
              /\ version'[u].was # Index /\ version'[u].was # None
            BY <2>1, <2>2, Zenon
        <3> HIDE DEF u
        <3> QED
            BY <2>1, <3>2, <3>3, Zenon DEF Files
    <2>7. Copies'
        <3>1. /\ Minted(None) /\ Minted(b)
              /\ \A x \in Inode : x <= uploads => version'[x].attrs.sum = version[x].attrs.sum
            BY <2>1, <2>2, SMTT(30) DEF Minted
        <3>2. \A i \in Inode : Minted(version'[i].attrs.outputid)
            BY <2>2, <3>1 DEF Copies
        <3>3. Minted(metaCache'.attrs.outputid)
              /\ \A q \in Reader : Minted(req'[q].attrs.outputid)
            BY <2>1, Zenon DEF Copies
        <3> QED
            BY <2>1, <3>1, <3>2, <3>3, CopiesKept, SMTT(30)
    <2>8. Progress'
        BY <2>1, <2>3, SMTT(20) DEF Progress, Shapes, Request
    <2>9. Guarded'
        BY <2>1, <2>2, SMTT(20) DEF Guarded, Inode
    <2> QED
        BY <2>4, <2>5, <2>6, <2>7, <2>8, <2>9, Zenon DEF IInv, TypeOK, Flags, Shapes
<1>2. CASE CheckWriteOnce(p) \/ FailPut(p)
    <2>1. UNCHANGED <<version, uploads, path, advertised, metaCache, cleanKeys, digestOK, req>>
        BY <1>2 DEF CheckWriteOnce, FailPut
    <2>2. /\ put' \in [Putter -> [pc : {"idle", "check", "rename", "forget", "index"},
                                  new : 0..uploads]]
          /\ \A q \in Putter : put'[q].pc # "idle" =>
                put'[q].new = put[q].new /\ put[q].pc # "idle"
        <3>1. CASE put' = [put EXCEPT ![p].pc = "rename"]
            BY <1>2, <3>1 DEF CheckWriteOnce, FailPut, Shapes
        <3>2. CASE put' = [put EXCEPT ![p] = NoPut]
            BY <3>2 DEF Shapes, NoPut
        <3> QED
            BY <1>2, <3>1, <3>2 DEF CheckWriteOnce, FailPut
    <2> QED
        BY <2>1, <2>2, ZenonT(30)
        DEF IInv, TypeOK, StampsAreTrue, Files, Copies, Minted, Progress, Guarded
<1>3. CASE Rename(p)
    <2>1. /\ UNCHANGED <<version, uploads, advertised, metaCache, cleanKeys, digestOK, req>>
          /\ path' = put[p].new /\ path' > 1
        BY <1>3 DEF Rename, Progress
    <2>2. /\ put' \in [Putter -> [pc : {"idle", "check", "rename", "forget", "index"},
                                  new : 0..uploads]]
          /\ \A q \in Putter : put'[q].pc # "idle" =>
                put'[q].new = put[q].new /\ put[q].pc # "idle"
        BY <1>3, SMTT(20) DEF Rename, Shapes
    <2>3. Shapes' /\ Flags'
        BY <2>1, <2>2, ZenonT(30) DEF Shapes, Flags
    <2>4. Progress' /\ Guarded'
        <3>1. path' # 1
            BY <2>1
        <3> QED
            BY <2>1, <2>2, <3>1, ZenonT(30) DEF Progress, Guarded
    <2> QED
        BY <2>1, <2>3, <2>4, ZenonT(30)
        DEF IInv, TypeOK, Flags, Shapes, StampsAreTrue, Files, Copies, Minted
<1>4. CASE ForgetReplaced(p) \/ Advertise(p)
    <2>1. /\ UNCHANGED <<version, uploads, path, req>>
          /\ UNCHANGED <<metaCache, digestOK>> \/ (metaCache' = NoEntry /\ digestOK' = 0)
        BY <1>4 DEF ForgetReplaced, Advertise, ForgetKey
    <2>2. Flags' /\ (UNCHANGED cleanKeys \/ cleanKeys' = FALSE)
        BY <1>4, ZenonT(30) DEF ForgetReplaced, Advertise, ForgetKey, Flags
    <2>3. /\ put' \in [Putter -> [pc : {"idle", "check", "rename", "forget", "index"},
                                  new : 0..uploads]]
          /\ \A q \in Putter : put'[q].pc # "idle" =>
                put'[q].new = put[q].new /\ put[q].pc # "idle"
        <3>1. put \in [Putter -> [pc : {"idle", "check", "rename", "forget", "index"}, new : 0..uploads]]
            BY Zenon DEF Shapes
        <3>2. put' = [put EXCEPT ![p] = NoPut] \/ put' = [put EXCEPT ![p].pc = "index"]
            BY <1>4, ZenonT(30) DEF ForgetReplaced, Advertise
        <3>3. put[p].pc # "idle"
            BY <1>4, ZenonT(30) DEF ForgetReplaced, Advertise
        <3>4. 0 \in 0..uploads
            OBVIOUS
        <3> HIDE <1>a, <1>b
        <3>5. CASE put' = [put EXCEPT ![p] = NoPut]
            BY <3>1, <3>4, <3>5 DEF NoPut
        <3>6. CASE put' = [put EXCEPT ![p].pc = "index"]
            BY <3>1, <3>3, <3>6, SMTT(30)
        <3> QED
            BY <3>2, <3>5, <3>6, Zenon
    <2>4. Shapes'
        BY <2>1, <2>3, Empties, SMTT(20) DEF Shapes
    <2>5. Copies'
        <3>1. Minted(None) /\ Minted(metaCache'.attrs.outputid)
            BY <2>1, Empties, ZenonT(30) DEF Minted, Copies
        <3>2. /\ \A i \in Inode : Minted(version'[i].attrs.outputid)
              /\ \A q \in Reader : Minted(req'[q].attrs.outputid)
            BY <2>1, ZenonT(30) DEF Copies
        <3>3. uploads' \in Nat /\ uploads <= uploads' /\ version' = version
            BY <2>1, SMTT(20)
        <3> QED
            BY <3>1, <3>2, <3>3, CopiesKept, ZenonT(30)
    <2>6. Progress' /\ Guarded'
        BY <2>1, <2>2, <2>3, SMTT(20) DEF Progress, Guarded
    <2> QED
        BY <2>1, <2>2, <2>4, <2>5, <2>6
        DEF IInv, TypeOK, Flags, Shapes, StampsAreTrue, Files
<1> QED
    BY <1>1, <1>2, <1>3, <1>4 DEF PutStep

\* Damage, the memos' budget and a restart preserve the invariant.
LEMMA EnvironmentIInv ==
    ASSUME IInv, Rot \/ Drop \/ Restart, UNCHANGED deny
    PROVE  IInv'
<1>a. Flags /\ Shapes /\ StampsAreTrue /\ Files /\ Copies /\ Progress /\ Guarded
    BY TypeParts, SMTT(20) DEF IInv
<1>b. /\ uploads \in Nat \ {0} /\ path \in Nat /\ path <= uploads /\ uploads <= MaxVersions
      /\ MaxVersions \in Nat /\ None \notin Inode /\ Inode \subseteq Nat
    BY <1>a, ReadAssumption, SMTT(20) DEF Shapes, Inode
<1> USE <1>a, <1>b
<1>1. CASE Rot
    <2>1. /\ UNCHANGED <<uploads, path, advertised, metaCache, cleanKeys, digestOK, req, put>>
          /\ path \in Inode
        BY <1>1 DEF Rot, memos, Inode
    <2>2. /\ version' \in [Inode -> [was : Content, bytes : Content, attrs : Attrs]]
          /\ \A i \in Inode : /\ version'[i].was = version[i].was
                              /\ version'[i].attrs = version[i].attrs
                              /\ version'[i].bytes \in {version[i].bytes, i}
        BY <1>1, <2>1, SMTT(30) DEF Rot, Rotten, Shapes, Content
    <2>3. Shapes' /\ Flags'
        BY <2>1, <2>2, Zenon DEF Shapes, Flags
    <2>4. StampsAreTrue' /\ Files'
        BY <2>1, <2>2, ZenonT(30) DEF StampsAreTrue, Files
    <2>5. Copies'
        <3>1. /\ \A i \in Inode : Minted(version'[i].attrs.outputid)
              /\ Minted(metaCache'.attrs.outputid)
              /\ \A q \in Reader : Minted(req'[q].attrs.outputid)
            BY <2>1, <2>2, ZenonT(30) DEF Copies
        <3> QED
            BY <2>1, <2>2, <3>1, CopiesKept
    <2>6. Progress'
        BY <2>1, Zenon DEF Progress
    <2>7. Guarded'
        BY <2>1, <2>2, ReadAssumption, ZenonT(60) DEF Guarded, Inode
    <2> QED
        BY <2>3, <2>4, <2>5, <2>6, <2>7 DEF IInv, TypeOK, Flags, Shapes
<1>2. CASE Drop \/ Restart
    <2>1. /\ UNCHANGED <<version, uploads, path>>
          /\ metaCache' \in {metaCache, NoEntry} /\ digestOK' \in {digestOK, 0}
        BY <1>2 DEF Drop, Restart, ForgetKey
    <2>2. Flags' /\ (UNCHANGED cleanKeys \/ cleanKeys' = FALSE)
        BY <1>2, ZenonT(30) DEF Drop, Restart, ForgetKey, Flags
    <2>3. \/ UNCHANGED <<req, put>>
          \/ req' = [r \in Reader |-> Idle] /\ put' = [q \in Putter |-> NoPut]
        BY <1>2 DEF Drop, Restart
    <2>4. Shapes'
        <3>1. metaCache' \in [id : 0..MaxVersions, attrs : Attrs] /\ digestOK' \in 0..MaxVersions
            BY <2>1, Empties DEF Shapes
        <3>2. CASE UNCHANGED <<req, put>>
            BY <2>1, <3>1, <3>2, Zenon DEF Shapes
        <3>3. CASE req' = [r \in Reader |-> Idle] /\ put' = [q \in Putter |-> NoPut]
            <4>1. Idle.pc = "idle" /\ NoPut.new = 0 /\ NoPut.pc = "idle"
                BY DEF Idle, NoPut
            <4>2. NoPut \in [pc : {"idle", "check", "rename", "forget", "index"}, new : 0..uploads]
                BY SMTT(30) DEF NoPut
            <4> QED
                BY <2>1, <3>1, <3>3, <4>1, <4>2, Empties, Zenon DEF Shapes
        <3> QED
            BY <2>3, <3>2, <3>3
    <2>5. Copies'
        <3>1. Minted(None) /\ Idle.attrs = NoAttrs
            BY SMTT(30) DEF Minted, Idle
        <3>2. Minted(metaCache'.attrs.outputid)
            BY <2>1, <3>1, Empties DEF Copies
        <3>3. \A q \in Reader : Minted(req'[q].attrs.outputid)
            BY <2>3, <3>1, Empties DEF Copies
        <3>4. \A i \in Inode : Minted(version'[i].attrs.outputid)
            BY <2>1, ZenonT(30) DEF Copies
        <3> QED
            BY <2>1, <3>2, <3>3, <3>4, CopiesKept, SMTT(30)
    <2>6. Progress'
        BY <2>1, <2>3, SMTT(20) DEF Progress, Idle, NoPut
    <2>7. Guarded'
        BY <2>1, <2>2, <2>3, SMTT(20) DEF Guarded, Idle
    <2> QED
        BY <2>1, <2>2, <2>4, <2>5, <2>6, <2>7, Zenon
        DEF IInv, TypeOK, Flags, Shapes, StampsAreTrue, Files
<1> QED
    BY <1>1, <1>2

\* Init establishes the invariant: the only file is the one an earlier server
\* left on disk, and every memo is empty.
LEMMA InitIInv == Init => IInv
<1> SUFFICES ASSUME Init PROVE IInv
    OBVIOUS
<1>1. 1 \in Inode /\ uploads = 1 /\ path = 1 /\ None \notin Inode
    BY ReadAssumption DEF Init, Inode
<1>2. PICK b \in Body \cup {Index}, sum \in BOOLEAN, named \in BOOLEAN :
        version = [i \in Inode |-> IF i = 1 THEN File(b, sum, named) ELSE NoFile]
    BY Zenon DEF Init
<1>3. /\ b \in Content /\ None \in Content /\ b \notin Inode /\ b # None
      /\ version[1].was = b /\ version[1].bytes = b
      /\ version[1].attrs.sum \in {None, b} /\ version[1].attrs.outputid \in {None, b}
    BY <1>1, <1>2, ReadAssumption DEF File, Content, Inode
<1>4. \A i \in Inode \ {1} : version[i] = NoFile
    BY <1>2, Zenon
<1>5. NoFile \in [was : Content, bytes : Content, attrs : Attrs]
      /\ NoFile.was = None /\ NoFile.bytes = None /\ NoFile.attrs = NoAttrs
    BY <1>3, Empties, Zenon DEF NoFile
<1>6. File(b, sum, named) \in [was : Content, bytes : Content, attrs : Attrs]
    BY <1>3 DEF File, Attrs
<1>7. Flags
    BY ZenonT(30) DEF Init, Flags
<1>8. Shapes
    BY <1>1, <1>2, <1>5, <1>6, Empties, ReadAssumption, SMTT(20) DEF Init, Shapes, Idle, NoPut
<1>9. StampsAreTrue
    BY <1>3, <1>4, <1>5, Empties, ZenonT(30) DEF StampsAreTrue
<1>10. Files
    BY <1>1, <1>3, <1>4, <1>5, Empties, ReadAssumption, SMTT(20) DEF Files, Inode
<1>11. Copies
    BY <1>1, <1>3, <1>4, <1>5, Empties, SMTT(20) DEF Init, Copies, Minted, Idle
<1>12. Progress /\ Guarded
    BY <1>1 DEF Init, Progress, Guarded, Idle, NoPut
<1> QED
    BY <1>7, <1>8, <1>9, <1>10, <1>11, <1>12, TypeParts DEF IInv

\* The invariant holds in every state.
THEOREM ReadInvariant == Spec => []IInv
<1>1. ASSUME IInv, UNCHANGED vars
      PROVE  IInv'
    <2>1. TypeOK' /\ StampsAreTrue' /\ Files'
        BY <1>1, SMTT(20) DEF IInv, vars, TypeOK, StampsAreTrue, Files
    <2>2. Copies'
        BY <1>1, ZenonT(30) DEF IInv, vars, Copies, Minted
    <2>3. Progress'
        BY <1>1, ZenonT(30) DEF IInv, vars, Progress
    <2>4. Guarded'
        BY <1>1, ZenonT(30) DEF IInv, vars, Guarded
    <2> QED
        BY <2>1, <2>2, <2>3, <2>4, ZenonT(30) DEF IInv
<1>2. IInv /\ Next => IInv'
    BY ReadStepIInv, PutStepIInv, EnvironmentIInv DEF Next
<1> QED
    BY <1>1, <1>2, InitIInv, PTL DEF Spec

\* Every outputid beside a digest is that of the uploaded bytes, whichever
\* requests, uploads, evictions and restarts the self-heal met.
THEOREM StampsTrue == Spec => []StampsAreTrue
<1>1. IInv => StampsAreTrue
    BY Zenon DEF IInv
<1> QED
    BY <1>1, ReadInvariant, PTL

\* A body that rotted beside its digest is sent only with an outputid that
\* gives it away.
THEOREM RotDetectable == Spec => []RotIsDetectable
<1>1. ASSUME IInv, NEW r \in Serving,
             version[req[r].fd].bytes = Rotten(req[r].fd),
             version[req[r].fd].attrs.sum # None
      PROVE  req[r].attrs.outputid \notin {None, Rotten(req[r].fd)}
    <2>1. req[r].fd \in Inode /\ r \in Reader /\ req[r].pc = "serve"
        BY <1>1, ReadAssumption, TypeParts, SMTT(20) DEF IInv, Shapes, Request, Serving, Inode
    <2> QED
        BY <1>1, <2>1, Zenon DEF IInv, Copies, Minted, Progress, Rotten
<1>2. IInv => RotIsDetectable
    BY <1>1, Zenon DEF RotIsDetectable
<1> QED
    BY <1>2, ReadInvariant, PTL

\* A module index at the path is not sent by any read that could inspect it.
THEOREM IndexRefusedAtPath == Spec => []IndexAtPathRefused
<1>1. ASSUME IInv, NEW r \in Serving, req[r].fd = path, version[path].bytes = Index
      PROVE  req[r].kind = "batch" /\ ~req[r].peeked
    <2>1. path \in Inode /\ r \in Reader /\ req[r].pc = "serve"
        BY <1>1, ReadAssumption, TypeParts, SMTT(30) DEF IInv, Shapes, Request, Serving, Inode
    <2>2. path = 1
        BY <1>1, <2>1, ReadAssumption DEF IInv, Files, Inode
    <2> QED
        BY <1>1, <2>1, <2>2, Zenon DEF IInv, Guarded
<1>2. IInv => IndexAtPathRefused
    BY <1>1 DEF IndexAtPathRefused
<1> QED
    BY <1>2, ReadInvariant, PTL

----------------------------------------------------------------------------
(* What a read evicts.                                                     *)

Reading == {"meta", "fill", "guard", "verify", "heal", "body", "serve"}
Unplaced == {"check", "rename"}

\* While the version a read found is at the path, what the read knows is of it,
\* and the read condemns it only if it is not sound.
Found(r) ==
    /\ req[r].first \in 0..uploads
    /\ req[r].pc \in Reading => req[r].first # 0 /\ req[r].kind # "delete"
    /\ req[r].pc \in {"meta", "fill"} => req[r].fd = req[r].first
    /\ req[r].pc \in Reading /\ path = req[r].first =>
         req[r].fd \in {0, path} /\ req[r].attrs.sum \in {None, version[path].was}
    /\ req[r].pc = "evict" /\ req[r].kind # "delete" =>
         req[r].first # 0 /\ (path = req[r].first => ~Sound(path))

\* The same of the metadata cache.
Recorded ==
    /\ metaCache.id \in 0..uploads
    /\ path = metaCache.id /\ path # 0 => metaCache.attrs.sum \in {None, version[path].was}

\* A file that is not at the path yet has not been read.
Unread ==
    \A p \in Putter : put[p].pc \in Unplaced =>
        /\ put[p].new # 0 /\ put[p].new # path /\ put[p].new # metaCache.id
        /\ \A r \in Reader : put[p].new # req[r].first
        /\ \A q \in Putter \ {p} : put[q].pc \in Unplaced => put[q].new # put[p].new

EInv == (\A r \in Reader : Found(r)) /\ Recorded /\ Unread

\* Request r, and no other, is now at step pc with these contents.
Turned(r, pc, kind, first, fd, sum) ==
    /\ \A q \in Reader \ {r} : req'[q] = req[q]
    /\ req'[r].pc = pc /\ req'[r].kind = kind /\ req'[r].first = first
    /\ req'[r].fd = fd /\ req'[r].attrs.sum = sum

\* What the updates of a request do to it.
LEMMA Turns ==
    ASSUME req \in [Reader -> Request], NEW r \in Reader
    PROVE  /\ \A l : Goes(r, l) =>
                Turned(r, l, req[r].kind, req[r].first, req[r].fd, req[r].attrs.sum)
           /\ Done(r) => Turned(r, "idle", "get", 0, 0, None)
           /\ Evicts(r) => Turned(r, "evict", req[r].kind, req[r].first, 0, None)
           /\ \A a : Loaded(r, a) =>
                Turned(r, "guard", req[r].kind, req[r].first,
                       IF req[r].kind = "get" THEN req[r].fd ELSE 0, a.sum)
<1>1. ASSUME NEW l, Goes(r, l)
      PROVE  Turned(r, l, req[r].kind, req[r].first, req[r].fd, req[r].attrs.sum)
    BY <1>1, Zenon DEF Goes, Turned, Request
<1>2. ASSUME Done(r) PROVE Turned(r, "idle", "get", 0, 0, None)
    BY <1>2 DEF Done, Turned, Idle, NoAttrs
<1>3. ASSUME Evicts(r) PROVE Turned(r, "evict", req[r].kind, req[r].first, 0, None)
    BY <1>3 DEF Evicts, Turned, Idle, NoAttrs
<1>4. ASSUME NEW a, Loaded(r, a)
      PROVE  Turned(r, "guard", req[r].kind, req[r].first,
                    IF req[r].kind = "get" THEN req[r].fd ELSE 0, a.sum)
    <2> DEFINE f == IF req[r].kind = "get" THEN req[r].fd ELSE 0
    <2>1. req' = [req EXCEPT ![r].attrs = a, ![r].pc = "guard", ![r].fd = f]
        BY <1>4 DEF Loaded
    <2> HIDE DEF f
    <2>2. Turned(r, "guard", req[r].kind, req[r].first, f, a.sum)
        BY <2>1 DEF Turned, Request
    <2> QED
        BY <2>2 DEF f
<1> QED
    BY <1>1, <1>2, <1>3, <1>4, Zenon

\* A read changes no bytes and puts nothing at the path.
LEMMA ReadKeeps ==
    ASSUME IInv, EInv, NEW r \in Reader, uploads' = uploads, put' = put, path' \in {0, path},
           \A i \in Inode : version'[i].was = version[i].was /\ version'[i].bytes = version[i].bytes,
           \A q \in Reader \ {r} : req'[q] = req[q],
           Found(r)', req'[r].first \in {0, path, req[r].first},
           Recorded', metaCache'.id \in {0, metaCache.id, req[r].first}
    PROVE  EInv'
<1>1. ASSUME NEW q \in Reader \ {r} PROVE Found(q)'
    <2>1. path # 0 => path \in Inode
        <3>1. path \in 0..uploads /\ uploads \in Inode
            BY TypeParts, Zenon DEF IInv, Shapes
        <3> QED
            BY <3>1, ReadAssumption DEF Inode
    <2>2. Found(q) /\ req'[q] = req[q]
        BY Zenon DEF EInv
    <2> QED
        BY <2>1, <2>2, ZenonT(20) DEF Found, Sound, Reading
<1>2. Unread'
    BY DEF EInv, Unread, Unplaced
<1> QED
    BY <1>1, <1>2, ZenonT(30) DEF EInv

\* The steps of a read. A read that condemns what it found has seen that it is
\* an index or differs from the digest recorded with it.
LEMMA ReadEvicts == ASSUME IInv, EInv, NEW r \in Reader, ReadStep(r) PROVE EInv'
<1>0. /\ req \in [Reader -> Request] /\ path \in 0..uploads /\ uploads \in Nat
      /\ path # 0 => path \in Inode
    BY ReadAssumption, TypeParts DEF IInv, Shapes, Inode
<1>1. Found(r) /\ Recorded
    BY Zenon DEF EInv
<1>2. ASSUME UNCHANGED <<version, uploads, path, metaCache, put>>,
             NEW pc, NEW kind, NEW first, NEW fd, NEW sum, Turned(r, pc, kind, first, fd, sum),
             first \in {0, path, req[r].first}, Found(r)'
      PROVE  EInv'
    <2>1. Recorded'
        BY <1>1, <1>2, Zenon DEF Recorded
    <2> QED
        BY <1>2, <2>1, ReadKeeps, Zenon DEF Turned
\* A step that keeps what the read knows, or ends it.
<1>3. ASSUME UNCHANGED <<version, uploads, path, metaCache, put>>,
             \/ Done(r)
             \/ req[r].pc \in Reading /\ \E l \in Reading \ {"meta", "fill"} : Goes(r, l)
      PROVE  EInv'
    <2>1. CASE Done(r)
        <3>1. Turned(r, "idle", "get", 0, 0, None)
            BY <1>0, <2>1, Turns, ZenonT(30)
        <3>2. Found(r)'
            BY <1>0, <1>3, <3>1 DEF Turned, Found, Reading
        <3> QED
            BY <1>2, <1>3, <3>1, <3>2, Zenon
    <2>2. ASSUME req[r].pc \in Reading, NEW l \in Reading \ {"meta", "fill"}, Goes(r, l)
          PROVE  EInv'
        <3>1. Turned(r, l, req[r].kind, req[r].first, req[r].fd, req[r].attrs.sum)
            BY <1>0, <2>2, Turns, ZenonT(30)
        <3>2. Found(r)'
            BY <1>0, <1>1, <1>3, <2>2, <3>1 DEF Turned, Found, Reading
        <3> QED
            BY <1>2, <1>3, <3>1, <3>2, Zenon
    <2> QED
        BY <1>3, <2>1, <2>2, Zenon
\* A step that condemns what is at the path.
<1>4. ASSUME UNCHANGED <<version, uploads, path, metaCache, put>>, req[r].pc \in Reading,
             Evicts(r), path = req[r].first => ~Sound(path)
      PROVE  EInv'
    <2>1. Turned(r, "evict", req[r].kind, req[r].first, 0, None)
        BY <1>0, <1>4, Turns, ZenonT(30)
    <2>2. Found(r)'
        BY <1>0, <1>1, <1>4, <2>1, Zenon DEF Turned, Found, Reading, Sound
    <2> QED
        BY <1>2, <1>4, <2>1, <2>2, Zenon
<1>5. \A l \in {AfterGuard(r), AfterVerify(r), AfterHeal(r)} : l \in Reading \ {"meta", "fill"}
    BY DEF AfterGuard, AfterVerify, AfterHeal, Reading
<1>6. CASE Open(r, "get") \/ Open(r, "batch")
    <2>1. PICK kind \in {"get", "batch"} : Open(r, kind)
        BY <1>6, Zenon
    <2>2. UNCHANGED <<version, uploads, path, metaCache, put>> /\ path # 0
        BY <2>1, Zenon DEF Open, memos
    <2>3. Turned(r, "meta", kind, path, path, None)
        BY <1>0, <2>1, ZenonT(30) DEF Open, Turned, Idle, NoAttrs
    <2>4. Found(r)'
        BY <1>0, <2>1, <2>2, <2>3 DEF Turned, Found, Reading
    <2> QED
        BY <1>2, <2>2, <2>3, <2>4, Zenon
<1>7. CASE LoadMetadata(r)
    <2>1. UNCHANGED <<version, uploads, path, metaCache, put>> /\ req[r].pc = "meta"
        BY <1>7, Zenon DEF LoadMetadata, memos
    <2>2. ASSUME metaCache.id = req[r].fd, Loaded(r, metaCache.attrs) PROVE EInv'
        <3>1. Turned(r, "guard", req[r].kind, req[r].first,
                     IF req[r].kind = "get" THEN req[r].fd ELSE 0, metaCache.attrs.sum)
            BY <1>0, <2>2, Turns, ZenonT(30)
        <3>2. Found(r)'
            BY <1>0, <1>1, <2>1, <2>2, <3>1 DEF Turned, Found, Reading, Recorded
        <3> QED
            BY <1>2, <2>1, <3>1, <3>2, Zenon
    <2>3. ASSUME req' = [req EXCEPT ![r].attrs = AttrsAtPath, ![r].pc = "fill"] PROVE EInv'
        <3>1. Turned(r, "fill", req[r].kind, req[r].first, req[r].fd, AttrsAtPath.sum)
            BY <1>0, <2>3 DEF Turned, Request
        <3>2. path # 0 => AttrsAtPath.sum \in {None, version[path].was}
            BY <1>0, ZenonT(30) DEF IInv, Files, AttrsAtPath
        <3>3. Found(r)'
            BY <1>0, <1>1, <2>1, <3>1, <3>2 DEF Turned, Found, Reading
        <3> QED
            BY <1>2, <2>1, <3>1, <3>3, Zenon
    <2> QED
        BY <1>7, <2>2, <2>3, Zenon DEF LoadMetadata
<1>8. CASE FillMetadata(r)
    <2>1. /\ UNCHANGED <<version, uploads, path, put>> /\ req[r].pc = "fill"
          /\ metaCache'.id = req[r].fd /\ metaCache'.attrs = req[r].attrs
        BY <1>8, Zenon DEF FillMetadata
    <2>2. Turned(r, "guard", req[r].kind, req[r].first,
                 IF req[r].kind = "get" THEN req[r].fd ELSE 0, req[r].attrs.sum)
        BY <1>0, <1>8, Turns, ZenonT(30) DEF FillMetadata
    <2>3. Found(r)'
        BY <1>0, <1>1, <2>1, <2>2, Zenon DEF Turned, Found, Reading
    <2>4. Recorded' /\ metaCache'.id = req[r].first
        BY <1>0, <1>1, <2>1, Zenon DEF Found, Recorded, Reading
    <2> QED
        BY <2>1, <2>2, <2>3, <2>4, ReadKeeps, ZenonT(30) DEF Turned
<1>9. CASE GuardGet(r)
    <2>1. /\ UNCHANGED <<version, uploads, path, metaCache, put>> /\ req[r].pc \in Reading
          /\ req[r].kind = "get" /\ req[r].pc = "guard"
        BY <1>9, Zenon DEF GuardGet, Reading
    <2>2. CASE version[req[r].fd].bytes = Index /\ Evicts(r)
        <3>1. path = req[r].first => ~Sound(path)
            BY <1>0, <1>1, <2>1, <2>2, Zenon DEF IInv, Progress, Found, Sound
        <3> QED
            BY <1>4, <2>1, <2>2, <3>1, ZenonT(30)
    <2>3. CASE Done(r) \/ Goes(r, AfterGuard(r))
        BY <1>3, <1>5, <2>1, <2>3, Zenon
    <2> QED
        BY <1>9, <2>2, <2>3, ZenonT(30) DEF GuardGet
<1>10. CASE GuardBatch(r)
    <2>1. /\ UNCHANGED <<version, uploads, path, metaCache, put>> /\ req[r].pc \in Reading
          /\ req[r].pc = "guard"
        BY <1>10 DEF GuardBatch, Reading
    <2>2. CASE version[path].bytes = Index /\ Evicts(r)
        <3>1. ~Sound(path)
            BY <2>2 DEF Sound
        <3> QED
            BY <1>4, <2>1, <2>2, <3>1, Zenon
    <2>3. CASE Goes(r, AfterGuard(r))
        BY <1>3, <1>5, <2>1, <2>3, Zenon
    <2>4. CASE req' = [req EXCEPT ![r].pc = AfterGuard(r), ![r].peeked = FALSE]
        <3>1. Turned(r, AfterGuard(r), req[r].kind, req[r].first, req[r].fd, req[r].attrs.sum)
            BY <1>0, <2>4, Zenon DEF Turned, Request
        <3>2. Found(r)'
            BY <1>0, <1>1, <1>5, <2>1, <3>1, Zenon DEF Turned, Found, Reading
        <3> QED
            BY <1>2, <2>1, <3>1, <3>2, Zenon
    <2> QED
        BY <1>10, <2>2, <2>3, <2>4, Zenon DEF GuardBatch
<1>11. CASE OpenBody(r)
    <2>1. /\ UNCHANGED <<version, uploads, path, metaCache, put>> /\ req[r].pc \in Reading
          /\ req[r].pc = "body"
        BY <1>11 DEF OpenBody, Reading, memos
    <2>2. CASE req' = [req EXCEPT ![r].fd = path, ![r].pc = "verify"]
        <3>1. Turned(r, "verify", req[r].kind, req[r].first, path, req[r].attrs.sum)
            BY <1>0, <2>2, ZenonT(30) DEF Turned, Request
        <3>2. Found(r)'
            BY <1>0, <1>1, <2>1, <3>1, Zenon DEF Turned, Found, Reading
        <3> QED
            BY <1>2, <2>1, <3>1, <3>2, Zenon
    <2> QED
        BY <1>11, <1>3, <2>1, <2>2, Zenon DEF OpenBody
<1>12. CASE Verify(r)
    <2>1. /\ UNCHANGED <<version, uploads, path, metaCache, put>> /\ req[r].pc \in Reading
          /\ req[r].pc = "verify"
        BY <1>12, Zenon DEF Verify, Reading
    <2>2. CASE ~Matches(r) /\ Evicts(r)
        <3>1. req[r].fd # 0
            BY <2>1, TypeParts, ZenonT(30) DEF IInv, Shapes
        <3>2. path = req[r].first => ~Sound(path)
            BY <1>0, <1>1, <2>1, <2>2, <3>1, Zenon DEF Found, Sound, Matches
        <3> QED
            BY <1>4, <2>1, <2>2, <3>2, Zenon
    <2>3. CASE Done(r) \/ Goes(r, AfterVerify(r))
        BY <1>3, <1>5, <2>1, <2>3, Zenon
    <2> QED
        BY <1>12, <2>2, <2>3, ZenonT(30) DEF Verify
<1>13. CASE EnsureOutputID(r)
    <2>1. UNCHANGED <<uploads, path, put>> /\ req[r].pc = "heal"
        BY <1>13, Zenon DEF EnsureOutputID
    <2>2. CASE Done(r) /\ UNCHANGED <<version, metaCache>>
        BY <1>3, <2>1, <2>2, Zenon
    <2>3. ASSUME NEW v, NEW x, version' = [version EXCEPT ![v].attrs.outputid = x],
                 metaCache' = NoEntry,
                 req' = [req EXCEPT ![r].attrs.outputid = x, ![r].pc = AfterHeal(r)]
          PROVE  EInv'
        <3>1. Turned(r, AfterHeal(r), req[r].kind, req[r].first, req[r].fd, req[r].attrs.sum)
            BY <1>0, <2>3 DEF Turned, Request, Attrs
        <3>2. version \in [Inode -> [was : Content, bytes : Content, attrs : Attrs]]
            BY TypeParts, Zenon DEF IInv, Shapes
        <3>3. \A i \in Inode : version'[i].was = version[i].was /\ version'[i].bytes = version[i].bytes
            BY <2>3, <3>2, ZenonT(30)
        <3>4. Found(r)'
            BY <1>0, <1>1, <1>5, <2>1, <3>1, <3>3, Zenon DEF Turned, Found, Reading
        <3>5. Recorded' /\ metaCache'.id = 0
            BY <1>0, <2>1, <2>3 DEF NoEntry, NoAttrs, Recorded
        <3> QED
            BY <2>1, <3>1, <3>3, <3>4, <3>5, ReadKeeps, Zenon DEF Turned
    <2> QED
        BY <1>13, <2>2, <2>3, Zenon DEF EnsureOutputID
<1>14. CASE Serve(r)
    <2>1. UNCHANGED <<version, uploads, path, metaCache, put>> /\ Done(r)
        BY <1>14, Zenon DEF Serve, memos
    <2> QED
        BY <1>3, <2>1, Zenon
<1>15. CASE DeleteObject(r)
    <2>1. UNCHANGED <<version, uploads, path, metaCache, put>> /\ req[r].pc = "idle"
        BY <1>15, Zenon DEF DeleteObject, memos
    <2>2. Turned(r, "evict", "delete", req[r].first, req[r].fd, req[r].attrs.sum)
        BY <1>0, <1>15, SMTT(30) DEF DeleteObject, Turned, Request
    <2>3. Found(r)'
        BY <1>0, <1>1, <2>1, <2>2, Zenon DEF Turned, Found, Reading
    <2> QED
        BY <1>2, <2>1, <2>2, <2>3, Zenon
<1>16. CASE Unlink(r)
    <2>1. UNCHANGED <<version, uploads, metaCache, put>>
        BY <1>16, Zenon DEF Unlink, memos
    <2>2. CASE path' = path /\ Done(r)
        BY <1>3, <2>1, <2>2, Zenon
    <2>3. CASE path' = 0 /\ req' = [req EXCEPT ![r] = [Idle EXCEPT !.pc = "forget"]]
        <3>1. Turned(r, "forget", "get", 0, 0, None)
            BY <1>0, <2>3 DEF Turned, Idle, NoAttrs
        <3>2. Found(r)' /\ Recorded'
            <4>1. 0 \in 0..uploads
                BY <1>0
            <4> QED
                BY <1>0, <1>1, <2>1, <2>3, <3>1, <4>1, Zenon DEF Turned, Found, Reading, Recorded
        <3> QED
            BY <2>1, <2>3, <3>1, <3>2, ReadKeeps, Zenon DEF Turned
    <2> QED
        BY <1>16, <2>2, <2>3, Zenon DEF Unlink
<1>17. CASE ForgetDeleted(r)
    <2>1. UNCHANGED <<version, uploads, path, put>> /\ metaCache' = NoEntry /\ Done(r)
        BY <1>17, Zenon DEF ForgetDeleted, ForgetKey
    <2>2. Turned(r, "idle", "get", 0, 0, None)
        BY <1>0, <2>1, Turns, ZenonT(30)
    <2>3. Found(r)'
        <3>1. 0 \in 0..uploads
            BY <1>0
        <3> QED
            BY <2>1, <2>2, <3>1, Zenon DEF Turned, Found, Reading
    <2>4. Recorded' /\ metaCache'.id = 0
        BY <1>0, <2>1 DEF NoEntry, NoAttrs, Recorded
    <2> QED
        BY <2>1, <2>2, <2>3, <2>4, ReadKeeps, Zenon DEF Turned
<1> QED
    BY <1>6, <1>7, <1>8, <1>9, <1>10, <1>11, <1>12, <1>13, <1>14, <1>15, <1>16, <1>17, ZenonT(30)
    DEF ReadStep

\* An upload places a file that no read has seen.
LEMMA PutEvicts == ASSUME IInv, EInv, NEW p \in Putter, PutStep(p) PROVE EInv'
<1>0. /\ path \in 0..uploads /\ uploads \in Inode /\ uploads \in Nat
      /\ metaCache.id \in 0..uploads /\ \A r \in Reader : Found(r)
      /\ \A q \in Putter : put[q].new \in 0..uploads
      /\ \A q \in Putter : put[q].pc # "idle" => put[q].new > 1
      /\ put \in [Putter -> [pc : {"idle", "check", "rename", "forget", "index"}, new : 0..uploads]]
    BY ReadAssumption, TypeParts DEF IInv, Shapes, Inode, EInv, Recorded, Progress
<1>1. ASSUME UNCHANGED <<version, uploads, path, metaCache, req>>,
             \/ put' = [put EXCEPT ![p] = NoPut]
             \/ \E l : put' = [put EXCEPT ![p].pc = l] /\ (put[p].pc \in Unplaced \/ l \notin Unplaced)
      PROVE  EInv'
    <2>1. \A q \in Putter : put'[q].pc \in Unplaced => put[q].pc \in Unplaced /\ put'[q].new = put[q].new
        <3> SUFFICES ASSUME NEW q \in Putter, put'[q].pc \in Unplaced
                     PROVE  put[q].pc \in Unplaced /\ put'[q].new = put[q].new
            BY Zenon
        <3>1. CASE put' = [put EXCEPT ![p] = NoPut]
            BY <1>0, <3>1 DEF NoPut, Unplaced
        <3>2. CASE \E l : put' = [put EXCEPT ![p].pc = l] /\ (put[p].pc \in Unplaced \/ l \notin Unplaced)
            <4> PICK l : put' = [put EXCEPT ![p].pc = l] /\ (put[p].pc \in Unplaced \/ l \notin Unplaced)
                BY <3>2, Zenon
            <4>0. put[p] \in [pc : {"idle", "check", "rename", "forget", "index"}, new : 0..uploads]
                BY <1>0
            <4>a. put'[p] = [put[p] EXCEPT !.pc = l]
                BY <1>0, Zenon
            <4>b. put'[p].pc = l /\ put'[p].new = put[p].new
                BY <4>0, <4>a
            <4>1. CASE q = p
                BY <4>b, <4>1, Zenon
            <4>2. CASE q # p
                BY <1>0, <4>2
            <4> QED
                BY <4>1, <4>2
        <3> QED
            BY <1>1, <3>1, <3>2, Zenon
    <2>2. Unread'
        BY <1>1, <2>1, ZenonT(30) DEF EInv, Unread
    <2>3. (\A r \in Reader : Found(r)') /\ Recorded'
        BY <1>1, Zenon DEF EInv, Found, Recorded, Sound
    <2> QED
        BY <2>2, <2>3, Zenon DEF EInv
<1>2. ASSUME NEW b \in Body, NEW named \in BOOLEAN, WriteTemp(p, b, named) PROVE EInv'
    <2>1. /\ UNCHANGED <<path, metaCache, req>> /\ uploads' = uploads + 1
          /\ version' = [version EXCEPT ![uploads + 1] = File(b, TRUE, named)]
          /\ put' = [put EXCEPT ![p] = [pc |-> "check", new |-> uploads + 1]]
        BY <1>2, Zenon DEF WriteTemp, memos
    <2>2. version \in [Inode -> [was : Content, bytes : Content, attrs : Attrs]]
        BY TypeParts, Zenon DEF IInv, Shapes
    <2>3. \A i \in 1..uploads : i \in Inode /\ version'[i] = version[i]
        <3>1. uploads \in 1..MaxVersions /\ MaxVersions \in Nat
            BY <1>0, ReadAssumption, Zenon DEF Inode
        <3>2. \A i \in 1..uploads : i \in 1..MaxVersions /\ i # uploads + 1
            BY <3>1
        <3>3. \A i \in 1..uploads : i \in Inode /\ i # uploads + 1
            BY <3>2, Zenon DEF Inode
        <3> QED
            BY <2>1, <2>2, <3>3, Zenon
    <2>4. put'[p].new = uploads + 1 /\ \A q \in Putter \ {p} : put'[q] = put[q]
        BY <1>0, <2>1
    <2>a. /\ path # 0 => version'[path] = version[path]
          /\ \A i \in 0..uploads : i \in 0..uploads'
        <3>1. path # 0 => path \in 1..uploads
            BY <1>0
        <3>2. \A i \in 0..uploads : i \in 0..(uploads + 1)
            BY <1>0
        <3> QED
            BY <2>1, <2>3, <3>1, <3>2, Zenon
    <2>5. ASSUME NEW r \in Reader PROVE Found(r)'
        BY <1>0, <2>1, <2>a, ZenonT(30) DEF Found, Sound
    <2>6. Recorded'
        BY <1>0, <2>1, <2>a, Zenon DEF EInv, Recorded
    <2>7. \A r \in Reader : req[r].first <= uploads
        BY <1>0, SMTT(30) DEF Found
    <2>8. Unread'
        BY <1>0, <2>1, <2>7, <2>4 DEF EInv, Unread
    <2> QED
        BY <2>5, <2>6, <2>8, Zenon DEF EInv
<1>3. CASE CheckWriteOnce(p)
    <2>1. UNCHANGED <<version, uploads, path, metaCache, req>> /\ put[p].pc \in Unplaced
        BY <1>3 DEF CheckWriteOnce, memos, Unplaced
    <2> QED
        BY <1>1, <1>3, <2>1, Zenon DEF CheckWriteOnce
<1>4. CASE FailPut(p)
    BY <1>1, <1>4, Zenon DEF FailPut, memos
<1>5. CASE Rename(p)
    <2>1. /\ UNCHANGED <<version, uploads, metaCache, req>> /\ path' = put[p].new
          /\ put[p].pc \in Unplaced
        BY <1>5 DEF Rename, memos, Unplaced
    <2>2. /\ put'[p].pc \notin Unplaced /\ \A q \in Putter \ {p} : put'[q] = put[q]
        BY <1>0, <1>5 DEF Rename, Unplaced
    <2>3. /\ path' # 0 /\ path' # metaCache.id /\ \A r \in Reader : path' # req[r].first
          /\ \A q \in Putter \ {p} : put[q].pc \in Unplaced => put[q].new # path'
        BY <2>1, Zenon DEF EInv, Unread
    <2>4. ASSUME NEW r \in Reader PROVE Found(r)'
        <3>1. Found(r) /\ path' # req[r].first
            BY <1>0, <2>3, Zenon
        <3> QED
            BY <2>1, <3>1, Zenon DEF Found
    <2>5. Recorded'
        BY <2>1, <2>3, ZenonT(30) DEF EInv, Recorded
    <2>6. Unread'
        <3> SUFFICES ASSUME NEW q \in Putter, put'[q].pc \in Unplaced
                     PROVE  /\ put'[q].new # 0 /\ put'[q].new # path' /\ put'[q].new # metaCache'.id
                            /\ \A r \in Reader : put'[q].new # req'[r].first
                            /\ \A o \in Putter \ {q} : put'[o].pc \in Unplaced => put'[o].new # put'[q].new
            BY Zenon DEF Unread
        <3>1. q # p /\ put'[q] = put[q] /\ put[q].pc \in Unplaced
            BY <2>2, Zenon
        <3>2. /\ put[q].new # 0 /\ put[q].new # metaCache.id /\ \A r \in Reader : put[q].new # req[r].first
              /\ \A o \in Putter \ {q} : put[o].pc \in Unplaced => put[o].new # put[q].new
            BY <3>1, Zenon DEF EInv, Unread
        <3>3. \A o \in Putter \ {q} : put'[o].pc \in Unplaced => put'[o] = put[o]
            BY <2>2, Zenon
        <3> QED
            BY <2>1, <2>3, <3>1, <3>2, <3>3, Zenon
    <2> QED
        BY <2>4, <2>5, <2>6, Zenon DEF EInv
<1>6. CASE ForgetReplaced(p)
    <2>1. UNCHANGED <<version, uploads, path, req>> /\ metaCache' = NoEntry
        BY <1>6, Zenon DEF ForgetReplaced, ForgetKey
    <2>2. put'[p].pc \notin Unplaced /\ \A q \in Putter \ {p} : put'[q] = put[q]
        BY <1>0, <1>6 DEF ForgetReplaced, Unplaced
    <2>3. \A r \in Reader : Found(r)'
        BY <1>0, <2>1, Zenon DEF Found, Sound
    <2>4. Recorded'
        BY <1>0, <2>1, SMTT(30) DEF Recorded, NoEntry, NoAttrs
    <2>5. Unread'
        BY <1>0, <2>1, <2>2 DEF EInv, Unread, NoEntry
    <2> QED
        BY <2>3, <2>4, <2>5, Zenon DEF EInv
<1>7. CASE Advertise(p)
    BY <1>1, <1>7, Zenon DEF Advertise, memos
<1> QED
    BY <1>2, <1>3, <1>4, <1>5, <1>6, <1>7, ZenonT(30) DEF PutStep

\* Damage makes a sound version unsound; a dropped memo and a restart forget.
LEMMA EnvironmentEvicts == ASSUME IInv, EInv, Rot \/ Drop \/ Restart PROVE EInv'
<1>0. /\ path \in 0..uploads /\ uploads \in Nat
      /\ path # 0 => path \in Inode
      /\ version \in [Inode -> [was : Content, bytes : Content, attrs : Attrs]]
      /\ \A r \in Reader : Found(r)
    BY ReadAssumption, TypeParts DEF IInv, Shapes, Inode, EInv
<1>1. CASE Rot
    <2>1. /\ UNCHANGED <<uploads, path, metaCache, req, put>> /\ path \in Inode
          /\ version' = [version EXCEPT ![path].bytes = Rotten(path)]
        BY <1>0, <1>1, Zenon DEF Rot, memos
    <2>2. version'[path].was = version[path].was /\ version'[path].bytes = path
        BY <1>0, <2>1 DEF Rotten
    <2>3. version'[path].was \notin Inode
        BY <2>1, <2>2, ReadAssumption DEF IInv, Files, Inode
    <2>4. ~Sound(path)'
        BY <2>1, <2>2, <2>3 DEF Sound
    <2>5. ASSUME NEW r \in Reader PROVE Found(r)'
        BY <1>0, <2>1, <2>2, <2>4 DEF Found
    <2>6. Recorded' /\ Unread'
        BY <2>1, <2>2, Zenon DEF EInv, Recorded, Unread
    <2> QED
        BY <2>5, <2>6, Zenon DEF EInv
<1>2. CASE Drop
    <2>1. UNCHANGED <<version, uploads, path, req, put>> /\ metaCache' \in {metaCache, NoEntry}
        BY <1>2, Zenon DEF Drop
    <2>2. \A r \in Reader : Found(r)'
        BY <1>0, <2>1, ZenonT(30) DEF Found, Sound
    <2>3. Recorded' /\ Unread'
        BY <1>0, <2>1 DEF EInv, Recorded, Unread, NoEntry, NoAttrs
    <2> QED
        BY <2>2, <2>3, Zenon DEF EInv
<1>3. CASE Restart
    <2>1. /\ UNCHANGED <<version, uploads, path>> /\ metaCache' = NoEntry
          /\ req' = [r \in Reader |-> Idle] /\ put' = [p \in Putter |-> NoPut]
        BY <1>3, ZenonT(30) DEF Restart, ForgetKey
    <2>2. ASSUME NEW r \in Reader PROVE Found(r)'
        <3>1. req'[r].first = 0 /\ req'[r].pc = "idle" /\ 0 \in 0..uploads'
            BY <1>0, <2>1, SMTT(30) DEF Idle
        <3> QED
            BY <3>1, Zenon DEF Found, Reading
    <2>3. Recorded' /\ Unread'
        BY <1>0, <2>1 DEF Recorded, Unread, NoEntry, NoAttrs, NoPut, Unplaced
    <2> QED
        BY <2>2, <2>3, Zenon DEF EInv
<1> QED
    BY <1>1, <1>2, <1>3, ZenonT(30)

\* Whatever requests, uploads and restarts it meets, a read that evicts for a bad
\* body takes the version it found only if that one is bad (Storage.Delete from
\* evictModuleIndexOnRead and verifyStoredDigestFor).
THEOREM EvictsOnlyBad == Spec => EvictsWhatItRead
<1>1. ASSUME Init PROVE EInv
    <2>1. \A r \in Reader : Found(r)
        <3>1. \A r \in Reader : req[r].first = 0 /\ req[r].pc = "idle"
            BY <1>1 DEF Init, Idle
        <3>2. 0 \in 0..uploads
            BY <1>1, SMTT(30) DEF Init
        <3> QED
            BY <3>1, <3>2, Zenon DEF Found, Reading
    <2>2. Recorded /\ Unread
        BY <1>1 DEF Init, Recorded, Unread, NoEntry, NoAttrs, NoPut, Unplaced
    <2> QED
        BY <2>1, <2>2, ZenonT(30) DEF EInv
<1>2. ASSUME IInv, EInv, [Next]_vars PROVE EInv'
    <2>1. CASE UNCHANGED vars
        BY <1>2, <2>1, ZenonT(30) DEF vars, EInv, Found, Recorded, Unread, Sound
    <2> QED
        BY <1>2, <2>1, ReadEvicts, PutEvicts, EnvironmentEvicts, Zenon DEF Next
<1>3. ASSUME EInv, [Next]_vars
      PROVE  [\A r \in Reader : Unlink(r) /\ req[r].kind # "delete" /\ path' # path /\ Sound(path)
                => path # req[r].first]_vars
    <2> SUFFICES ASSUME NEW r \in Reader, Unlink(r), req[r].kind # "delete", Sound(path)
                 PROVE  path # req[r].first
        BY <1>3, Zenon
    <2>1. Found(r) /\ req[r].pc = "evict"
        BY <1>3, Zenon DEF EInv, Unlink
    <2> QED
        BY <2>1, Zenon DEF Found
<1> QED
    BY <1>1, <1>2, <1>3, ReadInvariant, PTL DEF Spec, EvictsWhatItRead
=============================================================================
