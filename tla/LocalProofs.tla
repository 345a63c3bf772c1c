---------------------------- MODULE LocalProofs -----------------------------
(***************************************************************************)
(* Proofs about what reaches the client's disk: the objects of the build's *)
(* manifest, fetched ahead of the lookups (Manifest), and the files that   *)
(* the processes of a build share (LocalCache).  They hold for any         *)
(* lookups, parts, keys, processes, requests and outputs, and any crashes. *)
(*                                                                         *)
(* The fetch of a build's own manifest leaves out what a lookup claimed,   *)
(* what landed is local, and the look-ahead stays off (IInv).  A file of   *)
(* the full size has no hole because a writer puts the last byte where the *)
(* rest is already (HasFile), and an answer is whole because an entry is   *)
(* written after its output (Opened, Entries).                             *)
(***************************************************************************)
EXTENDS Manifest, LocalCache, TLAPS

----------------------------------------------------------------------------
(* The objects of the manifest.                                            *)

\* The types of what the invariant is about.
Shapes ==
    /\ path \in {"none", "own", "fallback"} /\ {gate, covered} \subseteq BOOLEAN
    /\ fetch \in [Key -> {"none", "queued", "claimed", "wire", "here", "landed", "finished"}]
    /\ part \in [Part -> {"new", "queued", "given", "marked", "wire", "back", "ended", "over"}]
    /\ req \in [Part -> SUBSET Key]

\* Which step goes with which path, and that only the fallback has turns and a judge.
Paths ==
    /\ at \in {"walk", "back"} => path = "none"
    /\ at \in {"cover", "release"} => path # "none"
    /\ (at = "mark" => path = "own") /\ (at = "turn" => path = "fallback")
    /\ path # "fallback" => ~tally.stopped
    /\ \A c \in Part : part[c] # "new" => path # "none"
    /\ \A c \in Part : part[c] \in {"given", "marked", "back"} => path = "fallback"

\* The gate opens after the walk and the cover.
Gated ==
    /\ at \in {"walk", "back", "cover"} => ~gate
    /\ pool # "held" => gate
    /\ path = "own" /\ at # "cover" => covered
    /\ path = "own" => pool # "sent"

\* Nothing is asked for before the marks are set, and what a part of the own
\* manifest asked for is neither in the queue nor claimed.
Asked ==
    /\ at \in {"walk", "back", "cover", "release", "mark"} => \A c \in Part : part[c] = "new"
    /\ \A c \in Part : part[c] = "new" => req[c] = {}
    /\ path = "own" => \A c \in Part : \A k \in req[c] : fetch[k] \notin {"queued", "claimed"}

\* An entry is stored before its lookups are let go.
Kept == \A k \in Key : fetch[k] \in {"here", "landed"} => k \in local \cup Flawed

IInv == Shapes /\ Paths /\ Gated /\ Asked /\ Kept

\* The keys a part goes for are keys.
LEMMA PartKeys == \A c \in Part : Of(c) \subseteq Key
    BY DEF Of, Key

\* The walk, the cover, the gate and the end of the fetch keep the invariant.
LEMMA FetchKeeps ==
    ASSUME IInv, Walk \/ WalkFallback \/ Cover \/ Release \/ Mark \/ TurnsEnd \/ FetchEnds \/ CloseStarts
              \/ StoreManifest \/ Expand
    PROVE  IInv'
<1>1. CASE Walk
    <2>1. Shapes'
        BY <1>1 DEF IInv, Walk, WalkManifest, tier, turns, Shapes
    <2>2. Paths'
        BY <1>1 DEF IInv, Walk, WalkManifest, tier, turns, Paths, Shapes
    <2>3. Gated'
        BY <1>1 DEF IInv, Walk, WalkManifest, tier, turns, Gated, Paths, Shapes
    <2>4. Asked'
        BY <1>1 DEF IInv, Walk, WalkManifest, tier, turns, Asked, Paths, Shapes
    <2>5. Kept'
        BY <1>1 DEF IInv, Walk, WalkManifest, tier, turns, Kept, Shapes
    <2> QED
        BY <2>1, <2>2, <2>3, <2>4, <2>5 DEF IInv
<1>2. CASE WalkFallback
    <2>1. Shapes'
        BY <1>2 DEF IInv, WalkFallback, book, tier, turns, Shapes
    <2>2. Paths'
        BY <1>2 DEF IInv, WalkFallback, book, tier, turns, Paths, Shapes
    <2>3. Gated'
        BY <1>2 DEF IInv, WalkFallback, book, tier, turns, Gated, Paths, Shapes
    <2>4. Asked'
        BY <1>2 DEF IInv, WalkFallback, book, tier, turns, Asked, Paths, Shapes
    <2>5. Kept'
        BY <1>2 DEF IInv, WalkFallback, book, tier, turns, Kept, Shapes
    <2> QED
        BY <2>1, <2>2, <2>3, <2>4, <2>5 DEF IInv
<1>3. CASE Cover
    <2>1. Shapes'
        BY <1>3 DEF IInv, Cover, book, tier, turns, Shapes
    <2>2. Paths'
        BY <1>3 DEF IInv, Cover, book, tier, turns, Paths, Shapes
    <2>3. Gated'
        BY <1>3 DEF IInv, Cover, book, tier, turns, Gated, Paths, Shapes
    <2>4. Asked'
        BY <1>3 DEF IInv, Cover, book, tier, turns, Asked, Paths, Shapes
    <2>5. Kept'
        BY <1>3 DEF IInv, Cover, book, tier, turns, Kept, Shapes
    <2> QED
        BY <2>1, <2>2, <2>3, <2>4, <2>5 DEF IInv
<1>4. CASE Release
    <2>1. Shapes'
        BY <1>4 DEF IInv, Release, book, tier, turns, Shapes
    <2>2. Paths'
        BY <1>4 DEF IInv, Release, book, tier, turns, Paths, Shapes
    <2>3. Gated'
        BY <1>4 DEF IInv, Release, book, tier, turns, Gated, Paths, Shapes
    <2>4. Asked'
        BY <1>4 DEF IInv, Release, book, tier, turns, Asked, Paths, Shapes
    <2>5. Kept'
        BY <1>4 DEF IInv, Release, book, tier, turns, Kept, Shapes
    <2> QED
        BY <2>1, <2>2, <2>3, <2>4, <2>5 DEF IInv
<1>5. CASE Mark
    <2>1. Shapes'
        BY <1>5 DEF IInv, Mark, book, tier, turns, Shapes
    <2>2. Paths'
        BY <1>5 DEF IInv, Mark, book, tier, turns, Paths, Shapes
    <2>3. Gated'
        BY <1>5 DEF IInv, Mark, book, tier, turns, Gated, Paths, Shapes
    <2>4. Asked'
        BY <1>5 DEF IInv, Mark, book, tier, turns, Asked, Paths, Shapes
    <2>5. Kept'
        BY <1>5 DEF IInv, Mark, book, tier, turns, Kept, Shapes
    <2> QED
        BY <2>1, <2>2, <2>3, <2>4, <2>5 DEF IInv
<1>6. CASE TurnsEnd
    <2>1. Shapes'
        BY <1>6 DEF IInv, TurnsEnd, book, tier, turns, Shapes
    <2>2. Paths'
        BY <1>6 DEF IInv, TurnsEnd, book, tier, turns, Paths, Shapes
    <2>3. Gated'
        BY <1>6 DEF IInv, TurnsEnd, book, tier, turns, Gated, Paths, Shapes
    <2>4. Asked'
        BY <1>6 DEF IInv, TurnsEnd, book, tier, turns, Asked, Paths, Shapes
    <2>5. Kept'
        BY <1>6 DEF IInv, TurnsEnd, book, tier, turns, Kept, Shapes
    <2> QED
        BY <2>1, <2>2, <2>3, <2>4, <2>5 DEF IInv
<1>7. CASE FetchEnds
    <2>1. Shapes'
        BY <1>7 DEF IInv, FetchEnds, book, tier, NoTally, Shapes
    <2>2. Paths'
        BY <1>7 DEF IInv, FetchEnds, book, tier, NoTally, Paths, Shapes
    <2>3. Gated'
        BY <1>7 DEF IInv, FetchEnds, book, tier, NoTally, Gated, Paths, Shapes
    <2>4. Asked'
        BY <1>7 DEF IInv, FetchEnds, book, tier, NoTally, Asked, Paths, Shapes
    <2>5. Kept'
        BY <1>7 DEF IInv, FetchEnds, book, tier, NoTally, Kept, Shapes
    <2> QED
        BY <2>1, <2>2, <2>3, <2>4, <2>5 DEF IInv
<1>8. CASE CloseStarts
    <2>1. Shapes'
        BY <1>8 DEF IInv, CloseStarts, book, tier, turns, Shapes
    <2>2. Paths'
        BY <1>8 DEF IInv, CloseStarts, book, tier, turns, Paths, Shapes
    <2>3. Gated'
        BY <1>8 DEF IInv, CloseStarts, book, tier, turns, Gated, Paths, Shapes
    <2>4. Asked'
        BY <1>8 DEF IInv, CloseStarts, book, tier, turns, Asked, Paths, Shapes
    <2>5. Kept'
        BY <1>8 DEF IInv, CloseStarts, book, tier, turns, Kept, Shapes
    <2> QED
        BY <2>1, <2>2, <2>3, <2>4, <2>5 DEF IInv
<1>9. CASE StoreManifest
    <2>1. Shapes'
        BY <1>9, SMTT(30) DEF IInv, StoreManifest, tier, turns, Shapes
    <2>2. Paths'
        BY <1>9 DEF IInv, StoreManifest, tier, turns, Paths, Shapes
    <2>3. Gated'
        BY <1>9, SMTT(30) DEF IInv, StoreManifest, tier, turns, Gated, Paths, Shapes
    <2>4. Asked'
        BY <1>9 DEF IInv, StoreManifest, tier, turns, Asked, Paths, Shapes
    <2>5. Kept'
        BY <1>9 DEF IInv, StoreManifest, tier, turns, Kept, Shapes
    <2> QED
        BY <2>1, <2>2, <2>3, <2>4, <2>5 DEF IInv
<1>10. CASE Expand
    <2>1. Shapes'
        BY <1>10 DEF IInv, Expand, book, tier, turns, Shapes
    <2>2. Paths'
        BY <1>10 DEF IInv, Expand, book, tier, turns, Paths, Shapes
    <2>3. Gated'
        BY <1>10 DEF IInv, Expand, book, tier, turns, Gated, Paths, Shapes
    <2>4. Asked'
        BY <1>10 DEF IInv, Expand, book, tier, turns, Asked, Paths, Shapes
    <2>5. Kept'
        BY <1>10 DEF IInv, Expand, book, tier, turns, Kept, Shapes
    <2> QED
        BY <2>1, <2>2, <2>3, <2>4, <2>5 DEF IInv
<1> QED
    BY <1>1, <1>2, <1>3, <1>4, <1>5, <1>6, <1>7, <1>8, <1>9, <1>10

\* A part that is handed out, marked, sent and ended keeps it.
LEMMA PartKeeps ==
    ASSUME IInv, NEW c \in Part, PartStep(c)
    PROVE  IInv'
<1>1. CASE Send(c)
    <2>1. Shapes'
        BY <1>1, PartKeys DEF IInv, Send, OnWire, book, tier, turns, Shapes
    <2>2. Paths'
        BY <1>1, PartKeys DEF IInv, Send, OnWire, book, tier, turns, Paths, Shapes
    <2>3. Gated'
        BY <1>1, PartKeys DEF IInv, Send, OnWire, book, tier, turns, Gated, Paths, Shapes
    <2>4. Asked'
        BY <1>1, PartKeys DEF IInv, Send, OnWire, book, tier, turns, Asked, Paths, Shapes
    <2>5. Kept'
        BY <1>1, PartKeys DEF IInv, Send, OnWire, book, tier, turns, Kept, Shapes
    <2> QED
        BY <2>1, <2>2, <2>3, <2>4, <2>5 DEF IInv
<1>2. CASE Turn(c)
    <2>1. Shapes'
        BY <1>2 DEF IInv, Turn, book, tier, Shapes
    <2>2. Paths'
        BY <1>2 DEF IInv, Turn, book, tier, Paths, Shapes
    <2>3. Gated'
        BY <1>2 DEF IInv, Turn, book, tier, Gated, Paths, Shapes
    <2>4. Asked'
        BY <1>2 DEF IInv, Turn, book, tier, Asked, Paths, Shapes
    <2>5. Kept'
        BY <1>2 DEF IInv, Turn, book, tier, Kept, Shapes
    <2> QED
        BY <2>1, <2>2, <2>3, <2>4, <2>5 DEF IInv
<1>3. CASE MarkGiven(c)
    <2>1. Shapes'
        BY <1>3 DEF IInv, MarkGiven, book, tier, turns, Shapes
    <2>2. Paths'
        BY <1>3 DEF IInv, MarkGiven, book, tier, turns, Paths, Shapes
    <2>3. Gated'
        BY <1>3 DEF IInv, MarkGiven, book, tier, turns, Gated, Paths, Shapes
    <2>4. Asked'
        BY <1>3 DEF IInv, MarkGiven, book, tier, turns, Asked, Paths, Shapes
    <2>5. Kept'
        BY <1>3 DEF IInv, MarkGiven, book, tier, turns, Kept, Shapes
    <2> QED
        BY <2>1, <2>2, <2>3, <2>4, <2>5 DEF IInv
<1>4. CASE SendGiven(c)
    <2>1. Shapes'
        BY <1>4, PartKeys DEF IInv, SendGiven, book, tier, turns, OnWire, Shapes
    <2>2. Paths'
        BY <1>4, PartKeys DEF IInv, SendGiven, book, tier, turns, OnWire, Paths, Shapes
    <2>3. Gated'
        BY <1>4, PartKeys, SMTT(30) DEF IInv, SendGiven, book, tier, turns, OnWire, Gated, Paths, Shapes
    <2>4. Asked'
        BY <1>4, PartKeys DEF IInv, SendGiven, book, tier, turns, OnWire, Asked, Paths, Shapes
    <2>5. Kept'
        BY <1>4, PartKeys DEF IInv, SendGiven, book, tier, turns, OnWire, Kept, Shapes
    <2> QED
        BY <2>1, <2>2, <2>3, <2>4, <2>5 DEF IInv
<1>5. CASE StreamEnds(c)
    <2>1. Shapes'
        BY <1>5 DEF IInv, StreamEnds, book, tier, turns, Shapes
    <2>2. Paths'
        BY <1>5 DEF IInv, StreamEnds, book, tier, turns, Paths, Shapes
    <2>3. Gated'
        BY <1>5, SMTT(30) DEF IInv, StreamEnds, book, tier, turns, Gated, Paths, Shapes
    <2>4. Asked'
        BY <1>5 DEF IInv, StreamEnds, book, tier, turns, Asked, Paths, Shapes
    <2>5. Kept'
        BY <1>5 DEF IInv, StreamEnds, book, tier, turns, Kept, Shapes
    <2> QED
        BY <2>1, <2>2, <2>3, <2>4, <2>5 DEF IInv
<1>6. CASE NoteLanded(c)
    <2>1. Shapes'
        BY <1>6 DEF IInv, NoteLanded, book, tier, Shapes
    <2>2. Paths'
        BY <1>6 DEF IInv, NoteLanded, book, tier, Paths, Shapes
    <2>3. Gated'
        BY <1>6 DEF IInv, NoteLanded, book, tier, Gated, Paths, Shapes
    <2>4. Asked'
        BY <1>6 DEF IInv, NoteLanded, book, tier, Asked, Paths, Shapes
    <2>5. Kept'
        BY <1>6 DEF IInv, NoteLanded, book, tier, Kept, Shapes
    <2> QED
        BY <2>1, <2>2, <2>3, <2>4, <2>5 DEF IInv
<1>7. CASE Finish(c)
    <2>1. Shapes'
        BY <1>7 DEF IInv, Finish, book, tier, turns, Shapes
    <2>2. Paths'
        BY <1>7 DEF IInv, Finish, book, tier, turns, Paths, Shapes
    <2>3. Gated'
        BY <1>7, SMTT(30) DEF IInv, Finish, book, tier, turns, Gated, Paths, Shapes
    <2>4. Asked'
        BY <1>7 DEF IInv, Finish, book, tier, turns, Asked, Paths, Shapes
    <2>5. Kept'
        BY <1>7, SMTT(30) DEF IInv, Finish, book, tier, turns, Kept, Shapes
    <2> QED
        BY <2>1, <2>2, <2>3, <2>4, <2>5 DEF IInv
<1>8. CASE \E k \in Key : Arrive(c, k)
    <2>1. Shapes'
        BY <1>8 DEF IInv, Arrive, book, turns, Populate, Shapes
    <2>2. Paths'
        BY <1>8, SMTT(30) DEF IInv, Arrive, book, turns, Populate, Paths, Shapes
    <2>3. Gated'
        BY <1>8, SMTT(30) DEF IInv, Arrive, book, turns, Populate, Gated, Paths, Shapes
    <2>4. Asked'
        BY <1>8 DEF IInv, Arrive, book, turns, Populate, Asked, Paths, Shapes
    <2>5. Kept'
        BY <1>8 DEF IInv, Arrive, book, turns, Populate, Kept, Shapes
    <2> QED
        BY <2>1, <2>2, <2>3, <2>4, <2>5 DEF IInv
<1> QED
    BY <1>1, <1>2, <1>3, <1>4, <1>5, <1>6, <1>7, <1>8 DEF PartStep

\* So does a lookup, which may claim a key.
LEMMA LookupKeeps ==
    ASSUME IInv, NEW l \in Lookup, LookupStep(l) \/ GiveUp(l)
    PROVE  IInv'
<1>1. CASE Look(l)
    <2>1. Shapes'
        BY <1>1 DEF IInv, Look, book, turns, NoteLookup, Shapes
    <2>2. Paths'
        BY <1>1 DEF IInv, Look, book, turns, NoteLookup, Paths, Shapes
    <2>3. Gated'
        BY <1>1 DEF IInv, Look, book, turns, NoteLookup, Gated, Paths, Shapes
    <2>4. Asked'
        BY <1>1 DEF IInv, Look, book, turns, NoteLookup, Asked, Paths, Shapes
    <2>5. Kept'
        BY <1>1, SMTT(30) DEF IInv, Look, book, turns, NoteLookup, Kept, Shapes
    <2> QED
        BY <2>1, <2>2, <2>3, <2>4, <2>5 DEF IInv
<1>2. CASE AwaitPrefetch(l)
    <2>1. Shapes'
        BY <1>2, SMTT(30) DEF IInv, AwaitPrefetch, book, tier, turns, Key, Shapes
    <2>2. Paths'
        BY <1>2, SMTT(30) DEF IInv, AwaitPrefetch, book, tier, turns, Key, Paths, Shapes
    <2>3. Gated'
        BY <1>2, SMTT(30) DEF IInv, AwaitPrefetch, book, tier, turns, Key, Gated, Paths, Shapes
    <2>4. Asked'
        BY <1>2, SMTT(30) DEF IInv, AwaitPrefetch, book, tier, turns, Key, Asked, Paths, Shapes
    <2>5. Kept'
        BY <1>2 DEF IInv, AwaitPrefetch, book, tier, turns, Key, Kept, Shapes
    <2> QED
        BY <2>1, <2>2, <2>3, <2>4, <2>5 DEF IInv
<1>3. CASE Released(l)
    <2>1. Shapes'
        BY <1>3 DEF IInv, Released, book, turns, NoteLookup, Shapes
    <2>2. Paths'
        BY <1>3 DEF IInv, Released, book, turns, NoteLookup, Paths, Shapes
    <2>3. Gated'
        BY <1>3 DEF IInv, Released, book, turns, NoteLookup, Gated, Paths, Shapes
    <2>4. Asked'
        BY <1>3 DEF IInv, Released, book, turns, NoteLookup, Asked, Paths, Shapes
    <2>5. Kept'
        BY <1>3 DEF IInv, Released, book, turns, NoteLookup, Kept, Shapes
    <2> QED
        BY <2>1, <2>2, <2>3, <2>4, <2>5 DEF IInv
<1>4. CASE AskItself(l)
    <2>1. Shapes'
        BY <1>4 DEF IInv, AskItself, book, NoteLookup, Shapes
    <2>2. Paths'
        BY <1>4 DEF IInv, AskItself, book, NoteLookup, Paths, Shapes
    <2>3. Gated'
        BY <1>4 DEF IInv, AskItself, book, NoteLookup, Gated, Paths, Shapes
    <2>4. Asked'
        BY <1>4 DEF IInv, AskItself, book, NoteLookup, Asked, Paths, Shapes
    <2>5. Kept'
        BY <1>4 DEF IInv, AskItself, book, NoteLookup, Kept, Shapes
    <2> QED
        BY <2>1, <2>2, <2>3, <2>4, <2>5 DEF IInv
<1>5. CASE Answer(l)
    <2>1. Shapes'
        BY <1>5, SMTT(30) DEF IInv, Answer, book, turns, Shapes
    <2>2. Paths'
        BY <1>5, SMTT(30) DEF IInv, Answer, book, turns, Paths, Shapes
    <2>3. Gated'
        BY <1>5, SMTT(30) DEF IInv, Answer, book, turns, Gated, Paths, Shapes
    <2>4. Asked'
        BY <1>5 DEF IInv, Answer, book, turns, Asked, Paths, Shapes
    <2>5. Kept'
        BY <1>5, SMTT(30) DEF IInv, Answer, book, turns, Kept, Shapes
    <2> QED
        BY <2>1, <2>2, <2>3, <2>4, <2>5 DEF IInv
<1>6. CASE GiveUp(l)
    <2>1. Shapes'
        BY <1>6, SMTT(30) DEF IInv, GiveUp, book, tier, turns, Shapes
    <2>2. Paths'
        BY <1>6, SMTT(30) DEF IInv, GiveUp, book, tier, turns, Paths, Shapes
    <2>3. Gated'
        BY <1>6, SMTT(30) DEF IInv, GiveUp, book, tier, turns, Gated, Paths, Shapes
    <2>4. Asked'
        BY <1>6, SMTT(30) DEF IInv, GiveUp, book, tier, turns, Asked, Paths, Shapes
    <2>5. Kept'
        BY <1>6 DEF IInv, GiveUp, book, tier, turns, Kept, Shapes
    <2> QED
        BY <2>1, <2>2, <2>3, <2>4, <2>5 DEF IInv
<1> QED
    BY <1>1, <1>2, <1>3, <1>4, <1>5, <1>6 DEF LookupStep

\* The invariant holds of every reachable state.
THEOREM PrefetchInvariant == Spec => []IInv
<1>1. Init => IInv
    <2> SUFFICES ASSUME Init PROVE IInv
        OBVIOUS
    <2>1. Shapes
        BY Zenon DEF Init, Shapes
    <2>a. path = "none" /\ at = "walk" /\ gate = FALSE /\ pool = "held" /\ tally.stopped = FALSE
        BY DEF Init, NoTally
    <2>b. \A c \in Part : part[c] = "new" /\ req[c] = {}
        BY DEF Init
    <2>2. Paths /\ Gated
        BY <2>a, <2>b DEF Paths, Gated
    <2>3. Asked
        BY <2>a, <2>b DEF Asked
    <2>4. Kept
        BY DEF Init, Kept
    <2> QED
        BY <2>1, <2>2, <2>3, <2>4 DEF IInv
<1>2. IInv /\ [Next]_vars => IInv'
    <2> SUFFICES ASSUME IInv, [Next]_vars PROVE IInv'
        OBVIOUS
    <2>1. CASE \E k \in Key : Landed(k)
        <3>1. Shapes' /\ Paths' /\ Gated'
            BY <2>1, SMTT(30) DEF IInv, Landed, Shapes, Paths, Gated, book, tier, turns
        <3>2. Asked' /\ Kept'
            BY <2>1 DEF IInv, Landed, Shapes, Asked, Kept, book, tier, turns
        <3> QED
            BY <3>1, <3>2, SMTT(30) DEF IInv
    <2>2. CASE \E c \in Part : PartStep(c)
        BY <2>2, PartKeeps
    <2>3. CASE \E l \in Lookup : LookupStep(l) \/ GiveUp(l)
        BY <2>3, LookupKeeps
    <2>4. CASE Walk \/ WalkFallback \/ Cover \/ Release \/ Mark \/ TurnsEnd \/ FetchEnds
               \/ CloseStarts \/ StoreManifest \/ Expand
        BY <2>4, FetchKeeps, SMTT(30)
    <2>5. CASE UNCHANGED vars
        BY <2>5 DEF vars, book, tier, turns, IInv, Shapes, Paths, Gated, Asked, Kept
    <2> QED
        BY <2>1, <2>2, <2>3, <2>4, <2>5 DEF Next, Running
<1> QED
    BY <1>1, <1>2, PTL DEF Spec

\* The fetch of the build's own manifest never asks for a key a lookup claimed
\* (AwaitPrefetch, send).
THEOREM ClaimsStay == Spec => []ClaimedLeftOut
<1>1. IInv => ClaimedLeftOut
    BY DEF IInv, Shapes, Asked, ClaimedLeftOut
<1> QED
    BY <1>1, PrefetchInvariant, PTL

\* A lookup let go because its entry landed finds it (fetchNamed, landed).
THEOREM LandedFound == Spec => []LandedIsLocal
<1>1. IInv => LandedIsLocal
    BY DEF IInv, Kept, LandedIsLocal
<1> QED
    BY <1>1, PrefetchInvariant, PTL

\* The look-ahead stays off while the build's own manifest covers it (hold,
\* cover, release).
THEOREM LookAheadStaysOff == Spec => []CoveredSendsNoWindow
<1>1. IInv => CoveredSendsNoWindow
    BY DEF IInv, Gated, CoveredSendsNoWindow
<1> QED
    BY <1>1, PrefetchInvariant, PTL

----------------------------------------------------------------------------
(* The files on disk.                                                      *)

\* The outputs a request may write: what the store serves it, and its own.
MayWrite(q) == {Served(Action(q))} \cup (IF Kind(q) # "get" THEN {Out(q)} ELSE {})

\* The outputs whose copy does not fail, or that one request alone may write.
\* (MCLocalHoles has a file with a hole: two requests write it, and one fails.)
Alone(o) == \A p, q \in Req : o \in MayWrite(p) /\ o \in MayWrite(q) => p = q
Safe == {o \in Outs : o \in Faulty => Alone(o)}
FaultsAlone == \A o \in Faulty : Alone(o)

\* Neither a miss nor an error is the name of an output.
Named == \A q \in Req : Out(q) \notin {None, "error"} /\ Served(Action(q)) \notin {None, "error"}

Copies == {"copy", "pre", "last", "entry"}
Sound(o) == body[o] = Whole \/ o \in cut

\* A request with an open file, or past it.
HasFile(q) ==
    /\ q \in fd => body[Writes(q)] # Gone
    /\ q \in fd /\ pc[q] = "last" => "pre" \in body[Writes(q)]
    /\ pc[q] \in {"pre", "last"} => q \in fd \/ Sound(Writes(q))
    /\ pc[q] \in {"pre", "last"} /\ Writes(q) \in Faulty => body[Writes(q)] # Whole
    /\ pc[q] = "entry" => Sound(Writes(q))
Opened(q) ==
    /\ q \in fd => pc[q] \in {"pre", "last"}
    /\ pc[q] \in Copies => q \in keeps \/ Kind(q) # "get"
    /\ Writes(q) \in Safe => HasFile(q)
Tables ==
    /\ body = [o \in Outs |-> body[o]] /\ act = [a \in Acts |-> act[a]]
    /\ pc = [q \in Req |-> pc[q]] /\ ask = [q \in Req |-> ask[q]]
Unasked == \A q \in Req : ask[q] = "new" => pc[q] = "idle"
Bodies == \A o \in Safe : body[o] \in {Gone, {}, {"pre"}, Whole}
Entries == \A a \in Acts : act[a] \in Safe => Sound(act[a])
Answered == \A q \in Req : got[q] \in Safe => Sound(got[q])
CacheInv ==
    /\ Tables /\ Unasked /\ Bodies /\ (\A q \in Req : Opened(q))
    /\ Entries /\ Answered

\* What the writes make of a file.
LEMMA Contents ==
    /\ Gone # {} /\ Gone # {"pre"} /\ Gone # Whole /\ {} # Whole /\ {"pre"} # Whole
    /\ {} \cup {"pre"} = {"pre"} /\ {"pre"} \cup {"pre"} = {"pre"} /\ Whole \cup {"pre"} = Whole
    /\ {"pre"} \cup {"last"} = Whole /\ Whole \cup {"last"} = Whole
    /\ Gone \ Gone = {} /\ {} \ Gone = {} /\ {"pre"} \ Gone = {"pre"}
    /\ "pre" \notin {} /\ "pre" \notin Gone /\ "pre" \in {"pre"} /\ "pre" \in Whole
    /\ "last" \notin {} /\ "last" \notin Gone /\ "last" \notin {"pre"}
    BY DEF Gone, Whole

\* Safe outputs are outputs, and neither a miss nor an error.
LEMMA SafeOuts ==
    /\ \A o \in Safe : o \in Outs
    /\ Named => None \notin Safe /\ "error" \notin Safe
<1>1. \A o \in Safe : o \in Outs
    BY DEF Safe
<1>2. ASSUME Named PROVE None \notin Outs /\ "error" \notin Outs
    BY <1>2 DEF Named, Outs, Acts
<1> QED
    BY <1>1, <1>2, Zenon

\* What a request asks for and writes is among the actions and the outputs.
LEMMA Outputs == \A q \in Req : Action(q) \in Acts /\ Writes(q) \in Outs
<1>1. \A q \in Req : Action(q) \in Acts
    BY DEF Acts
<1>2. \A q \in Req : Out(q) \in Outs
    BY DEF Outs
<1>3. \A a \in Acts : Served(a) \in Outs
    BY DEF Outs
<1> QED
    BY <1>1, <1>2, <1>3, Zenon DEF Writes

\* Requests that are past the choice of what they write may write it.
LEMMA WritesMay ==
    ASSUME CacheInv, NEW q \in Req, pc[q] \in Copies
    PROVE  Writes(q) \in MayWrite(q)
<1>1. q \in keeps \/ Kind(q) # "get"
    BY Zenon DEF CacheInv, Opened
<1> QED
    BY <1>1 DEF Writes, MayWrite

\* An output whose copy may fail has one writer.
LEMMA OneWriter ==
    ASSUME CacheInv, NEW p \in Req, NEW q \in Req, pc[p] \in Copies, pc[q] \in Copies,
           Writes(p) = Writes(q), Writes(q) \in Faulty, Writes(q) \in Safe
    PROVE  p = q
<1>1. \A x, y \in Req : Writes(q) \in MayWrite(x) /\ Writes(q) \in MayWrite(y) => x = y
    BY DEF Safe, Alone
<1> QED
    BY <1>1, WritesMay, Zenon

\* A table by request, action or output of which one entry changes.
LEMMA OneChanges ==
    ASSUME NEW S, NEW f, f = [v \in S |-> f[v]], NEW u \in S, NEW x, NEW g, g = [f EXCEPT ![u] = x]
    PROVE  g = [v \in S |-> g[v]] /\ g[u] = x /\ \A v \in S : v # u => g[v] = f[v]
    OBVIOUS

\* Request q goes to step l; others stay, or have joined its flight and leave it.
MovesTo(q, l) ==
    /\ pc' = [p \in Req |-> pc'[p]] /\ pc'[q] = l
    /\ \A p \in Req : p # q => pc'[p] = pc[p] \/ (pc[p] = "joined" /\ pc'[p] \in {"replied", "look"})
Answers(r) == \A p \in Req : got'[p] = got[p] \/ got'[p] = r

\* A request that goes on moves alone and answers nobody (Continue).
LEMMA Continues ==
    ASSUME CacheInv, NEW q \in Req, NEW l, Continue(q, l)
    PROVE  MovesTo(q, l) /\ Answers(None)
<1>1. pc' = [p \in Req |-> pc'[p]] /\ pc'[q] = l /\ \A p \in Req : p # q => pc'[p] = pc[p]
    BY OneChanges, Zenon DEF CacheInv, Tables, Continue, Go
<1>2. got' = got
    BY Zenon DEF Continue
<1> QED
    BY <1>1, <1>2, Zenon DEF MovesTo, Answers

\* A request that is over takes the ones that joined its flight with it (Reply).
LEMMA Finishes ==
    ASSUME NEW q \in Req, NEW r, Reply(q, r)
    PROVE  MovesTo(q, "replied") /\ Answers(r)
<1> DEFINE J == IF q \in {gets[Action(q)], puts[Action(q)]} THEN Joined(q) ELSE {}
<1>1. pc' = [j \in Req |-> IF j = q THEN "replied"
                           ELSE IF j \in J THEN (IF Kind(q) = "get" THEN "replied" ELSE "look")
                           ELSE pc[j]]
    BY Zenon DEF Reply
<1>2. got' = [j \in Req |-> IF j = q \/ (j \in J /\ Kind(q) = "get") THEN r ELSE got[j]]
    BY Zenon DEF Reply
<1>3. \A j \in J : pc[j] = "joined"
    BY DEF Joined
<1>4. Answers(r)
    BY <1>2, Zenon DEF Answers
<1> HIDE DEF J
<1>5. /\ pc'[q] = "replied"
      /\ \A p \in Req : p # q => pc'[p] = pc[p] \/ (pc[p] = "joined" /\ pc'[p] \in {"replied", "look"})
    BY <1>1, <1>3, Zenon
<1>6. pc' = [p \in Req |-> pc'[p]]
    BY <1>1, Zenon
<1> QED
    BY <1>4, <1>5, <1>6, Zenon DEF MovesTo

\* What a step may do to the outputs, and to the file of another request.
Sounds(o) == body'[o] = Whole \/ o \in cut'
SoundKept == \A o \in Safe : Sound(o) => Sounds(o)
FileKept(p) ==
    /\ p \in fd' => /\ body'[Writes(p)] # Gone
                    /\ "pre" \in body[Writes(p)] => "pre" \in body'[Writes(p)]
    /\ p \in fd => p \in fd' \/ body'[Writes(p)] = Whole \/ Writes(p) \in cut'
    /\ Writes(p) \in Faulty /\ pc[p] \in {"pre", "last"} /\ body[Writes(p)] # Whole
          => body'[Writes(p)] # Whole

\* A request that stays where it is, its file kept, keeps what Opened says of it.
LEMMA StayOpened ==
    ASSUME CacheInv, SoundKept, NEW p \in Req, pc'[p] = pc[p], p \in keeps' <=> p \in keeps,
           p \in fd' => p \in fd, pc[p] \in Copies /\ Writes(p) \in Safe => FileKept(p)
    PROVE  Opened(p)'
<1>1. Opened(p)
    BY Zenon DEF CacheInv
<1>2. Writes(p)' = Writes(p)
    BY Zenon DEF Writes
<1>3. CASE pc[p] \notin Copies
    <2>1. p \notin fd'
        BY <1>1, <1>3, Zenon DEF Opened, Copies
    <2> QED
        BY <1>3, <2>1, Zenon DEF Opened, HasFile, Copies
<1>4. ASSUME pc[p] \in Copies, Writes(p) \in Safe PROVE HasFile(p)'
    <2>1. FileKept(p) /\ HasFile(p)
        BY <1>1, <1>4, Zenon DEF Opened
    <2>2. Sound(Writes(p)) => Sound(Writes(p))'
        BY <1>2, <1>4, Zenon DEF SoundKept, Sound, Sounds
    <2>3. p \in fd' => body'[Writes(p)'] # Gone
        BY <1>2, <2>1, Zenon DEF FileKept
    <2>4. p \in fd' /\ pc'[p] = "last" => "pre" \in body'[Writes(p)']
        BY <1>2, <2>1, Zenon DEF HasFile, FileKept
    <2>5. pc'[p] \in {"pre", "last"} => p \in fd' \/ Sound(Writes(p))'
        BY <1>2, <2>1, <2>2, Zenon DEF HasFile, FileKept, Sound
    <2>6. pc'[p] \in {"pre", "last"} /\ Writes(p)' \in Faulty => body'[Writes(p)'] # Whole
        BY <1>2, <2>1, Zenon DEF HasFile, FileKept
    <2>7. pc'[p] = "entry" => Sound(Writes(p))'
        BY <2>1, <2>2, Zenon DEF HasFile
    <2> QED
        BY <2>3, <2>4, <2>5, <2>6, <2>7, Zenon DEF HasFile
<1>5. CASE pc[p] \in Copies
    BY <1>1, <1>2, <1>4, <1>5, Zenon DEF Opened
<1> QED
    BY <1>3, <1>5

\* The requests other than the one that takes the step.
LEMMA OthersStay ==
    ASSUME CacheInv, SoundKept, NEW q \in Req, NEW l, MovesTo(q, l),
           \A p \in Req : p # q => (p \in keeps' <=> p \in keeps) /\ (p \in fd' => p \in fd),
           \A p \in Req : p # q /\ pc[p] \in Copies /\ Writes(p) \in Safe => FileKept(p)
    PROVE  \A p \in Req : p # q => Opened(p)'
<1> SUFFICES ASSUME NEW p \in Req, p # q PROVE Opened(p)'
    BY Zenon
<1>1. CASE pc'[p] = pc[p]
    BY <1>1, StayOpened, Zenon
<1>2. CASE pc[p] = "joined" /\ pc'[p] \in {"replied", "look"}
    <2>1. p \notin fd
        BY <1>2, Zenon DEF CacheInv, Opened
    <2> QED
        BY <1>2, <2>1, Zenon DEF Opened, HasFile, Copies
<1> QED
    BY <1>1, <1>2, Zenon DEF MovesTo

\* A step that leaves the files alone.
LEMMA FilesStay ==
    ASSUME CacheInv, UNCHANGED <<body, cut, fd>>
    PROVE  SoundKept /\ Bodies' /\ \A p \in Req : Writes(p) \in Safe => FileKept(p)
<1>1. SoundKept
    BY Zenon DEF SoundKept, Sound, Sounds
<1>2. Bodies'
    BY Zenon DEF CacheInv, Bodies
<1>3. ASSUME NEW p \in Req, Writes(p) \in Safe PROVE FileKept(p)
    <2>1. HasFile(p)
        BY <1>3, Zenon DEF CacheInv, Opened
    <2> QED
        BY <2>1, Zenon DEF FileKept, HasFile
<1> QED
    BY <1>1, <1>2, <1>3, Zenon

\* The answers and the entries stay sound.
LEMMA StaySound ==
    ASSUME CacheInv, SoundKept, NEW r, Answers(r), r \in Safe => Sounds(r),
           \A a \in Acts : act'[a] = act[a] \/ (act'[a] \in Safe => Sounds(act'[a]))
    PROVE  Entries' /\ Answered'
<1>1. ASSUME NEW a \in Acts, act'[a] \in Safe PROVE Sounds(act'[a])
    <2>1. CASE act'[a] = act[a]
        <3>1. Sound(act[a])
            BY <1>1, <2>1, Zenon DEF CacheInv, Entries
        <3> QED
            BY <1>1, <2>1, <3>1, Zenon DEF SoundKept
    <2> QED
        BY <1>1, <2>1, Zenon
<1>2. ASSUME NEW p \in Req, got'[p] \in Safe PROVE Sounds(got'[p])
    <2>1. CASE got'[p] = got[p]
        <3>1. Sound(got[p])
            BY <1>2, <2>1, Zenon DEF CacheInv, Answered
        <3> QED
            BY <1>2, <2>1, <3>1, Zenon DEF SoundKept
    <2>2. CASE got'[p] = r
        BY <1>2, <2>2, Zenon
    <2> QED
        BY <2>1, <2>2, Zenon DEF Answers
<1> QED
    BY <1>1, <1>2, Zenon DEF Entries, Answered, Sound, Sounds

\* A step of the goroutine that serves q, put together.
LEMMA ServeKeeps ==
    ASSUME CacheInv, NEW q \in Req, NEW l, MovesTo(q, l), pc[q] # "idle", UNCHANGED ask, SoundKept,
           body' = [o \in Outs |-> body'[o]], act' = [a \in Acts |-> act'[a]],
           \A p \in Req : p # q => (p \in keeps' <=> p \in keeps) /\ (p \in fd' => p \in fd),
           \A p \in Req : p # q /\ pc[p] \in Copies /\ Writes(p) \in Safe => FileKept(p),
           Opened(q)', Bodies', Entries', Answered'
    PROVE  CacheInv'
<1>1. Tables'
    BY Zenon DEF CacheInv, Tables, MovesTo
<1>2. ASSUME NEW p \in Req, ask'[p] = "new" PROVE pc'[p] = "idle"
    <2>1. pc[p] = "idle"
        BY <1>2, Zenon DEF CacheInv, Unasked
    <2> QED
        BY <2>1, Zenon DEF MovesTo
<1>3. \A p \in Req : Opened(p)'
    BY OthersStay, Zenon
<1> QED
    BY <1>1, <1>2, <1>3, Zenon DEF CacheInv, Unasked

\* The steps that leave the files alone.
LEMMA CalmKeeps ==
    ASSUME CacheInv, NEW q \in Req, NEW l, MovesTo(q, l), NEW r, Answers(r), r \in Safe => Sounds(r),
           pc[q] \notin {"idle", "pre", "last"}, UNCHANGED <<body, cut, fd, ask>>,
           \A p \in Req : p # q => (p \in keeps' <=> p \in keeps),
           act' = [a \in Acts |-> act'[a]],
           \A a \in Acts : act'[a] = act[a] \/ (act'[a] \in Safe => Sounds(act'[a])),
           l = "entry" /\ Writes(q) \in Safe => Sounds(Writes(q)), l \notin {"pre", "last"},
           l \in Copies => q \in keeps' \/ Kind(q) # "get", l = "entry" => keeps' = keeps
    PROVE  CacheInv'
<1>1. SoundKept /\ Bodies' /\ \A p \in Req : Writes(p) \in Safe => FileKept(p)
    BY FilesStay, Zenon
<1>2. Entries' /\ Answered'
    BY <1>1, StaySound, Zenon
<1>3. q \notin fd'
    BY Zenon DEF CacheInv, Opened
<1>4. pc'[q] = l
    BY Zenon DEF MovesTo
<1>5. l = "entry" /\ Writes(q)' \in Safe => Sound(Writes(q))'
    <2>1. l = "entry" => Writes(q)' = Writes(q)
        BY Zenon DEF Writes
    <2> QED
        BY <2>1, Zenon DEF Sound, Sounds
<1>6. Opened(q)'
    BY <1>3, <1>4, <1>5, Zenon DEF Opened, HasFile
<1>7. body' = [o \in Outs |-> body'[o]]
    BY Zenon DEF CacheInv, Tables
<1>8. pc[q] # "idle" /\ UNCHANGED ask /\ \A p \in Req : p \in fd' => p \in fd
    BY Zenon
<1> QED
    BY <1>1, <1>2, <1>6, <1>7, <1>8, ServeKeeps, Zenon

\* Disk and the store are asked (LookOnDisk, Remote, SkipCopy).
LEMMA AskedKeeps ==
    ASSUME CacheInv, Named, NEW q \in Req, LookOnDisk(q) \/ Remote(q) \/ SkipCopy(q)
    PROVE  CacheInv'
<1>1. UNCHANGED <<body, cut, fd, ask, act>> /\ act' = [a \in Acts |-> act'[a]]
    BY Zenon DEF LookOnDisk, Remote, SkipCopy, procs, disk, CacheInv, Tables
<1>2. \A a \in Acts : act'[a] = act[a] \/ (act'[a] \in Safe => Sounds(act'[a]))
    BY <1>1, Zenon
<1>3. None \in Safe => Sounds(None)
    BY SafeOuts, Zenon
<1>4. Action(q) \in Acts /\ Writes(q) \in Outs
    BY Outputs, Zenon
<1>5. /\ \A l \in {"replied", "remote"} : l \notin Copies
      /\ \A l \in {"replied", "remote", "copy"} : l \notin {"pre", "last"} /\ l # "entry"
    BY DEF Copies
<1>6. ASSUME Missed(q), pc[q] \notin {"idle", "pre", "last"},
             \A p \in Req : p # q => (p \in keeps' <=> p \in keeps)
      PROVE  CacheInv'
    <2>1. CASE Reply(q, None)
        <3>1. MovesTo(q, "replied") /\ Answers(None)
            BY <2>1, Finishes, Zenon
        <3> QED
            BY <1>1, <1>2, <1>3, <1>5, <1>6, <3>1, CalmKeeps, Zenon
    <2>2. CASE Continue(q, "copy") /\ Kind(q) # "get"
        <3>1. MovesTo(q, "copy") /\ Answers(None)
            BY <2>2, Continues, Zenon
        <3> QED
            BY <1>1, <1>2, <1>3, <1>5, <1>6, <2>2, <3>1, CalmKeeps, Zenon
    <2> QED
        BY <1>6, <2>1, <2>2, Zenon DEF Missed
<1>7. CASE LookOnDisk(q)
    <2>1. /\ keeps' = keeps \ {q} /\ pc[q] \notin {"idle", "pre", "last"}
          /\ \/ act[Action(q)] # None /\ Reply(q, act[Action(q)])
             \/ Continue(q, "remote")
             \/ Missed(q)
        BY <1>7, Zenon DEF LookOnDisk
    <2>2. \A p \in Req : p # q => (p \in keeps' <=> p \in keeps)
        BY <2>1
    <2>3. CASE Reply(q, act[Action(q)])
        <3>1. MovesTo(q, "replied") /\ Answers(act[Action(q)])
            BY <2>3, Finishes, Zenon
        <3>2. act[Action(q)] \in Safe => Sounds(act[Action(q)])
            BY <1>1, <1>4, Zenon DEF CacheInv, Entries, Sound, Sounds
        <3> QED
            BY <1>1, <1>2, <1>5, <2>1, <2>2, <3>1, <3>2, CalmKeeps, Zenon
    <2>4. CASE Continue(q, "remote")
        <3>1. MovesTo(q, "remote") /\ Answers(None)
            BY <2>4, Continues, Zenon
        <3> QED
            BY <1>1, <1>2, <1>3, <1>5, <2>1, <2>2, <3>1, CalmKeeps, Zenon
    <2> QED
        BY <1>6, <2>1, <2>2, <2>3, <2>4, Zenon
<1>8. CASE Remote(q)
    <2>1. /\ pc[q] = "remote"
          /\ \/ Missed(q) /\ keeps' = keeps
             \/ Continue(q, "copy") /\ keeps' = keeps \cup {q}
        BY <1>8, Zenon DEF Remote
    <2>2. q \in keeps \cup {q} /\ \A p \in Req : p # q => (p \in keeps' <=> p \in keeps)
        BY <2>1
    <2>3. CASE Continue(q, "copy") /\ keeps' = keeps \cup {q}
        <3>1. MovesTo(q, "copy") /\ Answers(None)
            BY <2>3, Continues, Zenon
        <3> QED
            BY <1>1, <1>2, <1>3, <1>5, <2>1, <2>2, <2>3, <3>1, CalmKeeps, ZenonT(30)
    <2> QED
        BY <1>6, <2>1, <2>2, <2>3, Zenon
<1>9. CASE SkipCopy(q)
    <2>1. /\ Copying(q) /\ body[Writes(q)] = Whole /\ Continue(q, "entry") /\ keeps' = keeps
        BY <1>9, Zenon DEF SkipCopy
    <2>2. MovesTo(q, "entry") /\ Answers(None)
        BY <2>1, Continues, Zenon
    <2>3. pc[q] \notin {"idle", "pre", "last"} /\ (q \in keeps' \/ Kind(q) # "get")
        BY <2>1, Zenon DEF Copying, CacheInv, Opened, Copies
    <2>4. Sounds(Writes(q))
        BY <1>1, <2>1, Zenon DEF Sounds
    <2>5. /\ "entry" \notin {"pre", "last"} /\ keeps' = keeps
          /\ \A p \in Req : p # q => (p \in keeps' <=> p \in keeps)
        BY <2>1
    <2> QED
        BY <1>1, <1>2, <1>3, <2>2, <2>3, <2>4, <2>5, CalmKeeps, Zenon
<1> QED
    BY <1>7, <1>8, <1>9, Zenon

\* The entry is written after its output, or its write fails.
LEMMA EntryKeeps ==
    ASSUME CacheInv, Named, NEW q \in Req, WriteEntry(q) \/ EntryFails(q)
    PROVE  CacheInv'
<1>1. /\ pc[q] = "entry" /\ UNCHANGED <<body, cut, fd, ask, keeps>>
      /\ pc[q] \notin {"idle", "pre", "last"}
    BY Zenon DEF WriteEntry, EntryFails, procs
<1>2. Action(q) \in Acts /\ (Writes(q) \in Safe => Sounds(Writes(q)))
    <2>1. Writes(q) \in Safe => Sound(Writes(q))
        BY <1>1, Zenon DEF CacheInv, Opened, HasFile
    <2> QED
        BY <1>1, <2>1, Outputs, Zenon DEF Sound, Sounds
<1>3. \A l \in {"replied", "again"} : l \notin Copies /\ l \notin {"pre", "last"} /\ l # "entry"
    BY DEF Copies
<1>4. PICK x : x \in {Writes(q), None} /\ act' = [act EXCEPT ![Action(q)] = x]
    BY Zenon DEF WriteEntry, EntryFails
<1>5. /\ act' = [a \in Acts |-> act'[a]]
      /\ \A a \in Acts : act'[a] = act[a] \/ act'[a] = x
    BY <1>2, <1>4, OneChanges, Zenon DEF CacheInv, Tables
<1>6. \A a \in Acts : act'[a] = act[a] \/ (act'[a] \in Safe => Sounds(act'[a]))
    BY <1>2, <1>4, <1>5, SafeOuts, Zenon
<1>7. \A p \in Req : p # q => (p \in keeps' <=> p \in keeps)
    BY <1>1, Zenon
<1>8. \A r \in {None, "error", Writes(q)} : r \in Safe => Sounds(r)
    BY <1>2, SafeOuts, Zenon
<1>9. ASSUME NEW r \in {None, "error", Writes(q)}, NEW l \in {"replied", "again"}, MovesTo(q, l), Answers(r)
      PROVE  CacheInv'
    BY <1>1, <1>3, <1>5, <1>6, <1>7, <1>8, <1>9, CalmKeeps, Zenon
<1>10. Continue(q, "again") \/ Reply(q, "error") \/ Reply(q, Writes(q))
    BY Zenon DEF WriteEntry, EntryFails, CopyEnds
<1> QED
    BY <1>9, <1>10, Continues, Finishes, Zenon

\* A step that changes one file.
LEMMA OneFile ==
    ASSUME CacheInv, NEW o \in Outs, NEW c, body' = [body EXCEPT ![o] = c],
           o \in Safe => /\ c \in {Gone, {}, {"pre"}, Whole}
                         /\ c = Whole \/ (cut' = cut /\ body[o] # Whole),
           cut' = cut \/ cut' = cut \ {o}
    PROVE  /\ SoundKept /\ Bodies' /\ body' = [x \in Outs |-> body'[x]] /\ body'[o] = c
           /\ \A x \in Outs : x # o => body'[x] = body[x]
<1>1. /\ body' = [x \in Outs |-> body'[x]] /\ body'[o] = c
      /\ \A x \in Outs : x # o => body'[x] = body[x]
    BY OneChanges, Zenon DEF CacheInv, Tables
<1>2. Bodies'
    BY <1>1, SafeOuts, Zenon DEF CacheInv, Bodies
<1>3. ASSUME NEW x \in Safe, Sound(x) PROVE Sounds(x)
    <2>1. CASE x = o
        BY <1>1, <1>3, <2>1, Zenon DEF Sound, Sounds
    <2>2. CASE x # o
        <3>1. x \in cut => x \in cut'
            BY <2>2, SMTT(30)
        <3> QED
            BY <1>1, <1>3, <2>2, <3>1, SafeOuts, Zenon DEF Sound, Sounds
    <2> QED
        BY <2>1, <2>2
<1> QED
    BY <1>1, <1>2, <1>3, Zenon DEF SoundKept

\* Another request's file is another, or the change is one it can bear.
LEMMA OthersFile ==
    ASSUME CacheInv, NEW o \in Outs, NEW c, body'[o] = c, \A x \in Outs : x # o => body'[x] = body[x],
           cut' = cut \/ cut' = cut \ {o}, NEW p \in Req,
           p \in fd' <=> p \in fd, Writes(p) \in Safe,
           Writes(p) = o => /\ c # Gone /\ ("pre" \in body[o] => "pre" \in c)
                            /\ (o \in Faulty /\ body[o] # Whole => c # Whole)
    PROVE  FileKept(p)
<1>1. HasFile(p) /\ Writes(p) \in Outs
    BY Outputs, Zenon DEF CacheInv, Opened
<1>2. CASE Writes(p) = o
    BY <1>1, <1>2, Zenon DEF FileKept
<1>3. CASE Writes(p) # o
    <2>1. body'[Writes(p)] = body[Writes(p)]
        BY <1>1, <1>3, Zenon
    <2> QED
        BY <1>1, <2>1, Zenon DEF FileKept, HasFile
<1> QED
    BY <1>2, <1>3

\* The open keeps what the file holds.
LEMMA OpenKeeps ==
    ASSUME CacheInv, Named, NEW q \in Req, OpenOut(q)
    PROVE  CacheInv'
<1> DEFINE o == Writes(q)
           c == body[o] \ Gone
<1>1. /\ Copying(q) /\ body[o] # Whole /\ Continue(q, "pre") /\ fd' = fd \cup {q}
      /\ UNCHANGED <<act, cut, ask, keeps>> /\ body' = [body EXCEPT ![o] = c]
    BY Zenon DEF OpenOut, procs
<1>2. o \in Outs
    BY Outputs, Zenon
<1>3. ASSUME o \in Safe
      PROVE  c \in {{}, {"pre"}} /\ c # Whole /\ c # Gone /\ ("pre" \in body[o] => "pre" \in c)
    <2>1. body[o] \in {Gone, {}, {"pre"}}
        BY <1>1, <1>3, Zenon DEF CacheInv, Bodies
    <2> QED
        BY <2>1, Contents, Zenon
<1> HIDE DEF o, c
<1>4. /\ SoundKept /\ Bodies' /\ body' = [x \in Outs |-> body'[x]] /\ body'[o] = c
      /\ \A x \in Outs : x # o => body'[x] = body[x]
    BY <1>1, <1>2, <1>3, OneFile, Zenon
<1>5. MovesTo(q, "pre") /\ Answers(None)
    BY <1>1, Continues, Zenon
<1>6. \A p \in Req : p # q => (p \in fd' <=> p \in fd) /\ (p \in keeps' <=> p \in keeps)
    BY <1>1
<1>7. \A p \in Req : p # q /\ Writes(p) \in Safe => FileKept(p)
    BY <1>1, <1>2, <1>3, <1>4, <1>6, OthersFile, Zenon
<1>8. pc[q] # "idle" /\ (q \in keeps' \/ Kind(q) # "get") /\ q \in fd'
    BY <1>1, Zenon DEF Copying, CacheInv, Opened, Copies
<1>9. Opened(q)'
    <2>1. Writes(q)' = o /\ pc'[q] = "pre"
        BY <1>1, <1>5, Zenon DEF Writes, o, MovesTo
    <2> QED
        BY <1>3, <1>4, <1>8, <2>1, Zenon DEF Opened, HasFile
<1>10. Entries' /\ Answered'
    BY <1>1, <1>4, <1>5, StaySound, SafeOuts, Zenon
<1>11. act' = [a \in Acts |-> act'[a]]
    BY <1>1, Zenon DEF CacheInv, Tables
<1> QED
    BY <1>1, <1>4, <1>5, <1>6, <1>7, <1>8, <1>9, <1>10, <1>11, ServeKeeps, ZenonT(30)

\* A write to a file a trim unlinked: nobody sees it.
LEMMA UnlinkedKeeps ==
    ASSUME CacheInv, NEW q \in Req, q \notin fd, pc[q] \in {"pre", "last"}, NEW l, MovesTo(q, l),
           NEW r, Answers(r), r \notin Safe, UNCHANGED <<act, body, cut, ask, keeps>>, fd' = fd \ {q},
           l \in {"last", "entry", "again", "replied"}
    PROVE  CacheInv'
<1>1. fd' = fd
    OBVIOUS
<1>2. SoundKept /\ Bodies' /\ \A p \in Req : Writes(p) \in Safe => FileKept(p)
    BY <1>1, FilesStay, Zenon
<1>3. (Writes(q) \in Safe => Sound(Writes(q)) /\ HasFile(q)) /\ (q \in keeps \/ Kind(q) # "get")
    BY Zenon DEF CacheInv, Opened, HasFile, Copies
<1>4. Opened(q)'
    <2>1. Writes(q)' = Writes(q) /\ pc'[q] = l
        BY Zenon DEF Writes, MovesTo
    <2> QED
        BY <1>1, <1>3, <2>1, Zenon DEF Opened, HasFile, Sound, Copies
<1>5. Entries' /\ Answered'
    BY <1>2, StaySound, Zenon
<1>6. act' = [a \in Acts |-> act'[a]] /\ body' = [x \in Outs |-> body'[x]] /\ pc[q] # "idle"
    BY Zenon DEF CacheInv, Tables
<1> QED
    BY <1>1, <1>2, <1>4, <1>5, <1>6, ServeKeeps, ZenonT(30)

\* A write to the file that has the name.
LEMMA WriteKeeps ==
    ASSUME CacheInv, Named, NEW q \in Req, WritePre(q) \/ WriteLast(q)
    PROVE  CacheInv'
<1> DEFINE o == Writes(q)
<1>1. UNCHANGED <<act, ask, keeps>> /\ pc[q] \in {"pre", "last"} /\ pc[q] # "idle" /\ pc[q] \in Copies
    BY Zenon DEF WritePre, WriteLast, procs, Copies
<1>2. o \in Outs /\ None \notin Safe
    BY Outputs, SafeOuts, Zenon
<1>3. \A p \in Req : p # q => (p \in keeps' <=> p \in keeps)
    BY <1>1, Zenon
<1>4. act' = [a \in Acts |-> act'[a]]
    BY <1>1, Zenon DEF CacheInv, Tables
<1>5. (o \in Safe => HasFile(q)) /\ (q \in keeps' \/ Kind(q) # "get")
    BY <1>1, Zenon DEF CacheInv, Opened
<1>6. Writes(q)' = o
    BY <1>1, Zenon DEF Writes
<1>7. CASE q \notin fd
    <2>1. UNCHANGED <<body, cut>>
        BY <1>7, Zenon DEF WritePre, WriteLast, Write
    <2>2. fd' = fd \ {q}
        <3>1. fd = fd \ {q}
            BY <1>7
        <3> QED
            BY <3>1, Zenon DEF WritePre, WriteLast
    <2>3. (MovesTo(q, "last") \/ MovesTo(q, "entry")) /\ Answers(None)
        BY Continues, Zenon DEF WritePre, WriteLast
    <2> QED
        BY <1>1, <1>2, <1>7, <2>1, <2>2, <2>3, UnlinkedKeeps, ZenonT(30)
<1>8. CASE q \in fd /\ WritePre(q)
    <2> DEFINE c == body[o] \cup {"pre"}
    <2>1. /\ pc[q] = "pre" /\ Continue(q, "last") /\ fd' = fd
          /\ body' = [body EXCEPT ![o] = c] /\ cut' = IF c = Whole THEN cut \ {o} ELSE cut
        BY <1>8, Zenon DEF WritePre, Write
    <2>2. ASSUME o \in Safe
          PROVE  /\ c \in {{"pre"}, Whole} /\ c # Gone /\ "pre" \in c
                 /\ body[o] = Whole <=> c = Whole
        <3>1. body[o] \in {{}, {"pre"}, Whole}
            BY <1>5, <1>8, <2>2, Zenon DEF CacheInv, Bodies, HasFile
        <3> QED
            BY <3>1, Contents, Zenon
    <2> HIDE DEF o, c
    <2>3. /\ SoundKept /\ Bodies' /\ body' = [x \in Outs |-> body'[x]] /\ body'[o] = c
          /\ \A x \in Outs : x # o => body'[x] = body[x]
        BY <1>2, <2>1, <2>2, OneFile, Zenon
    <2>4. MovesTo(q, "last") /\ Answers(None)
        BY <2>1, Continues, Zenon
    <2>5. \A p \in Req : p # q => (p \in fd' <=> p \in fd)
        BY <2>1, Zenon
    <2>6. \A p \in Req : Writes(p) \in Safe => FileKept(p)
        BY <1>2, <2>1, <2>2, <2>3, OthersFile, ZenonT(30)
    <2>7. Opened(q)'
        <3>1. pc'[q] = "last" /\ q \in fd'
            BY <1>8, <2>1, <2>4, Zenon DEF MovesTo
        <3>2. o \in Safe /\ o \in Faulty => body'[o] # Whole
            BY <1>1, <1>5, <2>2, <2>3, Zenon DEF HasFile, o
        <3> QED
            BY <1>5, <1>6, <2>2, <2>3, <3>1, <3>2, Zenon DEF Opened, HasFile
    <2>8. Entries' /\ Answered'
        BY <1>1, <1>2, <2>3, <2>4, StaySound, Zenon
    <2> QED
        BY <1>1, <1>3, <1>4, <2>3, <2>4, <2>5, <2>6, <2>7, <2>8, ServeKeeps, ZenonT(30)
<1>9. CASE q \in fd /\ WriteLast(q)
    <2> DEFINE c == body[o] \cup {"last"}
    <2>1. /\ pc[q] = "last" /\ Continue(q, "entry") /\ fd' = fd \ {q}
          /\ body' = [body EXCEPT ![o] = c] /\ cut' = IF c = Whole THEN cut \ {o} ELSE cut
        BY <1>9, Zenon DEF WriteLast, Write
    <2>2. ASSUME o \in Safe PROVE c = Whole /\ Whole # Gone /\ "pre" \in Whole
        <3>1. body[o] \in {Gone, {}, {"pre"}, Whole} /\ "pre" \in body[o]
            BY <1>5, <1>9, <2>1, <2>2, Zenon DEF CacheInv, Bodies, HasFile
        <3>2. body[o] \in {{"pre"}, Whole}
            BY <3>1, Contents, Zenon
        <3> QED
            BY <3>2, Contents, Zenon
    <2> HIDE DEF o, c
    <2>3. /\ SoundKept /\ Bodies' /\ body' = [x \in Outs |-> body'[x]] /\ body'[o] = c
          /\ \A x \in Outs : x # o => body'[x] = body[x]
        BY <1>2, <2>1, <2>2, OneFile, Zenon
    <2>4. MovesTo(q, "entry") /\ Answers(None)
        BY <2>1, Continues, Zenon
    <2>5. \A p \in Req : p # q => (p \in fd' <=> p \in fd)
        BY <2>1
    <2>6. ASSUME NEW p \in Req, p # q, pc[p] \in Copies, Writes(p) \in Safe PROVE FileKept(p)
        <3>1. Writes(p) = o => o \notin Faulty
            BY <1>1, <2>6, OneWriter, Zenon DEF o
        <3> QED
            BY <1>2, <2>1, <2>2, <2>3, <2>5, <2>6, <3>1, OthersFile, ZenonT(30)
    <2>7. Opened(q)'
        <3>1. pc'[q] = "entry" /\ q \notin fd'
            BY <2>1, <2>4 DEF MovesTo
        <3>2. Writes(q)' \in Safe => Sound(Writes(q))'
            BY <1>6, <2>2, <2>3, Zenon DEF Sound
        <3> QED
            BY <1>5, <3>1, <3>2, Zenon DEF Opened, HasFile
    <2>8. Entries' /\ Answered'
        BY <1>1, <1>2, <2>3, <2>4, StaySound, Zenon
    <2> QED
        BY <1>1, <1>3, <1>4, <2>3, <2>4, <2>5, <2>6, <2>7, <2>8, ServeKeeps, ZenonT(30)
<1> QED
    BY <1>7, <1>8, <1>9, Zenon

\* A copy or a close that fails takes away a file that was not whole, and that
\* nobody else has open.
LEMMA FailKeeps ==
    ASSUME CacheInv, Named, NEW q \in Req, CopyFails(q) \/ CloseFails(q)
    PROVE  CacheInv'
<1> DEFINE o == Writes(q)
<1>1. /\ UNCHANGED <<act, ask, keeps>> /\ pc[q] \in {"pre", "last"} /\ pc[q] # "idle" /\ pc[q] \in Copies
      /\ o \in Faulty /\ CopyEnds(q)
    BY Zenon DEF CopyFails, CloseFails, procs, Copies
<1>2. o \in Outs /\ None \notin Safe /\ "error" \notin Safe
    BY Outputs, SafeOuts, Zenon
<1>3. \A p \in Req : p # q => (p \in keeps' <=> p \in keeps)
    BY <1>1, Zenon
<1>4. act' = [a \in Acts |-> act'[a]]
    BY <1>1, Zenon DEF CacheInv, Tables
<1>5. o \in Safe => body[o] # Whole
    BY <1>1, Zenon DEF CacheInv, Opened, HasFile
<1>6. PICK l \in {"again", "replied"}, r \in {None, "error"} : MovesTo(q, l) /\ Answers(r)
    BY <1>1, Continues, Finishes, Zenon DEF CopyEnds
<1>7. CASE q \notin fd /\ CopyFails(q)
    <2>1. UNCHANGED <<body, cut>> /\ fd' = fd \ {q}
        BY <1>7, Zenon DEF CopyFails, Write
    <2>2. l \in {"last", "entry", "again", "replied"} /\ r \notin Safe
        BY <1>2, <1>6, Zenon
    <2> QED
        BY <1>1, <1>6, <1>7, <2>1, <2>2, UnlinkedKeeps, Zenon
<1>8. ASSUME NEW c \in {{}, Gone}, body' = [body EXCEPT ![o] = c], cut' = cut,
             \A p \in Req : Writes(p) # o /\ p # q => (p \in fd' <=> p \in fd), q \notin fd', fd' \subseteq fd
      PROVE  CacheInv'
    <2>1. c \in {Gone, {}, {"pre"}, Whole}
        BY <1>8, Zenon
    <2> HIDE DEF o
    <2>2. /\ SoundKept /\ Bodies' /\ body' = [x \in Outs |-> body'[x]] /\ body'[o] = c
          /\ \A x \in Outs : x # o => body'[x] = body[x]
        BY <1>2, <1>5, <1>8, <2>1, OneFile, Zenon
    <2>3. ASSUME NEW p \in Req, p # q, pc[p] \in Copies, Writes(p) \in Safe PROVE FileKept(p)
        <3>1. Writes(p) # o
            BY <1>1, <2>3, OneWriter, Zenon DEF o
        <3> QED
            BY <1>2, <1>8, <2>2, <2>3, <3>1, OthersFile, Zenon
    <2>4. Opened(q)'
        <3>1. pc'[q] \in {"again", "replied"}
            BY <1>6, Zenon DEF MovesTo
        <3>2. pc'[q] \notin Copies
            BY <3>1 DEF Copies
        <3> QED
            BY <1>8, <3>2, Zenon DEF Opened, HasFile, Copies
    <2>5. Entries' /\ Answered'
        BY <1>1, <1>2, <1>6, <2>2, StaySound, ZenonT(30)
    <2>6. \A p \in Req : p # q => (p \in keeps' <=> p \in keeps) /\ (p \in fd' => p \in fd)
        BY <1>3, <1>8
    <2> QED
        BY <1>1, <1>4, <1>6, <2>2, <2>3, <2>4, <2>5, <2>6, ServeKeeps, ZenonT(30)
<1>9. CASE q \in fd /\ CopyFails(q)
    <2>1. /\ fd' = fd \ {q} /\ body' = [body EXCEPT ![o] = {}]
          /\ cut' = IF {} = Whole THEN cut \ {o} ELSE cut
        BY <1>9, Zenon DEF CopyFails, Write
    <2>2. cut' = cut
        BY <2>1, Contents, Zenon
    <2>3. q \notin fd' /\ fd' \subseteq fd /\ \A p \in Req : p # q => (p \in fd' <=> p \in fd)
        BY <2>1
    <2> QED
        BY <1>8, <2>1, <2>2, <2>3, Zenon
<1>10. CASE CloseFails(q)
    <2>1. /\ fd' = {p \in fd : Writes(p) # o} /\ body' = [body EXCEPT ![o] = Gone] /\ cut' = cut
        BY <1>10, Zenon DEF CloseFails
    <2>2. q \notin fd' /\ fd' \subseteq fd /\ \A p \in Req : Writes(p) # o => (p \in fd' <=> p \in fd)
        BY <2>1
    <2> QED
        BY <1>8, <2>1, <2>2, Zenon
<1> QED
    BY <1>7, <1>9, <1>10, Zenon

\* A trim takes the name from whoever has the file open.
LEMMA TrimKeeps ==
    ASSUME CacheInv, NEW f \in Acts \cup Outs, TrimRemoves(f), Named
    PROVE  CacheInv'
<1>1. /\ act' = [a \in Acts |-> IF a = f THEN None ELSE act[a]]
      /\ body' = [o \in Outs |-> IF o = f THEN Gone ELSE body[o]]
      /\ cut' = cut \cup ({f} \cap Outs) /\ fd' = {q \in fd : Writes(q) # f}
      /\ UNCHANGED <<ask, pc, got, keeps>>
    BY Zenon DEF TrimRemoves, procs
<1>2. \A a \in Acts : act'[a] = act[a] \/ act'[a] = None
    BY <1>1, Zenon
<1>3. \A o \in Outs : (o # f => body'[o] = body[o]) /\ (o = f => body'[o] = Gone /\ o \in cut')
    <2>1. \A o \in Outs : o = f => o \in cut'
        BY <1>1, SMTT(30)
    <2> QED
        BY <1>1, <2>1, ZenonT(30)
<1>4. \A o \in Outs : o \in cut => o \in cut'
    BY <1>1
<1>5. SoundKept
    BY <1>3, <1>4, SafeOuts, Zenon DEF SoundKept, Sound, Sounds
<1>6. Bodies'
    BY <1>3, SafeOuts, Zenon DEF CacheInv, Bodies
<1>7. Entries' /\ Answered'
    <2>1. Answers(None)
        BY <1>1, Zenon DEF Answers
    <2> QED
        BY <1>2, <1>5, <2>1, StaySound, SafeOuts, Zenon
<1>8. Tables' /\ Unasked'
    <2>1. act' = [a \in Acts |-> act'[a]] /\ body' = [o \in Outs |-> body'[o]]
        BY <1>1, Zenon
    <2> QED
        BY <1>1, <2>1, Zenon DEF CacheInv, Tables, Unasked
<1>9. ASSUME NEW p \in Req PROVE Opened(p)'
    <2>1. Writes(p) \in Outs /\ Opened(p)
        BY Outputs, ZenonT(30) DEF CacheInv
    <2>2. (p \in fd' => p \in fd /\ Writes(p) # f) /\ (p \in fd => p \in fd' \/ Writes(p) = f)
        BY <1>1
    <2>3. ASSUME Writes(p) \in Safe PROVE FileKept(p)
        <3>1. Writes(p) # f => body'[Writes(p)] = body[Writes(p)]
            BY <1>3, <2>1, Zenon
        <3>2. Writes(p) = f => body'[Writes(p)] = Gone /\ Writes(p) \in cut'
            BY <1>3, <2>1, Zenon
        <3> QED
            BY <2>1, <2>2, <2>3, <3>1, <3>2, Contents, Zenon DEF FileKept, Opened, HasFile
    <2> QED
        BY <1>1, <1>5, <2>2, <2>3, StayOpened, Zenon
<1> QED
    BY <1>6, <1>7, <1>8, <1>9, Zenon DEF CacheInv

\* The steps of the processes and the link: no file, entry or answer changes.
LEMMA LinkKeeps ==
    ASSUME CacheInv, Named, UNCHANGED <<act, body, cut, got>>,
           pc' = [q \in Req |-> pc'[q]], ask' = [q \in Req |-> ask'[q]],
           \A p \in Req : /\ (p \in fd' => p \in fd) /\ (ask'[p] = "new" => ask[p] = "new")
                          /\ \/ pc'[p] = pc[p] /\ (p \in keeps' <=> p \in keeps) /\ (p \in fd => p \in fd')
                             \/ pc'[p] \notin Copies /\ p \notin fd' /\ (pc'[p] = "idle" \/ ask'[p] # "new")
    PROVE  CacheInv'
<1>1. SoundKept
    BY Zenon DEF SoundKept, Sound, Sounds
<1>2. Bodies' /\ Tables'
    BY Zenon DEF CacheInv, Bodies, Tables
<1>3. Entries' /\ Answered'
    <2>1. Answers(None)
        BY Zenon DEF Answers
    <2> QED
        BY <1>1, <2>1, StaySound, SafeOuts, Zenon
<1>4. Unasked'
    BY Zenon DEF CacheInv, Unasked
<1>5. ASSUME NEW p \in Req PROVE Opened(p)'
    <2>1. CASE pc'[p] = pc[p] /\ (p \in keeps' <=> p \in keeps) /\ (p \in fd => p \in fd')
        <3>1. Writes(p) \in Safe => FileKept(p)
            BY <2>1, Zenon DEF FileKept, CacheInv, Opened, HasFile
        <3> QED
            BY <1>1, <2>1, <3>1, StayOpened, Zenon
    <2>2. CASE pc'[p] \notin Copies /\ p \notin fd'
        BY <2>2, Zenon DEF Opened, HasFile, Copies
    <2> QED
        BY <2>1, <2>2, Zenon
<1> QED
    BY <1>2, <1>3, <1>4, <1>5, Zenon DEF CacheInv

\* Processes that start, ask, die, or take the lead touch no file
\* (dialBroker, ask, deliver, fail).
LEMMA ProcessKeeps ==
    ASSUME CacheInv, Named,
           \/ \E c \in Child : Dial(c) \/ LinkFails(c)
           \/ \E q \in Req : Ask(q) \/ Attend(q) \/ Deliver(q)
           \/ OwnerDies \/ (\E f \in Acts \cup Outs : TrimLooks(f)) \/ UNCHANGED diskVars
    PROVE  CacheInv'
<1>1. UNCHANGED <<act, body, cut, got>>
    BY Zenon DEF Dial, LinkFails, Ask, Attend, Deliver, OwnerDies,
       TrimLooks, diskVars, disk, work
<1>2. pc = [q \in Req |-> pc[q]] /\ ask = [q \in Req |-> ask[q]]
    BY Zenon DEF CacheInv, Tables
<1>3. \A l \in {"start", "joined", "idle"} : l \notin Copies
    BY DEF Copies
<1>4. \A p \in Req : pc[p] = "idle" => p \notin fd
    BY Zenon DEF CacheInv, Opened
<1>5. ASSUME NEW q \in Req, Ask(q) PROVE CacheInv'
    <2>1. UNCHANGED <<keeps, fd>> /\ ask[q] = "new"
        BY <1>5, Zenon DEF Ask
    <2>2. PICK l \in {"sent", "over"} : ask' = [ask EXCEPT ![q] = l]
        BY <1>5, Zenon DEF Ask
    <2>3. /\ ask' = [p \in Req |-> ask'[p]] /\ ask'[q] = l
          /\ \A p \in Req : p # q => ask'[p] = ask[p]
        BY <1>2, <2>2, OneChanges, Zenon
    <2>4. /\ pc' = [p \in Req |-> pc'[p]] /\ (pc'[q] = pc[q] \/ pc'[q] = "start")
          /\ \A p \in Req : p # q => pc'[p] = pc[p]
        <3>1. pc' = pc \/ pc' = [pc EXCEPT ![q] = "start"]
            BY <1>5, Zenon DEF Ask, Go
        <3> QED
            BY <1>2, <3>1, OneChanges, Zenon
    <2>5. pc[q] = "idle"
        BY <2>1, Zenon DEF CacheInv, Unasked
    <2> QED
        BY <1>1, <1>3, <1>4, <2>1, <2>3, <2>4, <2>5, LinkKeeps, ZenonT(30)
<1>6. ASSUME NEW q \in Req, Attend(q) PROVE CacheInv'
    <2>1. UNCHANGED <<keeps, fd, ask>> /\ ask[q] = "sent" /\ pc[q] = "idle"
        BY <1>6, Zenon DEF Attend, procs
    <2>2. PICK l \in {"start", "joined"} : pc' = [pc EXCEPT ![q] = l]
        BY <1>6, Zenon DEF Attend, Go
    <2>3. /\ pc' = [p \in Req |-> pc'[p]] /\ pc'[q] = l
          /\ \A p \in Req : p # q => pc'[p] = pc[p]
        BY <1>2, <2>2, OneChanges, Zenon
    <2> QED
        BY <1>1, <1>2, <1>3, <1>4, <2>1, <2>3, LinkKeeps, ZenonT(30)
<1>7. ASSUME NEW q \in Req, Deliver(q) PROVE CacheInv'
    <2>1. UNCHANGED <<pc, keeps, fd>> /\ ask' = [ask EXCEPT ![q] = "over"]
        BY <1>7, Zenon DEF Deliver, work
    <2>2. /\ ask' = [p \in Req |-> ask'[p]] /\ ask'[q] = "over"
          /\ \A p \in Req : p # q => ask'[p] = ask[p]
        BY <1>2, <2>1, OneChanges, Zenon
    <2> QED
        BY <1>1, <1>2, <2>1, <2>2, LinkKeeps, Zenon
<1>8. CASE OwnerDies
    <2>1. /\ pc' = [q \in Req |-> IF OwnersWork(q) /\ pc[q] # "replied" THEN "idle" ELSE pc[q]]
          /\ fd' = {q \in fd : ~OwnersWork(q)} /\ keeps' = {q \in keeps : ~OwnersWork(q)} /\ UNCHANGED ask
        BY <1>8, Zenon DEF OwnerDies
    <2>2. pc' = [q \in Req |-> pc'[q]]
        BY <2>1, ZenonT(30)
    <2>3. ASSUME NEW p \in Req
          PROVE  /\ (p \in fd' => p \in fd)
                 /\ \/ pc'[p] = pc[p] /\ (p \in keeps' <=> p \in keeps) /\ (p \in fd => p \in fd')
                    \/ pc'[p] \notin Copies /\ p \notin fd' /\ (pc'[p] = "idle" \/ ask'[p] # "new")
        <3>1. (p \in fd' <=> p \in fd /\ ~OwnersWork(p)) /\ (p \in keeps' <=> p \in keeps /\ ~OwnersWork(p))
            BY <2>1
        <3>2. CASE ~OwnersWork(p)
            BY <2>1, <3>1, <3>2, Zenon
        <3>3. CASE OwnersWork(p) /\ pc[p] # "replied"
            BY <1>3, <2>1, <3>1, <3>3, Zenon
        <3>4. CASE OwnersWork(p) /\ pc[p] = "replied"
            <4>1. "replied" \notin Copies /\ "replied" # "idle"
                BY DEF Copies
            <4>2. ask[p] # "new"
                BY <3>4, <4>1, Zenon DEF CacheInv, Unasked
            <4> QED
                BY <2>1, <3>1, <3>4, <4>1, <4>2, ZenonT(30)
        <3> QED
            BY <3>2, <3>3, <3>4, Zenon
    <2> QED
        BY <1>1, <1>2, <2>1, <2>2, <2>3, LinkKeeps, Zenon
<1>9. ASSUME NEW c \in Child, LinkFails(c) PROVE CacheInv'
    <2>1. /\ UNCHANGED <<pc, keeps, fd>>
          /\ ask' = [q \in Req |-> IF By(q) = c /\ ask[q] = "sent" THEN "over" ELSE ask[q]]
        BY <1>9, Zenon DEF LinkFails, work
    <2>2. /\ ask' = [q \in Req |-> ask'[q]]
          /\ \A q \in Req : ask'[q] = "new" => ask[q] = "new"
        BY <2>1, Zenon
    <2> QED
        BY <1>1, <1>2, <2>1, <2>2, LinkKeeps, Zenon
<1>10. CASE \/ \E c \in Child : Dial(c)
            \/ \E f \in Acts \cup Outs : TrimLooks(f)
            \/ UNCHANGED diskVars
    <2>1. UNCHANGED <<pc, keeps, fd, ask>>
        BY <1>10, Zenon DEF Dial, TrimLooks, diskVars, procs, work
    <2> QED
        BY <1>1, <1>2, <2>1, LinkKeeps, Zenon
<1> QED
    BY <1>5, <1>6, <1>7, <1>8, <1>9, <1>10, Zenon

\* At the start the directory holds what earlier builds left.
LEMMA InitCache ==
    ASSUME Named, DiskInit
    PROVE  CacheInv
<1>1. /\ fd = {} /\ (\A q \in Req : pc[q] = "idle" /\ got[q] = None)
      /\ pc = [q \in Req |-> pc[q]] /\ ask = [q \in Req |-> ask[q]]
    BY Zenon DEF DiskInit
<1>2. body = [o \in Outs |-> body[o]] /\ act = [a \in Acts |-> act[a]]
    BY DEF DiskInit
<1>3. Bodies
    <2>1. \A o \in Outs : body[o] \in {Gone, {"pre"}, Whole}
        BY DEF DiskInit
    <2> QED
        BY <2>1, SafeOuts, ZenonT(30) DEF Bodies
<1>4. Entries
    <2>1. \A o \in Outs : body[o] # Whole /\ (\E a \in Acts : act[a] = o) => o \in cut
        BY DEF DiskInit
    <2> QED
        BY <2>1, SafeOuts, Zenon DEF Entries, Sound
<1>5. (\A q \in Req : Opened(q)) /\ Answered /\ Unasked
    <2>1. "idle" \notin Copies
        BY DEF Copies
    <2> QED
        BY <1>1, <2>1, SafeOuts, Zenon DEF Opened, HasFile, Answered, Unasked
<1> QED
    BY <1>1, <1>2, <1>3, <1>4, <1>5, Zenon DEF CacheInv, Tables

\* Every step keeps the invariant.
LEMMA CacheStep ==
    ASSUME Named, CacheInv, [DiskNext]_diskVars
    PROVE  CacheInv'
<1>1. ASSUME NEW q \in Req, Serve(q) PROVE CacheInv'
    BY <1>1, AskedKeeps, OpenKeeps, WriteKeeps, FailKeeps, EntryKeeps, Zenon DEF Serve
<1> QED
    BY <1>1, ProcessKeeps, TrimKeeps, Zenon DEF DiskNext, Serving

\* Safe outputs have no holes, and are whole or trimmed once answered with.
SafeAreWhole == \A o \in Safe : /\ "last" \in body[o] => "pre" \in body[o]
                                /\ (\E q \in Req : got[q] = o) => Sound(o)

\* For any number of processes, requests and outputs, whichever of them die
\* half-way and whatever a trim removes: an output whose copy does not fail, or
\* that one request alone writes, is never of the full size with a hole
\* (copyFile), and is whole on disk, or was trimmed, once a get or a put
\* answered with it (putIndexEntry, store).
THEOREM SafeOutputs == ASSUME Named PROVE DiskSpec => []SafeAreWhole
<1>1. DiskInit => CacheInv
    BY InitCache
<1>2. CacheInv /\ [DiskNext]_diskVars => CacheInv'
    BY CacheStep
<1>3. CacheInv => SafeAreWhole
    <2>1. \A c \in {Gone, {}, {"pre"}, Whole} : "last" \in c => "pre" \in c
        BY Contents, Zenon
    <2> QED
        BY <2>1, Zenon DEF CacheInv, Bodies, Answered, SafeAreWhole
<1> QED
    BY <1>1, <1>2, <1>3, PTL DEF DiskSpec

\* When no two requests write an output whose copy may fail, a file of the full
\* size has no hole in it (copyFile).
THEOREM SizesMeanBytes == ASSUME Named, FaultsAlone PROVE DiskSpec => []SizeMeansBytes
<1>1. DiskSpec => []SafeAreWhole
    BY SafeOutputs
<1>2. SafeAreWhole => SizeMeansBytes
    BY Zenon DEF SafeAreWhole, FaultsAlone, Safe, SizeMeansBytes
<1> QED
    BY <1>1, <1>2, PTL

\* And what a get or a put answered with is whole on disk unless a trim took it
\* (putIndexEntry, store).
THEOREM AnswersAreWhole == ASSUME Named, FaultsAlone PROVE DiskSpec => []AnsweredIsWhole
<1>1. DiskSpec => []SafeAreWhole
    BY SafeOutputs
<1>2. SafeAreWhole => AnsweredIsWhole
    BY Zenon DEF SafeAreWhole, FaultsAlone, Safe, AnsweredIsWhole, Sound
<1> QED
    BY <1>1, <1>2, PTL
=============================================================================
