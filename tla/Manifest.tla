------------------------------ MODULE Manifest ------------------------------
(***************************************************************************)
(* The build manifest: what a client fetches ahead because an earlier      *)
(* build of the command (or, failing that, of the module) used it, and the *)
(* lookups that meet that fetch (cacheclient/manifest.go,                  *)
(* manifest_fallback.go, the gate of lookahead.go, GetTiered), and the     *)
(* generation of the manifest the build stores for the next one.           *)
(*                                                                         *)
(* A section under a lock is a step; so is each call on the local tier and *)
(* each request.  The keys a manifest names are given in parts, the        *)
(* batches of batchMaxKeys.                                                *)
(***************************************************************************)
EXTENDS Integers, FiniteSets

CONSTANTS
    Lookup, KeyOf(_),     \* the build's lookups, each of one key
    Part, KeysOf(_),      \* the parts of the manifest, each a set of keys
    Stored, Flawed,       \* the keys the server holds; those whose body verify refuses
    Histories,            \* the generations builds before this one left: own, back
    OwnCap, BackCap,      \* manifestGenerations, manifestFallbackGenerations
    Drift,                \* manifestDrift, in percent
    JudgeAfter, MinUse    \* lookAheadJudgeAfter; lookAheadMinUse, in percent

Key == {KeyOf(l) : l \in Lookup} \cup UNION {KeysOf(c) : c \in Part}

VARIABLES
    path, at,             \* what the walk found; the step of the fetch
    gens, auth,           \* the generations the index names; it is authoritative
    newest, named, wrote, \* what the walk recorded; the generations Close stored
    ids,                  \* the keys the fetch goes for
    gate, covered, pool,  \* the look-ahead's gate and off switch; one of its workers
    fetch,                \* pendingFetch of a key
    part, req,            \* the step of a part, and the keys its request still owes
    local, used,          \* keys in the local tier; keys this process looked up
    look,                 \* the step of a lookup
    closing,              \* Close has started
    brought, tally        \* manifestFallback

tier == <<local, used>>
turns == <<brought, tally>>
book == <<gens, auth, newest, named, wrote>>
vars == <<path, at, book, ids, gate, covered, pool, fetch, part, req, tier, look, closing, turns>>

\* due, landed, fetched and used of manifestFallback; the keys handed out; the
\* lookups since the pause began.
NoTally == [sent |-> 0, landed |-> 0, due |-> JudgeAfter, fetched |-> 0, used |-> 0,
            since |-> 0, paused |-> FALSE, stopped |-> FALSE]

Init ==
    /\ path = "none" /\ at = "walk" /\ ids = {}
    /\ gens \in Histories /\ auth \in BOOLEAN
    /\ newest = -1 /\ named = {} /\ wrote = [own |-> -1, back |-> -1]
    /\ gate = FALSE /\ covered = FALSE /\ pool = "held"
    /\ fetch = [k \in Key |-> "none"]
    /\ part = [c \in Part |-> "new"] /\ req = [c \in Part |-> {}]
    /\ local = {} /\ used = {} /\ look = [l \in Lookup |-> "new"]
    /\ closing = FALSE /\ brought = {}
    /\ tally = NoTally

----------------------------------------------------------------------------
(* The walk, the cover and the gate.                                       *)

Manifest == UNION {KeysOf(c) : c \in Part}

\* The newest of the generations that follow one another from the first.
Newest(known, cap) == CHOOSE g \in -1 .. cap - 1 : 0 .. g \subseteq known /\ (g + 1 = cap \/ g + 1 \notin known)

\* Variant of NewestFallbackGen: the halving stops a step early.
NewestFallbackGenEarly(known) ==
    LET Double[high \in 1 .. 2 * BackCap] ==
            IF high < BackCap /\ high \in known THEN Double[2 * high] ELSE high
        Halve[low \in 0 .. BackCap, high \in 0 .. BackCap] ==
            LET mid == (low + high) \div 2
            IN IF high - low <= 2 THEN low
               ELSE IF mid \in known THEN Halve[mid, high] ELSE Halve[low, mid]
        top == Double[1]
    IN IF 0 \notin known THEN -1 ELSE Halve[top \div 2, IF top < BackCap THEN top ELSE BackCap]

\* The search doubles, then halves.
NewestFallbackGen(known) ==
    LET Double[high \in 1 .. 2 * BackCap] ==
            IF high < BackCap /\ high \in known THEN Double[2 * high] ELSE high
        Halve[low \in 0 .. BackCap, high \in 0 .. BackCap] ==
            LET mid == (low + high) \div 2
            IN IF high - low <= 1 THEN low
               ELSE IF mid \in known THEN Halve[mid, high] ELSE Halve[low, mid]
        top == Double[1]
    IN IF 0 \notin known THEN -1 ELSE Halve[top \div 2, IF top < BackCap THEN top ELSE BackCap]

\* An authoritative index names the newest generation and one body is read;
\* else each generation is read in turn, and a read that fails ends the walk.
WalkManifest ==
    LET last == Newest(gens.own, OwnCap)
    IN \/ auth /\ newest' = last /\ named' \in {{}, IF last >= 0 THEN Manifest ELSE {}}
       \/ ~auth /\ newest' \in -1 .. last /\ named' = IF newest' >= 0 THEN Manifest ELSE {}

\* Named keys the client holds, or looked up while the walk ran, are left out.
\* A key the index still knows may be stored no longer.
Walk ==
    /\ at = "walk" /\ WalkManifest
    /\ ids' = named' \ (local \cup used)
    /\ path' = IF named' # {} THEN "own" ELSE "none"
    /\ at' = IF named' # {} THEN "cover" ELSE IF newest' < 0 THEN "back" ELSE "end"
    /\ UNCHANGED <<gens, auth, wrote, gate, covered, pool, fetch, part, req, tier, look, closing, turns>>

\* A command with no manifest of its own reads the module's fallback.
WalkFallback ==
    /\ at = "back"
    /\ \/ path' = "none" /\ at' = "end" /\ UNCHANGED ids
       \/ /\ auth /\ NewestFallbackGen(gens.back) >= 0
          /\ path' = "fallback"
          /\ ids' = Manifest \ (local \cup used)
          /\ at' = IF ids' = {} THEN "end" ELSE "cover"
    /\ UNCHANGED <<book, gate, covered, pool, fetch, part, req, tier, look, closing, turns>>

\* Variant of Cover: the gate opens first.
CoverReleases ==
    /\ at = "cover" /\ gate' = TRUE /\ at' = "release"
    /\ UNCHANGED <<path, book, ids, covered, pool, fetch, part, req, tier, look, closing, turns>>

\* Variant of Cover: it waits for the workers it turns off, who wait at the gate.
CoverWaits ==
    /\ at = "cover" /\ pool # "held" /\ covered' = TRUE /\ at' = "release"
    /\ UNCHANGED <<path, book, ids, gate, pool, fetch, part, req, tier, look, closing, turns>>

Cover ==
    /\ at = "cover" /\ covered' = TRUE /\ at' = "release"
    /\ UNCHANGED <<path, book, ids, gate, pool, fetch, part, req, tier, look, closing, turns>>

Release ==
    /\ at = "release" /\ gate' = TRUE
    /\ at' = CASE path = "own" /\ ids = {} -> "end" [] path = "own" -> "mark" [] OTHER -> "turn"
    /\ UNCHANGED <<path, book, ids, covered, pool, fetch, part, req, tier, look, closing, turns>>

\* A worker of the look-ahead waits at the gate, then sends a window unless the
\* pool is off.
Expand ==
    /\ pool = "held" /\ gate /\ pool' = IF covered THEN "off" ELSE "sent"
    /\ UNCHANGED <<path, at, book, ids, gate, covered, fetch, part, req, tier, look, closing, turns>>

----------------------------------------------------------------------------
(* The manifest of the command: every part is marked, then sent.           *)

Of(c) == KeysOf(c) \cap ids

Mark ==
    /\ at = "mark" /\ at' = "fed"
    /\ fetch' = [k \in Key |-> IF k \in ids THEN "queued" ELSE fetch[k]]
    /\ part' = [c \in Part |-> "queued"]
    /\ UNCHANGED <<path, book, ids, gate, covered, pool, req, tier, look, closing, turns>>

OnWire(c) == [k \in Key |-> IF k \in Of(c) /\ fetch[k] = "queued" THEN "wire" ELSE fetch[k]]

\* Variant of Send: the part asks for everything it names.
SendAll(c) ==
    /\ path = "own" /\ part[c] = "queued"
    /\ fetch' = OnWire(c) /\ part' = [part EXCEPT ![c] = "wire"]
    /\ req' = [req EXCEPT ![c] = Of(c)]
    /\ UNCHANGED <<path, at, book, ids, gate, covered, pool, tier, look, closing, turns>>

\* send and stillAbsent: what no lookup claimed and the client does not hold.
Send(c) ==
    /\ path = "own" /\ part[c] = "queued"
    /\ fetch' = OnWire(c) /\ part' = [part EXCEPT ![c] = "wire"]
    /\ req' = [req EXCEPT ![c] = {k \in Of(c) : fetch[k] = "queued"} \ local]
    /\ UNCHANGED <<path, at, book, ids, gate, covered, pool, tier, look, closing, turns>>

----------------------------------------------------------------------------
(* The fallback of the module: a part is handed out when it is its turn.   *)

\* waitTurn lets a part by below the next verdict, and the fetch ends when the
\* judge stopped it.
Turn(c) ==
    /\ at = "turn" /\ part[c] = "new" /\ ~tally.stopped
    /\ tally.sent < tally.due /\ ~tally.paused
    /\ tally' = [tally EXCEPT !.sent = @ + Cardinality(Of(c))]
    /\ part' = [part EXCEPT ![c] = "given"]
    /\ UNCHANGED <<path, at, book, ids, gate, covered, pool, fetch, req, tier, look, closing, brought>>

TurnsEnd ==
    /\ at = "turn" /\ (tally.stopped \/ closing \/ (\A c \in Part : part[c] # "new"))
    /\ at' = "fed"
    /\ UNCHANGED <<path, book, ids, gate, covered, pool, fetch, part, req, tier, look, closing, turns>>

MarkGiven(c) ==
    /\ part[c] = "given" /\ part' = [part EXCEPT ![c] = "marked"]
    /\ fetch' = [k \in Key |-> IF k \in Of(c) THEN "queued" ELSE fetch[k]]
    /\ UNCHANGED <<path, at, book, ids, gate, covered, pool, req, tier, look, closing, turns>>

\* The part goes out with every key it was given.
SendGiven(c) ==
    /\ part[c] = "marked" /\ part' = [part EXCEPT ![c] = "wire"]
    /\ fetch' = OnWire(c) /\ req' = [req EXCEPT ![c] = Of(c)]
    /\ UNCHANGED <<path, at, book, ids, gate, covered, pool, tier, look, closing, turns>>

----------------------------------------------------------------------------
(* A part on the wire: its entries go to the local tier, then their        *)
(* lookups go on; the end of the stream lets the others go.                *)

\* A fetched body that verify refuses is not kept.
Populate(k) == {k} \ Flawed

\* Variant of Arrive: the lookups go on before the entry is stored.
ArriveEarly(c, k) ==
    /\ part[c] = "wire" /\ k \in req[c] \cap Stored /\ req' = [req EXCEPT ![c] = @ \ {k}]
    /\ fetch' = [fetch EXCEPT ![k] = IF @ = "wire" THEN "landed" ELSE @]
    /\ UNCHANGED <<path, at, book, ids, gate, covered, pool, part, tier, look, closing, turns>>

Arrive(c, k) ==
    /\ part[c] = "wire" /\ k \in req[c] \cap Stored /\ req' = [req EXCEPT ![c] = @ \ {k}]
    /\ local' = local \cup Populate(k)
    /\ fetch' = [fetch EXCEPT ![k] = IF @ = "wire" THEN "here" ELSE @]
    /\ UNCHANGED <<path, at, book, ids, gate, covered, pool, part, used, look, closing, turns>>

Landed(k) ==
    /\ fetch[k] = "here" /\ fetch' = [fetch EXCEPT ![k] = "landed"]
    /\ UNCHANGED <<path, at, book, ids, gate, covered, pool, part, req, tier, look, closing, turns>>

\* The stream ends, whole or cut.
StreamEnds(c) ==
    /\ part[c] = "wire" /\ \A k \in Of(c) : fetch[k] # "here"
    /\ part' = [part EXCEPT ![c] = IF path = "own" THEN "ended" ELSE "back"]
    /\ UNCHANGED <<path, at, book, ids, gate, covered, pool, fetch, req, tier, look, closing, turns>>

\* judgeLocked.
Judged(t) ==
    IF t.used * 100 >= t.fetched * MinUse THEN [t EXCEPT !.due = 2 * @, !.paused = FALSE, !.since = 0]
    ELSE IF t.since < (t.fetched + 1) \div 2 THEN t
    ELSE [t EXCEPT !.paused = FALSE, !.stopped = TRUE, !.since = 0]

NoteLanded(c) ==
    LET arrived == Of(c) \ req[c]
        t == [tally EXCEPT !.landed = @ + Cardinality(Of(c)),
                           !.fetched = @ + Cardinality(arrived \ brought)]
    IN /\ part[c] = "back" /\ part' = [part EXCEPT ![c] = "ended"]
       /\ brought' = brought \cup arrived
       /\ tally' = IF t.landed >= t.due /\ ~t.paused /\ ~t.stopped
                   THEN Judged([t EXCEPT !.paused = TRUE]) ELSE t
       /\ UNCHANGED <<path, at, book, ids, gate, covered, pool, fetch, req, tier, look, closing>>

Finish(c) ==
    /\ part[c] = "ended" /\ part' = [part EXCEPT ![c] = "over"]
    /\ fetch' = [k \in Key |-> IF k \in Of(c) /\ fetch[k] = "wire" THEN "finished" ELSE fetch[k]]
    /\ req' = [req EXCEPT ![c] = {}]
    /\ UNCHANGED <<path, at, book, ids, gate, covered, pool, tier, look, closing, turns>>

\* The fetch returns: the gate is open by then, and a fallback the judge
\* stopped gives the look-ahead its turn.
FetchEnds ==
    /\ \/ at = "end"
       \/ at = "fed" /\ \A c \in Part : part[c] \in {"new", "over"}
    /\ at' = "over" /\ gate' = TRUE
    /\ covered' = (covered /\ ~tally.stopped)
    /\ tally' = NoTally /\ brought' = {}
    /\ UNCHANGED <<path, book, ids, pool, fetch, part, req, tier, look, closing>>

CloseStarts ==
    /\ ~closing /\ closing' = TRUE /\ \A l \in Lookup : look[l] = "over"
    /\ UNCHANGED <<path, at, book, ids, gate, covered, pool, fetch, part, req, tier, look, turns>>

\* Keys named and not used, and keys used and not named, as a share of the used.
Drifted ==
    LET common == Cardinality(named \cap used)
    IN (Cardinality(named) + Cardinality(used) - 2 * common) * 100 > Cardinality(used) * Drift

\* -1 stores nothing.
OwnToStore ==
    IF (newest < 0 \/ Drifted) /\ newest + 1 < OwnCap THEN newest + 1 ELSE -1

FallbackToStore(known) ==
    LET last == NewestFallbackGen(gens.back)
    IN IF known /\ (OwnToStore >= 0 \/ last < 0) /\ last + 1 < BackCap THEN last + 1 ELSE -1

\* The index may have become authoritative since the walk.
StoreManifest ==
    /\ closing /\ at = "over" /\ at' = "shut"
    /\ \E known \in {auth, TRUE} :
          wrote' = IF used = {} THEN wrote ELSE [own |-> OwnToStore, back |-> FallbackToStore(known)]
    /\ gens' = [own |-> gens.own \cup ({wrote'.own} \ {-1}), back |-> gens.back \cup ({wrote'.back} \ {-1})]
    /\ UNCHANGED <<path, auth, newest, named, ids, gate, covered, pool, fetch, part, req, tier, look, closing, turns>>

----------------------------------------------------------------------------
(* A lookup: the local tier, AwaitPrefetch, the local tier again, and a    *)
(* request of its own.                                                     *)

\* The manifest and its fallback are told of a lookup; what the fallback notes
\* matters until the fetch is over.
NoteLookup(k, hit) ==
    LET back == path = "fallback" /\ at \notin {"over", "shut"}
        mine == hit /\ k \in brought
        t == [tally EXCEPT !.since = IF tally.paused THEN @ + 1 ELSE @, !.used = IF mine THEN @ + 1 ELSE @]
    IN /\ used' = used \cup {k}
       /\ brought' = IF back /\ mine THEN brought \ {k} ELSE brought
       /\ tally' = IF ~back THEN tally ELSE IF t.paused THEN Judged(t) ELSE t

Look(l) ==
    LET k == KeyOf(l)
    IN /\ look[l] = "new"
       /\ \/ k \in local /\ look' = [look EXCEPT ![l] = "over"] /\ NoteLookup(k, TRUE)
          \/ k \notin local /\ look' = [look EXCEPT ![l] = "await"] /\ UNCHANGED <<used, turns>>
       /\ UNCHANGED <<path, at, book, ids, gate, covered, pool, fetch, part, req, local, closing>>

\* A key on the wire is waited for; one still in the queue is claimed.
AwaitPrefetch(l) ==
    LET k == KeyOf(l)
    IN /\ look[l] = "await"
       /\ look' = [look EXCEPT ![l] = IF fetch[k] \in {"wire", "here"} THEN "wait" ELSE "own"]
       /\ fetch' = [fetch EXCEPT ![k] = IF @ = "queued" THEN "claimed" ELSE @]
       /\ UNCHANGED <<path, at, book, ids, gate, covered, pool, part, req, tier, closing, turns>>

Released(l) ==
    LET k == KeyOf(l)
    IN /\ look[l] = "wait" /\ fetch[k] \in {"landed", "finished"}
       /\ \/ k \in local /\ look' = [look EXCEPT ![l] = "over"] /\ NoteLookup(k, TRUE)
          \/ k \notin local /\ look' = [look EXCEPT ![l] = "own"] /\ UNCHANGED <<used, turns>>
       /\ UNCHANGED <<path, at, book, ids, gate, covered, pool, fetch, part, req, local, closing>>

\* manifestWaitCap.
GiveUp(l) ==
    /\ look[l] = "wait" /\ look' = [look EXCEPT ![l] = "own"]
    /\ UNCHANGED <<path, at, book, ids, gate, covered, pool, fetch, part, req, tier, closing, turns>>

AskItself(l) ==
    /\ look[l] = "own" /\ look' = [look EXCEPT ![l] = "asked"] /\ NoteLookup(KeyOf(l), FALSE)
    /\ UNCHANGED <<path, at, book, ids, gate, covered, pool, fetch, part, req, local, closing>>

Answer(l) ==
    /\ look[l] = "asked" /\ look' = [look EXCEPT ![l] = "over"]
    /\ local' = local \cup (Populate(KeyOf(l)) \cap Stored)
    /\ UNCHANGED <<path, at, book, ids, gate, covered, pool, fetch, part, req, used, closing, turns>>

----------------------------------------------------------------------------
LookupStep(l) == Look(l) \/ AwaitPrefetch(l) \/ Released(l) \/ AskItself(l) \/ Answer(l)

PartStep(c) ==
    \/ Send(c) \/ Turn(c) \/ MarkGiven(c) \/ SendGiven(c)
    \/ StreamEnds(c) \/ NoteLanded(c) \/ Finish(c)
    \/ \E k \in Key : Arrive(c, k)

Running ==
    \/ Walk \/ WalkFallback \/ Cover \/ Release \/ Mark \/ TurnsEnd \/ FetchEnds \/ CloseStarts \/ StoreManifest
    \/ Expand
    \/ \E c \in Part : PartStep(c)
    \/ \E k \in Key : Landed(k)
    \/ \E l \in Lookup : LookupStep(l)

Next == Running \/ \E l \in Lookup : GiveUp(l)

\* Goroutines run and requests end.  No lookup needs manifestWaitCap to end.
Spec == Init /\ [][Next]_vars /\ WF_vars(Running)

----------------------------------------------------------------------------
(* Properties.                                                             *)

\* A key a lookup claimed while its part was in the queue is not fetched a
\* second time by the part (AwaitPrefetch, send).
ClaimedLeftOut == \A k \in Key : path = "own" /\ fetch[k] = "claimed" => \A c \in Part : k \notin req[c]

\* The same of a part of the module's fallback.
ClaimedLeftOutAlways == \A k \in Key : fetch[k] = "claimed" => \A c \in Part : k \notin req[c]

\* A lookup let go because its entry landed finds it in the local tier
\* (fetchNamed, landed).
LandedIsLocal == \A k \in Key : fetch[k] = "landed" => k \in local \cup Flawed

\* The look-ahead sends no window for a build whose own manifest covers it,
\* wherever its workers were when the walk ended (hold, cover, release).
CoveredSendsNoWindow == path = "own" => pool # "sent"

\* The generation a build stores is a new one, and the next build's walk reads
\* it: the doubling search and the walk agree with where manifestToStore puts
\* it.  Of the command's own manifest only an authoritative index promises this;
\* else no gap opens (walkManifest, newestFallbackGen, fallbackToStore).
NextBuildReadsIt ==
    [][wrote' # wrote =>
        /\ wrote'.back >= 0 => wrote'.back \notin gens.back /\ Newest(gens'.back, BackCap) = wrote'.back
        /\ wrote'.own >= 0 /\ auth => wrote'.own \notin gens.own /\ Newest(gens'.own, OwnCap) = wrote'.own
        /\ wrote'.own >= 0 => Newest(gens'.own, OwnCap) >= wrote'.own]_vars

\* Every lookup ends and so does the fetch, though lookups claim keys, wait
\* for parts whose stream is cut, and the judge pauses a fetch nobody uses
\* (finish, waitTurn, awaitManifest).
AllEnd == <>(at = "shut" /\ \A l \in Lookup : look[l] = "over")
=============================================================================
