------------------------------ MODULE KeyIndex ------------------------------
(***************************************************************************)
(* The server's key index (index.go, indexdelta.go) and the copies clients *)
(* hold of it through GET /_index (handleGetIndex).  The index advertises  *)
(* the set hashes \cup pending.  A client fetches it whole, as a blob that *)
(* names a position in the add log, and afterwards fetches only the tail   *)
(* of that log.  Every method runs under Index.mu, so it is one step.      *)
(*                                                                         *)
(* A cacheprog key and its 32-byte action hash determine each other        *)
(* (extractActionHash, compactKey), so the model writes one for the other. *)
(* The mtime list is a bag: the order of its entries matters only to the   *)
(* window search, which NearbyKeys models.                                 *)
(***************************************************************************)
EXTENDS Integers, Sequences, FiniteSets, Functions

CONSTANTS
    Key,          \* object keys
    ActionKey,    \* those with the cacheprog form, which carry a hash
    Form,         \* serializations: indexForm
    Name,         \* what a serialization writes for a hash
    Abbrev,       \* Abbrev[f][h]: h cut to the width of form f
    Client,       \* clients that hold a copy
    EntriesOff,   \* Index.entriesOff, set from the configuration
    AddLogLimit,  \* maxAddLog
    MaxEpoch,     \* bound: epochs of the add log
    MaxEntries    \* bound: mtime entries of one key

ASSUME IndexAssumption ==
    /\ ActionKey \subseteq Key
    /\ Abbrev \in [Form -> [ActionKey -> Name]]
    /\ EntriesOff \in BOOLEAN
    /\ AddLogLimit \in Nat \ {0}
    /\ MaxEpoch \in Nat /\ MaxEntries \in Nat

VARIABLES
    entries, pendingEntries,  \* mtime entries per key: sorted, and not yet
    hashes, pending,          \* the master list, and hashes not yet merged
    mutations,
    forms,                    \* cached blob of each form built so far
    addEpoch, added,          \* the add log
    copies                    \* what each client received

listVars == <<entries, pendingEntries>>
logVars == <<mutations, forms, addEpoch, added>>
indexVars == <<entries, pendingEntries, hashes, pending, mutations, forms,
               addEpoch, added>>
vars == <<entries, pendingEntries, hashes, pending, mutations, forms,
          addEpoch, added, copies>>

\* What /_index advertises, or will on its next serialization (Contains).
Advertised == hashes \cup pending

\* The names form f writes for the hashes of S.
Names(f, S) == {Abbrev[f][h] : h \in S}

\* The hashes the add log gained after position seq.
Since(seq) == {added[i] : i \in seq + 1..Len(added)}

\* The mtime list a walk of the keys of S builds.
Listed(S) == [k \in Key |-> IF k \in S /\ ~EntriesOff THEN 1 ELSE 0]

NoForms == [f \in {} |-> 0]

\* A zero epoch is no position.
NoCopy(f) == [form |-> f, known |-> {}, epoch |-> 0, seq |-> 0]

Init ==
    \E walk \in SUBSET Key :
        /\ entries = Listed(walk) /\ pendingEntries = [k \in Key |-> 0]
        /\ hashes = walk \cap ActionKey /\ pending = {}
        /\ mutations = 1 /\ forms = NoForms
        /\ addEpoch = 1 /\ added = <<>>
        /\ \E ask \in [Client -> Form] : copies = [c \in Client |-> NoCopy(ask[c])]

----------------------------------------------------------------------------
\* Variant of Aged: a removal leaves the blob interval of the cached blobs
\* running.
StayYoung(cached) == cached

\* The cached blobs, all too old to be handed out.
Aged(cached) == [f \in DOMAIN cached |-> [cached[f] EXCEPT !.young = FALSE]]

(***************************************************************************)
(* resetAddLogLocked, leaving log in the new epoch and more mutations      *)
(* counted by the caller.  The random epoch is one never used before.      *)
(***************************************************************************)
ResetAddLog(log, more, cached) ==
    /\ addEpoch < MaxEpoch /\ addEpoch' = addEpoch + 1
    /\ added' = log
    /\ mutations' = mutations + 1 + more
    /\ forms' = Aged(cached)

\* appendAddLocked and the mutation its caller counts.
AppendAdd(h) ==
    \/ Len(added) >= AddLogLimit /\ ResetAddLog(<<h>>, 1, forms)
    \/ /\ Len(added) < AddLogLimit
       /\ added' = Append(added, h)
       /\ mutations' = mutations + 1
       /\ UNCHANGED <<addEpoch, forms>>

\* Variant of Put: an overflow of the add log empties the pending list too.
PutOverflowForgets(k) ==
    /\ entries[k] + pendingEntries[k] < MaxEntries
    /\ pendingEntries' = [pendingEntries EXCEPT ![k] = IF EntriesOff THEN @ ELSE @ + 1]
    /\ \/ /\ k \in ActionKey /\ AppendAdd(k)
          /\ pending' = IF Len(added) >= AddLogLimit THEN {k} ELSE pending \cup {k}
       \/ k \notin ActionKey /\ UNCHANGED <<pending, logVars>>
    /\ UNCHANGED <<entries, hashes>>

\* Index.Put.
Put(k) ==
    /\ entries[k] + pendingEntries[k] < MaxEntries
    /\ pendingEntries' = [pendingEntries EXCEPT ![k] = IF EntriesOff THEN @ ELSE @ + 1]
    /\ \/ k \in ActionKey /\ pending' = pending \cup {k} /\ AppendAdd(k)
       \/ k \notin ActionKey /\ UNCHANGED <<pending, logVars>>
    /\ UNCHANGED <<entries, hashes>>

\* drainEntriesLocked.
Drained == [k \in Key |-> entries[k] + pendingEntries[k]]
NoEntries == [k \in Key |-> 0]

\* Index.Remove: the first mtime entry of the key goes, and every trace of its
\* hash.
Remove(k) ==
    /\ entries' = [Drained EXCEPT ![k] = IF @ = 0 THEN 0 ELSE @ - 1]
    /\ pendingEntries' = NoEntries
    /\ \/ /\ k \in ActionKey
          /\ pending' = pending \ {k} /\ hashes' = hashes \ {k}
          /\ ResetAddLog(<<>>, 0, forms)
       \/ k \notin ActionKey /\ UNCHANGED <<pending, hashes, logVars>>

\* Index.RemoveKeys: one filter pass over the entries and the hashes.
RemoveKeys(K) ==
    /\ K # {}
    /\ entries' = [k \in Key |-> IF k \in K THEN 0 ELSE Drained[k]]
    /\ pendingEntries' = NoEntries
    /\ \/ /\ K \cap ActionKey # {}
          /\ pending' = pending \ K /\ hashes' = hashes \ K
          /\ ResetAddLog(<<>>, 0, forms)
       \/ K \cap ActionKey = {} /\ UNCHANGED <<pending, hashes, logVars>>

\* NearbyKeys drains the pending entries before it searches.
NearbyKeys ==
    /\ pendingEntries # NoEntries
    /\ entries' = Drained /\ pendingEntries' = NoEntries
    /\ UNCHANGED <<hashes, pending, logVars>>

\* blobServableLocked.
Servable(f) ==
    f \in DOMAIN forms /\ (forms[f].mutation = mutations \/ forms[f].young)

\* The blob of form f that names the current position.
Serialized(f) ==
    [blob |-> Names(f, Advertised), epoch |-> addEpoch, seq |-> Len(added),
     young |-> TRUE, mutation |-> mutations]

\* BlobGenForm: a servable blob as it is, or pending merged and a new blob.
BlobGenForm(f) ==
    \/ Servable(f) /\ UNCHANGED indexVars
    \/ /\ ~Servable(f)
       /\ hashes' = Advertised /\ pending' = {}
       /\ forms' = [g \in DOMAIN forms \cup {f} |->
                       IF g = f THEN Serialized(f) ELSE forms[g]]
       /\ UNCHANGED <<listVars, mutations, addEpoch, added>>

\* applyRebuild: the walk replaces the master state, the pending buffers stay.
ApplyRebuild(walk) ==
    /\ entries' = Listed(walk)
    /\ hashes' = walk \cap ActionKey
    /\ ResetAddLog(<<>>, 0, NoForms)
    /\ UNCHANGED <<pendingEntries, pending>>

\* Variant of Restart: every process numbers its epochs alike.
RestartSameEpoch(walk) ==
    /\ UNCHANGED addEpoch
    /\ entries' = Listed(walk) /\ pendingEntries' = NoEntries
    /\ hashes' = walk \cap ActionKey /\ pending' = {}
    /\ mutations' = 1 /\ forms' = NoForms /\ added' = <<>>

\* The process ends and a new one builds its index (NewIndex).
Restart(walk) ==
    /\ addEpoch < MaxEpoch /\ addEpoch' = addEpoch + 1
    /\ entries' = Listed(walk) /\ pendingEntries' = NoEntries
    /\ hashes' = walk \cap ActionKey /\ pending' = {}
    /\ mutations' = 1 /\ forms' = NoForms /\ added' = <<>>

\* The blob interval passes for a cached blob.
Age(f) ==
    /\ f \in DOMAIN forms /\ forms[f].young
    /\ forms' = [forms EXCEPT ![f].young = FALSE]
    /\ UNCHANGED <<listVars, hashes, pending, mutations, addEpoch, added>>

----------------------------------------------------------------------------
(* What a client does with the answers of handleGetIndex.                  *)

\* GET /_index: the blob, and the position it is complete up to.
FetchWhole(c) ==
    LET f == copies[c].form IN
    /\ BlobGenForm(f)
    /\ copies' = [copies EXCEPT ![c] =
           [form |-> f, known |-> forms'[f].blob,
            epoch |-> forms'[f].epoch, seq |-> forms'[f].seq]]

\* DeltaForm answers a position of the current epoch within the log.
DeltaOK(c) == copies[c].epoch = addEpoch /\ copies[c].seq <= Len(added)

\* GET /_index?epoch=..&seq=..: the hashes added since, and the new position.
FetchDelta(c) ==
    /\ copies[c].epoch # 0 /\ DeltaOK(c)
    /\ copies' = [copies EXCEPT
           ![c].known = @ \cup Names(copies[c].form, Since(copies[c].seq)),
           ![c].seq = Len(added)]
    /\ UNCHANGED indexVars

\* The same request answered 410: the client gives its position up.
Gone(c) ==
    /\ copies[c].epoch # 0 /\ ~DeltaOK(c)
    /\ copies' = [copies EXCEPT ![c].epoch = 0]
    /\ UNCHANGED indexVars

IndexStep ==
    \/ \E k \in Key : Put(k) \/ Remove(k)
    \/ \E K \in SUBSET Key : RemoveKeys(K) \/ ApplyRebuild(K) \/ Restart(K)
    \/ NearbyKeys
    \/ \E f \in Form : Age(f)

Next ==
    \/ IndexStep /\ UNCHANGED copies
    \/ \E c \in Client : FetchWhole(c) \/ FetchDelta(c) \/ Gone(c)

Spec == Init /\ [][Next]_vars

----------------------------------------------------------------------------
Cache == [blob : SUBSET Name, epoch : Nat, seq : Nat, young : BOOLEAN, mutation : Nat]
Copy == [form : Form, known : SUBSET Name, epoch : Nat, seq : Nat]

TypeOK ==
    /\ entries \in [Key -> Nat] /\ pendingEntries \in [Key -> Nat]
    /\ hashes \in SUBSET ActionKey /\ pending \in SUBSET ActionKey
    /\ mutations \in Nat /\ addEpoch \in Nat \ {0} /\ added \in Seq(ActionKey)
    /\ DOMAIN forms \subseteq Form /\ forms \in [DOMAIN forms -> Cache]
    /\ copies \in [Client -> Copy]

\* "Every hash in the add log is in pending or hashes, so the list holds them
\* all" (mergePendingLocked): removals and rebuilds end the epoch, so the log
\* never names a key the index stopped advertising.
LogIsAdvertised == Range(added) \subseteq Advertised

\* A cached blob of the current epoch and the log after its position are the
\* advertised set, whatever was put, merged for another form or drained since
\* it was built, so the delta a client of that form asks for is the right one.
BlobPlusLog ==
    \A f \in DOMAIN forms : forms[f].epoch = addEpoch =>
        /\ forms[f].seq <= Len(added)
        /\ forms[f].blob \cup Names(f, Since(forms[f].seq)) = Names(f, Advertised)

\* A client whose position is in the current epoch is one delta away from the
\* advertised set: it lacks only the hashes the log gained since, and it knows
\* no key that was removed. A position of an earlier epoch, or of an earlier
\* server process, is never mistaken for one of this log.
CopyPlusLog ==
    \A c \in Client : copies[c].epoch = addEpoch =>
        /\ copies[c].seq <= Len(added)
        /\ copies[c].known \cup Names(copies[c].form, Since(copies[c].seq))
               = Names(copies[c].form, Advertised)

\* What /_index answers at the moment it answers names no removed key and is of
\* the current epoch, even when the answer is a cached blob: removing a key
\* makes every cached blob of every form too old to serve.
AnswersAreCurrent ==
    [][\A c \in Client :
         copies'[c] # copies[c] /\ copies'[c].epoch # 0 =>
            /\ copies'[c].epoch = addEpoch'
            /\ copies'[c].known \subseteq Names(copies'[c].form, Advertised')]_vars

\* A whole answer misses an advertised key only while the blob interval runs:
\* once the cached blob is old, a fetch shows every PUT before it.
OldBlobsAreRebuilt ==
    [][\A c \in Client : LET f == copies[c].form IN
         FetchWhole(c) /\ ~(f \in DOMAIN forms /\ forms[f].young)
            => copies'[c].known = Names(f, Advertised')]_vars

Keys == INSTANCE AdvertisedKeys WITH Key <- ActionKey

\* Through every serialization, epoch and cached blob, the index is a set of
\* advertised keys changed by the operations of AdvertisedKeys alone: serving an
\* answer or ageing a blob never adds, drops or unmerges a key in any other way.
ImplementsAdvertisedKeys == Keys!IndexSpec
=============================================================================
