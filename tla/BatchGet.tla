------------------------------ MODULE BatchGet ------------------------------
(***************************************************************************)
(* How a lookup reaches the server and comes back: getBatch, the GET       *)
(* coalescer and sendBatch (cacheclient/batch.go, webget.go), and the      *)
(* hand-over of bodies nobody asked for (batch_prefetch.go).  A batch is   *)
(* named after one of its callers.  A request ends in one of the ways that *)
(* doRetry lets it end, which ServerDown models: an answer, or none.       *)
(***************************************************************************)
EXTENDS Integers, FiniteSets

CONSTANTS
    Caller,           \* goroutines that call Get, once each
    Key, Extra,       \* keys asked for; keys of entries nobody asked for
    want,             \* the key each caller asks for
    Indexed,          \* keys of the index at the start
    Flaws,            \* the gates of verify that refuse the body stored under a key
    ChanCap,          \* batchReqChBuf
    BatchMax,         \* batchMaxKeys
    Backoff, Limit    \* empty batches before probing ends, prefetchHold

ASSUME BatchGetAssumption ==
    /\ {ChanCap, BatchMax, Backoff} \subseteq Nat \ {0} /\ Limit \in Nat
    /\ want \in [Caller -> Key] /\ Indexed \subseteq Key /\ Key \cap Extra = {}
    /\ Flaws \in [Key -> SUBSET {"outputid", "action", "encoding", "checksum", "buildid", "modindex"}]

VARIABLES
    has,                  \* keys of the server
    claims, knownMiss,    \* the live key set; keys answered absent
    empties, off,         \* consecutiveEmptyBatches, batchProbingDisabled
    pc, replied,          \* a caller's step; the callers with a reply in their channel
    chan, buf,            \* batchReqCh, the coalescer's batch
    st,                   \* a batch's step
    members, reqs,        \* its callers; those still to be answered
    entries, named,       \* keys the response still holds; batches it named a key of
    sink, giving, hold,   \* unrequested bodies: collected, being handed over, bytes held
    phase, aborted        \* of Close; abortCtx is cancelled

keyVars == <<has, claims, knownMiss, empties, off>>
callVars == <<pc, replied>>
lineVars == <<chan, buf>>
sendVars == <<st, members, reqs, entries, named>>
sinkVars == <<sink, giving, hold>>
ends == <<phase, aborted>>
vars == <<keyVars, callVars, lineVars, sendVars, sinkVars, ends>>

Init ==
    /\ has \in SUBSET Key
    /\ claims = Indexed /\ knownMiss = {} /\ empties = 0 /\ off = FALSE
    /\ pc = [c \in Caller |-> "out"] /\ replied = {}
    /\ chan = {} /\ buf = {} /\ st = [c \in Caller |-> "idle"]
    /\ members = [c \in Caller |-> {}] /\ reqs = [c \in Caller |-> {}]
    /\ entries = [c \in Caller |-> {}] /\ named = {}
    /\ sink = [c \in Caller |-> 0] /\ giving = [c \in Caller |-> 0] /\ hold = 0
    /\ phase = "open" /\ aborted = FALSE

InFlight == {s \in Caller : st[s] # "idle"}
Wanted(os) == {want[c] : c \in os}

----------------------------------------------------------------------------
(* A caller: get and getBatch.                                             *)

\* The index is not authoritative: one that is answers an absent key itself.
\* A key answered absent before, or one the set lacks once probing is off, is
\* a miss without a request.  Otherwise the channel has room, or the backend is
\* closing; when both, either.  (A caller held up by a full channel has not
\* begun, in the model.)
Get(c) ==
    /\ pc[c] = "out"
    /\ IF want[c] \in claims \/ (want[c] \notin knownMiss /\ ~off)
       THEN \/ /\ Cardinality(chan) < ChanCap /\ chan' = chan \cup {c}
               /\ pc' = [pc EXCEPT ![c] = "wait"]
            \/ phase # "open" /\ pc' = [pc EXCEPT ![c] = "done"] /\ UNCHANGED chan
       ELSE pc' = [pc EXCEPT ![c] = "done"] /\ UNCHANGED chan
    /\ UNCHANGED <<replied, keyVars, buf, sendVars, sinkVars, ends>>

\* Variant of Receipt: a caller waits for its reply alone.
ReceiptOnly(c) ==
    /\ pc[c] = "wait" /\ c \in replied /\ replied' = replied \ {c}
    /\ pc' = [pc EXCEPT ![c] = "done"]
    /\ UNCHANGED <<keyVars, lineVars, sendVars, sinkVars, ends>>

\* The reply, or once batchDone is closed the reply if there is one, else a miss.
Receipt(c) ==
    /\ pc[c] = "wait" /\ (c \in replied \/ phase \in {"done", "closed"})
    /\ replied' = replied \ {c}
    /\ pc' = [pc EXCEPT ![c] = "done"]
    /\ UNCHANGED <<keyVars, lineVars, sendVars, sinkVars, ends>>

----------------------------------------------------------------------------
(* batchCoalescer.                                                         *)

Coalescing == phase \in {"open", "stop"}

\* flush: the batch becomes a request of its own goroutine.
Flush(os) ==
    IF os = {} THEN UNCHANGED <<st, members>>
    ELSE LET s == CHOOSE c \in os : TRUE
         IN members' = [members EXCEPT ![s] = os] /\ st' = [st EXCEPT ![s] = "ask"]

\* Variant of Collect: the key that fills the batch is left out of it.
CollectFull(c) ==
    /\ Coalescing /\ c \in chan /\ chan' = chan \ {c}
    /\ LET batch == buf \cup {c}
       IN IF Cardinality(batch) >= BatchMax \/ InFlight = {}
          THEN buf' = {} /\ Flush(buf)
          ELSE buf' = batch /\ UNCHANGED <<st, members>>
    /\ UNCHANGED <<keyVars, callVars, reqs, entries, named, sinkVars, ends>>

\* A key goes out at once when nothing is in flight or the batch is full.
Collect(c) ==
    /\ Coalescing /\ c \in chan /\ chan' = chan \ {c}
    /\ LET batch == buf \cup {c}
       IN IF Cardinality(batch) >= BatchMax \/ InFlight = {}
          THEN buf' = {} /\ Flush(batch)
          ELSE buf' = batch /\ UNCHANGED <<st, members>>
    /\ UNCHANGED <<keyVars, callVars, reqs, entries, named, sinkVars, ends>>

\* A request finished (the sent channel), or the safety net's timer fired,
\* which it may do at any time.
Release ==
    /\ Coalescing /\ buf # {} /\ buf' = {} /\ Flush(buf)
    /\ UNCHANGED <<keyVars, callVars, chan, reqs, entries, named, sinkVars, ends>>

\* The stop: the batch goes out, what is in the channel stays there.
StopLoop ==
    /\ phase = "stop" /\ phase' = "drain" /\ buf' = {} /\ Flush(buf)
    /\ UNCHANGED <<keyVars, callVars, chan, reqs, entries, named, sinkVars, aborted>>

----------------------------------------------------------------------------
(* sendBatch and getIndividual.                                            *)

Step(s, l) == st' = [st EXCEPT ![s] = l]
Reply(os) == replied' = replied \cup os

\* The goroutine ends: the line is free, and what it collected is handed over.
EndBatch(s) ==
    /\ members' = [members EXCEPT ![s] = {}] /\ reqs' = [reqs EXCEPT ![s] = {}]
    /\ Step(s, "idle") /\ named' = named \ {s}
    /\ giving' = [giving EXCEPT ![s] = sink[s]] /\ sink' = [sink EXCEPT ![s] = 0]

\* reclaimAbsent.
Reclaim(ks) == claims' = claims \ ks /\ knownMiss' = knownMiss \cup ks

\* No answer, or one that is neither a stream nor a refusal of the endpoint:
\* all miss, and it says nothing of the keys.
AskFails(s) ==
    /\ st[s] = "ask" /\ Reply(members[s]) /\ EndBatch(s)
    /\ UNCHANGED <<keyVars, pc, chan, buf, entries, hold, ends>>

\* A server without the endpoint is asked for each key on its own.
NoEndpoint(s) ==
    /\ st[s] = "ask" /\ ~aborted /\ Step(s, "single") /\ reqs' = [reqs EXCEPT ![s] = members[s]]
    /\ UNCHANGED <<keyVars, callVars, lineVars, members, entries, named, sinkVars, ends>>

\* The map of requests holds one per key.
OnePerKey(os) == {S \in SUBSET os : \A c \in os : Cardinality({d \in S : want[d] = want[c]}) = 1}

\* A stream of the entries the server has, and of some it adds.
Answer(s) ==
    /\ st[s] = "ask" /\ ~aborted /\ Step(s, "stream")
    /\ \E S \in OnePerKey(members[s]) : reqs' = [reqs EXCEPT ![s] = S]
    /\ \E x \in SUBSET Extra :
         entries' = [entries EXCEPT ![s] = (Wanted(members[s]) \cap has) \cup x]
    /\ UNCHANGED <<keyVars, callVars, lineVars, members, named, sinkVars, ends>>

\* A body passes every gate, or it is a miss.
Verify(k) == Flaws[k] = {}

\* prefetchSink.collect: a body nobody asked for is kept if it fits.
TakeHold(s) ==
    IF hold < Limit THEN hold' = hold + 1 /\ sink' = [sink EXCEPT ![s] = @ + 1]
    ELSE UNCHANGED <<hold, sink>>

\* An entry answers its caller, with a hit or (verify) a miss.
Entry(s, k) ==
    /\ st[s] = "stream" /\ k \in entries[s] /\ entries' = [entries EXCEPT ![s] = @ \ {k}]
    /\ named' = named \cup {s}
    /\ LET cs == {c \in reqs[s] : want[c] = k}
       IN /\ Reply(cs)
          /\ reqs' = [reqs EXCEPT ![s] = @ \ cs]
          /\ IF cs = {} THEN TakeHold(s) ELSE UNCHANGED <<hold, sink>>
    /\ UNCHANGED <<keyVars, pc, lineVars, st, members, giving, ends>>

\* Variant of Cut: what a cut stream did not name counts as absent.
CutIsAbsent(s) ==
    /\ st[s] = "stream" /\ Step(s, "single") /\ entries' = [entries EXCEPT ![s] = {}]
    /\ named' = named \ {s}
    /\ Reclaim(Wanted(reqs[s]))
    /\ UNCHANGED <<has, empties, off, callVars, lineVars, members, reqs, sinkVars, ends>>

\* A cut stream says nothing about the keys it did not reach: they are asked
\* for one by one.
Cut(s) ==
    /\ st[s] = "stream" /\ Step(s, "single") /\ entries' = [entries EXCEPT ![s] = {}]
    /\ named' = named \ {s}
    /\ UNCHANGED <<keyVars, callVars, lineVars, members, reqs, sinkVars, ends>>

\* A batch with no entry counts, and Backoff of them in a row end probing.
NoteBatchEntries(some) ==
    IF off THEN UNCHANGED <<empties, off>>
    ELSE empties' = (IF some THEN 0 ELSE empties + 1) /\ off' = (empties' >= Backoff)

\* The stream ended: what it never named is absent.
StreamEnd(s) ==
    /\ st[s] = "stream" /\ entries[s] = {} /\ EndBatch(s)
    /\ Reclaim(Wanted(reqs[s])) /\ Reply(reqs[s])
    /\ NoteBatchEntries(s \in named)
    /\ UNCHANGED <<has, pc, chan, buf, entries, hold, ends>>

\* getIndividual: a 404 is absence, a refused body loses its claim too; a hit,
\* and an error, which says nothing, change neither.
AskSingle(s, c) ==
    /\ st[s] = "single" /\ c \in reqs[s] /\ reqs' = [reqs EXCEPT ![s] = @ \ {c}]
    /\ \/ want[c] \notin has /\ Reclaim({want[c]}) /\ Reply({c})
       \/ want[c] \in has /\ ~Verify(want[c]) /\ Reply({c}) /\ claims' = claims \ {want[c]} /\ UNCHANGED knownMiss
       \/ Reply({c}) /\ UNCHANGED <<claims, knownMiss>>
    /\ UNCHANGED <<has, empties, off, pc, lineVars, st, members, entries, named, sinkVars, ends>>

SinglesEnd(s) ==
    /\ st[s] = "single" /\ reqs[s] = {} /\ EndBatch(s)
    /\ UNCHANGED <<keyVars, callVars, chan, buf, entries, hold, ends>>

\* storePrefetched returned: the bytes are given back.
HandedOver(s) ==
    /\ giving[s] > 0 /\ hold' = hold - giving[s] /\ giving' = [giving EXCEPT ![s] = 0]
    /\ UNCHANGED <<keyVars, callVars, lineVars, sendVars, sink, ends>>

----------------------------------------------------------------------------
(* Close.                                                                  *)

\* A hand-off cancels the batch requests first.
Close ==
    /\ phase = "open" /\ phase' = "stop" /\ aborted' \in BOOLEAN
    /\ UNCHANGED <<keyVars, callVars, lineVars, sendVars, sinkVars>>

Drained ==
    /\ phase = "drain" /\ InFlight = {} /\ phase' = "done"
    /\ UNCHANGED <<keyVars, callVars, lineVars, sendVars, sinkVars, aborted>>

\* Variant of Closed: the hand-overs are not waited for.
ClosedEarly ==
    /\ phase = "done" /\ phase' = "closed"
    /\ UNCHANGED <<keyVars, callVars, lineVars, sendVars, sinkVars, aborted>>

Closed ==
    /\ phase = "done" /\ (\A s \in Caller : giving[s] = 0) /\ phase' = "closed"
    /\ UNCHANGED <<keyVars, callVars, lineVars, sendVars, sinkVars, aborted>>

----------------------------------------------------------------------------
CoalescerStep == (\E c \in Caller : Collect(c)) \/ Release \/ StopLoop \/ Drained \/ Closed
BatchStep(s) ==
    \/ AskFails(s) \/ NoEndpoint(s) \/ Answer(s) \/ (\E k \in Key \cup Extra : Entry(s, k))
    \/ Cut(s) \/ StreamEnd(s) \/ (\E c \in Caller : AskSingle(s, c)) \/ SinglesEnd(s) \/ HandedOver(s)

Next ==
    \/ \E c \in Caller : Get(c) \/ Receipt(c) \/ BatchStep(c)
    \/ CoalescerStep \/ Close

\* Goroutines run, the coalescer's timer fires, and a request ends: its
\* watchdog sees to it.  A lookup takes finitely many steps, so it is enough
\* that some goroutine runs while one can.
Fairness == WF_vars(CoalescerStep \/ \E c \in Caller : Receipt(c) \/ BatchStep(c))

Spec == Init /\ [][Next]_vars /\ Fairness

----------------------------------------------------------------------------
(* Properties.                                                             *)

TypeOK ==
    /\ {has, claims, knownMiss} \subseteq SUBSET Key /\ {chan, buf} \subseteq SUBSET Caller
    /\ empties \in 0..Backoff /\ {off, aborted} \subseteq BOOLEAN
    /\ pc \in [Caller -> {"out", "wait", "done"}] /\ replied \subseteq Caller
    /\ st \in [Caller -> {"idle", "ask", "stream", "single"}]
    /\ {members, reqs} \subseteq [Caller -> SUBSET Caller]
    /\ entries \in [Caller -> SUBSET (Key \cup Extra)] /\ named \subseteq Caller
    /\ {sink, giving} \subseteq [Caller -> Nat] /\ hold \in Nat
    /\ phase \in {"open", "stop", "drain", "done", "closed"}

\* A key is answered absent for good (reclaimAbsent), and uploaded again, only
\* when the server lacked it: not because a stream was cut, a request failed
\* or a body was refused.
AbsenceProved == knownMiss \cap has = {}

\* Unrequested bodies never exceed the budget, and Close leaves none behind
\* (prefetchBudget, prefetchWG).
HoldReturned == hold <= Limit /\ (phase = "closed" => hold = 0)

\* Every caller of a batch that is over has its reply: sendBatch hands the
\* entries back to the waiting callers via their reply channels.
BatchAnswersAll ==
    \A c \in Caller :
        pc[c] = "wait" /\ c \notin replied /\ phase = "open" =>
            c \in chan \cup buf \cup UNION {members[s] : s \in Caller}

Lone(c) == \A d \in Caller : want[d] = want[c] => d = c

\* A Get whose key nobody else asks for returns, whatever the server does
\* (batchCoalescer, sendBatch).
GetReturns == \A c \in Caller : Lone(c) => (pc[c] = "wait" ~> pc[c] = "done")

\* Close returns, and every Get with it, those included that no batch will
\* answer (getBatch's wait for batchDone).
CloseEndsAll == phase = "stop" ~> phase = "closed" /\ \A c \in Caller : pc[c] # "wait"
=============================================================================
