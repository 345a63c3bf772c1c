----------------------------- MODULE SlotQueue -----------------------------
(***************************************************************************)
(* The server's admission control: slotQueue (admit.go), and admit,        *)
(* admission and releaseSlot (server.go), as the request goroutines of     *)
(* ServeHTTP use them.  Every step below that touches the queue is one     *)
(* critical section of slotQueue.mu, so it is atomic; a request waits      *)
(* between two of them in a select over the hand-over channel, the         *)
(* admission timer and the client's context.                               *)
(***************************************************************************)
EXTENDS Integers, Sequences, FiniteSets, SequencesExt

CONSTANTS
    Req,        \* request goroutines; one runs a request after another
    LookAhead,  \* those that send the look-ahead kind header
    Slots,      \* Config.MaxConcurrentRequests
    MaxQueued   \* maxQueuedRequests

ASSUME SlotAssumption ==
    /\ IsFiniteSet(Req)
    /\ LookAhead \subseteq Req
    /\ Slots \in Nat \ {0}
    /\ MaxQueued \in Nat

VARIABLES
    free,      \* slotQueue.free
    demand,    \* slotQueue.demand, in arrival order
    prefetch,  \* slotQueue.prefetch, in arrival order
    granted,   \* requests whose slotWaiter.granted is set (ready is closed)
    once,      \* requests whose admission.once has fired
    gone,      \* requests whose context has ended
    pc         \* where each request goroutine is

vars == <<free, demand, prefetch, granted, once, gone, pc>>

Init ==
    /\ free = Slots
    /\ demand = <<>> /\ prefetch = <<>>
    /\ granted = {} /\ once = {} /\ gone = {}
    /\ pc = [r \in Req |-> "idle"]

\* The requests whose waiter is in one of the two lists.
Queued == Range(demand) \cup Range(prefetch)

\* The place of r's element in the list q (list.Element is its own handle).
Place(q, r) == CHOOSE i \in 1..Len(q) : q[i] = r

Unlink(q, r) == IF r \in Range(q) THEN RemoveAt(q, Place(q, r)) ELSE q

\* Variants of ReleaseLocked: the slot is only counted, or the classes swap.
ReleaseLockedCounts(flags) ==
    /\ free' = free + 1 /\ granted' = flags
    /\ UNCHANGED <<demand, prefetch>>

ReleaseLockedPrefetchFirst(flags) ==
    \/ /\ prefetch # <<>>
       /\ prefetch' = Tail(prefetch)
       /\ granted' = flags \cup {Head(prefetch)}
       /\ UNCHANGED <<free, demand>>
    \/ /\ prefetch = <<>> /\ demand # <<>>
       /\ demand' = Tail(demand)
       /\ granted' = flags \cup {Head(demand)}
       /\ UNCHANGED <<free, prefetch>>
    \/ /\ demand = <<>> /\ prefetch = <<>>
       /\ free' = free + 1 /\ granted' = flags
       /\ UNCHANGED <<demand, prefetch>>

(***************************************************************************)
(* releaseLocked: the slot goes to the first demand waiter, else to the    *)
(* first look-ahead waiter, else back to the count.  flags is the set of   *)
(* granted waiters the caller leaves behind.                               *)
(***************************************************************************)
ReleaseLocked(flags) ==
    \/ /\ demand # <<>>
       /\ demand' = Tail(demand)
       /\ granted' = flags \cup {Head(demand)}
       /\ UNCHANGED <<free, prefetch>>
    \/ /\ demand = <<>> /\ prefetch # <<>>
       /\ prefetch' = Tail(prefetch)
       /\ granted' = flags \cup {Head(prefetch)}
       /\ UNCHANGED <<free, demand>>
    \/ /\ demand = <<>> /\ prefetch = <<>>
       /\ free' = free + 1
       /\ granted' = flags
       /\ UNCHANGED <<demand, prefetch>>

\* Variant of AdmissionRelease: a release without sync.Once.
AdmissionReleaseAgain(r) == ReleaseLocked(granted)

\* admission.release: the slot is given back by the first call only.
AdmissionRelease(r) ==
    \/ r \notin once /\ ReleaseLocked(granted)
    \/ r \in once /\ UNCHANGED <<free, demand, prefetch, granted>>

Goto(r, l) == pc' = [pc EXCEPT ![r] = l]

\* A request that ends leaves no context behind.
Ends(r) == Goto(r, "idle") /\ gone' = gone \ {r}

----------------------------------------------------------------------------
\* A request arrives; admit first tries a slot without waiting (tryTake).
TryTake(r) ==
    /\ pc[r] = "idle"
    /\ \/ free > 0 /\ free' = free - 1 /\ Goto(r, "work")
       \/ free = 0 /\ UNCHANGED free /\ Goto(r, "take")
    /\ UNCHANGED <<demand, prefetch, granted, once, gone>>

\* take's first critical section: a slot, a refusal, or a place in its list.
Take(r) ==
    /\ pc[r] = "take"
    /\ \/ /\ free > 0
          /\ free' = free - 1 /\ Goto(r, "work")
          /\ UNCHANGED <<demand, prefetch, gone>>
       \/ /\ free = 0 /\ Len(demand) + Len(prefetch) >= MaxQueued
          /\ Ends(r)
          /\ UNCHANGED <<free, demand, prefetch>>
       \/ /\ free = 0 /\ Len(demand) + Len(prefetch) < MaxQueued
          /\ IF r \in LookAhead
             THEN prefetch' = Append(prefetch, r) /\ UNCHANGED demand
             ELSE demand' = Append(demand, r) /\ UNCHANGED prefetch
          /\ Goto(r, "queued")
          /\ UNCHANGED <<free, gone>>
    /\ UNCHANGED <<granted, once>>

\* The select of take: the hand-over channel is closed ...
Ready(r) ==
    /\ pc[r] = "queued" /\ r \in granted
    /\ granted' = granted \ {r}
    /\ Goto(r, "work")
    /\ UNCHANGED <<free, demand, prefetch, once, gone>>

\* ... or the admission wait passes, whatever happened to the waiter so far ...
Timeout(r) ==
    /\ pc[r] = "queued"
    /\ Goto(r, "ended")
    /\ UNCHANGED <<free, demand, prefetch, granted, once, gone>>

\* ... or the client's context is done.
Cancelled(r) ==
    /\ pc[r] = "queued" /\ r \in gone
    /\ Goto(r, "ended")
    /\ UNCHANGED <<free, demand, prefetch, granted, once, gone>>

\* take's second critical section, after a wait that ended.
Settle(r) ==
    /\ pc[r] = "ended"
    /\ \/ /\ r \notin granted
          /\ demand' = Unlink(demand, r) /\ prefetch' = Unlink(prefetch, r)
          /\ Ends(r)
          /\ UNCHANGED <<free, granted>>
       \/ /\ r \in granted /\ r \in gone
          /\ ReleaseLocked(granted \ {r})
          /\ Ends(r)
       \/ /\ r \in granted /\ r \notin gone
          /\ granted' = granted \ {r}
          /\ Goto(r, "work")
          /\ UNCHANGED <<free, demand, prefetch, gone>>
    /\ UNCHANGED once

\* The client goes away. Only a request that has yet to be admitted notices.
ClientGone(r) ==
    /\ pc[r] \in {"take", "queued", "ended"} /\ r \notin gone
    /\ gone' = gone \cup {r}
    /\ UNCHANGED <<free, demand, prefetch, granted, once, pc>>

\* releaseSlot: a handler gives its slot back before a long transfer.
ReleaseSlot(r) ==
    /\ pc[r] = "work"
    /\ AdmissionRelease(r)
    /\ once' = once \cup {r}
    /\ UNCHANGED <<gone, pc>>

\* ServeHTTP returns: the deferred release runs, whoever released before. The
\* next request of this goroutine has an admission of its own.
Return(r) ==
    /\ pc[r] = "work"
    /\ AdmissionRelease(r)
    /\ once' = once \ {r}
    /\ Ends(r)

Next ==
    \E r \in Req :
        \/ TryTake(r) \/ Take(r) \/ Ready(r) \/ Timeout(r) \/ Cancelled(r)
        \/ Settle(r) \/ ClientGone(r) \/ ReleaseSlot(r) \/ Return(r)

Spec == Init /\ [][Next]_vars

(***************************************************************************)
(* Goroutines keep running and handlers end (the stall guard and the       *)
(* bodies' deadlines bound them).  Nothing is assumed of arrivals, of      *)
(* clients that leave, or of the admission timer.                          *)
(***************************************************************************)
Fairness ==
    \A r \in Req : WF_vars(Take(r)) /\ WF_vars(Ready(r)) /\ WF_vars(Settle(r))
                   /\ WF_vars(Return(r))

FairSpec == Spec /\ Fairness

----------------------------------------------------------------------------
\* The requests that own a slot: at work with it, or handed one.
Holders == {r \in Req : pc[r] = "work" /\ r \notin once} \cup granted

\* Admission control is a counting semaphore over Holders: every step of a
\* request, a lost race with its timer included, is an acquire, a release, a
\* hand-over or nothing (WorkSlots).
Semaphore == INSTANCE WorkSlots WITH holders <- Holders
ImplementsSemaphore == Semaphore!Spec

TypeOK ==
    /\ free \in Nat
    /\ demand \in Seq(Req) /\ prefetch \in Seq(Req)
    /\ granted \in SUBSET Req /\ once \in SUBSET Req /\ gone \in SUBSET Req
    /\ pc \in [Req -> {"idle", "take", "queued", "ended", "work"}]

\* No slot is lost or invented: the free count and the requests that own a
\* slot always add up to max_concurrent_requests, whatever timeout, hang-up
\* or early release raced the hand-over (take, release, admission.once).
SlotsConserved == Cardinality(Holders) + free = Slots

\* A slot never lies idle while somebody waits for one: release hands it over
\* instead of counting it, and a waiter that gives up hands it on.
NoIdleSlot == free > 0 => demand = <<>> /\ prefetch = <<>>

\* The lists hold exactly the requests that wait without a slot, each in the
\* list of its class: a waiter that left (timeout, hang-up) or was handed a
\* slot leaves no element behind for a later release to waste a slot on.
ListsAreTheWaiters ==
    /\ Queued = {r \in Req : pc[r] \in {"queued", "ended"} /\ r \notin granted}
    /\ Range(demand) \cap LookAhead = {} /\ Range(prefetch) \subseteq LookAhead
    /\ IsInjective(demand) /\ IsInjective(prefetch)

\* maxQueuedRequests bounds the two lists together.
QueueBounded == Len(demand) + Len(prefetch) <= MaxQueued

\* Nobody jumps the queue: a request gets a slot on arrival (tryTake, or
\* take's second look) only when nobody was waiting for one.
NoBarging ==
    [][\A r \in Req : pc[r] \in {"idle", "take"} /\ pc'[r] = "work"
                      => Queued = {}]_vars

\* A build that waits goes before speculation, and each class is served in
\* arrival order: a look-ahead waiter is handed a slot only when no build
\* waits, and whoever is handed one was the first of its class.
DemandFirst ==
    [][\A r \in Req : r \in granted' /\ r \notin granted
                      => \/ demand # <<>> /\ r = Head(demand)
                         \/ demand = <<>> /\ prefetch # <<>> /\ r = Head(prefetch)]_vars

\* A build that queued gets an answer even if its admission timer never
\* fired: running requests return, and each returned slot moves the list on.
DemandServed ==
    \A r \in Req \ LookAhead : pc[r] = "queued" ~> pc[r] # "queued"

\* A slot handed to a request that hung up is not kept: every granted waiter
\* takes the slot to work or passes it on.
GrantsAreUsed == \A r \in Req : r \in granted ~> r \notin granted
=============================================================================
