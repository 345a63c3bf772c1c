--------------------------- MODULE RequestProofs ----------------------------
(***************************************************************************)
(* Proofs about the client's requests to the server: the coalesced gets    *)
(* (BatchGet), and the retry loop with its latch under every request       *)
(* (ServerDown).  They hold for any callers, keys, batches, limits,        *)
(* requests and retries.                                                   *)
(*                                                                         *)
(* A key is recorded as absent only if the server lacks it (IInv): a       *)
(* stream that was not cut still holds the entry of every caller it owes   *)
(* one.  The bodies nobody asked for stay within the budget and are gone   *)
(* after Close (HInv): what is charged is the number of bodies the batches *)
(* hold between them.  At most one probe is out, and no Fetch that waits   *)
(* for the server misses its return (DownInv).                             *)
(***************************************************************************)
EXTENDS BatchGet, ServerDown, FiniteSetTheorems, TLAPS

\* The types of what the invariant is about.
Shapes ==
    /\ buf \subseteq Caller
    /\ st \in [Caller -> {"idle", "ask", "stream", "single"}]
    /\ members \in [Caller -> SUBSET Caller] /\ reqs \in [Caller -> SUBSET Caller]
    /\ entries \in [Caller -> SUBSET (Key \cup Extra)]

\* A stream that was not cut still holds the entry of every caller it owes one.
Owed ==
    \A s \in Caller : st[s] = "stream" =>
        \A c \in reqs[s] : want[c] \in has => want[c] \in entries[s]

IInv == Shapes /\ Owed /\ AbsenceProved

\* What callers want are keys.
LEMMA WantedKeys == \A os \in SUBSET Caller : Wanted(os) \subseteq Key
    BY BatchGetAssumption DEF Wanted

\* A flush starts a request of its own and ends no stream.
LEMMA FlushStarts ==
    ASSUME IInv, NEW os \in SUBSET Caller, Flush(os)
    PROVE  /\ st' \in [Caller -> {"idle", "ask", "stream", "single"}]
           /\ members' \in [Caller -> SUBSET Caller]
           /\ \A s \in Caller : st'[s] = "stream" => st[s] = "stream"
    BY ZenonT(30) DEF IInv, Shapes, Flush

\* A caller, the coalescer and Close keep the invariant.
LEMMA CallerKeeps ==
    ASSUME IInv, CoalescerStep \/ Close \/ \E c \in Caller : Get(c) \/ Receipt(c)
    PROVE  IInv'
<1>1. CASE \E c \in Caller : Get(c)
    <2>1. Shapes'
        BY <1>1 DEF IInv, Shapes, Get, keyVars, sendVars
    <2>2. Owed'
        BY <1>1 DEF IInv, Shapes, Owed, Get, keyVars, sendVars
    <2>3. AbsenceProved'
        BY <1>1 DEF IInv, AbsenceProved, Get, keyVars, sendVars
    <2> QED
        BY <2>1, <2>2, <2>3 DEF IInv
<1>2. CASE \E c \in Caller : Receipt(c)
    <2>1. Shapes'
        BY <1>2 DEF IInv, Shapes, Receipt, keyVars, lineVars, sendVars
    <2>2. Owed'
        BY <1>2 DEF IInv, Shapes, Owed, Receipt, keyVars, lineVars, sendVars
    <2>3. AbsenceProved'
        BY <1>2 DEF IInv, AbsenceProved, Receipt, keyVars, lineVars, sendVars
    <2> QED
        BY <2>1, <2>2, <2>3 DEF IInv
<1>3. CASE \E c \in Caller : Collect(c)
    <2>1. Shapes'
        BY <1>3, FlushStarts DEF IInv, Shapes, Collect, keyVars
    <2>2. Owed'
        BY <1>3, FlushStarts DEF IInv, Shapes, Owed, Collect, keyVars
    <2>3. AbsenceProved'
        BY <1>3, FlushStarts DEF IInv, AbsenceProved, Collect, keyVars
    <2> QED
        BY <2>1, <2>2, <2>3 DEF IInv
<1>4. CASE Release
    <2>1. Shapes'
        BY <1>4, FlushStarts DEF IInv, Shapes, Release, keyVars
    <2>2. Owed'
        BY <1>4, FlushStarts DEF IInv, Shapes, Owed, Release, keyVars
    <2>3. AbsenceProved'
        BY <1>4, FlushStarts DEF IInv, AbsenceProved, Release, keyVars
    <2> QED
        BY <2>1, <2>2, <2>3 DEF IInv
<1>5. CASE StopLoop
    <2>1. Shapes'
        BY <1>5, FlushStarts DEF IInv, Shapes, StopLoop, keyVars
    <2>2. Owed'
        BY <1>5, FlushStarts DEF IInv, Shapes, Owed, StopLoop, keyVars
    <2>3. AbsenceProved'
        BY <1>5, FlushStarts DEF IInv, AbsenceProved, StopLoop, keyVars
    <2> QED
        BY <2>1, <2>2, <2>3 DEF IInv
<1>6. CASE Drained
    <2>1. Shapes'
        BY <1>6 DEF IInv, Shapes, Drained, keyVars, lineVars, sendVars
    <2>2. Owed'
        BY <1>6 DEF IInv, Shapes, Owed, Drained, keyVars, lineVars, sendVars
    <2>3. AbsenceProved'
        BY <1>6 DEF IInv, AbsenceProved, Drained, keyVars, lineVars, sendVars
    <2> QED
        BY <2>1, <2>2, <2>3 DEF IInv
<1>7. CASE Closed
    <2>1. Shapes'
        BY <1>7 DEF IInv, Shapes, Closed, keyVars, lineVars, sendVars
    <2>2. Owed'
        BY <1>7 DEF IInv, Shapes, Owed, Closed, keyVars, lineVars, sendVars
    <2>3. AbsenceProved'
        BY <1>7 DEF IInv, AbsenceProved, Closed, keyVars, lineVars, sendVars
    <2> QED
        BY <2>1, <2>2, <2>3 DEF IInv
<1>8. CASE Close
    <2>1. Shapes'
        BY <1>8 DEF IInv, Shapes, Close, keyVars, lineVars, sendVars
    <2>2. Owed'
        BY <1>8 DEF IInv, Shapes, Owed, Close, keyVars, lineVars, sendVars
    <2>3. AbsenceProved'
        BY <1>8 DEF IInv, AbsenceProved, Close, keyVars, lineVars, sendVars
    <2> QED
        BY <2>1, <2>2, <2>3 DEF IInv
<1> QED
    BY <1>1, <1>2, <1>3, <1>4, <1>5, <1>6, <1>7, <1>8 DEF CoalescerStep

\* So does a request: only the end of a whole stream, and a 404, record absences.
LEMMA BatchKeeps ==
    ASSUME IInv, NEW s \in Caller, BatchStep(s)
    PROVE  IInv'
<1>1. CASE AskFails(s)
    <2>1. Shapes'
        BY <1>1 DEF IInv, Shapes, AskFails, EndBatch, Step, Reply, keyVars
    <2>2. Owed'
        BY <1>1 DEF IInv, Shapes, Owed, AskFails, EndBatch, Step, Reply, keyVars
    <2>3. AbsenceProved'
        BY <1>1 DEF IInv, AbsenceProved, AskFails, EndBatch, Step, Reply, keyVars
    <2> QED
        BY <2>1, <2>2, <2>3 DEF IInv
<1>2. CASE NoEndpoint(s)
    <2>1. Shapes'
        BY <1>2 DEF IInv, Shapes, NoEndpoint, Step, keyVars, lineVars
    <2>2. Owed'
        BY <1>2 DEF IInv, Shapes, Owed, NoEndpoint, Step, keyVars, lineVars
    <2>3. AbsenceProved'
        BY <1>2, SMTT(30) DEF IInv, AbsenceProved, NoEndpoint, Step, keyVars, lineVars
    <2> QED
        BY <2>1, <2>2, <2>3 DEF IInv
<1>3. CASE Answer(s)
    <2>1. Shapes'
        BY <1>3, WantedKeys DEF IInv, Shapes, Answer, Step, OnePerKey, Wanted, keyVars, lineVars
    <2>2. Owed'
        BY <1>3, WantedKeys DEF IInv, Shapes, Owed, Answer, Step, OnePerKey, Wanted, keyVars, lineVars
    <2>3. AbsenceProved'
        BY <1>3, WantedKeys, SMTT(30) DEF IInv, AbsenceProved, Answer, Step, OnePerKey, Wanted, keyVars, lineVars
    <2> QED
        BY <2>1, <2>2, <2>3 DEF IInv
<1>4. CASE \E k \in Key \cup Extra : Entry(s, k)
    <2>1. Shapes'
        BY <1>4 DEF IInv, Shapes, Entry, Reply, TakeHold, keyVars, lineVars
    <2>2. Owed'
        BY <1>4 DEF IInv, Shapes, Owed, Entry, Reply, TakeHold, keyVars, lineVars
    <2>3. AbsenceProved'
        BY <1>4 DEF IInv, AbsenceProved, Entry, Reply, TakeHold, keyVars, lineVars
    <2> QED
        BY <2>1, <2>2, <2>3 DEF IInv
<1>5. CASE Cut(s)
    <2>1. Shapes'
        BY <1>5 DEF IInv, Shapes, Cut, Step, keyVars, lineVars
    <2>2. Owed'
        BY <1>5 DEF IInv, Shapes, Owed, Cut, Step, keyVars, lineVars
    <2>3. AbsenceProved'
        BY <1>5, SMTT(30) DEF IInv, AbsenceProved, Cut, Step, keyVars, lineVars
    <2> QED
        BY <2>1, <2>2, <2>3 DEF IInv
<1>6. CASE StreamEnd(s)
    <2>1. Shapes'
        BY <1>6 DEF IInv, Shapes, StreamEnd, EndBatch, Step, Reply, Reclaim, Wanted, NoteBatchEntries
    <2>2. Owed'
        BY <1>6 DEF IInv, Shapes, Owed, StreamEnd, EndBatch, Step, Reply, Reclaim, Wanted, NoteBatchEntries
    <2>3. AbsenceProved'
        BY <1>6 DEF IInv, AbsenceProved, Shapes, Owed, StreamEnd, EndBatch, Step, Reply, Reclaim, Wanted, NoteBatchEntries
    <2> QED
        BY <2>1, <2>2, <2>3 DEF IInv
<1>7. CASE \E c \in Caller : AskSingle(s, c)
    <2>1. Shapes'
        BY <1>7 DEF IInv, Shapes, AskSingle, Reply, Reclaim, lineVars
    <2>2. Owed'
        BY <1>7 DEF IInv, Shapes, Owed, AskSingle, Reply, Reclaim, lineVars
    <2>3. AbsenceProved'
        BY <1>7 DEF IInv, AbsenceProved, AskSingle, Reply, Reclaim, lineVars
    <2> QED
        BY <2>1, <2>2, <2>3 DEF IInv
<1>8. CASE SinglesEnd(s)
    <2>1. Shapes'
        BY <1>8 DEF IInv, Shapes, SinglesEnd, EndBatch, Step, Reply, keyVars
    <2>2. Owed'
        BY <1>8 DEF IInv, Shapes, Owed, SinglesEnd, EndBatch, Step, Reply, keyVars
    <2>3. AbsenceProved'
        BY <1>8 DEF IInv, AbsenceProved, SinglesEnd, EndBatch, Step, Reply, keyVars
    <2> QED
        BY <2>1, <2>2, <2>3 DEF IInv
<1>9. CASE HandedOver(s)
    <2>1. Shapes'
        BY <1>9 DEF IInv, Shapes, HandedOver, keyVars, lineVars, sendVars
    <2>2. Owed'
        BY <1>9 DEF IInv, Shapes, Owed, HandedOver, keyVars, lineVars, sendVars
    <2>3. AbsenceProved'
        BY <1>9 DEF IInv, AbsenceProved, HandedOver, keyVars, lineVars, sendVars
    <2> QED
        BY <2>1, <2>2, <2>3 DEF IInv
<1> QED
    BY <1>1, <1>2, <1>3, <1>4, <1>5, <1>6, <1>7, <1>8, <1>9 DEF BatchStep

\* The invariant holds of every reachable state.
THEOREM BatchInvariant == Spec => []IInv
<1>1. Init => IInv
    BY DEF Init, IInv, Shapes, Owed, AbsenceProved
<1>2. IInv /\ [Next]_vars => IInv'
    <2> SUFFICES ASSUME IInv, [Next]_vars PROVE IInv'
        OBVIOUS
    <2>1. CASE CoalescerStep \/ Close \/ \E c \in Caller : Get(c) \/ Receipt(c)
        BY <2>1, CallerKeeps
    <2>2. CASE \E s \in Caller : BatchStep(s)
        BY <2>2, BatchKeeps, SMTT(30)
    <2>3. CASE UNCHANGED vars
        BY <2>3 DEF vars, keyVars, lineVars, sendVars, IInv, Shapes, Owed, AbsenceProved
    <2> QED
        BY <2>1, <2>2, <2>3 DEF Next
<1> QED
    BY <1>1, <1>2, PTL DEF Spec

\* A key is answered absent for good only when the server lacks it, however
\* its stream, its request or its batch ended (sendBatch, reclaimAbsent).
THEOREM AbsencesProved == Spec => []AbsenceProved
<1>1. IInv => AbsenceProved
    BY DEF IInv
<1> QED
    BY <1>1, BatchInvariant, PTL

----------------------------------------------------------------------------
(* The bodies nobody asked for.                                            *)

\* The bodies a batch holds, and all of them, counted one by one.
Held == [s \in Caller |-> sink[s] + giving[s]]
Units(f) == {u \in Caller \X Nat : 1 <= u[2] /\ u[2] <= f[u[1]]}

Amounts ==
    /\ sink \in [Caller -> Nat] /\ giving \in [Caller -> Nat] /\ hold \in Nat /\ hold <= Limit
    /\ st \in [Caller -> {"idle", "ask", "stream", "single"}] /\ pc \in [Caller -> {"out", "wait", "done"}]
    /\ chan \subseteq Caller /\ buf \subseteq Caller

\* The budget is charged for what is collected or being handed over.
Charged == IsFiniteSet(Units(Held)) /\ hold = Cardinality(Units(Held))

\* A running batch collects, and one that is over hands over.
OneStage == \A s \in Caller : (st[s] = "idle" => sink[s] = 0) /\ (st[s] # "idle" => giving[s] = 0)

\* A caller that is not in a batch yet names none.
Unbatched(c) == pc[c] = "out" \/ c \in chan \/ c \in buf
Fresh ==
    \A c \in Caller : /\ Unbatched(c) => st[c] = "idle" /\ giving[c] = 0
                      /\ pc[c] = "out" => c \notin chan /\ c \notin buf
                      /\ c \in chan => c \notin buf

\* Close waits for the batches, then for the hand-overs.
Waited ==
    /\ phase \in {"done", "closed"} => \A s \in Caller : st[s] = "idle"
    /\ phase = "closed" => \A s \in Caller : giving[s] = 0

HInv == Amounts /\ Charged /\ OneStage /\ Fresh /\ Waited

\* One body more.
LEMMA OneMore ==
    ASSUME NEW f \in [Caller -> Nat], NEW g \in [Caller -> Nat], NEW s \in Caller,
           g = [f EXCEPT ![s] = f[s] + 1], IsFiniteSet(Units(f))
    PROVE  IsFiniteSet(Units(g)) /\ Cardinality(Units(g)) = Cardinality(Units(f)) + 1
<1> DEFINE u == <<s, f[s] + 1>>
<1>1. u \notin Units(f)
    BY DEF Units
<1>2. Units(g) = Units(f) \cup {u}
    <2>1. ASSUME NEW v \in Units(g) PROVE v \in Units(f) \cup {u}
        BY <2>1 DEF Units
    <2>2. ASSUME NEW v \in Units(f) \cup {u} PROVE v \in Units(g)
        BY <2>2 DEF Units
    <2> QED
        BY <2>1, <2>2, Zenon
<1> HIDE DEF u
<1>3. /\ IsFiniteSet(Units(f) \cup {u})
      /\ Cardinality(Units(f) \cup {u}) = IF u \in Units(f) THEN Cardinality(Units(f)) ELSE Cardinality(Units(f)) + 1
    BY FS_AddElement, Zenon
<1> QED
    BY <1>1, <1>2, <1>3, Zenon

\* All the bodies of one batch less.
LEMMA AllBack ==
    ASSUME NEW f \in [Caller -> Nat], NEW g \in [Caller -> Nat], NEW s \in Caller,
           g = [f EXCEPT ![s] = 0], IsFiniteSet(Units(f))
    PROVE  /\ IsFiniteSet(Units(g)) /\ Cardinality(Units(g)) = Cardinality(Units(f)) - f[s]
           /\ Cardinality(Units(g)) \in Nat
<1> DEFINE D == {s} \X (1 .. f[s])
           h == [i \in 1 .. f[s] |-> <<s, i>>]
<1>1. h \in Bijection(1 .. f[s], D)
    <2>1. h \in [1 .. f[s] -> D]
        BY Zenon
    <2>2. \A a, b \in 1 .. f[s] : h[a] = h[b] => a = b
        BY SMT
    <2>3. \A v \in D : \E i \in 1 .. f[s] : h[i] = v
        <3> SUFFICES ASSUME NEW v \in D PROVE \E i \in 1 .. f[s] : h[i] = v
            BY Zenon
        <3>1. v[2] \in 1 .. f[s] /\ v = <<s, v[2]>>
            BY SMT
        <3> QED
            BY <3>1, Zenon
    <2>4. DOMAIN h = 1 .. f[s]
        BY Zenon
    <2> HIDE DEF h, D
    <2> QED
        BY <2>1, <2>2, <2>3, <2>4, Zenon DEF Bijection, Injection, Surjection, IsInjective
<1>2. Cardinality(D) = f[s] /\ IsFiniteSet(D)
    <2>1. ExistsBijection(1 .. f[s], D)
        BY <1>1, Zenon DEF ExistsBijection
    <2>2. IsFiniteSet(1 .. f[s])
        BY FS_Interval
    <2> QED
        BY <2>1, <2>2, FS_CountingElements, FS_Bijection
<1>3. Units(f) = Units(g) \cup D /\ Units(g) \cap D = {}
    <2>1. ASSUME NEW v \in Units(f) PROVE v \in Units(g) \cup D
        BY <2>1 DEF Units
    <2>2. ASSUME NEW v \in Units(g) PROVE v \in Units(f) /\ v \notin D
        BY <2>2 DEF Units
    <2>3. ASSUME NEW v \in D PROVE v \in Units(f)
        BY <2>3 DEF Units
    <2> QED
        BY <2>1, <2>2, <2>3, Zenon
<1> HIDE DEF D
<1>4. IsFiniteSet(Units(g))
    BY <1>3, FS_Subset, Zenon
<1>5. Cardinality(Units(f)) = Cardinality(Units(g)) + f[s] - 0
    <2>1. Cardinality(Units(g) \cup D) = Cardinality(Units(g)) + Cardinality(D) - Cardinality(Units(g) \cap D)
        BY <1>2, <1>4, FS_Union, Zenon
    <2> QED
        BY <1>2, <1>3, <2>1, FS_EmptySet, Zenon
<1>6. Cardinality(Units(g)) \in Nat
    BY <1>4, FS_CardinalityType
<1> QED
    BY <1>4, <1>5, <1>6

\* A step that moves no bytes and starts no batch.
LEMMA NothingHeld ==
    ASSUME HInv, UNCHANGED <<sink, giving, hold, st, phase>>,
           pc' \in [Caller -> {"out", "wait", "done"}], chan' \subseteq Caller, buf' \subseteq Caller,
           \A c \in Caller : /\ Unbatched(c)' => Unbatched(c)
                             /\ pc'[c] = "out" => c \notin chan' /\ c \notin buf'
                             /\ c \in chan' => c \notin buf'
    PROVE  HInv'
<1>1. Amounts' /\ OneStage' /\ Waited'
    BY Zenon DEF HInv, Amounts, OneStage, Waited
<1>2. Charged'
    BY Zenon DEF HInv, Charged, Held, Units
<1>3. Fresh'
    BY Zenon DEF HInv, Fresh
<1> QED
    BY <1>1, <1>2, <1>3, Zenon DEF HInv

\* A flush of callers that are in no batch yet.
LEMMA FlushHeld ==
    ASSUME HInv, NEW os, os \subseteq Caller, Flush(os), \A c \in os : Unbatched(c) /\ pc[c] # "out",
           UNCHANGED <<sink, giving, hold, pc>>, buf' = {}, chan' \subseteq chan,
           \A c \in os : c \notin chan', phase \in {"open", "stop"}, phase' \in {phase, "drain"}
    PROVE  HInv'
<1>1. /\ st' \in [Caller -> {"idle", "ask", "stream", "single"}]
      /\ \A c \in Caller : st'[c] = st[c] \/ (c \in os /\ st'[c] = "ask")
    <2>1. CASE os = {}
        BY <2>1, Zenon DEF HInv, Amounts, Flush
    <2>2. CASE os # {}
        <3>1. PICK s \in os : st' = [st EXCEPT ![s] = "ask"]
            BY <2>2, Zenon DEF Flush
        <3> QED
            BY <3>1, Zenon DEF HInv, Amounts
    <2> QED
        BY <2>1, <2>2, Zenon
<1>2. Amounts'
    BY <1>1, Zenon DEF HInv, Amounts
<1>3. Charged'
    BY Zenon DEF HInv, Charged, Held, Units
<1>4. \A c \in Caller : c \in os => giving[c] = 0
    BY Zenon DEF HInv, Fresh
<1>5. OneStage'
    BY <1>1, <1>4 DEF HInv, OneStage
<1>6. Fresh'
    BY <1>1 DEF HInv, Fresh, Unbatched
<1>7. Waited'
    BY DEF Waited
<1> QED
    BY <1>2, <1>3, <1>5, <1>6, <1>7, Zenon DEF HInv

\* Callers, the coalescer and Close.
LEMMA CallerHolds ==
    ASSUME HInv, CoalescerStep \/ Close \/ \E c \in Caller : Get(c) \/ Receipt(c)
    PROVE  HInv'
<1>1. ASSUME NEW c \in Caller, Get(c) PROVE HInv'
    <2>1. /\ UNCHANGED <<sink, giving, hold, st, phase, buf>> /\ pc[c] = "out"
          /\ \/ pc' = [pc EXCEPT ![c] = "wait"] /\ chan' = chan \cup {c}
             \/ pc' = [pc EXCEPT ![c] = "done"] /\ chan' = chan
        BY <1>1, Zenon DEF Get, sendVars, sinkVars, ends
    <2>2. pc' \in [Caller -> {"out", "wait", "done"}] /\ chan' \subseteq Caller /\ buf' \subseteq Caller
        BY <2>1 DEF HInv, Amounts
    <2>3. \A d \in Caller : (d # c => pc'[d] = pc[d]) /\ pc'[c] # "out"
        BY <2>1, SMTT(30) DEF HInv, Amounts
    <2>4. \A d \in Caller : /\ Unbatched(d)' => Unbatched(d)
                            /\ pc'[d] = "out" => d \notin chan' /\ d \notin buf'
                            /\ d \in chan' => d \notin buf'
        BY <2>1, <2>3 DEF HInv, Fresh, Unbatched
    <2> QED
        BY <2>1, <2>2, <2>4, NothingHeld, Zenon
<1>2. ASSUME NEW c \in Caller, Receipt(c) PROVE HInv'
    <2>1. /\ UNCHANGED <<sink, giving, hold, st, phase, buf, chan>> /\ pc[c] = "wait"
          /\ pc' = [pc EXCEPT ![c] = "done"]
        BY <1>2, Zenon DEF Receipt, sendVars, sinkVars, ends, lineVars
    <2>2. pc' \in [Caller -> {"out", "wait", "done"}] /\ chan' \subseteq Caller /\ buf' \subseteq Caller
        BY <2>1 DEF HInv, Amounts
    <2>3. \A d \in Caller : (d # c => pc'[d] = pc[d]) /\ pc'[c] # "out"
        BY <2>1 DEF HInv, Amounts
    <2>4. \A d \in Caller : /\ Unbatched(d)' => Unbatched(d)
                            /\ pc'[d] = "out" => d \notin chan' /\ d \notin buf'
                            /\ d \in chan' => d \notin buf'
        BY <2>1, <2>3 DEF HInv, Fresh, Unbatched
    <2> QED
        BY <2>1, <2>2, <2>4, NothingHeld, Zenon
<1>3. ASSUME NEW c \in Caller, Collect(c) PROVE HInv'
    <2>1. /\ UNCHANGED <<sink, giving, hold, phase, pc>> /\ c \in chan /\ chan' = chan \ {c}
          /\ phase \in {"open", "stop"}
          /\ \/ buf' = {} /\ Flush(buf \cup {c})
             \/ buf' = buf \cup {c} /\ UNCHANGED st
        BY <1>3, Zenon DEF Collect, callVars, sinkVars, ends, Coalescing
    <2>2. CASE buf' = {} /\ Flush(buf \cup {c})
        <3>1. buf \cup {c} \subseteq Caller
            BY DEF HInv, Amounts
        <3>2. \A d \in buf \cup {c} : Unbatched(d) /\ pc[d] # "out" /\ d \notin chan'
            BY <2>1, <3>1 DEF HInv, Fresh, Unbatched
        <3> QED
            BY <2>1, <2>2, <3>1, <3>2, FlushHeld
    <2>3. CASE buf' = buf \cup {c} /\ UNCHANGED st
        <3>1. pc' \in [Caller -> {"out", "wait", "done"}] /\ chan' \subseteq Caller /\ buf' \subseteq Caller
            BY <2>1, <2>3, SMTT(30) DEF HInv, Amounts
        <3>2. \A d \in Caller : /\ Unbatched(d)' => Unbatched(d)
                                /\ pc'[d] = "out" => d \notin chan' /\ d \notin buf'
                                /\ d \in chan' => d \notin buf'
            BY <2>1, <2>3 DEF HInv, Fresh, Unbatched
        <3> QED
            BY <2>1, <2>3, <3>1, <3>2, NothingHeld, Zenon
    <2> QED
        BY <2>1, <2>2, <2>3, Zenon
<1>4. CASE Release \/ StopLoop
    <2>1. /\ UNCHANGED <<sink, giving, hold, pc, chan>> /\ buf' = {} /\ Flush(buf)
          /\ phase \in {"open", "stop"} /\ phase' \in {phase, "drain"}
        BY <1>4, Zenon DEF Release, StopLoop, callVars, sinkVars, ends, Coalescing
    <2>2. buf \subseteq Caller /\ chan' \subseteq chan
        BY <2>1, Zenon DEF HInv, Amounts
    <2>3. \A d \in buf : Unbatched(d) /\ pc[d] # "out" /\ d \notin chan'
        BY <2>1, <2>2 DEF HInv, Fresh, Unbatched
    <2> QED
        BY <2>1, <2>2, <2>3, FlushHeld, Zenon
<1>5. CASE Drained \/ Closed \/ Close
    <2>1. /\ UNCHANGED <<sink, giving, hold, st, pc, chan, buf>>
          /\ \/ phase' = "done" /\ \A s \in Caller : st[s] = "idle"
             \/ phase = "done" /\ phase' = "closed" /\ \A s \in Caller : giving[s] = 0
             \/ phase' = "stop"
        BY <1>5, Zenon DEF Drained, Closed, Close, InFlight, callVars, lineVars, sendVars, sinkVars
    <2>2. Amounts' /\ OneStage' /\ Fresh'
        BY <2>1, Zenon DEF HInv, Amounts, OneStage, Fresh, Unbatched
    <2>3. Charged'
        BY <2>1, Zenon DEF HInv, Charged, Held, Units
    <2>4. Waited'
        BY <2>1 DEF HInv, Waited
    <2> QED
        BY <2>2, <2>3, <2>4, Zenon DEF HInv
<1> QED
    BY <1>1, <1>2, <1>3, <1>4, <1>5, Zenon DEF CoalescerStep

\* A request goes on: nothing is collected and nothing handed over.
LEMMA RequestGoesOn ==
    ASSUME HInv, NEW s \in Caller, UNCHANGED <<sink, giving, hold, pc, chan, buf, phase>>,
           st[s] # "idle", UNCHANGED st \/ \E l \in {"stream", "single"} : Step(s, l)
    PROVE  HInv'
<1>1. /\ st' \in [Caller -> {"idle", "ask", "stream", "single"}]
      /\ \A c \in Caller : st'[c] = st[c] \/ (c = s /\ st'[c] # "idle")
    BY DEF HInv, Amounts, Step
<1>2. Amounts'
    BY <1>1, Zenon DEF HInv, Amounts
<1>3. Charged'
    BY Zenon DEF HInv, Charged, Held, Units
<1>4. OneStage' /\ Fresh' /\ Waited'
    BY <1>1 DEF HInv, OneStage, Fresh, Waited, Unbatched
<1> QED
    BY <1>2, <1>3, <1>4, Zenon DEF HInv

\* A request ends, and hands over what it collected.
LEMMA RequestEnds ==
    ASSUME HInv, NEW s \in Caller, UNCHANGED <<hold, pc, chan, buf, phase>>, st[s] # "idle",
           EndBatch(s)
    PROVE  HInv'
<1>1. /\ st' \in [Caller -> {"idle", "ask", "stream", "single"}] /\ st'[s] = "idle"
      /\ sink' \in [Caller -> Nat] /\ sink'[s] = 0
      /\ giving' \in [Caller -> Nat] /\ giving'[s] = sink[s]
      /\ \A c \in Caller : c # s => st'[c] = st[c] /\ sink'[c] = sink[c] /\ giving'[c] = giving[c]
    BY DEF HInv, Amounts, EndBatch, Step
<1>2. giving[s] = 0 /\ ~Unbatched(s) /\ phase \notin {"done", "closed"}
    BY Zenon DEF HInv, OneStage, Fresh, Waited
<1>3. Amounts'
    BY <1>1, Zenon DEF HInv, Amounts
<1>4. Charged'
    <2>1. \A c \in Caller : sink'[c] + giving'[c] = sink[c] + giving[c]
        BY <1>1, <1>2 DEF HInv, Amounts
    <2>2. Held' = Held
        BY <2>1, Zenon DEF Held
    <2> QED
        BY <2>2, Zenon DEF HInv, Charged, Units
<1>5. OneStage'
    BY <1>1, Zenon DEF HInv, OneStage
<1>6. Fresh' /\ Waited'
    BY <1>1, <1>2 DEF HInv, Fresh, Unbatched, Waited
<1> QED
    BY <1>3, <1>4, <1>5, <1>6, Zenon DEF HInv

\* A request.
LEMMA BatchHolds == ASSUME HInv, NEW s \in Caller, BatchStep(s) PROVE HInv'
<1>1. CASE NoEndpoint(s) \/ Answer(s) \/ Cut(s) \/ \E c \in Caller : AskSingle(s, c)
    <2>1. /\ UNCHANGED <<sink, giving, hold, pc, chan, buf, phase>>
          /\ st[s] # "idle" /\ (UNCHANGED st \/ \E l \in {"stream", "single"} : Step(s, l))
        BY <1>1, Zenon DEF NoEndpoint, Answer, Cut, AskSingle, callVars, lineVars, sinkVars, ends
    <2> QED
        BY <2>1, RequestGoesOn, Zenon
<1>2. CASE AskFails(s) \/ StreamEnd(s) \/ SinglesEnd(s)
    <2>1. UNCHANGED <<hold, pc, chan, buf, phase>> /\ st[s] # "idle" /\ EndBatch(s)
        BY <1>2 DEF AskFails, StreamEnd, SinglesEnd, callVars, ends
    <2> QED
        BY <2>1, RequestEnds, ZenonT(30)
<1>3. ASSUME NEW k \in Key \cup Extra, Entry(s, k) PROVE HInv'
    <2>1. /\ UNCHANGED <<giving, pc, chan, buf, phase, st>> /\ st[s] # "idle"
          /\ \/ UNCHANGED <<hold, sink>>
             \/ hold < Limit /\ hold' = hold + 1 /\ sink' = [sink EXCEPT ![s] = sink[s] + 1]
        BY <1>3 DEF Entry, TakeHold, lineVars, ends
    <2>2. CASE UNCHANGED <<hold, sink>>
        BY <2>1, <2>2, RequestGoesOn, Zenon
    <2>3. CASE hold < Limit /\ hold' = hold + 1 /\ sink' = [sink EXCEPT ![s] = sink[s] + 1]
        <3>1. /\ sink' \in [Caller -> Nat] /\ sink'[s] = sink[s] + 1
              /\ \A c \in Caller : c # s => sink'[c] = sink[c]
            BY <2>3, SMTT(30) DEF HInv, Amounts
        <3>2. Amounts'
            BY <2>1, <2>3, <3>1, BatchGetAssumption, SMTT(30) DEF HInv, Amounts
        <3>3. Charged'
            <4>1. Held \in [Caller -> Nat] /\ Held' \in [Caller -> Nat]
                BY <2>1, <3>1 DEF HInv, Amounts, Held
            <4>a. \A c \in Caller : Held[c] = sink[c] + giving[c] /\ Held'[c] = sink'[c] + giving'[c]
                BY Zenon DEF Held
            <4>b. Held'[s] = Held[s] + 1 /\ \A c \in Caller : c # s => Held'[c] = Held[c]
                BY <4>a, <2>1, <3>1 DEF HInv, Amounts
            <4>2. Held' = [Held EXCEPT ![s] = Held[s] + 1]
                <5> HIDE DEF Held
                <5> QED
                    BY <4>1, <4>b
            <4> HIDE DEF Held
            <4>3. IsFiniteSet(Units(Held')) /\ Cardinality(Units(Held')) = Cardinality(Units(Held)) + 1
                BY <4>1, <4>2, OneMore, ZenonT(30) DEF HInv, Charged
            <4> QED
                BY <2>3, <4>3 DEF HInv, Charged, Units
        <3>4. OneStage' /\ Fresh' /\ Waited'
            BY <2>1, <3>1 DEF HInv, OneStage, Fresh, Waited, Unbatched
        <3> QED
            BY <3>2, <3>3, <3>4, Zenon DEF HInv
    <2> QED
        BY <2>1, <2>2, <2>3, ZenonT(30)
<1>4. CASE HandedOver(s)
    <2>1. /\ UNCHANGED <<sink, pc, chan, buf, phase, st>> /\ giving[s] > 0
          /\ hold' = hold - giving[s] /\ giving' = [giving EXCEPT ![s] = 0]
        BY <1>4, Zenon DEF HandedOver, callVars, lineVars, sendVars, ends
    <2>2. /\ giving' \in [Caller -> Nat] /\ giving'[s] = 0 /\ giving[s] # 0 /\ giving[s] \in Nat
          /\ \A c \in Caller : c # s => giving'[c] = giving[c]
        BY <2>1 DEF HInv, Amounts
    <2>3. st[s] = "idle" /\ sink[s] = 0
        BY <2>2, Zenon DEF HInv, OneStage
    <2>4. /\ Held \in [Caller -> Nat] /\ Held' \in [Caller -> Nat] /\ Held[s] = giving[s]
          /\ Held' = [Held EXCEPT ![s] = 0]
        <3>1. Held \in [Caller -> Nat] /\ Held' \in [Caller -> Nat]
            BY <2>1, <2>2 DEF HInv, Amounts, Held
        <3>2. \A c \in Caller : Held[c] = sink[c] + giving[c] /\ Held'[c] = sink'[c] + giving'[c]
            BY Zenon DEF Held
        <3>3. /\ Held[s] = giving[s] /\ Held'[s] = 0
              /\ \A c \in Caller : c # s => Held'[c] = Held[c]
            BY <3>2, <2>1, <2>2, <2>3 DEF HInv, Amounts
        <3> HIDE DEF Held
        <3> QED
            BY <3>1, <3>3, SMTT(30)
    <2>5. /\ IsFiniteSet(Units(Held')) /\ Cardinality(Units(Held')) = Cardinality(Units(Held)) - giving[s]
          /\ Cardinality(Units(Held')) \in Nat
        <3> HIDE DEF Held
        <3> QED
            BY <2>4, AllBack, ZenonT(30) DEF HInv, Charged
    <2>6. Charged' /\ hold' \in Nat
        BY <2>1, <2>5, SMTT(30) DEF HInv, Charged, Units
    <2>7. hold' <= Limit
        BY <2>1, <2>2, <2>6, BatchGetAssumption DEF HInv, Amounts
    <2>8. Amounts'
        BY <2>1, <2>2, <2>6, <2>7, ZenonT(30) DEF HInv, Amounts
    <2>9. OneStage' /\ Fresh' /\ Waited'
        BY <2>1, <2>2 DEF HInv, OneStage, Fresh, Waited, Unbatched
    <2> QED
        BY <2>6, <2>8, <2>9, Zenon DEF HInv
<1> QED
    BY <1>1, <1>2, <1>3, <1>4, Zenon DEF BatchStep

\* However many batches collect and hand over at once, the bodies nobody asked
\* for stay within the budget, and Close leaves none behind (prefetchBudget,
\* prefetchWG).
THEOREM HoldsReturned == Spec => []HoldReturned
<1>1. Init => HInv
    <2> SUFFICES ASSUME Init PROVE HInv
        OBVIOUS
    <2>1. Amounts
        BY BatchGetAssumption, SMTT(30) DEF Init, Amounts
    <2>2. Units(Held) = {}
        BY DEF Init, Units, Held
    <2>3. Charged
        BY <2>2, FS_EmptySet DEF Init, Charged
    <2>4. OneStage /\ Fresh /\ Waited
        BY DEF Init, OneStage, Fresh, Waited, Unbatched
    <2> QED
        BY <2>1, <2>3, <2>4, Zenon DEF HInv
<1>2. HInv /\ [Next]_vars => HInv'
    <2> SUFFICES ASSUME HInv, [Next]_vars PROVE HInv'
        BY Zenon
    <2>1. CASE UNCHANGED vars
        <3>1. UNCHANGED <<sink, giving, hold, st, phase, pc, chan, buf>>
            BY <2>1, Zenon DEF vars, callVars, lineVars, sendVars, sinkVars, ends
        <3> QED
            BY <3>1, NothingHeld, Zenon DEF HInv, Amounts, Fresh, Unbatched
    <2> QED
        BY <2>1, CallerHolds, BatchHolds, Zenon DEF Next
<1>3. HInv => HoldReturned
    <2> SUFFICES ASSUME HInv PROVE HoldReturned
        BY Zenon
    <2>1. ASSUME phase = "closed" PROVE hold = 0
        <3>1. \A s \in Caller : sink[s] = 0 /\ giving[s] = 0
            BY <2>1, Zenon DEF HInv, OneStage, Waited
        <3>2. Units(Held) = {}
            BY <3>1 DEF Units, Held
        <3> QED
            BY <3>2, FS_EmptySet DEF HInv, Charged
    <2> QED
        BY <2>1, Zenon DEF HInv, Amounts, HoldReturned
<1> QED
    BY <1>1, <1>2, <1>3, PTL DEF Spec

----------------------------------------------------------------------------
(* The server that is down: one probe at a time, and no parked Fetch misses *)
(* its return.                                                             *)

\* The steps of a request, and the types of what the invariant is about.
DownSteps == {"begin", "judge", "await", "look", "park", "top", "swap", "late",
              "sent", "fire", "answered", "sleep", "over"}

DownShapes ==
    /\ at \in [Req -> DownSteps]
    /\ sig \in [Fetcher -> {"none", "taken", "fired"}]

\* A request about to claim the probe read a time that is still current, and
\* no request has claimed it.
Probing ==
    /\ probes \in {0, 1}
    /\ due => probes = 0
    /\ \A r \in Req : at[r] = "swap" => due

\* A parked Fetch that was not told yet parked while the server was down, or
\* whoever brought it back has yet to tell.
Waking ==
    \A f \in Fetcher :
        /\ at[f] \in {"look", "park"} => sig[f] \in {"taken", "fired"}
        /\ at[f] = "park" /\ sig[f] = "taken" => down \/ \E r \in Req : at[r] = "fire"

DownInv == DownShapes /\ Probing /\ Waking

\* Request r, and no other, is now at at l.
Moved(r, l) ==
    /\ at' \in [Req -> DownSteps] /\ at'[r] = l
    /\ \A q \in Req \ {r} : at'[q] = at[q]

\* The same, and a claim of the probe by any other request will fail.
MovedAlone(r, l) ==
    /\ at' \in [Req -> DownSteps] /\ at'[r] = l
    /\ \A q \in Req \ {r} : at'[q] = IF at[q] = "swap" THEN "late" ELSE at[q]

\* A request that is over is judged when a Fetch made it.
LEMMA AfterSteps == \A r \in Req, l \in DownSteps :
                        /\ After(r, l) \in DownSteps
                        /\ l # "over" => After(r, l) = l
                        /\ After(r, "over") \in {"over", "judge"}
    BY DEF After, DownSteps

\* What Step, and an update that outdates the claims, do to the steps.
LEMMA Updates ==
    ASSUME DownInv, NEW r \in Req
    PROVE  \A l \in DownSteps :
              /\ Goto(r, l) => Moved(r, After(r, l))
              /\ at' = [at EXCEPT ![r] = l] => Moved(r, l)
              /\ at' = Outdated([at EXCEPT ![r] = l]) /\ l # "swap" => MovedAlone(r, l)
<1> TAKE l \in DownSteps
<1>1. After(r, l) \in DownSteps /\ at \in [Req -> DownSteps]
    BY AfterSteps DEF DownInv, DownShapes
<1>2. Goto(r, l) => Moved(r, After(r, l))
    BY <1>1 DEF Goto, Moved
<1>3. at' = [at EXCEPT ![r] = l] => Moved(r, l)
    BY <1>1 DEF Moved
<1>4. at' = Outdated([at EXCEPT ![r] = l]) /\ l # "swap" => MovedAlone(r, l)
    BY <1>1 DEF MovedAlone, Outdated, DownSteps
<1> QED
    BY <1>2, <1>3, <1>4

\* A at of one request that tells nobody, keeps the probe and claims nothing.
LEMMA Quietly ==
    ASSUME DownInv, NEW r \in Req, NEW l \in DownSteps, Moved(r, l),
           l \notin {"swap", "look", "park"}, at[r] # "fire",
           due' = due, probes' = probes, sig' = sig, down' = down
    PROVE  DownInv'
<1>1. DownShapes' /\ Probing'
    BY Zenon DEF DownInv, DownShapes, Probing, Moved
<1>2. Waking'
    <2>1. \A q \in Req : at[q] = "fire" => at'[q] = "fire"
        BY DEF Moved
    <2> QED
        BY <2>1 DEF DownInv, Waking, Moved, Req
<1> QED
    BY <1>1, <1>2, Zenon DEF DownInv

\* A at of the retry loop keeps the invariant.
LEMMA RetryKeeps ==
    ASSUME DownInv, NEW r \in Req, RetryStep(r)
    PROVE  DownInv'
<1>0. /\ \A l \in DownSteps :
           /\ Goto(r, l) => Moved(r, After(r, l))
           /\ at' = [at EXCEPT ![r] = l] => Moved(r, l)
           /\ at' = Outdated([at EXCEPT ![r] = l]) /\ l # "swap" => MovedAlone(r, l)
      /\ \A l \in DownSteps : l # "over" => After(r, l) = l
      /\ After(r, "over") \in {"over", "judge"}
    <2>1. \A l \in DownSteps :
            /\ Goto(r, l) => Moved(r, After(r, l))
            /\ at' = [at EXCEPT ![r] = l] => Moved(r, l)
            /\ at' = Outdated([at EXCEPT ![r] = l]) /\ l # "swap" => MovedAlone(r, l)
        BY Updates
    <2>2. /\ \A l \in DownSteps : l # "over" => After(r, l) = l
          /\ After(r, "over") \in {"over", "judge"}
        BY DEF After
    <2> QED
        BY <2>1, <2>2
<1>1. CASE Cancel(r)
    <2>1. at[r] = "top" /\ (Moved(r, "over") \/ Moved(r, "judge"))
        BY <1>1, <1>0 DEF Cancel, DownSteps
    <2>2. due' = due /\ probes' = probes /\ sig' = sig /\ down' = down
        BY <1>1 DEF Cancel, net, fetch
    <2> QED
        BY <2>1, <2>2, <1>0, Quietly, Zenon DEF DownSteps
<1>2. CASE Hold(r)
    <2>1. at[r] = "top" /\ (Moved(r, "over") \/ Moved(r, "judge") \/ Moved(r, "sleep"))
        BY <1>2, <1>0 DEF Hold, DownSteps
    <2>2. due' = due /\ probes' = probes /\ sig' = sig /\ down' = down
        BY <1>2 DEF Hold, net, fetch
    <2> QED
        BY <2>1, <2>2, <1>0, Quietly DEF DownSteps
<1>3. CASE MayAsk(r)
    <2>0. due' = due /\ probes' = probes /\ sig' = sig /\ down' = down
        BY <1>3 DEF MayAsk, net
    <2>1. CASE down /\ due
        <3>1. Moved(r, "swap") /\ at[r] = "top"
            BY <1>0, <1>3, <2>1 DEF MayAsk, DownSteps
        <3>2. DownShapes' /\ Probing'
            BY <2>0, <2>1, <3>1, Zenon DEF DownInv, DownShapes, Probing, Moved
        <3>3. Waking'
            BY <2>0, <2>1, <3>1 DEF DownInv, Waking, Moved, Req
        <3> QED
            BY <3>2, <3>3, Zenon DEF DownInv
    <2>2. CASE ~(down /\ due)
        <3>1. at[r] = "top" /\ (Moved(r, "sent") \/ Moved(r, "over") \/ Moved(r, "judge"))
            BY <1>0, <1>3, <2>2, Zenon DEF MayAsk, DownSteps
        <3> QED
            BY <2>0, <3>1, Quietly DEF DownSteps
    <2> QED
        BY <2>1, <2>2
<1>4. CASE ClaimProbe(r)
    <2>1. /\ MovedAlone(r, "sent") /\ at[r] = "swap" /\ ~due' /\ probes' = probes + 1
          /\ sig' = sig /\ down' = down
        BY <1>0, <1>4 DEF ClaimProbe, fetch, DownSteps
    <2>2. DownShapes' /\ Probing'
        BY <2>1 DEF DownInv, DownShapes, Probing, MovedAlone
    <2>3. Waking'
        <3>1. \A q \in Req : at[q] = "fire" => at'[q] = "fire"
            BY <2>1, Zenon DEF MovedAlone
        <3> QED
            BY <2>1, <3>1 DEF DownInv, Waking, MovedAlone, Req
    <2> QED
        BY <2>2, <2>3 DEF DownInv
<1>5. CASE LoseProbe(r)
    <2>1. at[r] = "late" /\ (Moved(r, "over") \/ Moved(r, "judge"))
        BY <1>5, <1>0 DEF LoseProbe, DownSteps
    <2>2. due' = due /\ probes' = probes /\ sig' = sig /\ down' = down
        BY <1>5 DEF LoseProbe, net, fetch
    <2> QED
        BY <2>1, <2>2, <1>0, Quietly, Zenon DEF DownSteps
<1>6. CASE Answered(r)
    <2>1. at[r] = "sent" /\ Moved(r, IF down THEN "fire" ELSE "answered")
        BY <1>0, <1>6 DEF Answered, DownSteps
    <2>2. due' = due /\ probes' = probes /\ sig' = sig
        BY <1>6 DEF Answered, fetch
    <2>3. DownShapes' /\ Probing'
        BY <2>1, <2>2 DEF DownInv, DownShapes, Probing, Moved
    <2>4. \A q \in Req : at[q] = "fire" => at'[q] = "fire"
        BY <2>1 DEF Moved
    <2>5. down => \E q \in Req : at'[q] = "fire"
        BY <2>1, Zenon DEF Moved
    <2>6. Waking'
        BY <2>1, <2>2, <2>4, <2>5, Zenon DEF DownInv, Waking, Moved, Req
    <2> QED
        BY <2>3, <2>6 DEF DownInv
<1>7. CASE Fire(r)
    <2>1. at[r] = "fire" /\ Moved(r, "answered") /\ due' = due /\ probes' = probes
        BY <1>0, <1>7 DEF Fire, DownSteps, net
    <2>2. sig' = [f \in Fetcher |-> IF sig[f] = "taken" THEN "fired" ELSE sig[f]]
        BY <1>7 DEF Fire
    <2>3. DownShapes' /\ Probing'
        BY <2>1, <2>2, Zenon DEF DownInv, DownShapes, Probing, Moved
    <2>4. Waking'
        BY <2>1, <2>2, Zenon DEF DownInv, DownShapes, Waking, Moved, Req
    <2> QED
        BY <2>3, <2>4 DEF DownInv
<1>8. CASE Classify(r)
    <2>1. at[r] = "answered" /\ (Moved(r, "over") \/ Moved(r, "judge") \/ Moved(r, "sleep"))
        BY <1>8, <1>0 DEF Classify, Settle, DownSteps
    <2>2. due' = due /\ probes' = probes /\ sig' = sig /\ down' = down
        BY <1>8 DEF Classify, net, fetch
    <2> QED
        BY <2>1, <2>2, <1>0, Quietly, Zenon DEF DownSteps
<1>9. CASE SlowAnswer(r)
    <2>1. at[r] = "sent" /\ MovedAlone(r, "answered")
        BY <1>0, <1>9 DEF SlowAnswer, DownSteps
    <2>2. down' /\ ~due' /\ probes' = 0 /\ sig' = sig
        BY <1>9, Zenon DEF SlowAnswer, NoteNoAnswer, fetch
    <2>3. DownShapes' /\ Probing'
        BY <1>0, <2>1, <2>2, ZenonT(20) DEF DownInv, DownShapes, Probing, MovedAlone
    <2>4. Waking'
        BY <1>0, <2>1, <2>2, Zenon DEF DownInv, Waking, MovedAlone, Req
    <2> QED
        BY <2>3, <2>4 DEF DownInv
<1>10. CASE NoAnswer(r)
    <2>1. at[r] = "sent" /\ MovedAlone(r, After(r, "over"))
        BY <1>0, <1>10, Zenon DEF NoAnswer, DownSteps
    <2>2. down' /\ ~due' /\ probes' = 0 /\ sig' = sig
        BY <1>10 DEF NoAnswer, NoteNoAnswer, fetch
    <2>3. DownShapes' /\ Probing'
        BY <1>0, <2>1, <2>2, ZenonT(20) DEF DownInv, DownShapes, Probing, MovedAlone
    <2>4. Waking'
        BY <1>0, <2>1, <2>2, Zenon DEF DownInv, Waking, MovedAlone, Req
    <2> QED
        BY <2>3, <2>4 DEF DownInv
<1>11. CASE AttemptFails(r)
    <2>1. at[r] = "sent" /\ (Moved(r, "over") \/ Moved(r, "judge") \/ Moved(r, "sleep"))
        BY <1>11, <1>0 DEF AttemptFails, Settle, DownSteps
    <2>2. due' = due /\ probes' = probes /\ sig' = sig /\ down' = down
        BY <1>11 DEF AttemptFails, net, fetch
    <2> QED
        BY <2>1, <2>2, <1>0, Quietly, Zenon DEF DownSteps
<1>12. CASE Wake(r)
    <2>1. at[r] = "sleep" /\ (Moved(r, "top"))
        BY <1>12, <1>0 DEF Wake, DownSteps
    <2>2. due' = due /\ probes' = probes /\ sig' = sig /\ down' = down
        BY <1>12 DEF Wake, net, fetch
    <2> QED
        BY <2>1, <2>2, <1>0, Quietly, Zenon DEF DownSteps
<1> QED
    BY <1>1, <1>2, <1>3, <1>4, <1>5, <1>6, <1>7, <1>8, <1>9, <1>10, <1>11, <1>12, ZenonT(20)
       DEF RetryStep

\* A at of a Fetch keeps it too: the channel is taken before the look.
LEMMA FetchKeeps ==
    ASSUME DownInv, NEW f \in Fetcher, FetchStep(f)
    PROVE  DownInv'
<1>0. /\ f \in Req
      /\ \A l \in DownSteps :
           /\ Goto(f, l) => Moved(f, After(f, l))
           /\ at' = [at EXCEPT ![f] = l] => Moved(f, l)
      /\ \A l \in DownSteps : l # "over" => After(f, l) = l
    BY Updates, AfterSteps, Zenon DEF Req
<1>1. CASE RetryStep(f)
    BY <1>0, <1>1, RetryKeeps, Zenon
<1>2. CASE Begin(f)
    <2>1. at[f] = "begin" /\ Moved(f, "top")
        BY <1>0, <1>2 DEF Begin, DownSteps
    <2>2. due' = due /\ probes' = probes /\ sig' = sig /\ down' = down
        BY <1>2, Zenon DEF Begin, net
    <2> QED
        BY <1>0, <2>1, <2>2, Quietly, Zenon DEF DownSteps
<1>3. CASE Judge(f)
    <2>1. at[f] = "judge" /\ (Moved(f, "over") \/ Moved(f, "await") \/ Moved(f, "begin"))
        BY <1>0, <1>3, Zenon DEF Judge, DownSteps
    <2>2. due' = due /\ probes' = probes /\ sig' = sig /\ down' = down
        BY <1>3 DEF Judge, net
    <2> QED
        BY <1>0, <2>1, <2>2, Quietly DEF DownSteps
<1>4. CASE TakeSignal(f)
    <2>1. at[f] = "await" /\ Moved(f, "look")
        BY <1>0, <1>4 DEF TakeSignal, DownSteps
    <2>2. due' = due /\ probes' = probes /\ down' = down
        BY <1>4 DEF TakeSignal, net
    <2>3. sig' = [sig EXCEPT ![f] = "taken"]
        BY <1>4, Zenon DEF TakeSignal
    <2>4. DownShapes' /\ Probing'
        BY <1>0, <2>1, <2>2, <2>3 DEF DownInv, DownShapes, Probing, Moved
    <2>5. \A q \in Req : at[q] = "fire" => at'[q] = "fire"
        BY <2>1, Zenon DEF Moved
    <2>6. Waking'
        BY <1>0, <2>1, <2>2, <2>3, <2>5, Zenon DEF DownInv, DownShapes, Waking, Moved, Req
    <2> QED
        BY <2>4, <2>6, Zenon DEF DownInv
<1>5. CASE Look(f)
    <2>1. at[f] = "look" /\ Moved(f, IF down THEN "park" ELSE "begin")
        BY <1>0, <1>5 DEF Look, DownSteps
    <2>2. due' = due /\ probes' = probes /\ down' = down
        BY <1>5 DEF Look, net
    <2>3. sig' = IF down THEN sig ELSE [sig EXCEPT ![f] = "none"]
        BY <1>5, Zenon DEF Look
    <2>4. DownShapes' /\ Probing'
        BY <1>0, <2>1, <2>2, <2>3 DEF DownInv, DownShapes, Probing, Moved
    <2>5. \A q \in Req : at[q] = "fire" => at'[q] = "fire"
        BY <2>1, Zenon DEF Moved
    <2>6. Waking'
        BY <1>0, <2>1, <2>2, <2>3, <2>5, Zenon DEF DownInv, DownShapes, Waking, Moved, Req
    <2> QED
        BY <2>4, <2>6 DEF DownInv
<1>6. CASE Unpark(f)
    <2>1. at[f] = "park" /\ Moved(f, "begin")
        BY <1>0, <1>6, Zenon DEF Unpark, DownSteps
    <2>2. due' = due /\ probes' = probes /\ down' = down
        BY <1>6 DEF Unpark, net
    <2>3. sig' = [sig EXCEPT ![f] = "none"]
        BY <1>6, Zenon DEF Unpark
    <2>4. DownShapes' /\ Probing'
        BY <1>0, <2>1, <2>2, <2>3 DEF DownInv, DownShapes, Probing, Moved
    <2>5. \A q \in Req : at[q] = "fire" => at'[q] = "fire"
        BY <2>1, Zenon DEF Moved
    <2>6. Waking'
        BY <1>0, <2>1, <2>2, <2>3, <2>5, Zenon DEF DownInv, DownShapes, Waking, Moved, Req
    <2> QED
        BY <2>4, <2>6 DEF DownInv
<1> QED
    BY <1>1, <1>2, <1>3, <1>4, <1>5, <1>6 DEF FetchStep

\* The invariant holds of every reachable state.
THEOREM DownInvariant == DownSpec => []DownInv
<1>1. DownInit => DownInv
    <2> SUFFICES ASSUME DownInit PROVE DownInv
        OBVIOUS
    <2>1. \A r \in Req : at[r] \in {"top", "begin"}
        BY DEF DownInit
    <2>2. DownShapes
        BY DEF DownInit, DownShapes, DownSteps
    <2>3. Probing
        BY <2>1 DEF DownInit, Probing
    <2>4. Waking
        BY <2>1 DEF DownInit, Waking, Req
    <2> QED
        BY <2>2, <2>3, <2>4 DEF DownInv
<1>2. DownInv /\ [DownNext]_downVars => DownInv'
    <2> SUFFICES ASSUME DownInv, [DownNext]_downVars PROVE DownInv'
        OBVIOUS
    <2>1. CASE \E r \in Lookup : RetryStep(r)
        BY <2>1, RetryKeeps, Zenon DEF Req
    <2>2. CASE \E f \in Fetcher : FetchStep(f)
        BY <2>2, FetchKeeps
    <2>3. CASE ProbeDue
        BY <2>3, Zenon DEF ProbeDue, fetch, DownInv, DownShapes, Probing, Waking
    <2>4. CASE QuietEnds
        BY <2>4, Zenon DEF QuietEnds, fetch, DownInv, DownShapes, Probing, Waking
    <2>5. CASE UNCHANGED downVars
        BY <2>5 DEF downVars, net, fetch, DownInv, DownShapes, Probing, Waking
    <2> QED
        BY <2>1, <2>2, <2>3, <2>4, <2>5 DEF DownNext
<1> QED
    BY <1>1, <1>2, PTL DEF DownSpec

\* While the server is down, one request goes out per probe interval, however
\* many goroutines find the probe due at once (mayAsk).
THEOREM ProbesAreSingle == DownSpec => []OneProbe
<1>1. DownInv => OneProbe
    BY DEF DownInv, Probing, OneProbe
<1> QED
    BY <1>1, DownInvariant, PTL

\* No parked Fetch misses the server's return (awaitAnswer, upSignal).
THEOREM NoWakeupLost == DownSpec => []NoLostWakeup
<1>1. DownInv => NoLostWakeup
    BY DEF DownInv, Waking, NoLostWakeup
<1> QED
    BY <1>1, DownInvariant, PTL
=============================================================================
