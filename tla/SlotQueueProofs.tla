-------------------------- MODULE SlotQueueProofs --------------------------
(***************************************************************************)
(* Proofs about SlotQueue for every number of requests, slots and waiters. *)
(***************************************************************************)
EXTENDS SlotQueue, FiniteSetTheorems, SequenceTheorems, TLAPS

----------------------------------------------------------------------------
(* What the list operations do to the elements of a duplicate-free list.   *)

\* PushBack adds its element and keeps the list duplicate-free.
LEMMA PushBack ==
    ASSUME NEW q \in Seq(Req), NEW r \in Req, r \notin Range(q), IsInjective(q)
    PROVE  /\ Append(q, r) \in Seq(Req)
           /\ Range(Append(q, r)) = Range(q) \cup {r}
           /\ IsInjective(Append(q, r))
           /\ Len(Append(q, r)) = Len(q) + 1
<1> DEFINE s == Append(q, r)
<1>1. /\ s \in Seq(Req)
      /\ Len(s) = Len(q) + 1
      /\ \A j \in 1..Len(q) : s[j] = q[j]
      /\ s[Len(q) + 1] = r
  BY AppendProperties
<1> HIDE DEF s
<1>2. Range(s) = Range(q) \cup {r}
  <2>1. Range(q) \subseteq Range(s) /\ r \in Range(s)
    BY <1>1 DEF Range
  <2>2. ASSUME NEW x \in Range(s) PROVE x \in Range(q) \cup {r}
    <3>1. PICK j \in 1..Len(s) : x = s[j]
      BY <1>1 DEF Range
    <3> QED
      BY <1>1, <3>1 DEF Range
  <2> QED
    BY <2>1, <2>2
<1>3. IsInjective(s)
  BY <1>1 DEF Range, IsInjective
<1> QED
  BY <1>1, <1>2, <1>3 DEF s

\* Removing the front takes out the head and nothing else.
LEMMA PopFront ==
    ASSUME NEW q \in Seq(Req), q # <<>>, IsInjective(q)
    PROVE  /\ Tail(q) \in Seq(Req)
           /\ Head(q) \in Req
           /\ Head(q) \in Range(q)
           /\ Range(Tail(q)) = Range(q) \ {Head(q)}
           /\ IsInjective(Tail(q))
           /\ Len(Tail(q)) < Len(q)
<1> DEFINE s == Tail(q)
<1>1. /\ s \in Seq(Req)
      /\ Len(q) > 0 /\ Len(s) = Len(q) - 1
      /\ \A j \in 1..Len(s) : s[j] = q[j + 1]
      /\ Head(q) = q[1] /\ q[1] \in Req
  BY HeadTailProperties, EmptySeq
<1> HIDE DEF s
<1>2. q[1] \in Range(q)
  BY <1>1 DEF Range
<1>3. Range(s) = Range(q) \ {q[1]}
  <2>1. ASSUME NEW x \in Range(s) PROVE x \in Range(q) /\ x # q[1]
    <3>1. PICK j \in 1..Len(s) : x = s[j]
      BY <1>1 DEF Range
    <3> QED
      BY SMTT(30), <1>1, <3>1 DEF Range, IsInjective
  <2>2. ASSUME NEW x \in Range(q), x # q[1] PROVE x \in Range(s)
    <3>1. PICK j \in 1..Len(q) : x = q[j]
      BY <1>1 DEF Range
    <3>2. j - 1 \in 1..Len(s) /\ s[j - 1] = q[j]
      BY <1>1, <2>2, <3>1, SMTT(30)
    <3> QED
      BY <1>1, <3>1, <3>2 DEF Range
  <2> QED
    BY <2>1, <2>2
<1>4. IsInjective(s)
  <2>1. ASSUME NEW j \in 1..Len(s), NEW k \in 1..Len(s), s[j] = s[k] PROVE j = k
    <3>1. j + 1 \in DOMAIN q /\ k + 1 \in DOMAIN q /\ q[j + 1] = q[k + 1]
      BY <1>1, <2>1
    <3> QED
      BY <3>1 DEF IsInjective
  <2> QED
    BY <1>1, <2>1 DEF IsInjective
<1> QED
  BY <1>1, <1>2, <1>3, <1>4 DEF s

\* Unlinking an element takes out that element and nothing else.
LEMMA UnlinkOne ==
    ASSUME NEW q \in Seq(Req), NEW r \in Req, IsInjective(q)
    PROVE  /\ Unlink(q, r) \in Seq(Req)
           /\ Range(Unlink(q, r)) = Range(q) \ {r}
           /\ IsInjective(Unlink(q, r))
           /\ Len(Unlink(q, r)) <= Len(q)
<1>1. CASE r \notin Range(q)
  BY <1>1 DEF Unlink
<1>2. CASE r \in Range(q)
  <2> DEFINE i == Place(q, r)
             s == Unlink(q, r)
  <2>1. i \in 1..Len(q) /\ q[i] = r
    BY <1>2 DEF Place, Range
  <2> HIDE DEF i
  <2>2. s = SubSeq(q, 1, i - 1) \o SubSeq(q, i + 1, Len(q))
    BY ZenonT(30), <1>2 DEF Unlink, RemoveAt, i
  <2> HIDE DEF s
  <2>3. /\ s \in Seq(Req)
        /\ Len(s) = Len(q) - 1
        /\ \A j \in 1..Len(s) : s[j] = IF j < i THEN q[j] ELSE q[j + 1]
    <3> DEFINE u == SubSeq(q, 1, i - 1)
               v == SubSeq(q, i + 1, Len(q))
    <3>1. \A j \in 1..Len(q) : q[j] \in Req
      OBVIOUS
    <3>2. u \in Seq(Req) /\ Len(u) = i - 1 /\ \A j \in 1..i - 1 : u[j] = q[j]
      BY <2>1, <3>1, SubSeqProperties, SMTT(30)
    <3>3. /\ v \in Seq(Req) /\ Len(v) = Len(q) - i
          /\ \A j \in 1..Len(q) - i : v[j] = q[i + j]
      <4>1. i + 1 \in Int /\ Len(q) \in Int /\ \A j \in i + 1..Len(q) : q[j] \in Req
        BY <2>1, <3>1
      <4>2. /\ v \in Seq(Req)
            /\ Len(v) = IF i + 1 <= Len(q) THEN Len(q) - (i + 1) + 1 ELSE 0
            /\ \A j \in 1..Len(q) - (i + 1) + 1 : v[j] = q[i + 1 + j - 1]
        BY <4>1, SubSeqProperties, SMTT(30)
      <4> HIDE DEF v
      <4> QED
        BY <2>1, <4>2, SMTT(30)
    <3> HIDE DEF u, v
    <3>4. /\ u \o v \in Seq(Req)
          /\ Len(u \o v) = Len(u) + Len(v)
          /\ \A j \in 1..Len(u) + Len(v) :
               (u \o v)[j] = IF j <= Len(u) THEN u[j] ELSE v[j - Len(u)]
      BY <3>2, <3>3, ConcatProperties, ZenonT(30)
    <3>5. s = u \o v
      BY <2>2 DEF u, v
    <3>6. ASSUME NEW j \in 1..Len(s) PROVE s[j] = IF j < i THEN q[j] ELSE q[j + 1]
      <4>1. CASE j < i
        BY SMTT(30), <2>1, <3>2, <3>3, <3>4, <3>5, <4>1
      <4>2. CASE ~ j < i
        <5>1. j - Len(u) \in 1..Len(q) - i
          BY SMTT(30), <2>1, <3>2, <3>3, <3>4, <3>5, <4>2
        <5>2. s[j] = v[j - Len(u)]
          BY SMTT(30), <2>1, <3>2, <3>3, <3>4, <3>5, <4>2
        <5>3. v[j - Len(u)] = q[i + (j - Len(u))] /\ i + (j - Len(u)) = j + 1
          BY SMTT(30), <2>1, <3>2, <3>3, <5>1
        <5> QED
          BY SMTT(30), <4>2, <5>2, <5>3
      <4> QED
        BY <4>1, <4>2
    <3>7. s \in Seq(Req) /\ Len(s) = Len(u) + Len(v)
      BY <3>4, <3>5, ZenonT(30)
    <3>8. Len(u) + Len(v) = Len(q) - 1
      BY <2>1, <3>2, <3>3, SMTT(30)
    <3> QED
      BY <3>6, <3>7, <3>8, SMTT(30)
  <2>4. Range(s) = Range(q) \ {r}
    <3>1. ASSUME NEW x \in Range(s) PROVE x \in Range(q) /\ x # r
      <4>1. PICK j \in 1..Len(s) : x = s[j]
        BY <2>3 DEF Range
      <4>2. PICK k \in 1..Len(q) : x = q[k] /\ k # i
        BY <2>1, <2>3, <4>1
      <4> QED
        BY <2>1, <4>2 DEF Range, IsInjective
    <3>2. ASSUME NEW x \in Range(q), x # r PROVE x \in Range(s)
      <4>1. PICK k \in 1..Len(q) : x = q[k]
        BY DEF Range
      <4>2. PICK j \in 1..Len(s) : x = s[j]
        <5>1. CASE k < i
          BY SMTT(30), <2>1, <2>3, <4>1, <5>1
        <5>2. CASE ~ k < i
          <6>1. k - 1 \in 1..Len(s) /\ s[k - 1] = q[k]
            BY SMTT(30), <2>1, <2>3, <3>2, <4>1, <5>2
          <6> QED
            BY <4>1, <6>1
        <5> QED
          BY <5>1, <5>2
      <4> QED
        BY <2>3, <4>2 DEF Range
    <3> QED
      BY <3>1, <3>2
  <2>5. IsInjective(s)
    <3>1. ASSUME NEW j \in 1..Len(s), NEW k \in 1..Len(s), s[j] = s[k] PROVE j = k
      <4> DEFINE at(n) == IF n < i THEN n ELSE n + 1
      <4>1. at(j) \in DOMAIN q /\ at(k) \in DOMAIN q /\ q[at(j)] = q[at(k)]
        BY <2>1, <2>3, <3>1
      <4>2. at(j) = at(k)
        BY <4>1 DEF IsInjective
      <4> QED
        BY <2>1, <4>2
    <3> QED
      BY <2>3, <3>1 DEF IsInjective
  <2> QED
    BY <2>3, <2>4, <2>5 DEF s
<1> QED
  BY <1>1, <1>2

----------------------------------------------------------------------------
(***************************************************************************)
(* The inductive invariant, in two parts.  Shape says where every request  *)
(* is recorded: the lists, the granted flags and the program counters tell *)
(* one story.  SlotsConserved then follows step by step, because a step    *)
(* that changes the free count changes the set of holders by one request.  *)
(***************************************************************************)
\* A slot is handed only to a request that waits, and only a request at work
\* has given its slot back early.
FlagsFit ==
    /\ \A r \in granted : pc[r] \in {"queued", "ended"}
    /\ \A r \in once : pc[r] = "work"

Shape == TypeOK /\ ListsAreTheWaiters /\ NoIdleSlot /\ FlagsFit /\ QueueBounded

IInv == Shape /\ SlotsConserved

USE DEF TypeOK, ListsAreTheWaiters, FlagsFit, Queued

\* Handing a slot over keeps the lists well formed and takes at most the
\* request it grants out of them.
LEMMA HandOverShape ==
    ASSUME Shape, NEW flags \in SUBSET Req, ReleaseLocked(flags)
    PROVE  /\ free' \in Nat
           /\ demand' \in Seq(Req) /\ prefetch' \in Seq(Req)
           /\ IsInjective(demand') /\ IsInjective(prefetch')
           /\ Range(demand') \subseteq Range(demand)
           /\ Range(prefetch') \subseteq Range(prefetch)
           /\ Len(demand') + Len(prefetch') <= Len(demand) + Len(prefetch)
           /\ free' > 0 => demand' = <<>> /\ prefetch' = <<>>
           /\ \/ free' = free + 1 /\ granted' = flags /\ Queued' = Queued
              \/ \E s \in Queued : /\ free' = free
                                   /\ granted' = flags \cup {s}
                                   /\ Queued' = Queued \ {s}
<1> USE DEF Shape, NoIdleSlot
<1>0. Range(demand) \cap Range(prefetch) = {}
  OBVIOUS
<1>1. CASE demand # <<>> /\ demand' = Tail(demand)
           /\ granted' = flags \cup {Head(demand)} /\ UNCHANGED <<free, prefetch>>
  <2>1. /\ Tail(demand) \in Seq(Req) /\ Head(demand) \in Range(demand)
        /\ Range(Tail(demand)) = Range(demand) \ {Head(demand)}
        /\ IsInjective(Tail(demand)) /\ Len(Tail(demand)) < Len(demand)
    BY <1>1, PopFront, SMTT(30)
  <2>2. Queued' = Queued \ {Head(demand)} /\ Head(demand) \in Queued
    BY SMTT(30), <1>0, <1>1, <2>1
  <2>3. free = 0
    BY <1>1
  <2>4. Len(demand') + Len(prefetch') <= Len(demand) + Len(prefetch)
    BY SMTT(30), <1>1, <2>1
  <2> QED
    BY SMTT(30), <1>1, <2>1, <2>2, <2>3, <2>4
<1>2. CASE demand = <<>> /\ prefetch # <<>> /\ prefetch' = Tail(prefetch)
           /\ granted' = flags \cup {Head(prefetch)} /\ UNCHANGED <<free, demand>>
  <2>1. /\ Tail(prefetch) \in Seq(Req) /\ Head(prefetch) \in Range(prefetch)
        /\ Range(Tail(prefetch)) = Range(prefetch) \ {Head(prefetch)}
        /\ IsInjective(Tail(prefetch)) /\ Len(Tail(prefetch)) < Len(prefetch)
    BY <1>2, PopFront
  <2>2. Queued' = Queued \ {Head(prefetch)} /\ Head(prefetch) \in Queued
    BY SMTT(30), <1>0, <1>2, <2>1
  <2>3. free = 0
    BY <1>2
  <2>4. Len(demand') + Len(prefetch') <= Len(demand) + Len(prefetch)
    BY <1>2, <2>1
  <2> QED
    BY SMTT(30), <1>2, <2>1, <2>2, <2>3, <2>4
<1>3. CASE demand = <<>> /\ prefetch = <<>> /\ free' = free + 1 /\ granted' = flags
           /\ UNCHANGED <<demand, prefetch>>
  BY <1>3
<1> QED
  BY <1>1, <1>2, <1>3, ZenonT(30) DEF ReleaseLocked

----------------------------------------------------------------------------
(* One lemma per action: it preserves Shape.                                *)

\* An arrival that takes a free slot, or finds none, leaves the lists alone (tryTake).
LEMMA TryTakeShape == ASSUME Shape, NEW r \in Req, TryTake(r) PROVE Shape'
BY DEF Shape, TryTake, Goto, NoIdleSlot, QueueBounded

\* A waiter that sees its hand-over goes to work with the slot (take).
LEMMA ReadyShape == ASSUME Shape, NEW r \in Req, Ready(r) PROVE Shape'
BY DEF Shape, Ready, Goto, NoIdleSlot, QueueBounded

\* A wait that ends by the timer or a hang-up changes no list (take's select).
LEMMA WaitEndsShape ==
    ASSUME Shape, NEW r \in Req, Timeout(r) \/ Cancelled(r) PROVE Shape'
BY SMTT(30) DEF Shape, Timeout, Cancelled, Goto, NoIdleSlot, QueueBounded

\* A client that goes away only marks its context.
LEMMA ClientGoneShape == ASSUME Shape, NEW r \in Req, ClientGone(r) PROVE Shape'
BY DEF Shape, ClientGone, NoIdleSlot, QueueBounded

\* Queueing puts the request in the list of its class, once (take).
LEMMA TakeShape == ASSUME Shape, NEW r \in Req, Take(r) PROVE Shape'
<1> USE DEF Shape, Take, Goto, Ends
<1>0. r \notin Queued /\ r \notin granted /\ r \notin once
  OBVIOUS
<1>1. CASE free > 0 /\ free' = free - 1 /\ UNCHANGED <<demand, prefetch>>
  BY <1>1 DEF NoIdleSlot, QueueBounded
<1>2. CASE free = 0 /\ UNCHANGED <<free, demand, prefetch>>
  BY SMTT(30), <1>2 DEF NoIdleSlot, QueueBounded
<1>3. CASE /\ free = 0 /\ Len(demand) + Len(prefetch) < MaxQueued
           /\ r \in LookAhead
           /\ prefetch' = Append(prefetch, r) /\ UNCHANGED demand
           /\ Goto(r, "queued") /\ UNCHANGED <<free, gone>>
  <2>1. /\ Append(prefetch, r) \in Seq(Req)
        /\ Range(Append(prefetch, r)) = Range(prefetch) \cup {r}
        /\ IsInjective(Append(prefetch, r))
        /\ Len(Append(prefetch, r)) = Len(prefetch) + 1
    BY <1>0, PushBack, SMTT(30)
  <2>2. QueueBounded'
    BY <1>3, <2>1, SlotAssumption, SMTT(30) DEF QueueBounded
  <2>3. TypeOK' /\ NoIdleSlot' /\ FlagsFit'
    BY <1>0, <1>3, <2>1, SMTT(30) DEF NoIdleSlot
  <2>4. Queued' = Queued \cup {r}
    BY <1>3, <2>1
  <2>5. Queued' = {x \in Req : pc'[x] \in {"queued", "ended"} /\ x \notin granted'}
    BY <1>0, <1>3, <2>4, SMTT(30)
  <2> QED
    BY <1>3, <2>1, <2>2, <2>3, <2>5
<1>4. CASE /\ free = 0 /\ Len(demand) + Len(prefetch) < MaxQueued
           /\ r \notin LookAhead
           /\ demand' = Append(demand, r) /\ UNCHANGED prefetch
           /\ Goto(r, "queued") /\ UNCHANGED <<free, gone>>
  <2>1. /\ Append(demand, r) \in Seq(Req)
        /\ Range(Append(demand, r)) = Range(demand) \cup {r}
        /\ IsInjective(Append(demand, r))
        /\ Len(Append(demand, r)) = Len(demand) + 1
    BY <1>0, PushBack
  <2>2. QueueBounded'
    BY <1>4, <2>1, SlotAssumption, SMTT(30) DEF QueueBounded
  <2>3. TypeOK' /\ NoIdleSlot' /\ FlagsFit'
    BY <1>0, <1>4, <2>1 DEF NoIdleSlot
  <2>4. Queued' = Queued \cup {r}
    BY <1>4, <2>1, SMTT(30)
  <2>5. Queued' = {x \in Req : pc'[x] \in {"queued", "ended"} /\ x \notin granted'}
    BY SMTT(30), <1>0, <1>4, <2>4
  <2> QED
    BY SMTT(30), <1>4, <2>1, <2>2, <2>3, <2>5
<1> QED
  BY SMTT(30), <1>1, <1>2, <1>3, <1>4

\* A waiter that leaves is unlinked, or hands on the slot it was given (take).
LEMMA SettleShape == ASSUME Shape, NEW r \in Req, Settle(r) PROVE Shape'
<1> USE DEF Shape, Goto, Ends
<1>0. pc[r] = "ended" /\ r \notin once /\ UNCHANGED once
  BY DEF Settle
<1>1. CASE /\ r \notin granted
           /\ demand' = Unlink(demand, r) /\ prefetch' = Unlink(prefetch, r)
           /\ Ends(r) /\ UNCHANGED <<free, granted>>
  <2>1. /\ demand' \in Seq(Req) /\ prefetch' \in Seq(Req)
        /\ Range(demand') = Range(demand) \ {r}
        /\ Range(prefetch') = Range(prefetch) \ {r}
        /\ IsInjective(demand') /\ IsInjective(prefetch')
        /\ Len(demand') <= Len(demand) /\ Len(prefetch') <= Len(prefetch)
    BY <1>1, UnlinkOne, SMTT(30)
  <2>2. QueueBounded'
    BY <1>1, <2>1, SlotAssumption, SMTT(30) DEF QueueBounded
  <2>3. TypeOK' /\ FlagsFit'
    BY <1>0, <1>1, <2>1, SMTT(30)
  <2>4. NoIdleSlot'
    <3>1. r \in Queued
      BY <1>0, <1>1
    <3>2. Range(<<>>) = {}
      BY DEF Range
    <3> QED
      BY <1>1, <3>1, <3>2 DEF NoIdleSlot
  <2>5. Queued' = Queued \ {r}
    BY <2>1
  <2>6. Queued' = {x \in Req : pc'[x] \in {"queued", "ended"} /\ x \notin granted'}
    BY SMTT(30), <1>0, <1>1, <2>5
  <2> QED
    BY SMTT(30), <2>1, <2>2, <2>3, <2>4, <2>6
<1>2. CASE r \in granted /\ ReleaseLocked(granted \ {r}) /\ Ends(r)
  <2>1. granted \ {r} \in SUBSET Req
    OBVIOUS
  <2>2. QueueBounded'
    BY SMTT(30), <1>2, <2>1, HandOverShape, SlotAssumption DEF QueueBounded
  <2>3. NoIdleSlot' /\ IsInjective(demand') /\ IsInjective(prefetch')
        /\ Range(demand') \cap LookAhead = {} /\ Range(prefetch') \subseteq LookAhead
    BY SMTT(30), <1>2, <2>1, HandOverShape DEF NoIdleSlot
  <2>4. TypeOK' /\ FlagsFit'
    <3>1. pc' = [pc EXCEPT ![r] = "idle"] /\ gone' = gone \ {r} /\ once' = once
      BY <1>0, <1>2
    <3>2. \/ granted' = granted \ {r}
          \/ \E x \in Queued : granted' = (granted \ {r}) \cup {x}
      BY ZenonT(30), <1>2, <2>1, HandOverShape
    <3>3. FlagsFit' /\ granted' \in SUBSET Req
      BY SMTT(30), <1>0, <1>2, <3>1, <3>2
    <3>4. free' \in Nat /\ demand' \in Seq(Req) /\ prefetch' \in Seq(Req)
      BY SMTT(30), <1>2, <2>1, HandOverShape
    <3> QED
      BY SMTT(30), <3>1, <3>3, <3>4
  <2>5. Queued' = {x \in Req : pc'[x] \in {"queued", "ended"} /\ x \notin granted'}
    <3> DEFINE W == {x \in Req : pc[x] \in {"queued", "ended"} /\ x \notin granted}
    <3>1. Queued = W /\ pc' = [pc EXCEPT ![r] = "idle"]
      BY <1>2
    <3>2. CASE granted' = granted \ {r} /\ Queued' = Queued
      BY SMTT(30), <1>0, <1>2, <3>1, <3>2
    <3>3. CASE \E x \in Queued : granted' = (granted \ {r}) \cup {x} /\ Queued' = Queued \ {x}
      BY SMTT(30), <1>0, <1>2, <3>1, <3>3
    <3> QED
      BY SMTT(30), <1>2, <2>1, <3>2, <3>3, HandOverShape
  <2> QED
    BY SMTT(30), <2>2, <2>3, <2>4, <2>5
<1>3. CASE /\ r \in granted /\ granted' = granted \ {r} /\ Goto(r, "work")
           /\ UNCHANGED <<free, demand, prefetch, gone>>
  BY SMTT(30), <1>0, <1>3 DEF NoIdleSlot, QueueBounded
<1> QED
  BY <1>1, <1>2, <1>3, SMTT(30) DEF Settle

\* Giving a slot back, early or on return, hands it to the first waiter (release).
LEMMA GiveBackShape ==
    ASSUME Shape, NEW r \in Req, ReleaseSlot(r) \/ Return(r) PROVE Shape'
<1> USE DEF Shape, Goto, Ends
<1>0. /\ pc[r] = "work" /\ r \notin granted /\ r \notin Queued
      /\ \/ pc' = pc /\ gone' = gone /\ once' = once \cup {r}
         \/ pc' = [pc EXCEPT ![r] = "idle"] /\ gone' = gone \ {r} /\ once' = once \ {r}
  BY DEF ReleaseSlot, Return
<1>1. CASE ReleaseLocked(granted)
  <2>1. QueueBounded'
    BY SMTT(30), <1>1, HandOverShape, SlotAssumption DEF QueueBounded
  <2>2. NoIdleSlot' /\ IsInjective(demand') /\ IsInjective(prefetch')
        /\ Range(demand') \cap LookAhead = {} /\ Range(prefetch') \subseteq LookAhead
    BY SMTT(30), <1>1, HandOverShape DEF NoIdleSlot
  <2>3. TypeOK' /\ FlagsFit'
    BY SMTT(30), <1>0, <1>1, HandOverShape
  <2>4. Queued' = {x \in Req : pc'[x] \in {"queued", "ended"} /\ x \notin granted'}
    <3>1. CASE granted' = granted /\ Queued' = Queued
      BY SMTT(30), <1>0, <3>1
    <3>2. CASE \E x \in Queued : granted' = granted \cup {x} /\ Queued' = Queued \ {x}
      BY SMTT(30), <1>0, <3>2
    <3> QED
      BY ZenonT(30), <1>1, <3>1, <3>2, HandOverShape
  <2> QED
    BY SMTT(30), <2>1, <2>2, <2>3, <2>4
<1>2. CASE UNCHANGED <<free, demand, prefetch, granted>>
  BY <1>0, <1>2 DEF NoIdleSlot, QueueBounded
<1> QED
  BY SMTT(30), <1>1, <1>2 DEF ReleaseSlot, Return, AdmissionRelease

\* Shape holds at the start and survives every step.
LEMMA ShapeStep == ASSUME Shape, [Next]_vars PROVE Shape'
<1>1. CASE UNCHANGED vars
  BY <1>1 DEF Shape, vars, NoIdleSlot, QueueBounded
<1>2. CASE Next
  BY SMTT(30), <1>2, TryTakeShape, TakeShape, ReadyShape, WaitEndsShape, SettleShape,
     ClientGoneShape, GiveBackShape DEF Next
<1> QED
  BY <1>1, <1>2

----------------------------------------------------------------------------
(* What a step may do to the slots: keep them, take one, give one back, or  *)
(* pass one from a request straight to another.                             *)
Keeps == Holders' = Holders /\ free' = free
Takes(r) == /\ r \notin Holders /\ Holders' = Holders \cup {r}
            /\ free > 0 /\ free' = free - 1
Gives(r) == r \in Holders /\ Holders' = Holders \ {r} /\ free' = free + 1
Passes(r, s) == /\ r \in Holders /\ s \notin Holders
                /\ Holders' = (Holders \ {r}) \cup {s} /\ free' = free

\* A slot released by r is counted or goes to a request without one.
LEMMA ReleaseMoves ==
    ASSUME Shape, NEW r \in Req, NEW flags \in SUBSET Req, ReleaseLocked(flags),
           r \in Holders, flags = granted \ {r},
           {x \in Req : pc'[x] = "work" /\ x \notin once'}
               = {x \in Req : pc[x] = "work" /\ x \notin once} \ {r}
    PROVE  Gives(r) \/ \E s \in Req : Passes(r, s)
<1>1. CASE free' = free + 1 /\ granted' = flags
  BY <1>1 DEF Gives, Holders, Shape
<1>2. CASE \E s \in Queued : free' = free /\ granted' = flags \cup {s}
  <2>1. PICK s \in Queued : free' = free /\ granted' = flags \cup {s}
    BY <1>2
  <2>2. s \in Req /\ s \notin Holders
    BY <2>1 DEF Shape, Holders
  <2>3. Holders' = (Holders \ {r}) \cup {s}
    BY <2>1, <2>2 DEF Holders
  <2> QED
    BY SMTT(30), <2>1, <2>2, <2>3 DEF Passes
<1> QED
  BY SMTT(30), <1>1, <1>2, HandOverShape

\* Every step of admission control is one of the four slot moves.
LEMMA SlotMoves ==
    ASSUME Shape, [Next]_vars
    PROVE  \/ Keeps
           \/ \E r \in Req : Takes(r) \/ Gives(r)
           \/ \E r, s \in Req : Passes(r, s)
<1>1. CASE UNCHANGED vars
  BY <1>1 DEF vars, Keeps, Holders
<1>2. ASSUME NEW r \in Req, TryTake(r) \/ Take(r) PROVE Keeps \/ Takes(r)
  BY <1>2 DEF TryTake, Take, Goto, Ends, Keeps, Takes, Holders, Shape
<1>3. ASSUME NEW r \in Req,
             Ready(r) \/ Timeout(r) \/ Cancelled(r) \/ ClientGone(r)
      PROVE  Keeps
  BY SMTT(30), <1>3 DEF Ready, Timeout, Cancelled, ClientGone, Goto, Keeps, Holders, Shape
<1>4. ASSUME NEW r \in Req, Settle(r)
      PROVE  Keeps \/ Gives(r) \/ \E s \in Req : Passes(r, s)
  <2>1. CASE r \in granted /\ ReleaseLocked(granted \ {r}) /\ Ends(r) /\ UNCHANGED once
    <3>1. {x \in Req : pc'[x] = "work" /\ x \notin once'}
             = {x \in Req : pc[x] = "work" /\ x \notin once} \ {r}
      BY <1>4, <2>1 DEF Ends, Goto, Shape, Settle
    <3>2. r \in Holders /\ granted \ {r} \in SUBSET Req
      BY <2>1 DEF Holders, Shape
    <3> QED
      BY SMTT(30), <2>1, <3>1, <3>2, ReleaseMoves
  <2>2. CASE r \notin granted /\ Ends(r) /\ UNCHANGED <<free, granted, once>>
    BY SMTT(30), <1>4, <2>2 DEF Settle, Ends, Goto, Keeps, Holders, Shape
  <2>3. CASE r \in granted /\ granted' = granted \ {r} /\ Goto(r, "work")
             /\ UNCHANGED <<free, once>>
    BY SMTT(30), <1>4, <2>3 DEF Settle, Goto, Keeps, Holders, Shape
  <2> QED
    BY SMTT(30), <1>4, <2>1, <2>2, <2>3 DEF Settle
<1>5. ASSUME NEW r \in Req, ReleaseSlot(r) \/ Return(r)
      PROVE  Keeps \/ Gives(r) \/ \E s \in Req : Passes(r, s)
  <2>0. pc[r] = "work" /\ r \notin granted
    BY <1>5 DEF ReleaseSlot, Return, Shape
  <2>1. {x \in Req : pc'[x] = "work" /\ x \notin once'}
             = {x \in Req : pc[x] = "work" /\ x \notin once} \ {r}
    BY <1>5, <2>0 DEF ReleaseSlot, Return, Ends, Goto, Shape
  <2>2. CASE r \notin once /\ ReleaseLocked(granted)
    <3>1. r \in Holders /\ granted = granted \ {r} /\ granted \in SUBSET Req
      BY <2>0, <2>2 DEF Holders, Shape
    <3> QED
      BY SMTT(30), <2>1, <2>2, <3>1, ReleaseMoves
  <2>3. CASE r \in once /\ UNCHANGED <<free, granted>>
    BY <2>0, <2>1, <2>3, SMTT(30) DEF Keeps, Holders
  <2> QED
    BY SMTT(30), <1>5, <2>2, <2>3 DEF ReleaseSlot, Return, AdmissionRelease
<1> QED
  BY SMTT(30), <1>1, <1>2, <1>3, <1>4, <1>5 DEF Next

----------------------------------------------------------------------------
\* The set of requests that own a slot is finite.
LEMMA HoldersFinite ==
    ASSUME TypeOK PROVE IsFiniteSet(Holders) /\ Cardinality(Holders) \in Nat
<1>1. Holders \subseteq Req
  BY DEF Holders
<1> QED
  BY SMTT(30), <1>1, SlotAssumption, FS_Subset, FS_CardinalityType

\* The sum of the free count and the owners is the same after every step.
LEMMA ConservedStep == ASSUME IInv, [Next]_vars PROVE SlotsConserved'
<1> USE DEF SlotsConserved
<1>0. IsFiniteSet(Holders) /\ Cardinality(Holders) \in Nat /\ free \in Nat /\ Slots \in Nat
      /\ Cardinality(Holders) + free = Slots
  BY HoldersFinite, SlotAssumption DEF IInv, Shape
<1>1. CASE Keeps
  BY <1>0, <1>1 DEF Keeps
<1>2. CASE \E r \in Req : Takes(r)
  <2>1. PICK r \in Req : Takes(r)
    BY <1>2
  <2>2. Cardinality(Holders \cup {r}) = Cardinality(Holders) + 1
    BY SMTT(30), <1>0, <2>1, FS_AddElement DEF Takes
  <2> QED
    BY <1>0, <2>1, <2>2, SMTT(30) DEF Takes
<1>3. CASE \E r \in Req : Gives(r)
  <2>1. PICK r \in Req : Gives(r)
    BY <1>3
  <2>2. Cardinality(Holders \ {r}) = Cardinality(Holders) - 1
    BY ZenonT(30), <1>0, <2>1, FS_RemoveElement DEF Gives
  <2> QED
    BY SMTT(30), <1>0, <2>1, <2>2 DEF Gives
<1>4. CASE \E r, s \in Req : Passes(r, s)
  <2>1. PICK r \in Req, s \in Req : Passes(r, s)
    BY <1>4
  <2> DEFINE H == Holders \ {r}
  <2>2. IsFiniteSet(H) /\ Cardinality(H) = Cardinality(Holders) - 1
    BY SMTT(30), <1>0, <2>1, FS_RemoveElement DEF Passes
  <2>3. s \notin H
    BY <2>1 DEF Passes
  <2>4. Cardinality(H \cup {s}) = Cardinality(H) + 1
    BY ZenonT(30), <2>2, <2>3, FS_AddElement
  <2> QED
    BY SMTT(30), <1>0, <2>1, <2>2, <2>4 DEF Passes
<1> QED
  BY SMTT(30), <1>1, <1>2, <1>3, <1>4, SlotMoves DEF IInv

\* The invariant holds when the server starts.
LEMMA StartsWell == ASSUME Init PROVE IInv
<1>1. Shape
  <2>1. <<>> \in Seq(Req) /\ Len(<<>>) = 0 /\ Range(<<>>) = {} /\ IsInjective(<<>>)
    BY EmptySeq DEF Range, IsInjective
  <2> QED
    BY <2>1, SlotAssumption DEF Init, Shape, NoIdleSlot, QueueBounded
<1>2. Holders = {}
  BY DEF Init, Holders
<1> QED
  BY SMTT(30), <1>1, <1>2, FS_EmptySet, SlotAssumption DEF IInv, SlotsConserved, Init

\* The inductive invariant itself.
THEOREM AdmissionInv == Spec => []IInv
<1>1. Init => IInv
  BY StartsWell
<1>2. IInv /\ [Next]_vars => IInv'
  BY ShapeStep, ConservedStep DEF IInv
<1> QED
  BY <1>1, <1>2, PTL DEF Spec

\* Admission control never loses or invents a work slot, never leaves one idle
\* while a request waits, and its lists hold exactly the waiting requests, for
\* any number of requests, slots and waiters (slotQueue, admission).
THEOREM AdmissionSafe ==
    Spec => [](/\ TypeOK /\ SlotsConserved /\ NoIdleSlot
               /\ ListsAreTheWaiters /\ QueueBounded)
<1>1. IInv => /\ TypeOK /\ SlotsConserved /\ NoIdleSlot
              /\ ListsAreTheWaiters /\ QueueBounded
  BY DEF IInv, Shape
<1> QED
  BY <1>1, AdmissionInv, PTL

\* No request takes a free slot on arrival while another one is queued
\* (tryTake and take look at free under the lock release hands over under).
THEOREM NobodyBarges == Spec => NoBarging
<1>1. ASSUME IInv, [Next]_vars
      PROVE  [\A r \in Req : pc[r] \in {"idle", "take"} /\ pc'[r] = "work"
                             => Queued = {}]_vars
  <2> SUFFICES ASSUME Next, NEW r \in Req, pc[r] \in {"idle", "take"}, pc'[r] = "work"
               PROVE  Queued = {}
    BY SMTT(30), <1>1
  <2>1. free > 0
    BY <1>1, ZenonT(30) DEF Next, TryTake, Take, Ready, Timeout, Cancelled, Settle, ClientGone,
                ReleaseSlot, Return, Goto, Ends, IInv, Shape
  <2>2. Range(<<>>) = {}
    BY DEF Range
  <2> QED
    BY SMTT(30), <1>1, <2>1, <2>2 DEF IInv, Shape, NoIdleSlot
<1> QED
  BY <1>1, AdmissionInv, PTL DEF Spec, NoBarging

\* A hand-over goes to the first waiting build, and to the first look-ahead
\* waiter only if no build waits, whichever of a return, an early release and a
\* waiter that gives its slot back makes it (releaseLocked).
THEOREM BuildsGoFirst == Spec => DemandFirst
<1>1. ASSUME NEW flags \in SUBSET granted, ReleaseLocked(flags), NEW s \in granted', s \notin granted
      PROVE  \/ demand # <<>> /\ s = Head(demand)
             \/ demand = <<>> /\ prefetch # <<>> /\ s = Head(prefetch)
  BY <1>1, ZenonT(30) DEF ReleaseLocked
<1>2. ASSUME [Next]_vars
      PROVE  [\A r \in Req : r \in granted' /\ r \notin granted
                => \/ demand # <<>> /\ r = Head(demand)
                   \/ demand = <<>> /\ prefetch # <<>> /\ r = Head(prefetch)]_vars
  <2> SUFFICES ASSUME NEW q \in Req, NEW r \in granted', r \notin granted,
                      \/ TryTake(q) \/ Take(q) \/ Ready(q) \/ Timeout(q) \/ Cancelled(q)
                      \/ Settle(q) \/ ClientGone(q) \/ ReleaseSlot(q) \/ Return(q)
               PROVE  \/ demand # <<>> /\ r = Head(demand)
                      \/ demand = <<>> /\ prefetch # <<>> /\ r = Head(prefetch)
    BY <1>2, ZenonT(30) DEF Next
  <2>1. \E flags \in SUBSET granted : ReleaseLocked(flags)
    <3>1. CASE Settle(q)
      BY <3>1 DEF Settle
    <3>2. CASE ReleaseSlot(q) \/ Return(q)
      BY <3>2 DEF ReleaseSlot, Return, AdmissionRelease
    <3>3. CASE TryTake(q) \/ Take(q) \/ Ready(q) \/ Timeout(q) \/ Cancelled(q) \/ ClientGone(q)
      BY <3>3, ZenonT(30) DEF TryTake, Take, Ready, Timeout, Cancelled, ClientGone
    <3> QED
      BY <3>1, <3>2, <3>3, ZenonT(30)
  <2> QED
    BY <1>1, <2>1, ZenonT(30)
<1> QED
  BY <1>2, PTL DEF Spec, DemandFirst

\* The admission code implements a counting semaphore of Slots slots: every
\* step is an acquire within the limit, a release, a hand-over or a stutter.
THEOREM AdmissionIsASemaphore == Spec => ImplementsSemaphore
<1>1. Init => Semaphore!Init
  BY DEF Init, Semaphore!Init, Holders
<1>2. ASSUME IInv, [Next]_vars PROVE [Semaphore!Next]_Holders
  <2>0. Cardinality(Holders) \in Nat /\ free \in Nat /\ Cardinality(Holders) + free = Slots
        /\ Slots \in Nat
    BY SMTT(30), <1>2, HoldersFinite, SlotAssumption DEF IInv, Shape, SlotsConserved
  <2>1. CASE Keeps
    BY <2>1 DEF Keeps
  <2>2. ASSUME NEW r \in Req, Takes(r) PROVE Semaphore!Acquire(r)
    <3>1. Semaphore!Cardinality(Holders) = Cardinality(Holders)
      BY DEF Semaphore!Cardinality, Cardinality
    <3>2. Cardinality(Holders) < Slots
      BY <2>0, <2>2 DEF Takes
    <3> QED
      BY <2>2, <3>1, <3>2, SMTT(30) DEF Takes, Semaphore!Acquire
  <2>3. ASSUME NEW r \in Req, Gives(r) PROVE Semaphore!Release(r)
    BY <2>3 DEF Gives, Semaphore!Release
  <2>4. ASSUME NEW r \in Req, NEW s \in Req, Passes(r, s) PROVE Semaphore!HandOver(r, s)
    BY <2>4 DEF Passes, Semaphore!HandOver
  <2> QED
    BY SMTT(30), <1>2, <2>1, <2>2, <2>3, <2>4, SlotMoves DEF Semaphore!Next, IInv
<1> QED
  BY <1>1, <1>2, AdmissionInv, PTL DEF Spec, ImplementsSemaphore, Semaphore!Spec
=============================================================================
