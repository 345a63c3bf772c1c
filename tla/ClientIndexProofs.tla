-------------------------- MODULE ClientIndexProofs --------------------------
(***************************************************************************)
(* Proofs, for any number of processes, keys and epochs: no claim or drop  *)
(* is lost to a load, no key is invented, a position the copy is read with *)
(* is a position of the copy, and a complete set misses only what the next *)
(* delta names.                                                            *)
(***************************************************************************)
EXTENDS ClientIndex, TLAPS

----------------------------------------------------------------------------
(* Positions in a log l of epoch e whose server stores s.                  *)

Pos == [epoch : Nat, seq : Nat]

After(l, n) == {l[i] : i \in n + 1..Len(l)}
FitsTo(K, g, e, l, s) == g.epoch = e => g.seq <= Len(l) /\ K \cup After(l, g.seq) = s
Covers(K, g, e, l, s) == g.epoch = e => g.seq <= Len(l) /\ s \subseteq K \cup After(l, g.seq)

\* A larger set covers as much, and a set that fits covers.
LEMMA CoversMore ==
    \A K, L, g, e, l, s :
        /\ K \subseteq L /\ Covers(K, g, e, l, s) => Covers(L, g, e, l, s)
        /\ FitsTo(K, g, e, l, s) => Covers(K, g, e, l, s)
    BY DEF Covers, FitsTo

\* A position of another epoch promises nothing.
LEMMA OtherEpoch ==
    \A K, g, e, l, s : g.epoch # e => FitsTo(K, g, e, l, s) /\ Covers(K, g, e, l, s)
    BY Zenon DEF Covers, FitsTo

\* The end of the log fits what the server stores, and a delta from a position
\* that fits brings a set there.
LEMMA AtTheEnd ==
    ASSUME NEW l \in Seq(Key), NEW e, NEW s, NEW K, NEW g \in Pos, NEW L
    PROVE  LET here == [epoch |-> e, seq |-> Len(l)]
           IN /\ g.epoch = e /\ FitsTo(K, g, e, l, s) => FitsTo(K \cup After(l, g.seq), here, e, l, s)
              /\ g.epoch = e /\ Covers(K, g, e, l, s) => Covers(K \cup After(l, g.seq), here, e, l, s)
<1>1. Len(l) \in Nat /\ After(l, Len(l)) = {}
    BY DEF After
<1> QED
    BY <1>1 DEF FitsTo, Covers

\* So does a blob that lies behind the log, with its own position.
LEMMA BlobFits ==
    ASSUME NEW l \in Seq(Key), NEW e, NEW s, After(l, 0) \subseteq s, NEW n \in 0..Len(l)
    PROVE  FitsTo(s \ After(l, n), [epoch |-> e, seq |-> n], e, l, s)
<1>1. After(l, n) \subseteq After(l, 0)
    BY DEF After
<1> QED
    BY <1>1 DEF FitsTo

\* A key the server adds is a key the log names.
LEMMA AddFits ==
    ASSUME NEW l \in Seq(Key), NEW s, NEW k \in Key, NEW K, NEW g \in Pos, NEW e
    PROVE  LET m == Append(l, k) t == s \cup {k}
           IN /\ FitsTo(K, g, e, l, s) => FitsTo(K, g, e, m, t)
              /\ Covers(K, g, e, l, s) => Covers(K, g, e, m, t)
<1>1. /\ Len(Append(l, k)) = Len(l) + 1 /\ Append(l, k)[Len(l) + 1] = k
      /\ \A i \in 1..Len(l) : Append(l, k)[i] = l[i]
    OBVIOUS
<1>2. ASSUME g.seq <= Len(l)
      PROVE  After(Append(l, k), g.seq) = After(l, g.seq) \cup {k}
    <2>1. g.seq \in Nat /\ Len(l) \in Nat
        BY DEF Pos
    <2>2. \A i \in g.seq + 1..Len(l) + 1 : i = Len(l) + 1 \/ i \in g.seq + 1..Len(l)
        BY <2>1
    <2>3. \A i \in g.seq + 1..Len(l) : i \in 1..Len(l) /\ i \in g.seq + 1..Len(l) + 1
        BY <2>1
    <2>4. Len(l) + 1 \in g.seq + 1..Len(l) + 1
        BY <1>2, <2>1
    <2> QED
        BY <1>1, <2>2, <2>3, <2>4, Zenon DEF After
<1>3. Len(l) <= Len(Append(l, k)) /\ g.seq \in Nat /\ Len(l) \in Nat
    BY <1>1 DEF Pos
<1> QED
    BY <1>1, <1>2, <1>3 DEF FitsTo, Covers

----------------------------------------------------------------------------
(* The invariant.                                                          *)

DiskT == [has : BOOLEAN, keys : SUBSET Key, gen : Pos]
ReplyT == [keys : SUBSET Key, gen : Pos]
ResT == [got : {"nil", "same", "new"}, auth : BOOLEAN]
JournalT == [open : BOOLEAN, added : SUBSET Key, dropped : SUBSET Key]
LiveT == [on : BOOLEAN, keys : SUBSET Key, gen : Pos]
UpT == [Key -> {"none", "sent", "landed"}]
Steps == {"stat", "read", "gen", "delta", "apply", "touch", "blob", "wgen", "lock",
          "read2", "gen2", "fetch", "adopt", "done", "gone"}

Shapes ==
    /\ pc \in [Proc -> Steps] /\ disk \in [Proc -> DiskT] /\ reply \in [Proc -> ReplyT]
    /\ res \in [Proc -> ResT] /\ after \in [Proc -> {"done", "adopt"}]
    /\ keys \in [Proc -> SUBSET Key] /\ authoritative \in [Proc -> BOOLEAN]
    /\ journal \in [Proc -> JournalT] /\ liveGen \in [Proc -> Pos] /\ live \in [Proc -> LiveT]
    /\ up \in [Proc -> UpT] /\ missed \in [Proc -> SUBSET Key] /\ dropped \in [Proc -> SUBSET Key]

FitsNow(K, g) == FitsTo(K, g, epoch, log, stored)
CoversNow(K, g) == Covers(K, g, epoch, log, stored)

\* The server names what it stores, and the position beside the copy is one of
\* the keys it was written for.
Shared ==
    /\ epoch \in Nat \ {0} /\ log \in Seq(Key)
    /\ stored \subseteq ever /\ ever \subseteq Key /\ After(log, 0) \subseteq stored
    /\ copy \in [has : BOOLEAN, keys : SUBSET Key] /\ copyGen \in [gen : Pos, etag : SUBSET Key]
    /\ copy.keys \subseteq ever
    /\ copyGen.gen.epoch <= epoch /\ FitsNow(copyGen.etag, copyGen.gen)

\* No position is of an epoch to come.
Past(p) ==
    /\ disk[p].gen.epoch <= epoch /\ reply[p].gen.epoch <= epoch
    /\ liveGen[p].epoch <= epoch /\ live[p].gen.epoch <= epoch

\* The journal is open while a load may yet replace the set, and until then
\* nothing is live.
Open(p) ==
    \/ pc[p] \in {"delta", "apply", "lock", "read2", "gen2", "fetch", "adopt"}
    \/ pc[p] \in {"touch", "blob", "wgen"} /\ after[p] = "adopt"

Loading(p) ==
    /\ journal[p].open <=> Open(p)
    /\ ~journal[p].open => journal[p].added = {}
    /\ after[p] = "adopt" => pc[p] \in {"touch", "blob", "wgen", "adopt"}
    /\ res[p].auth => pc[p] \in {"touch", "blob", "wgen", "adopt"} /\ res[p].got # "nil"
    /\ Open(p) => ~authoritative[p] /\ ~live[p].on
    /\ Open(p) /\ pc[p] # "adopt" => liveGen[p] = NoGen
    /\ ~Installed(p) => /\ dropped[p] = {} /\ missed[p] = {} /\ \A k \in Key : up[p][k] = "none"
                        /\ ~live[p].on /\ liveGen[p] = NoGen /\ ~authoritative[p]
    /\ pc[p] \in {"stat", "read", "gen"} => disk[p].gen = NoGen

\* The journal holds what the process changed since the copy was installed.
Journalled(p) ==
    Open(p) => /\ journal[p].dropped = dropped[p]
               /\ \A k \in Key : up[p][k] # "none" => k \in journal[p].added \cup dropped[p]
               /\ disk[p].keys \subseteq keys[p] \cup dropped[p]

Survives(p) ==
    /\ \A k \in Key : up[p][k] # "none" => k \in keys[p] \cup dropped[p]
    /\ keys[p] \cap dropped[p] = {}

\* Every key a process holds was on the server, or is a claim.
Known(p) ==
    /\ disk[p].keys \subseteq ever /\ reply[p].keys \subseteq ever /\ live[p].keys \subseteq ever
    /\ \A k \in keys[p] \cup journal[p].added : k \in ever \/ up[p][k] # "none"
    /\ \A k \in Key : up[p][k] = "landed" => k \in ever

\* Every position is one of the keys it came with.
Placed(p) ==
    /\ FitsNow(disk[p].keys, disk[p].gen)
    /\ pc[p] \in {"apply", "touch", "blob", "wgen"} => FitsNow(Target(p), reply[p].gen)
    /\ pc[p] = "adopt" /\ res[p].auth => liveGen[p] = reply[p].gen /\ FitsNow(reply[p].keys, reply[p].gen)
    /\ res[p].auth /\ res[p].got = "same" => reply[p].keys = disk[p].keys

\* The live set, with what was dropped and what the log names, is complete.
Complete(p) ==
    /\ authoritative[p] /\ ~Open(p) => CoversNow(keys[p] \cup dropped[p], liveGen[p])
    /\ live[p].on => CoversNow(keys[p] \cup dropped[p] \cup live[p].keys, live[p].gen)

ProcInv(p) ==
    /\ Past(p) /\ Loading(p) /\ Journalled(p) /\ Survives(p) /\ Known(p) /\ Placed(p) /\ Complete(p)

IInv == Shapes /\ Shared /\ \A p \in Proc : ProcInv(p)

----------------------------------------------------------------------------
(* What the definitions give.                                              *)

\* The empty values.
LEMMA Empties ==
    /\ NoGen \in Pos /\ NoGen.epoch = 0
    /\ NoDisk \in DiskT /\ NoDisk.keys = {} /\ NoDisk.gen = NoGen
    /\ NoReply \in ReplyT /\ NoReply.keys = {} /\ NoReply.gen = NoGen
    /\ NoRes \in ResT /\ ~NoRes.auth
    /\ NoLive \in LiveT /\ ~NoLive.on /\ NoLive.keys = {} /\ NoLive.gen = NoGen
    /\ Closed \in JournalT /\ ~Closed.open /\ Closed.added = {} /\ Closed.dropped = {}
    /\ Opened \in JournalT /\ Opened.open /\ Opened.added = {} /\ Opened.dropped = {}
    /\ Idle \in UpT /\ \A k \in Key : Idle[k] = "none"
    BY Zenon DEF NoGen, NoDisk, NoReply, NoRes, NoLive, Closed, Opened, Idle, Pos, DiskT,
       ReplyT, ResT, LiveT, JournalT, UpT

\* The fields of a process's records.
LEMMA Fields ==
    ASSUME Shapes, NEW p \in Proc
    PROVE  /\ disk[p].keys \in SUBSET Key /\ disk[p].gen \in Pos /\ disk[p].has \in BOOLEAN
           /\ reply[p].keys \in SUBSET Key /\ reply[p].gen \in Pos
           /\ res[p].auth \in BOOLEAN /\ res[p].got \in {"nil", "same", "new"}
           /\ journal[p].open \in BOOLEAN /\ journal[p].added \in SUBSET Key
           /\ journal[p].dropped \in SUBSET Key
           /\ live[p].on \in BOOLEAN /\ live[p].keys \in SUBSET Key /\ live[p].gen \in Pos
           /\ liveGen[p] \in Pos
<1>1. disk[p] \in DiskT /\ reply[p] \in ReplyT /\ res[p] \in ResT /\ journal[p] \in JournalT
      /\ live[p] \in LiveT /\ liveGen[p] \in Pos
    BY Zenon DEF Shapes
<1> QED
    BY <1>1, Zenon DEF DiskT, ReplyT, ResT, JournalT, LiveT

\* What the server answers from a position in its log.
LEMMA Deltas ==
    ASSUME Shared
    PROVE  /\ Here \in Pos /\ Here.epoch = epoch /\ Here = [epoch |-> epoch, seq |-> Len(log)]
           /\ \A n \in Nat : Since(n) = After(log, n) /\ Since(n) \subseteq stored
<1>1. log \in Seq(Key) /\ Len(log) \in Nat /\ epoch \in Nat /\ After(log, 0) \subseteq stored
    BY DEF Shared
<1>2. \A n \in Nat : After(log, n) \subseteq After(log, 0)
    BY <1>1 DEF After
<1> QED
    BY <1>1, <1>2, Zenon DEF Here, Pos, Since, After

\* Nothing of process q changed, but for an upload that landed.
Same(q) ==
    /\ pc'[q] = pc[q] /\ disk'[q] = disk[q] /\ reply'[q] = reply[q] /\ res'[q] = res[q]
    /\ after'[q] = after[q] /\ keys'[q] = keys[q] /\ authoritative'[q] = authoritative[q]
    /\ journal'[q] = journal[q] /\ liveGen'[q] = liveGen[q] /\ live'[q] = live[q]
    /\ missed'[q] = missed[q] /\ dropped'[q] = dropped[q]
    /\ \A k \in Key : up'[q][k] # up[q][k] => up[q][k] = "sent" /\ up'[q][k] = "landed" /\ k \in ever'

SameServer == epoch' = epoch /\ log' = log /\ stored' = stored /\ ever' = ever

\* The server stores a key it had, or gains one.
Grows(k) ==
    /\ epoch' = epoch /\ ever' = ever \cup {k}
    /\ \/ log' = log /\ stored' = stored
       \/ log' = Append(log, k) /\ stored' = stored \cup {k}

\* Positions keep fitting when the server stands still or grows.
LEMMA StillFits ==
    ASSUME Shared, SameServer \/ \E k \in Key : Grows(k)
    PROVE  \A K \in SUBSET Key, g \in Pos :
              /\ FitsNow(K, g) => FitsTo(K, g, epoch', log', stored')
              /\ CoversNow(K, g) => Covers(K, g, epoch', log', stored')
<1>1. CASE SameServer \/ \E k \in Key : Grows(k) /\ log' = log /\ stored' = stored
    BY <1>1, Zenon DEF SameServer, Grows, FitsNow, CoversNow
<1>2. CASE \E k \in Key : Grows(k) /\ log' = Append(log, k) /\ stored' = stored \cup {k}
    BY <1>2, AddFits DEF Shared, Grows, FitsNow, CoversNow
<1> QED
    BY <1>1, <1>2, Zenon DEF Grows

\* A process that does nothing keeps its part of the invariant.
LEMMA Others ==
    ASSUME IInv, NEW q \in Proc, Same(q), SameServer \/ \E k \in Key : Grows(k)
    PROVE  ProcInv(q)'
<1>0. ProcInv(q) /\ Shapes /\ Shared
    BY Zenon DEF IInv
<1>1. ever \subseteq ever' /\ epoch' = epoch
    BY Zenon DEF SameServer, Grows
<1>2. Past(q)'
    BY <1>0, <1>1, Zenon DEF ProcInv, Past, Same
<1>3. up[q] \in UpT /\ \A k \in Key : (up'[q][k] = "none") <=> (up[q][k] = "none")
    BY <1>0, Zenon DEF Shapes, Same
<1>4. Open(q)' = Open(q) /\ Installed(q)' = Installed(q) /\ Target(q)' = Target(q)
    BY Zenon DEF Same, Open, Installed, Target
<1>5. Loading(q)'
    BY <1>0, <1>3, <1>4, ZenonT(40) DEF ProcInv, Loading, Same
<1>6. Journalled(q)' /\ Survives(q)'
    BY <1>0, <1>3, <1>4, Zenon DEF ProcInv, Journalled, Survives, Same
<1>7. Known(q)'
    <2>1. \A k \in Key : up'[q][k] = "landed" => k \in ever'
        BY <1>0, <1>1, Zenon DEF ProcInv, Known, Same
    <2>2. keys[q] \subseteq Key /\ journal[q].added \subseteq Key
        BY <1>0, Fields, Zenon DEF Shapes
    <2> QED
        BY <1>0, <1>1, <1>3, <2>1, <2>2, ZenonT(30) DEF ProcInv, Known, Same
<1>8. disk[q].keys \in SUBSET Key /\ Target(q) \in SUBSET Key /\ reply[q].keys \in SUBSET Key
      /\ reply[q].gen \in Pos /\ disk[q].gen \in Pos /\ liveGen[q] \in Pos /\ live[q].gen \in Pos
      /\ keys[q] \cup dropped[q] \in SUBSET Key
      /\ keys[q] \cup dropped[q] \cup live[q].keys \in SUBSET Key
    BY <1>0, Fields, Zenon DEF Shapes, Target
<1>9. Placed(q)'
    BY <1>0, <1>4, <1>8, StillFits, Zenon DEF ProcInv, Placed, FitsNow, Same
<1>10. Complete(q)'
    BY <1>0, <1>4, <1>8, StillFits, Zenon DEF ProcInv, Complete, CoversNow, Same
<1> QED
    BY <1>2, <1>5, <1>6, <1>7, <1>9, <1>10, Zenon DEF ProcInv

\* What nobody writes to stays as it is.
LEMMA SharedStays ==
    ASSUME Shared, SameServer, copy' = copy, copyGen' = copyGen
    PROVE  Shared'
    BY Zenon DEF Shared, SameServer, FitsNow

\* Nor does a key the server gains unsettle the copy.
LEMMA GrownShared ==
    ASSUME Shared, NEW k \in Key, Grows(k), copy' = copy, copyGen' = copyGen
    PROVE  Shared'
<1>1. log' \in Seq(Key) /\ stored' \subseteq ever' /\ ever' \subseteq Key
    BY SMTT(30) DEF Shared, Grows
<1>2. After(log', 0) \subseteq stored'
    <2>1. CASE log' = log /\ stored' = stored
        BY <2>1, Zenon DEF Shared
    <2>2. CASE log' = Append(log, k) /\ stored' = stored \cup {k}
        <3>1. /\ Len(log') = Len(log) + 1 /\ log'[Len(log) + 1] = k /\ Len(log) \in Nat
              /\ \A i \in 1..Len(log) : log'[i] = log[i]
            BY <2>2 DEF Shared
        <3> QED
            BY <2>2, <3>1 DEF Shared, After
    <2> QED
        BY <2>1, <2>2, Zenon DEF Grows
<1>3. copyGen.gen \in Pos /\ copyGen.etag \in SUBSET Key
    BY Zenon DEF Shared
<1>4. FitsNow(copyGen.etag, copyGen.gen)'
    BY <1>3, StillFits, Zenon DEF Shared, FitsNow
<1> QED
    BY <1>1, <1>2, <1>4, Zenon DEF Shared, Grows

\* A step of process p is about its own part and what is shared.
LEMMA OneMoves ==
    ASSUME IInv, NEW p \in Proc, Shapes', SameServer, Shared', \A q \in Proc \ {p} : Same(q), ProcInv(p)'
    PROVE  IInv'
    BY Others, Zenon DEF IInv

\* A position read back from the file is one of the keys it is asked for.
LEMMA GenFits ==
    ASSUME Shared, NEW K
    PROVE  LET gen == ReadIndexGen(K) IN gen \in Pos /\ gen.epoch <= epoch /\ FitsNow(K, gen)
<1>1. /\ copyGen.gen \in Pos /\ copyGen.gen.epoch <= epoch /\ FitsNow(copyGen.etag, copyGen.gen)
      /\ epoch \in Nat /\ epoch # 0
    BY Zenon DEF Shared
<1>2. NoGen \in Pos /\ NoGen.epoch <= epoch /\ FitsNow(K, NoGen)
    BY <1>1, Empties, OtherEpoch DEF FitsNow
<1> QED
    BY <1>1, <1>2, Zenon DEF ReadIndexGen

\* A blob of the server's with its position.
LEMMA Blobs ==
    ASSUME Shared, NEW n \in 0..Len(log)
    PROVE  LET blob == stored \ Since(n) gen == [epoch |-> epoch, seq |-> n]
           IN /\ blob \in SUBSET Key /\ blob \subseteq ever /\ gen \in Pos /\ gen.epoch <= epoch
              /\ FitsNow(blob, gen) /\ [keys |-> blob, gen |-> gen] \in ReplyT
<1>1. /\ log \in Seq(Key) /\ Len(log) \in Nat /\ epoch \in Nat /\ After(log, 0) \subseteq stored
      /\ stored \subseteq ever /\ ever \subseteq Key
    BY DEF Shared
<1>2. Since(n) = After(log, n)
    BY <1>1, Deltas
<1>3. FitsTo(stored \ After(log, n), [epoch |-> epoch, seq |-> n], epoch, log, stored)
    BY <1>1, BlobFits, Zenon
<1> QED
    BY <1>1, <1>2, <1>3 DEF FitsNow, Pos, ReplyT

\* A delta from a position that fits, with the end of the log.
LEMMA DeltaFits ==
    ASSUME Shared, NEW K, NEW g \in Pos, g.epoch = epoch
    PROVE  LET new == Since(g.seq)
           IN /\ new \in SUBSET Key /\ new \subseteq ever /\ Here \in Pos /\ Here.epoch <= epoch
              /\ FitsNow(K, g) => FitsNow(K \cup new, Here)
              /\ CoversNow(K, g) => CoversNow(K \cup new, Here)
<1>1. /\ log \in Seq(Key) /\ stored \subseteq ever /\ ever \subseteq Key /\ g.seq \in Nat
      /\ epoch <= epoch
    BY DEF Shared, Pos
<1>2. /\ Since(g.seq) = After(log, g.seq) /\ Since(g.seq) \subseteq stored
      /\ Here \in Pos /\ Here.epoch = epoch /\ Here = [epoch |-> epoch, seq |-> Len(log)]
    BY <1>1, Deltas, Zenon
<1> QED
    BY <1>1, <1>2, AtTheEnd, Zenon DEF FitsNow, CoversNow

\* What stays complete: a set that loses no key but to the dropped ones.
LEMMA StillComplete ==
    ASSUME NEW p \in Proc, Complete(p), SameServer, Open(p) => Open(p)',
           keys[p] \cup dropped[p] \subseteq keys'[p] \cup dropped'[p],
           liveGen'[p] = liveGen[p], live'[p] = live[p], authoritative'[p] = authoritative[p]
    PROVE  Complete(p)'
<1>1. keys[p] \cup dropped[p] \cup live[p].keys \subseteq keys'[p] \cup dropped'[p] \cup live'[p].keys
    BY Zenon
<1> QED
    BY <1>1, CoversMore DEF Complete, CoversNow, SameServer

----------------------------------------------------------------------------
(* The steps.                                                              *)

\* A step of the load that leaves the set, its journal and its position alone
\* leaves the set's part of the invariant alone.
LEMMA KeysStand ==
    ASSUME NEW p \in Proc, ProcInv(p), SameServer, Open(p)' <=> Open(p),
           Open(p) => disk'[p].keys = disk[p].keys, keys'[p] = keys[p],
           authoritative'[p] = authoritative[p], journal'[p] = journal[p], liveGen'[p] = liveGen[p],
           live'[p] = live[p], up'[p] = up[p], dropped'[p] = dropped[p]
    PROVE  Journalled(p)' /\ Survives(p)' /\ Complete(p)'
<1>1. Complete(p)'
    BY StillComplete, Zenon DEF ProcInv
<1> QED
    BY <1>1, Zenon DEF ProcInv, Journalled, Survives

\* A step of the build that leaves what the load has read alone leaves the
\* load's part of the invariant alone.
LEMMA LoadStands ==
    ASSUME NEW p \in Proc, ProcInv(p), SameServer, pc'[p] = pc[p], disk'[p] = disk[p],
           reply'[p] = reply[p], res'[p] = res[p], after'[p] = after[p], liveGen'[p] = liveGen[p],
           live'[p] = live[p]
    PROVE  Past(p)' /\ Placed(p)'
    BY Zenon DEF ProcInv, SameServer, Past, Placed, FitsNow, Target

\* The types of the fields of the process that takes a step.
Typed(p) ==
    /\ disk[p].keys \in SUBSET Key /\ disk[p].gen \in Pos /\ reply[p].keys \in SUBSET Key
    /\ reply[p].gen \in Pos /\ res[p].auth \in BOOLEAN /\ journal[p].added \in SUBSET Key
    /\ journal[p].dropped \in SUBSET Key /\ live[p].keys \in SUBSET Key /\ live[p].gen \in Pos
    /\ keys[p] \in SUBSET Key /\ dropped[p] \in SUBSET Key /\ epoch \in Nat

\* What every step may use of the server and of a process without a position.
Base(p) ==
    /\ NoGen.epoch = 0 /\ 0 <= epoch /\ stored \subseteq ever /\ copy.keys \subseteq ever
    /\ journal[p].open \in BOOLEAN /\ live[p].on \in BOOLEAN /\ after[p] \in {"done", "adopt"}
    /\ \A K : FitsTo(K, NoGen, epoch, log, stored) /\ Covers(K, NoGen, epoch, log, stored)

\* What the invariant gives a step of process p.
LEMMA Start ==
    ASSUME IInv, NEW p \in Proc
    PROVE  Shapes /\ Shared /\ ProcInv(p) /\ Typed(p) /\ Base(p)
<1>1. Shapes /\ Shared /\ ProcInv(p)
    BY Zenon DEF IInv
<1>2. Typed(p)
    BY <1>1, Fields, Zenon DEF Shapes, Shared, Typed
<1>3. Base(p)
    BY <1>1, Empties, OtherEpoch, Fields DEF Shared, Shapes, Base
<1> QED
    BY <1>1, <1>2, <1>3, Zenon

\* The server stores, adds to its log and removes: no process has a position of
\* the epoch a removal begins.
LEMMA ServerKeeps ==
    ASSUME IInv, NEW k \in Key, ServerStore(k) \/ ServerRemove(k)
    PROVE  IInv'
<1>0. Shapes /\ Shared /\ epoch \in Nat
    BY Zenon DEF IInv, Shared
<1>1. Shapes' /\ copy' = copy /\ copyGen' = copyGen /\ \A q \in Proc : Same(q)
    BY <1>0, Zenon DEF ServerStore, ServerRemove, Shapes, Same, diskVars, loadVars, keysVars,
       useVars
<1>2. CASE ServerStore(k)
    <2>1. Grows(k)
        BY <1>2, Zenon DEF ServerStore, Add, Grows
    <2>2. Shared'
        BY <1>0, <1>1, <2>1, GrownShared, Zenon
    <2> QED
        BY <1>1, <2>1, <2>2, Others, Zenon DEF IInv
<1>3. CASE ServerRemove(k)
    <2>1. epoch' = epoch + 1 /\ log' = <<>> /\ ever' = ever /\ stored' \subseteq stored
        BY <1>3, Zenon DEF ServerRemove
    <2>2. copyGen.gen \in Pos /\ copyGen.gen.epoch < epoch'
        BY <1>0, <2>1 DEF Shared, Pos
    <2>3. Shared'
        <3>1. After(<<>>, 0) = {} /\ <<>> \in Seq(Key)
            BY DEF After
        <3>2. FitsTo(copyGen.etag, copyGen.gen, epoch', log', stored') /\ epoch' \in Nat \ {0}
            BY <1>0, <2>1, <2>2, OtherEpoch DEF Pos
        <3>3. copyGen.gen.epoch <= epoch'
            BY <1>0, <2>1, <2>2 DEF Pos
        <3> QED
            BY <1>0, <1>1, <2>1, <3>1, <3>2, <3>3, Zenon DEF Shared, FitsNow
    <2>4. ASSUME NEW q \in Proc PROVE ProcInv(q)'
        <3>1. ProcInv(q) /\ Same(q)
            BY <1>1, Zenon DEF IInv
        <3>2. /\ disk[q].gen.epoch < epoch' /\ reply[q].gen.epoch < epoch'
              /\ liveGen[q].epoch < epoch' /\ live[q].gen.epoch < epoch'
              /\ disk[q].gen.epoch \in Nat /\ reply[q].gen.epoch \in Nat
              /\ liveGen[q].epoch \in Nat /\ live[q].gen.epoch \in Nat
            <4>1. disk[q].gen \in Pos /\ reply[q].gen \in Pos /\ liveGen[q] \in Pos /\ live[q].gen \in Pos
                BY <1>0, Fields, Zenon
            <4>2. \A g \in Pos : g.epoch \in Nat
                BY Zenon DEF Pos
            <4> QED
                BY <1>0, <2>1, <3>1, <4>1, <4>2 DEF ProcInv, Past
        <3>3. Open(q)' = Open(q) /\ Installed(q)' = Installed(q) /\ up'[q] = up[q]
            BY <1>3, <3>1, Zenon DEF Same, Open, Installed, ServerRemove, useVars
        <3>4. Past(q)'
            BY <1>0, <2>1, <3>1, <3>2 DEF Past, Same
        <3>5. Loading(q)' /\ Journalled(q)' /\ Survives(q)'
            BY <3>1, <3>3, ZenonT(40) DEF ProcInv, Loading, Journalled, Survives, Same
        <3>6. Known(q)'
            BY <2>1, <3>1, <3>3, Zenon DEF ProcInv, Known, Same
        <3>7. /\ disk[q].gen.epoch # epoch' /\ reply[q].gen.epoch # epoch'
              /\ liveGen[q].epoch # epoch' /\ live[q].gen.epoch # epoch'
            BY <1>0, <2>1, <3>2
        <3>8. Placed(q)'
            BY <3>1, <3>7, OtherEpoch, ZenonT(40) DEF ProcInv, Placed, FitsNow, Same
        <3>9. Complete(q)'
            BY <3>1, <3>7, OtherEpoch, ZenonT(30) DEF Complete, CoversNow, Same
        <3> QED
            BY <3>4, <3>5, <3>6, <3>8, <3>9, Zenon DEF ProcInv
    <2> QED
        BY <1>1, <2>3, <2>4, Zenon DEF IInv
<1> QED
    BY <1>2, <1>3, Zenon

\* An upload lands at the server.
LEMMA LandKeeps ==
    ASSUME IInv, NEW p \in Proc, NEW k \in Key, UploadLands(p, k)
    PROVE  IInv'
<1>0. Shapes /\ Shared
    BY Zenon DEF IInv
<1>1. Shapes' /\ copy' = copy /\ copyGen' = copyGen
    BY <1>0, Zenon DEF UploadLands, Shapes, UpT, diskVars, loadVars, keysVars
<1>2. Grows(k)
    <2>1. k \in stored => stored \cup {k} = stored
        BY Zenon
    <2> QED
        BY <2>1, Zenon DEF UploadLands, Add, Grows
<1>3. \A q \in Proc : Same(q)
    BY <1>0, <1>2, Zenon DEF UploadLands, Shapes, UpT, Same, Grows, diskVars, loadVars, keysVars
<1>4. Shared'
    BY <1>0, <1>1, <1>2, GrownShared, Zenon
<1> QED
    BY <1>1, <1>2, <1>3, <1>4, Others, Zenon DEF IInv

\* A process starts with nothing, on what earlier ones left.
LEMMA InitHolds ==
    ASSUME Init
    PROVE  IInv
<1>1. After(<<>>, 0) = {} /\ <<>> \in Seq(Key) /\ Len(<<>>) = 0
    BY DEF After
<1>2. Shapes
    BY Empties, Zenon DEF Init, Shapes, Steps
<1>3. Shared
    <2>1. /\ epoch = 1 /\ log = <<>> /\ ever = stored /\ stored \subseteq Key
          /\ Here = [epoch |-> 1, seq |-> 0] /\ Here \in Pos /\ Here.epoch = 1
        BY <1>1, Zenon DEF Init, Here, Pos
    <2>2. copy \in [has : BOOLEAN, keys : SUBSET Key] /\ copy.keys \subseteq ever
        <3>1. copy = [has |-> FALSE, keys |-> {}] \/ copy = [has |-> TRUE, keys |-> stored]
            BY Zenon DEF Init
        <3>2. LET no == [has |-> FALSE, keys |-> {}]
              IN no \in [has : BOOLEAN, keys : SUBSET Key] /\ no.keys = {}
            BY Zenon
        <3>3. LET all == [has |-> TRUE, keys |-> stored]
              IN all \in [has : BOOLEAN, keys : SUBSET Key] /\ all.keys = stored
            BY <2>1, ZenonT(30)
        <3> QED
            BY <2>1, <3>1, <3>2, <3>3, Zenon
    <2>3. /\ copyGen \in [gen : Pos, etag : SUBSET Key]
          /\ \/ copyGen.gen = NoGen
             \/ copyGen.gen = Here /\ copyGen.etag = stored
        BY <2>1, Empties DEF Init
    <2>4. FitsTo(stored, Here, epoch, log, stored) /\ FitsTo(copyGen.etag, NoGen, epoch, log, stored)
        BY <1>1, <2>1, Empties, OtherEpoch DEF FitsTo
    <2> QED
        BY <1>1, <2>1, <2>2, <2>3, <2>4, Empties DEF Shared, FitsNow
<1>4. ASSUME NEW p \in Proc PROVE ProcInv(p)
    <2>1. Past(p) /\ Known(p)
        BY Empties DEF Init, Past, Known
    <2>2. Loading(p) /\ Journalled(p) /\ Survives(p)
        BY Empties, Zenon DEF Init, Loading, Open, Installed, Journalled, Survives
    <2>3. Placed(p) /\ Complete(p)
        <3>1. /\ disk[p].gen = NoGen /\ pc[p] = "stat" /\ ~res[p].auth /\ ~authoritative[p] /\ ~live[p].on
              /\ epoch = 1
            BY Empties, Zenon DEF Init
        <3>2. \A K : FitsTo(K, NoGen, epoch, log, stored)
            BY <3>1, Empties, OtherEpoch
        <3> QED
            BY <3>1, <3>2, Zenon DEF Placed, FitsNow, Complete
    <2> QED
        BY <2>1, <2>2, <2>3, Zenon DEF ProcInv
<1> QED
    BY <1>2, <1>3, <1>4, Zenon DEF IInv

\* A load begins: the copy is looked at and then read, while others write it.
LEMMA StatCopyKeeps ==
    ASSUME IInv, NEW p \in Proc, StatCopy(p)
    PROVE  IInv'
<1>0. Shapes /\ Shared /\ ProcInv(p) /\ Typed(p) /\ Base(p)
    BY Start, Zenon
<1> USE <1>0
<1>1. /\ pc[p] = "stat"
      /\ pc'[p] = "read" /\ disk'[p] = disk[p] /\ reply'[p] = reply[p] /\ res'[p] = res[p]
      /\ after'[p] = after[p] /\ keys'[p] = keys[p] /\ authoritative'[p] = authoritative[p]
      /\ journal'[p] = journal[p] /\ liveGen'[p] = liveGen[p] /\ live'[p] = live[p]
      /\ up'[p] = up[p] /\ missed'[p] = missed[p] /\ dropped'[p] = dropped[p]
    BY Zenon DEF StatCopy, Goto, serverVars, diskVars, keysVars, useVars, Shapes, Typed
<1>2. Shapes'
    BY Empties, Zenon DEF StatCopy, Goto, serverVars, diskVars, keysVars, useVars, Shapes,
       Steps, Typed
<1>3. SameServer /\ Shared'
    BY SharedStays, Zenon DEF StatCopy, Goto, serverVars, diskVars, keysVars, useVars,
       SameServer
<1>4. \A q \in Proc \ {p} : Same(q)
    BY Zenon DEF StatCopy, Goto, serverVars, diskVars, keysVars, useVars, Shapes, Same
<1> USE <1>1, <1>3 DEF SameServer
<1>5. Past(p)'
    BY Zenon DEF ProcInv, Past, Base
<1>6. Loading(p)'
    BY ZenonT(40) DEF ProcInv, Loading, Open, Installed, Base
<1>7. Open(p)' <=> Open(p)
    BY Zenon DEF Open, Base
<1>8. Journalled(p)' /\ Survives(p)' /\ Complete(p)'
    BY <1>7, KeysStand, Zenon DEF Open
<1>9. Known(p)'
    BY Zenon DEF ProcInv, Known, Base
<1>10. Placed(p)'
    BY Zenon DEF ProcInv, Placed, FitsNow, Target, Base
<1> QED
    BY <1>2, <1>4, <1>5, <1>6, <1>7, <1>8, <1>9, <1>10, OneMoves, Zenon DEF ProcInv

\* What is read is the copy of the moment, with no position yet.
LEMMA ReadCopyKeeps ==
    ASSUME IInv, NEW p \in Proc, ReadCopy(p)
    PROVE  IInv'
<1>0. Shapes /\ Shared /\ ProcInv(p) /\ Typed(p) /\ Base(p)
    BY Start, Zenon
<1> USE <1>0
<1>a. disk' \in [Proc -> DiskT] /\ disk'[p].keys = copy.keys /\ disk'[p].gen = disk[p].gen
    <2>1. disk \in [Proc -> DiskT] /\ disk[p] \in DiskT /\ copy \in [has : BOOLEAN, keys : SUBSET Key]
        BY Zenon DEF Shapes, Shared
    <2>2. [disk EXCEPT ![p].has = copy.has] \in [Proc -> DiskT]
        BY <2>1, Zenon DEF DiskT
    <2>3. disk' = [[disk EXCEPT ![p].has = copy.has] EXCEPT ![p].keys = copy.keys]
        BY Zenon DEF ReadCopy
    <2>4. disk' \in [Proc -> DiskT]
        BY <2>1, <2>2, <2>3, Zenon DEF DiskT
    <2>5. disk'[p].keys = copy.keys /\ disk'[p].gen = disk[p].gen
        BY <2>1, Zenon DEF ReadCopy, DiskT
    <2> QED
        BY <2>4, <2>5, Zenon
<1>1. /\ pc[p] = "read"
      /\ pc'[p] = "gen" /\ disk'[p].keys = copy.keys /\ disk'[p].gen = disk[p].gen
      /\ reply'[p] = reply[p] /\ res'[p] = res[p] /\ after'[p] = after[p]
      /\ keys'[p] = keys[p] /\ authoritative'[p] = authoritative[p]
      /\ journal'[p] = journal[p] /\ liveGen'[p] = liveGen[p] /\ live'[p] = live[p]
      /\ up'[p] = up[p] /\ missed'[p] = missed[p] /\ dropped'[p] = dropped[p]
    BY <1>a, Zenon DEF ReadCopy, Goto, serverVars, diskVars, keysVars, useVars, Shapes, DiskT,
       Typed
<1>2. Shapes'
    BY <1>a, Zenon DEF ReadCopy, Goto, keysVars, useVars, Shapes, Steps
<1>3. SameServer /\ Shared'
    BY <1>a, SharedStays, Zenon DEF ReadCopy, Goto, serverVars, diskVars, keysVars, useVars,
       SameServer
<1>4. \A q \in Proc \ {p} : Same(q)
    BY <1>a, Zenon DEF ReadCopy, Goto, serverVars, diskVars, keysVars, useVars, Shapes, Same
<1> USE <1>1, <1>3 DEF SameServer
<1>5. Past(p)'
    BY Zenon DEF ProcInv, Past, Base
<1>6. Loading(p)'
    BY Zenon DEF ProcInv, Loading, Open, Installed, Base
<1>7. Open(p)' <=> Open(p)
    BY Zenon DEF Open, Base
<1>8. Journalled(p)' /\ Survives(p)' /\ Complete(p)'
    BY <1>7, KeysStand, Zenon DEF Open
<1>9. Known(p)'
    BY Zenon DEF ProcInv, Known, Base
<1>10. Placed(p)'
    BY ZenonT(40) DEF ProcInv, Placed, FitsNow, Target, Loading, Base
<1> QED
    BY <1>2, <1>4, <1>5, <1>6, <1>7, <1>8, <1>9, <1>10, OneMoves, Zenon DEF ProcInv

\* Without a server to ask, the copy is taken as it is.
LEMMA StartAuthoritativeKeeps ==
    ASSUME IInv, NEW p \in Proc, StartIndexLoad(p), pc'[p] = "done"
    PROVE  IInv'
<1>0. Shapes /\ Shared /\ ProcInv(p) /\ Typed(p) /\ Base(p)
    BY Start, Zenon
<1> USE <1>0
<1>a. /\ pc[p] = "gen" /\ Finish(p) /\ authoritative' = [authoritative EXCEPT ![p] = TRUE]
      /\ UNCHANGED journal /\ keys' = [keys EXCEPT ![p] = disk[p].keys]
      /\ UNCHANGED <<serverVars, diskVars, lock, liveGen, live, useVars>>
    BY Zenon DEF StartIndexLoad, Goto, Shapes
<1>1. /\ pc[p] = "gen"
      /\ pc'[p] = "done" /\ disk'[p].keys = {} /\ disk'[p].gen = NoGen /\ reply'[p].keys = {}
      /\ reply'[p].gen = NoGen /\ ~res'[p].auth /\ after'[p] = "done"
      /\ keys'[p] = disk[p].keys /\ authoritative'[p] = TRUE /\ journal'[p] = journal[p]
      /\ liveGen'[p] = liveGen[p] /\ live'[p] = live[p] /\ up'[p] = up[p]
      /\ missed'[p] = missed[p] /\ dropped'[p] = dropped[p]
    BY <1>a, Empties, Zenon DEF Finish, End, Goto, serverVars, diskVars, useVars, Shapes, Typed
<1>2. Shapes'
    BY <1>a, Empties, Zenon DEF Finish, End, Goto, serverVars, diskVars, useVars, Shapes, Steps,
       Typed
<1>3. SameServer /\ Shared'
    BY <1>a, SharedStays, Zenon DEF Finish, End, Goto, serverVars, diskVars, useVars, SameServer
<1>4. \A q \in Proc \ {p} : Same(q)
    BY <1>a, Zenon DEF Finish, End, Goto, serverVars, diskVars, useVars, Shapes, Same
<1> USE <1>1, <1>3 DEF SameServer
<1>5. Past(p)'
    BY Zenon DEF ProcInv, Past, Base
<1>6. Loading(p)'
    BY Zenon DEF ProcInv, Loading, Open, Installed, Base
<1>7. Journalled(p)'
    BY Zenon DEF ProcInv, Journalled, Loading, Open, Base
<1>8. Survives(p)'
    BY Zenon DEF ProcInv, Survives, Journalled, Loading, Open, Installed, Base
<1>9. Known(p)'
    BY ZenonT(40) DEF ProcInv, Known, Base
<1>10. Placed(p)'
    BY Zenon DEF ProcInv, Placed, FitsNow, Target, Base
<1>11. Complete(p)'
    BY Zenon DEF ProcInv, Complete, CoversNow, Loading, Open, Installed, Base
<1> QED
    BY <1>2, <1>4, <1>5, <1>6, <1>7, <1>8, <1>9, <1>10, <1>11, OneMoves, Zenon DEF ProcInv

\* The copy is installed with the position that belongs to it, and the journal opened.
LEMMA StartLoadKeeps ==
    ASSUME IInv, NEW p \in Proc, StartIndexLoad(p), pc'[p] # "done"
    PROVE  IInv'
<1>0. Shapes /\ Shared /\ ProcInv(p) /\ Typed(p) /\ Base(p)
    BY Start, Zenon
<1> USE <1>0
<1>a. PICK gen : /\ gen \in {NoGen, ReadIndexGen(disk[p].keys)} /\ pc[p] = "gen"
                 /\ Goto(p, IF gen # NoGen THEN "delta" ELSE "lock")
                 /\ disk' = [disk EXCEPT ![p].gen = gen]
                 /\ journal' = [journal EXCEPT ![p] = Opened]
                 /\ UNCHANGED <<reply, res, after, authoritative>>
                 /\ keys' = [keys EXCEPT ![p] = disk[p].keys]
                 /\ UNCHANGED <<serverVars, diskVars, lock, liveGen, live, useVars>>
    BY Zenon DEF StartIndexLoad, Finish, End, Goto, Shapes
<1>b. gen \in Pos /\ gen.epoch <= epoch /\ FitsNow(disk[p].keys, gen)
    BY <1>a, GenFits, Empties, ZenonT(40) DEF FitsNow, Typed, Base
<1>c. disk' \in [Proc -> DiskT] /\ disk'[p].keys = disk[p].keys /\ disk'[p].gen = gen
    <2>1. disk \in [Proc -> DiskT] /\ disk[p] \in DiskT
        BY Zenon DEF Shapes
    <2> QED
        BY <1>a, <1>b, <2>1, Zenon DEF DiskT
<1>1. /\ pc[p] = "gen"
      /\ pc'[p] \in {"delta", "lock"} /\ disk'[p].keys = disk[p].keys
      /\ disk'[p].gen.epoch <= epoch /\ FitsNow(disk[p].keys, disk'[p].gen)
      /\ keys'[p] = disk[p].keys /\ journal'[p].open /\ journal'[p].added = {}
      /\ journal'[p].dropped = {} /\ reply'[p] = reply[p] /\ res'[p] = res[p]
      /\ after'[p] = after[p] /\ authoritative'[p] = authoritative[p]
      /\ liveGen'[p] = liveGen[p] /\ live'[p] = live[p] /\ up'[p] = up[p]
      /\ missed'[p] = missed[p] /\ dropped'[p] = dropped[p]
    BY <1>a, <1>b, <1>c, Empties, Zenon DEF Goto, serverVars, diskVars, useVars, Shapes, Typed
<1>2. Shapes'
    BY <1>a, <1>c, Empties, Zenon DEF Goto, useVars, Shapes, Steps, Typed
<1>3. SameServer /\ Shared'
    BY <1>a, <1>b, <1>c, SharedStays, Zenon DEF Goto, serverVars, diskVars, useVars, SameServer
<1>4. \A q \in Proc \ {p} : Same(q)
    BY <1>a, <1>b, <1>c, Zenon DEF Goto, serverVars, diskVars, useVars, Shapes, Same
<1> USE <1>1, <1>3 DEF SameServer
<1>5. Past(p)'
    BY Zenon DEF ProcInv, Past, Base
<1>6. Loading(p)'
    BY Zenon DEF ProcInv, Loading, Open, Installed, Base
<1>7. Journalled(p)'
    BY ZenonT(40) DEF ProcInv, Journalled, Loading, Open, Installed, Base
<1>8. Survives(p)'
    BY ZenonT(40) DEF ProcInv, Survives, Journalled, Loading, Open, Installed, Base
<1>9. Known(p)'
    BY Zenon DEF ProcInv, Known, Base
<1>10. Placed(p)'
    BY Zenon DEF ProcInv, Placed, FitsNow, Target, Base
<1>11. Complete(p)'
    BY Zenon DEF ProcInv, Complete, CoversNow, Loading, Open, Installed, Base
<1> QED
    BY <1>2, <1>4, <1>5, <1>6, <1>7, <1>8, <1>9, <1>10, <1>11, OneMoves, Zenon DEF ProcInv

\* A delta from that position completes the copy.
LEMMA DeltaComesKeeps ==
    ASSUME IInv, NEW p \in Proc, AskDelta(p), pc'[p] = "apply"
    PROVE  IInv'
<1>0. Shapes /\ Shared /\ ProcInv(p) /\ Typed(p) /\ Base(p)
    BY Start, Zenon
<1> USE <1>0
<1>a. /\ pc[p] = "delta" /\ disk[p].gen.epoch = epoch /\ Goto(p, "apply")
      /\ reply' = [reply EXCEPT ![p] = [keys |-> Since(disk[p].gen.seq), gen |-> Here]]
      /\ UNCHANGED <<serverVars, diskVars, lock, disk, res, after, keysVars, live, useVars>>
    BY Zenon DEF AskDelta, Goto, Shapes
<1>b. /\ Since(disk[p].gen.seq) \in SUBSET Key /\ Since(disk[p].gen.seq) \subseteq ever /\ Here \in Pos
      /\ Here.epoch <= epoch /\ FitsNow(disk[p].keys \cup Since(disk[p].gen.seq), Here)
    <2>1. FitsNow(disk[p].keys, disk[p].gen)
        BY Zenon DEF ProcInv, Placed
    <2> QED
        BY <1>a, <2>1, DeltaFits, Zenon DEF Typed
<1>c. [keys |-> Since(disk[p].gen.seq), gen |-> Here] \in ReplyT
    BY <1>b, Zenon DEF ReplyT
<1>1. /\ pc[p] = "delta"
      /\ pc'[p] = "apply" /\ reply'[p].keys \subseteq ever /\ reply'[p].gen = Here
      /\ Here.epoch <= epoch /\ FitsNow(disk[p].keys \cup reply'[p].keys, Here)
      /\ disk'[p] = disk[p] /\ res'[p] = res[p] /\ after'[p] = after[p] /\ keys'[p] = keys[p]
      /\ authoritative'[p] = authoritative[p] /\ journal'[p] = journal[p]
      /\ liveGen'[p] = liveGen[p] /\ live'[p] = live[p] /\ up'[p] = up[p]
      /\ missed'[p] = missed[p] /\ dropped'[p] = dropped[p]
    BY <1>a, <1>b, <1>c, Zenon DEF Goto, serverVars, diskVars, keysVars, useVars, Shapes, Typed
<1>2. Shapes'
    BY <1>a, <1>c, Zenon DEF Goto, keysVars, useVars, Shapes, Steps
<1>3. SameServer /\ Shared'
    BY <1>a, <1>b, <1>c, SharedStays, Zenon DEF Goto, serverVars, diskVars, keysVars, useVars,
       SameServer
<1>4. \A q \in Proc \ {p} : Same(q)
    BY <1>a, <1>b, <1>c, Zenon DEF Goto, serverVars, diskVars, keysVars, useVars, Shapes, Same
<1> USE <1>1, <1>3 DEF SameServer
<1>5. Past(p)'
    BY Zenon DEF ProcInv, Past, Base
<1>6. Loading(p)'
    BY Zenon DEF ProcInv, Loading, Open, Installed, Base
<1>7. Open(p)' <=> Open(p)
    BY Zenon DEF Open, Base
<1>8. Journalled(p)' /\ Survives(p)' /\ Complete(p)'
    BY <1>7, KeysStand, Zenon DEF Open
<1>9. Known(p)'
    BY Zenon DEF ProcInv, Known, Base
<1>10. Placed(p)'
    BY Zenon DEF ProcInv, Placed, FitsNow, Target, Loading, Base
<1> QED
    BY <1>2, <1>4, <1>5, <1>6, <1>7, <1>8, <1>9, <1>10, OneMoves, Zenon DEF ProcInv

\* A position of another epoch is answered 410, and the load asks for the whole index.
LEMMA DeltaRefusedKeeps ==
    ASSUME IInv, NEW p \in Proc, AskDelta(p), pc'[p] # "apply"
    PROVE  IInv'
<1>0. Shapes /\ Shared /\ ProcInv(p) /\ Typed(p) /\ Base(p)
    BY Start, Zenon
<1> USE <1>0
<1>1. /\ pc[p] = "delta"
      /\ pc'[p] = "lock" /\ disk'[p] = disk[p] /\ reply'[p] = reply[p] /\ res'[p] = res[p]
      /\ after'[p] = after[p] /\ keys'[p] = keys[p] /\ authoritative'[p] = authoritative[p]
      /\ journal'[p] = journal[p] /\ liveGen'[p] = liveGen[p] /\ live'[p] = live[p]
      /\ up'[p] = up[p] /\ missed'[p] = missed[p] /\ dropped'[p] = dropped[p]
    BY Zenon DEF AskDelta, Goto, serverVars, diskVars, keysVars, useVars, Shapes, Typed
<1>2. Shapes'
    BY Empties, ZenonT(40) DEF AskDelta, Goto, serverVars, diskVars, keysVars, useVars, Shapes,
       Steps, Typed
<1>3. SameServer /\ Shared'
    BY SharedStays, Zenon DEF AskDelta, Goto, serverVars, diskVars, keysVars, useVars,
       SameServer
<1>4. \A q \in Proc \ {p} : Same(q)
    BY Zenon DEF AskDelta, Goto, serverVars, diskVars, keysVars, useVars, Shapes, Same
<1> USE <1>1, <1>3 DEF SameServer
<1>5. Past(p)'
    BY Zenon DEF ProcInv, Past, Base
<1>6. Loading(p)'
    BY Zenon DEF ProcInv, Loading, Open, Installed, Base
<1>7. Open(p)' <=> Open(p)
    BY Zenon DEF Open, Base
<1>8. Journalled(p)' /\ Survives(p)' /\ Complete(p)'
    BY <1>7, KeysStand, Zenon DEF Open
<1>9. Known(p)'
    BY Zenon DEF ProcInv, Known, Base
<1>10. Placed(p)'
    BY Zenon DEF ProcInv, Placed, FitsNow, Target, Base
<1> QED
    BY <1>2, <1>4, <1>5, <1>6, <1>7, <1>8, <1>9, <1>10, OneMoves, Zenon DEF ProcInv

\* A delta that fails ends the load with the copy.
LEMMA DeltaFailsKeeps ==
    ASSUME IInv, NEW p \in Proc, DeltaFails(p)
    PROVE  IInv'
<1>0. Shapes /\ Shared /\ ProcInv(p) /\ Typed(p) /\ Base(p)
    BY Start, Zenon
<1> USE <1>0
<1>1. /\ pc[p] = "delta"
      /\ pc'[p] = "done" /\ disk'[p].keys = {} /\ disk'[p].gen = NoGen /\ reply'[p].keys = {}
      /\ reply'[p].gen = NoGen /\ ~res'[p].auth /\ after'[p] = "done"
      /\ authoritative'[p] \in BOOLEAN /\ ~journal'[p].open /\ journal'[p].added = {}
      /\ keys'[p] = keys[p] /\ liveGen'[p] = liveGen[p] /\ live'[p] = live[p]
      /\ up'[p] = up[p] /\ missed'[p] = missed[p] /\ dropped'[p] = dropped[p]
    BY Empties, ZenonT(30) DEF DeltaFails, Finish, End, Goto, serverVars, diskVars, useVars, Shapes,
       Typed
<1>2. Shapes'
    BY Empties, ZenonT(40) DEF DeltaFails, Finish, End, Goto, serverVars, diskVars, useVars,
       Shapes, Steps, Typed
<1>3. SameServer /\ Shared'
    BY SharedStays, Zenon DEF DeltaFails, Finish, End, Goto, serverVars, diskVars, useVars,
       SameServer
<1>4. \A q \in Proc \ {p} : Same(q)
    BY Zenon DEF DeltaFails, Finish, End, Goto, serverVars, diskVars, useVars, Shapes, Same
<1> USE <1>1, <1>3 DEF SameServer
<1>5. Past(p)'
    BY Zenon DEF ProcInv, Past, Base
<1>6. Loading(p)'
    BY Zenon DEF ProcInv, Loading, Open, Installed, Base
<1>7. Journalled(p)'
    BY Zenon DEF ProcInv, Journalled, Loading, Open, Base
<1>8. Survives(p)'
    BY Zenon DEF ProcInv, Survives, Journalled, Loading, Open, Base
<1>9. Known(p)'
    BY Zenon DEF ProcInv, Known, Base
<1>10. Placed(p)'
    BY Zenon DEF ProcInv, Placed, FitsNow, Target, Base
<1>11. Complete(p)'
    BY Zenon DEF ProcInv, Complete, CoversNow, Loading, Open, Base
<1> QED
    BY <1>2, <1>4, <1>5, <1>6, <1>7, <1>8, <1>9, <1>10, <1>11, OneMoves, Zenon DEF ProcInv

\* A delta is added to the set under keysMu; drops it names again are forgotten.
LEMMA DeltaUnwrittenKeeps ==
    ASSUME IInv, NEW p \in Proc, ApplyDelta(p), pc'[p] = "done"
    PROVE  IInv'
<1>0. Shapes /\ Shared /\ ProcInv(p) /\ Typed(p) /\ Base(p)
    BY Start, Zenon
<1> USE <1>0
<1>a. /\ pc[p] = "apply" /\ Finish(p)
      /\ keys' = [keys EXCEPT ![p] = keys[p] \cup reply[p].keys]
      /\ dropped' = [dropped EXCEPT ![p] = dropped[p] \ reply[p].keys]
      /\ journal' = [journal EXCEPT ![p] = Closed] /\ liveGen' = [liveGen EXCEPT ![p] = reply[p].gen]
      /\ authoritative' = [authoritative EXCEPT ![p] = TRUE]
      /\ UNCHANGED <<serverVars, diskVars, lock, live, up, missed>>
    BY Zenon DEF ApplyDelta, Goto, Shapes
<1>1. /\ pc[p] = "apply"
      /\ pc'[p] = "done" /\ disk'[p].keys = {} /\ disk'[p].gen = NoGen /\ reply'[p].keys = {}
      /\ reply'[p].gen = NoGen /\ ~res'[p].auth /\ after'[p] = "done"
      /\ keys'[p] = keys[p] \cup reply[p].keys /\ authoritative'[p] = TRUE
      /\ ~journal'[p].open /\ journal'[p].added = {} /\ liveGen'[p] = reply[p].gen
      /\ dropped'[p] = dropped[p] \ reply[p].keys /\ live'[p] = live[p] /\ up'[p] = up[p]
      /\ missed'[p] = missed[p]
    BY <1>a, Empties, ZenonT(40) DEF Finish, End, Goto, serverVars, diskVars, Shapes, Typed
<1>2. Shapes'
    BY <1>a, Empties, Zenon DEF Finish, End, Goto, serverVars, diskVars, Shapes, Steps, Typed
<1>3. SameServer /\ Shared'
    BY <1>a, SharedStays, Zenon DEF Finish, End, Goto, serverVars, diskVars, SameServer
<1>4. \A q \in Proc \ {p} : Same(q)
    BY <1>a, ZenonT(40) DEF Finish, End, Goto, serverVars, diskVars, Shapes, Same
<1> USE <1>1, <1>3 DEF SameServer
<1>5. Past(p)'
    BY Zenon DEF ProcInv, Past, Base
<1>6. Loading(p)'
    BY Zenon DEF ProcInv, Loading, Open, Installed, Base
<1>7. Journalled(p)'
    BY Zenon DEF ProcInv, Journalled, Loading, Open, Base
<1>8. Survives(p)'
    BY Zenon DEF ProcInv, Survives, Journalled, Loading, Open, Base
<1>9. Known(p)'
    BY ZenonT(40) DEF ProcInv, Known, Base
<1>10. Placed(p)'
    BY Zenon DEF ProcInv, Placed, FitsNow, Target, Base
<1>11. Complete(p)'
    <2>1. disk[p].keys \cup reply[p].keys \subseteq keys'[p] \cup dropped'[p]
        BY Zenon DEF ProcInv, Journalled, Open
    <2>2. CoversNow(disk[p].keys \cup reply[p].keys, reply[p].gen) /\ ~live[p].on
        <3>1. after[p] = "done" /\ ~live[p].on
            BY Zenon DEF ProcInv, Loading, Open, Base
        <3>2. FitsNow(disk[p].keys \cup reply[p].keys, reply[p].gen)
            BY <3>1, Zenon DEF ProcInv, Placed, Target
        <3> QED
            BY <3>1, <3>2, CoversMore, Zenon DEF FitsNow, CoversNow
    <2>3. CoversNow(keys'[p] \cup dropped'[p], reply[p].gen)
        BY <2>1, <2>2, CoversMore DEF CoversNow
    <2> QED
        BY <2>2, <2>3, Zenon DEF Complete, CoversNow
<1> QED
    BY <1>2, <1>4, <1>5, <1>6, <1>7, <1>8, <1>9, <1>10, <1>11, OneMoves, Zenon DEF ProcInv

\* The same when the copy is to be written.
LEMMA DeltaWrittenKeeps ==
    ASSUME IInv, NEW p \in Proc, ApplyDelta(p), pc'[p] # "done"
    PROVE  IInv'
<1>0. Shapes /\ Shared /\ ProcInv(p) /\ Typed(p) /\ Base(p)
    BY Start, Zenon
<1> USE <1>0
<1>a. /\ pc[p] = "apply" /\ UNCHANGED <<disk, reply, res, after>>
      /\ Goto(p, IF reply[p].keys = {} THEN "touch" ELSE "blob")
      /\ keys' = [keys EXCEPT ![p] = keys[p] \cup reply[p].keys]
      /\ dropped' = [dropped EXCEPT ![p] = dropped[p] \ reply[p].keys]
      /\ journal' = [journal EXCEPT ![p] = Closed] /\ liveGen' = [liveGen EXCEPT ![p] = reply[p].gen]
      /\ authoritative' = [authoritative EXCEPT ![p] = TRUE]
      /\ UNCHANGED <<serverVars, diskVars, lock, live, up, missed>>
    BY Zenon DEF ApplyDelta, Finish, End, Goto, Shapes
<1>1. /\ pc[p] = "apply"
      /\ pc'[p] \in {"touch", "blob"} /\ keys'[p] = keys[p] \cup reply[p].keys
      /\ authoritative'[p] = TRUE /\ ~journal'[p].open /\ journal'[p].added = {}
      /\ liveGen'[p] = reply[p].gen /\ dropped'[p] = dropped[p] \ reply[p].keys
      /\ disk'[p] = disk[p] /\ reply'[p] = reply[p] /\ res'[p] = res[p]
      /\ after'[p] = after[p] /\ live'[p] = live[p] /\ up'[p] = up[p]
      /\ missed'[p] = missed[p]
    BY <1>a, Empties, Zenon DEF Goto, serverVars, diskVars, Shapes, Typed
<1>2. Shapes'
    BY <1>a, Empties, Zenon DEF Goto, serverVars, diskVars, Shapes, Steps, Typed
<1>3. SameServer /\ Shared'
    BY <1>a, SharedStays, Zenon DEF Goto, serverVars, diskVars, SameServer
<1>4. \A q \in Proc \ {p} : Same(q)
    BY <1>a, Zenon DEF Goto, serverVars, diskVars, Shapes, Same
<1> USE <1>1, <1>3 DEF SameServer
<1>5. Past(p)'
    BY Zenon DEF ProcInv, Past, Base
<1>6. Loading(p)'
    BY Zenon DEF ProcInv, Loading, Open, Installed, Base
<1>7. Journalled(p)'
    BY Zenon DEF ProcInv, Journalled, Loading, Open, Base
<1>8. Survives(p)'
    BY Zenon DEF ProcInv, Survives, Journalled, Loading, Open, Base
<1>9. Known(p)'
    BY ZenonT(40) DEF ProcInv, Known, Base
<1>10. Placed(p)'
    BY Zenon DEF ProcInv, Placed, FitsNow, Target, Base
<1>11. Complete(p)'
    <2>1. disk[p].keys \cup reply[p].keys \subseteq keys'[p] \cup dropped'[p]
        BY Zenon DEF ProcInv, Journalled, Open
    <2>2. CoversNow(disk[p].keys \cup reply[p].keys, reply[p].gen) /\ ~live[p].on
        <3>1. after[p] = "done" /\ ~live[p].on
            BY Zenon DEF ProcInv, Loading, Open, Base
        <3>2. FitsNow(disk[p].keys \cup reply[p].keys, reply[p].gen)
            BY <3>1, Zenon DEF ProcInv, Placed, Target
        <3> QED
            BY <3>1, <3>2, CoversMore, Zenon DEF FitsNow, CoversNow
    <2>3. CoversNow(keys'[p] \cup dropped'[p], reply[p].gen)
        BY <2>1, <2>2, CoversMore DEF CoversNow
    <2> QED
        BY <2>2, <2>3, Zenon DEF Complete, CoversNow
<1> QED
    BY <1>2, <1>4, <1>5, <1>6, <1>7, <1>8, <1>9, <1>10, <1>11, OneMoves, Zenon DEF ProcInv

\* The writes of the two files, by processes that hold no common lock.
LEMMA TouchCopyKeeps ==
    ASSUME IInv, NEW p \in Proc, TouchCopy(p)
    PROVE  IInv'
<1>0. Shapes /\ Shared /\ ProcInv(p) /\ Typed(p) /\ Base(p)
    BY Start, Zenon
<1> USE <1>0
<1>1. /\ pc[p] = "touch"
      /\ pc'[p] = "wgen" /\ disk'[p] = disk[p] /\ reply'[p] = reply[p] /\ res'[p] = res[p]
      /\ after'[p] = after[p] /\ keys'[p] = keys[p] /\ authoritative'[p] = authoritative[p]
      /\ journal'[p] = journal[p] /\ liveGen'[p] = liveGen[p] /\ live'[p] = live[p]
      /\ up'[p] = up[p] /\ missed'[p] = missed[p] /\ dropped'[p] = dropped[p]
    BY Zenon DEF TouchCopy, Goto, serverVars, keysVars, useVars, Shapes, Typed
<1>2. Shapes'
    BY Empties, Zenon DEF TouchCopy, Goto, serverVars, keysVars, useVars, Shapes, Steps, Typed
<1>3. SameServer /\ Shared'
    BY SharedStays, Zenon DEF TouchCopy, Goto, serverVars, keysVars, useVars, SameServer
<1>4. \A q \in Proc \ {p} : Same(q)
    BY Zenon DEF TouchCopy, Goto, serverVars, keysVars, useVars, Shapes, Same
<1> USE <1>1, <1>3 DEF SameServer
<1>5. Past(p)'
    BY Zenon DEF ProcInv, Past, Base
<1>6. Loading(p)'
    BY Zenon DEF ProcInv, Loading, Open, Installed, Base
<1>7. Open(p)' <=> Open(p)
    BY Zenon DEF Open, Base
<1>8. Journalled(p)' /\ Survives(p)' /\ Complete(p)'
    BY <1>7, KeysStand, Zenon DEF Open
<1>9. Known(p)'
    BY Zenon DEF ProcInv, Known, Base
<1>10. Placed(p)'
    BY Zenon DEF ProcInv, Placed, FitsNow, Target, Base
<1> QED
    BY <1>2, <1>4, <1>5, <1>6, <1>7, <1>8, <1>9, <1>10, OneMoves, Zenon DEF ProcInv

\* A blob replaces the copy: the position beside it is no longer accepted.
LEMMA WriteIndexBlobKeeps ==
    ASSUME IInv, NEW p \in Proc, WriteIndexBlob(p)
    PROVE  IInv'
<1>0. Shapes /\ Shared /\ ProcInv(p) /\ Typed(p) /\ Base(p)
    BY Start, Zenon
<1> USE <1>0
<1>1. /\ pc[p] = "blob"
      /\ pc'[p] = "wgen" /\ disk'[p] = disk[p] /\ reply'[p] = reply[p] /\ res'[p] = res[p]
      /\ after'[p] = after[p] /\ keys'[p] = keys[p] /\ authoritative'[p] = authoritative[p]
      /\ journal'[p] = journal[p] /\ liveGen'[p] = liveGen[p] /\ live'[p] = live[p]
      /\ up'[p] = up[p] /\ missed'[p] = missed[p] /\ dropped'[p] = dropped[p]
    BY Zenon DEF WriteIndexBlob, Goto, serverVars, keysVars, useVars, Shapes, Typed
<1>2. Shapes'
    BY Empties, Zenon DEF WriteIndexBlob, Goto, serverVars, keysVars, useVars, Shapes, Steps,
       Typed
<1>3. SameServer /\ Shared'
    <2>1. Target(p) \in SUBSET Key /\ Target(p) \subseteq ever
        BY Zenon DEF ProcInv, Known, Target, Typed
    <2>2. copy' \in [has : BOOLEAN, keys : SUBSET Key] /\ copy'.keys \subseteq ever
        <3>1. copy \in [has : BOOLEAN, keys : SUBSET Key] /\ copy.keys \subseteq ever
            BY Zenon DEF Shared
        <3>2. LET new == [has |-> TRUE, keys |-> Target(p)]
              IN new \in [has : BOOLEAN, keys : SUBSET Key] /\ new.keys \subseteq ever
            BY <2>1, Zenon
        <3> QED
            BY <3>1, <3>2, Zenon DEF WriteIndexBlob
    <2>3. SameServer /\ copyGen' = copyGen
        BY Zenon DEF WriteIndexBlob, serverVars, SameServer
    <2> QED
        BY <2>2, <2>3, Zenon DEF Shared, SameServer, FitsNow
<1>4. \A q \in Proc \ {p} : Same(q)
    BY Zenon DEF WriteIndexBlob, Goto, serverVars, keysVars, useVars, Shapes, Same
<1> USE <1>1, <1>3 DEF SameServer
<1>5. Past(p)'
    BY Zenon DEF ProcInv, Past, Base
<1>6. Loading(p)'
    BY Zenon DEF ProcInv, Loading, Open, Installed, Base
<1>7. Open(p)' <=> Open(p)
    BY Zenon DEF Open, Base
<1>8. Journalled(p)' /\ Survives(p)' /\ Complete(p)'
    BY <1>7, KeysStand, Zenon DEF Open
<1>9. Known(p)'
    BY Zenon DEF ProcInv, Known, Base
<1>10. Placed(p)'
    BY Zenon DEF ProcInv, Placed, FitsNow, Target, Base
<1> QED
    BY <1>2, <1>4, <1>5, <1>6, <1>7, <1>8, <1>9, <1>10, OneMoves, Zenon DEF ProcInv

\* The position file names the keys it belongs to.
LEMMA GenWrittenLastKeeps ==
    ASSUME IInv, NEW p \in Proc, WriteIndexGen(p), after[p] = "done"
    PROVE  IInv'
<1>0. Shapes /\ Shared /\ ProcInv(p) /\ Typed(p) /\ Base(p)
    BY Start, Zenon
<1> USE <1>0
<1>a. /\ pc[p] = "wgen" /\ Finish(p) /\ UNCHANGED liveGen
      /\ UNCHANGED <<serverVars, copy, changed, keys, authoritative, journal, live, useVars>>
    BY Zenon DEF WriteIndexGen
<1>b. copyGen' = [gen |-> reply[p].gen, etag |-> Target(p)] \/ copyGen' = copyGen
    BY Zenon DEF WriteIndexGen
<1>1. /\ pc[p] = "wgen" /\ after[p] = "done"
      /\ pc'[p] = "done" /\ disk'[p].keys = {} /\ disk'[p].gen = NoGen /\ reply'[p].keys = {}
      /\ reply'[p].gen = NoGen /\ ~res'[p].auth /\ after'[p] = "done" /\ keys'[p] = keys[p]
      /\ authoritative'[p] = authoritative[p] /\ journal'[p] = journal[p]
      /\ liveGen'[p] = liveGen[p] /\ live'[p] = live[p] /\ up'[p] = up[p]
      /\ missed'[p] = missed[p] /\ dropped'[p] = dropped[p]
    BY <1>a, Empties, Zenon DEF Finish, End, Goto, serverVars, useVars, Shapes, Typed
<1>2. Shapes'
    BY <1>a, Empties, Zenon DEF Finish, End, Goto, serverVars, useVars, Shapes, Steps, Typed
<1>3. SameServer /\ Shared'
    <2>1. Target(p) \in SUBSET Key /\ FitsNow(Target(p), reply[p].gen) /\ reply[p].gen.epoch <= epoch
        BY <1>1, Zenon DEF ProcInv, Past, Placed, Target, Typed
    <2>2. LET new == [gen |-> reply[p].gen, etag |-> Target(p)]
          IN new \in [gen : Pos, etag : SUBSET Key] /\ new.gen.epoch <= epoch /\ FitsNow(new.etag, new.gen)
        BY <2>1, Zenon DEF Typed
    <2>3. /\ copyGen' \in [gen : Pos, etag : SUBSET Key] /\ copyGen'.gen.epoch <= epoch
          /\ FitsNow(copyGen'.etag, copyGen'.gen)
        BY <1>b, <2>2, Zenon DEF Shared
    <2>4. SameServer /\ copy' = copy
        BY <1>a, Zenon DEF serverVars, SameServer
    <2> QED
        BY <2>3, <2>4, Zenon DEF Shared, SameServer, FitsNow
<1>4. \A q \in Proc \ {p} : Same(q)
    BY <1>a, Zenon DEF Finish, End, Goto, serverVars, useVars, Shapes, Same
<1> USE <1>1, <1>3 DEF SameServer
<1>5. Past(p)'
    BY Zenon DEF ProcInv, Past, Base
<1>6. Loading(p)'
    BY Zenon DEF ProcInv, Loading, Open, Installed, Base
<1>7. Open(p)' <=> Open(p)
    BY Zenon DEF Open, Base
<1>8. Journalled(p)' /\ Survives(p)' /\ Complete(p)'
    BY <1>7, KeysStand, Zenon DEF Open
<1>9. Known(p)'
    BY Zenon DEF ProcInv, Known, Base
<1>10. Placed(p)'
    BY Zenon DEF ProcInv, Placed, FitsNow, Target, Base
<1> QED
    BY <1>2, <1>4, <1>5, <1>6, <1>7, <1>8, <1>9, <1>10, OneMoves, Zenon DEF ProcInv

\* The same on the way to the adoption.
LEMMA GenWrittenFirstKeeps ==
    ASSUME IInv, NEW p \in Proc, WriteIndexGen(p), after[p] = "adopt"
    PROVE  IInv'
<1>0. Shapes /\ Shared /\ ProcInv(p) /\ Typed(p) /\ Base(p)
    BY Start, Zenon
<1> USE <1>0
<1>a. /\ pc[p] = "wgen" /\ Goto(p, "adopt") /\ liveGen' = [liveGen EXCEPT ![p] = reply[p].gen]
      /\ UNCHANGED <<disk, reply, res, after>>
      /\ UNCHANGED <<serverVars, copy, changed, keys, authoritative, journal, live, useVars>>
    BY Zenon DEF WriteIndexGen
<1>b. copyGen' = [gen |-> reply[p].gen, etag |-> Target(p)] \/ copyGen' = copyGen
    BY Zenon DEF WriteIndexGen
<1>1. /\ pc[p] = "wgen" /\ after[p] = "adopt"
      /\ pc'[p] = "adopt" /\ liveGen'[p] = reply[p].gen /\ disk'[p] = disk[p]
      /\ reply'[p] = reply[p] /\ res'[p] = res[p] /\ after'[p] = after[p]
      /\ keys'[p] = keys[p] /\ authoritative'[p] = authoritative[p]
      /\ journal'[p] = journal[p] /\ live'[p] = live[p] /\ up'[p] = up[p]
      /\ missed'[p] = missed[p] /\ dropped'[p] = dropped[p]
    BY <1>a, Zenon DEF Goto, serverVars, useVars, Shapes, Typed
<1>2. Shapes'
    BY <1>a, Empties, Zenon DEF Goto, serverVars, useVars, Shapes, Steps, Typed
<1>3. SameServer /\ Shared'
    <2>1. Target(p) \in SUBSET Key /\ FitsNow(Target(p), reply[p].gen) /\ reply[p].gen.epoch <= epoch
        BY <1>1, Zenon DEF ProcInv, Past, Placed, Target, Typed
    <2>2. LET new == [gen |-> reply[p].gen, etag |-> Target(p)]
          IN new \in [gen : Pos, etag : SUBSET Key] /\ new.gen.epoch <= epoch /\ FitsNow(new.etag, new.gen)
        BY <2>1, Zenon DEF Typed
    <2>3. /\ copyGen' \in [gen : Pos, etag : SUBSET Key] /\ copyGen'.gen.epoch <= epoch
          /\ FitsNow(copyGen'.etag, copyGen'.gen)
        BY <1>b, <2>2, Zenon DEF Shared
    <2>4. SameServer /\ copy' = copy
        BY <1>a, Zenon DEF serverVars, SameServer
    <2> QED
        BY <2>3, <2>4, Zenon DEF Shared, SameServer, FitsNow
<1>4. \A q \in Proc \ {p} : Same(q)
    BY <1>a, Zenon DEF Goto, serverVars, useVars, Shapes, Same
<1> USE <1>1, <1>3 DEF SameServer
<1>5. Past(p)'
    BY Zenon DEF ProcInv, Past, Base
<1>6. Loading(p)'
    BY Zenon DEF ProcInv, Loading, Open, Installed, Base
<1>7. Journalled(p)'
    BY ZenonT(40) DEF ProcInv, Journalled, Loading, Open, Base
<1>8. Survives(p)'
    BY ZenonT(30) DEF ProcInv, Survives, Journalled, Loading, Open, Base
<1>9. Known(p)'
    BY Zenon DEF ProcInv, Known, Base
<1>10. Placed(p)'
    BY Zenon DEF ProcInv, Placed, FitsNow, Target, Base
<1>11. Complete(p)'
    BY Zenon DEF ProcInv, Complete, CoversNow, Loading, Open, Base
<1> QED
    BY <1>2, <1>4, <1>5, <1>6, <1>7, <1>8, <1>9, <1>10, <1>11, OneMoves, Zenon DEF ProcInv

\* The lock of the copy, or a fetch without it.
LEMMA LockTakenKeeps ==
    ASSUME IInv, NEW p \in Proc, LockCopy(p), pc'[p] # "adopt"
    PROVE  IInv'
<1>0. Shapes /\ Shared /\ ProcInv(p) /\ Typed(p) /\ Base(p)
    BY Start, Zenon
<1> USE <1>0
<1>1. /\ pc[p] = "lock"
      /\ pc'[p] \in {"read2", "fetch"} /\ disk'[p] = disk[p] /\ reply'[p] = reply[p]
      /\ res'[p] = res[p] /\ after'[p] = after[p] /\ keys'[p] = keys[p]
      /\ authoritative'[p] = authoritative[p] /\ journal'[p] = journal[p]
      /\ liveGen'[p] = liveGen[p] /\ live'[p] = live[p] /\ up'[p] = up[p]
      /\ missed'[p] = missed[p] /\ dropped'[p] = dropped[p]
    BY Zenon DEF LockCopy, Goto, Return, serverVars, diskVars, keysVars, useVars, Shapes, Typed
<1>2. Shapes'
    BY Empties, ZenonT(40) DEF LockCopy, Goto, Return, serverVars, diskVars, keysVars, useVars,
       Shapes, Steps, Typed
<1>3. SameServer /\ Shared'
    BY SharedStays, Zenon DEF LockCopy, Goto, Return, serverVars, diskVars, keysVars, useVars,
       SameServer
<1>4. \A q \in Proc \ {p} : Same(q)
    BY Zenon DEF LockCopy, Goto, Return, serverVars, diskVars, keysVars, useVars, Shapes, Same
<1> USE <1>1, <1>3 DEF SameServer
<1>5. Past(p)'
    BY Zenon DEF ProcInv, Past, Base
<1>6. Loading(p)'
    BY Zenon DEF ProcInv, Loading, Open, Installed, Base
<1>7. Open(p)' <=> Open(p)
    BY Zenon DEF Open, Base
<1>8. Journalled(p)' /\ Survives(p)' /\ Complete(p)'
    BY <1>7, KeysStand, Zenon DEF Open
<1>9. Known(p)'
    BY Zenon DEF ProcInv, Known, Base
<1>10. Placed(p)'
    BY Zenon DEF ProcInv, Placed, FitsNow, Target, Base
<1> QED
    BY <1>2, <1>4, <1>5, <1>6, <1>7, <1>8, <1>9, <1>10, OneMoves, Zenon DEF ProcInv

\* A load that does not get the lock in time gives up.
LEMMA LockRefusedKeeps ==
    ASSUME IInv, NEW p \in Proc, LockCopy(p), pc'[p] = "adopt"
    PROVE  IInv'
<1>0. Shapes /\ Shared /\ ProcInv(p) /\ Typed(p) /\ Base(p)
    BY Start, Zenon
<1> USE <1>0
<1>a. /\ pc[p] = "lock" /\ Return(p, "nil", FALSE) /\ Goto(p, "adopt") /\ UNCHANGED lock
      /\ UNCHANGED <<serverVars, diskVars, disk, reply, after, keysVars, live, useVars>>
    BY Zenon DEF LockCopy, Goto, Shapes
<1>b. [got |-> "nil", auth |-> FALSE] \in ResT
    BY Zenon DEF ResT
<1>1. /\ pc[p] = "lock"
      /\ pc'[p] = "adopt" /\ ~res'[p].auth /\ disk'[p] = disk[p] /\ reply'[p] = reply[p]
      /\ after'[p] = after[p] /\ keys'[p] = keys[p] /\ authoritative'[p] = authoritative[p]
      /\ journal'[p] = journal[p] /\ liveGen'[p] = liveGen[p] /\ live'[p] = live[p]
      /\ up'[p] = up[p] /\ missed'[p] = missed[p] /\ dropped'[p] = dropped[p]
    BY <1>a, <1>b, Zenon DEF Return, Goto, serverVars, diskVars, keysVars, useVars, Shapes,
       Typed
<1>2. Shapes'
    BY <1>a, <1>b, Empties, Zenon DEF Return, Goto, serverVars, diskVars, keysVars, useVars,
       Shapes, Steps, Typed
<1>3. SameServer /\ Shared'
    BY <1>a, <1>b, SharedStays, Zenon DEF Return, Goto, serverVars, diskVars, keysVars, useVars,
       SameServer
<1>4. \A q \in Proc \ {p} : Same(q)
    BY <1>a, <1>b, Zenon DEF Return, Goto, serverVars, diskVars, keysVars, useVars, Shapes, Same
<1> USE <1>1, <1>3 DEF SameServer
<1>5. Past(p)'
    BY Zenon DEF ProcInv, Past, Base
<1>6. Loading(p)'
    BY Zenon DEF ProcInv, Loading, Open, Installed, Base
<1>7. Open(p)' <=> Open(p)
    BY Zenon DEF Open, Base
<1>8. Journalled(p)' /\ Survives(p)' /\ Complete(p)'
    BY <1>7, KeysStand, Zenon DEF Open
<1>9. Known(p)'
    BY Zenon DEF ProcInv, Known, Base
<1>10. Placed(p)'
    BY Zenon DEF ProcInv, Placed, FitsNow, Target, Base
<1> QED
    BY <1>2, <1>4, <1>5, <1>6, <1>7, <1>8, <1>9, <1>10, OneMoves, Zenon DEF ProcInv

\* Under the lock the copy is read again: another process may have refreshed it.
LEMMA ReadAgainKeeps ==
    ASSUME IInv, NEW p \in Proc, ReadAgain(p)
    PROVE  IInv'
<1>0. Shapes /\ Shared /\ ProcInv(p) /\ Typed(p) /\ Base(p)
    BY Start, Zenon
<1> USE <1>0
<1>a. [keys |-> copy.keys, gen |-> NoGen] \in ReplyT
    BY Empties, Zenon DEF ReplyT, Shared
<1>1. /\ pc[p] = "read2"
      /\ pc'[p] = "gen2" /\ reply'[p].keys = copy.keys /\ reply'[p].gen = NoGen
      /\ disk'[p] = disk[p] /\ res'[p] = res[p] /\ after'[p] = after[p] /\ keys'[p] = keys[p]
      /\ authoritative'[p] = authoritative[p] /\ journal'[p] = journal[p]
      /\ liveGen'[p] = liveGen[p] /\ live'[p] = live[p] /\ up'[p] = up[p]
      /\ missed'[p] = missed[p] /\ dropped'[p] = dropped[p]
    BY <1>a, Empties, Zenon DEF ReadAgain, Goto, serverVars, diskVars, keysVars, useVars,
       Shapes, Typed
<1>2. Shapes'
    BY <1>a, Empties, Zenon DEF ReadAgain, Goto, serverVars, diskVars, keysVars, useVars,
       Shapes, Steps, Typed
<1>3. SameServer /\ Shared'
    BY <1>a, SharedStays, Zenon DEF ReadAgain, Goto, serverVars, diskVars, keysVars, useVars,
       SameServer
<1>4. \A q \in Proc \ {p} : Same(q)
    BY <1>a, Zenon DEF ReadAgain, Goto, serverVars, diskVars, keysVars, useVars, Shapes, Same
<1> USE <1>1, <1>3 DEF SameServer
<1>5. Past(p)'
    BY Zenon DEF ProcInv, Past, Base
<1>6. Loading(p)'
    BY Zenon DEF ProcInv, Loading, Open, Installed, Base
<1>7. Open(p)' <=> Open(p)
    BY Zenon DEF Open, Base
<1>8. Journalled(p)' /\ Survives(p)' /\ Complete(p)'
    BY <1>7, KeysStand, Zenon DEF Open
<1>9. Known(p)'
    BY Zenon DEF ProcInv, Known, Base
<1>10. Placed(p)'
    BY Zenon DEF ProcInv, Placed, FitsNow, Target, Loading, Base
<1> QED
    BY <1>2, <1>4, <1>5, <1>6, <1>7, <1>8, <1>9, <1>10, OneMoves, Zenon DEF ProcInv

\* A copy another process refreshed is adopted with its position.
LEMMA TakeRefreshedKeeps ==
    ASSUME IInv, NEW p \in Proc, TakeRefreshed(p)
    PROVE  IInv'
<1>0. Shapes /\ Shared /\ ProcInv(p) /\ Typed(p) /\ Base(p)
    BY Start, Zenon
<1> USE <1>0
<1>a. LET gen == ReadIndexGen(reply[p].keys)
      IN gen \in Pos /\ gen.epoch <= epoch /\ FitsNow(reply[p].keys, gen)
    BY GenFits, Zenon DEF Typed
<1>b. /\ reply' \in [Proc -> ReplyT] /\ reply'[p].keys = reply[p].keys
      /\ reply'[p].gen = ReadIndexGen(reply[p].keys)
    BY <1>a, ZenonT(40) DEF TakeRefreshed, Shapes, ReplyT
<1>c. res' \in [Proc -> ResT] /\ res'[p].got = "new" /\ res'[p].auth
    BY Zenon DEF TakeRefreshed, Return, Shapes, ResT
<1>1. /\ pc[p] = "gen2"
      /\ pc'[p] = "adopt" /\ reply'[p].keys = reply[p].keys /\ reply'[p].gen = liveGen'[p]
      /\ res'[p].got = "new" /\ res'[p].auth /\ liveGen'[p].epoch <= epoch
      /\ FitsNow(reply[p].keys, liveGen'[p]) /\ disk'[p] = disk[p] /\ after'[p] = after[p]
      /\ keys'[p] = keys[p] /\ authoritative'[p] = authoritative[p]
      /\ journal'[p] = journal[p] /\ live'[p] = live[p] /\ up'[p] = up[p]
      /\ missed'[p] = missed[p] /\ dropped'[p] = dropped[p]
    BY <1>a, <1>b, <1>c, Zenon DEF TakeRefreshed, Goto, Return, serverVars, diskVars, useVars,
       Shapes, Typed
<1>2. Shapes'
    BY <1>a, <1>b, <1>c, Zenon DEF TakeRefreshed, Goto, useVars, Shapes, Steps
<1>3. SameServer /\ Shared'
    BY <1>a, <1>b, <1>c, SharedStays, Zenon DEF TakeRefreshed, Goto, Return, serverVars,
       diskVars, useVars, SameServer
<1>4. \A q \in Proc \ {p} : Same(q)
    BY <1>a, <1>b, <1>c, Zenon DEF TakeRefreshed, Goto, Return, serverVars, diskVars, useVars,
       Shapes, Same
<1> USE <1>1, <1>3 DEF SameServer
<1>5. Past(p)'
    BY Zenon DEF ProcInv, Past, Base
<1>6. Loading(p)'
    BY Zenon DEF ProcInv, Loading, Open, Installed, Base
<1>7. Journalled(p)'
    BY ZenonT(40) DEF ProcInv, Journalled, Loading, Open, Base
<1>8. Survives(p)'
    BY ZenonT(40) DEF ProcInv, Survives, Journalled, Loading, Open, Base
<1>9. Known(p)'
    BY ZenonT(40) DEF ProcInv, Known, Base
<1>10. Placed(p)'
    BY Zenon DEF ProcInv, Placed, FitsNow, Target, Base
<1>11. Complete(p)'
    BY Zenon DEF ProcInv, Complete, CoversNow, Loading, Open, Base
<1> QED
    BY <1>2, <1>4, <1>5, <1>6, <1>7, <1>8, <1>9, <1>10, <1>11, OneMoves, Zenon DEF ProcInv

\* The whole index comes with a position at or behind the end of the log.
LEMMA AskIndexKeeps ==
    ASSUME IInv, NEW p \in Proc, AskIndex(p)
    PROVE  IInv'
<1>0. Shapes /\ Shared /\ ProcInv(p) /\ Typed(p) /\ Base(p)
    BY Start, Zenon
<1> USE <1>0
<1>a. PICK seq \in 0..Len(log) :
          LET blob == stored \ Since(seq) same == disk[p].has /\ disk[p].keys = blob
          IN /\ reply' = [reply EXCEPT ![p] = [keys |-> blob, gen |-> [epoch |-> epoch, seq |-> seq]]]
             /\ Return(p, IF same THEN "same" ELSE "new", TRUE)
             /\ Goto(p, IF same THEN "touch" ELSE "blob")
    BY Zenon DEF AskIndex
<1>e. PICK got \in {"same", "new"} :
          /\ got = "same" => disk[p].keys = stored \ Since(seq)
          /\ Return(p, got, TRUE) /\ Goto(p, IF got = "same" THEN "touch" ELSE "blob")
    <2>1. CASE disk[p].has /\ disk[p].keys = stored \ Since(seq)
        BY <1>a, <2>1, Zenon
    <2>2. CASE ~(disk[p].has /\ disk[p].keys = stored \ Since(seq))
        BY <1>a, <2>2, Zenon
    <2> QED
        BY <2>1, <2>2, Zenon
<1>b. LET blob == stored \ Since(seq) gen == [epoch |-> epoch, seq |-> seq]
      IN /\ blob \in SUBSET Key /\ blob \subseteq ever /\ gen \in Pos /\ gen.epoch <= epoch
         /\ FitsNow(blob, gen) /\ [keys |-> blob, gen |-> gen] \in ReplyT
    BY <1>a, Blobs, Zenon
<1>c. [got |-> got, auth |-> TRUE] \in ResT
    BY <1>e, Zenon DEF ResT
<1>d. /\ pc[p] = "fetch" /\ after' = [after EXCEPT ![p] = "adopt"]
      /\ UNCHANGED <<serverVars, diskVars, lock, disk, keysVars, live, useVars>>
    BY Zenon DEF AskIndex
<1>1. /\ pc[p] = "fetch"
      /\ pc'[p] \in {"touch", "blob"} /\ reply'[p].keys \subseteq ever
      /\ reply'[p].gen.epoch <= epoch /\ FitsNow(reply'[p].keys, reply'[p].gen)
      /\ res'[p].got # "nil" /\ res'[p].auth
      /\ (res'[p].got = "same" => reply'[p].keys = disk[p].keys) /\ after'[p] = "adopt"
      /\ disk'[p] = disk[p] /\ keys'[p] = keys[p] /\ authoritative'[p] = authoritative[p]
      /\ journal'[p] = journal[p] /\ liveGen'[p] = liveGen[p] /\ live'[p] = live[p]
      /\ up'[p] = up[p] /\ missed'[p] = missed[p] /\ dropped'[p] = dropped[p]
    <2>1. /\ reply'[p].keys = stored \ Since(seq) /\ reply'[p].gen = [epoch |-> epoch, seq |-> seq]
        BY <1>a, Zenon DEF Shapes
    <2>2. res'[p].got = got /\ res'[p].auth /\ pc'[p] \in {"touch", "blob"} /\ got # "nil"
        BY <1>e, Zenon DEF Return, Goto, Shapes
    <2> QED
        BY <1>b, <1>d, <1>e, <2>1, <2>2, Zenon DEF serverVars, diskVars, keysVars, useVars,
           Shapes
<1>2. Shapes'
    <2>1. reply' \in [Proc -> ReplyT]
        BY <1>a, <1>b, Zenon DEF Shapes
    <2>2. res' \in [Proc -> ResT] /\ pc' \in [Proc -> Steps]
        BY <1>e, <1>c, Zenon DEF Shapes, Return, Goto, Steps
    <2> QED
        BY <1>d, <2>1, <2>2, Zenon DEF keysVars, useVars, Shapes
<1>3. SameServer /\ Shared'
    BY <1>a, <1>e, <1>b, <1>c, <1>d, SharedStays, Zenon DEF Return, Goto, serverVars, diskVars,
       keysVars, useVars, SameServer
<1>4. \A q \in Proc \ {p} : Same(q)
    BY <1>a, <1>e, <1>b, <1>c, <1>d, ZenonT(40) DEF Return, Goto, serverVars, diskVars,
       keysVars, useVars, Shapes, Same
<1> USE <1>1, <1>3 DEF SameServer
<1>5. Past(p)'
    BY Zenon DEF ProcInv, Past, Base
<1>6. Loading(p)'
    BY Zenon DEF ProcInv, Loading, Open, Installed, Base
<1>7. Open(p)' <=> Open(p)
    BY Zenon DEF Open, Base
<1>8. Journalled(p)' /\ Survives(p)' /\ Complete(p)'
    BY <1>7, KeysStand, Zenon DEF Open
<1>9. Known(p)'
    BY ZenonT(40) DEF ProcInv, Known, Base
<1>10. Placed(p)'
    BY Zenon DEF ProcInv, Placed, FitsNow, Target, Base
<1> QED
    BY <1>2, <1>4, <1>5, <1>6, <1>7, <1>8, <1>9, <1>10, OneMoves, ZenonT(40) DEF ProcInv

\* A fetch that fails leaves what the load had.
LEMMA FetchFailsKeeps ==
    ASSUME IInv, NEW p \in Proc, FetchFails(p)
    PROVE  IInv'
<1>0. Shapes /\ Shared /\ ProcInv(p) /\ Typed(p) /\ Base(p)
    BY Start, Zenon
<1> USE <1>0
<1>a. PICK got \in {"same", "new", "nil"} :
          /\ Return(p, got, FALSE)
          /\ UNCHANGED reply \/ reply' = [reply EXCEPT ![p] = NoReply]
    BY Zenon DEF FetchFails
<1>b. /\ pc[p] = "fetch" /\ Goto(p, "adopt")
      /\ UNCHANGED <<serverVars, diskVars, disk, after, keysVars, live, useVars>>
    BY Zenon DEF FetchFails
<1>c. [got |-> got, auth |-> FALSE] \in ResT
    BY <1>a, Zenon DEF ResT
<1>1. /\ pc[p] = "fetch"
      /\ pc'[p] = "adopt"
      /\ ((reply'[p].keys = {} /\ reply'[p].gen = NoGen) \/ reply'[p] = reply[p])
      /\ ~res'[p].auth /\ disk'[p] = disk[p] /\ after'[p] = after[p] /\ keys'[p] = keys[p]
      /\ authoritative'[p] = authoritative[p] /\ journal'[p] = journal[p]
      /\ liveGen'[p] = liveGen[p] /\ live'[p] = live[p] /\ up'[p] = up[p]
      /\ missed'[p] = missed[p] /\ dropped'[p] = dropped[p]
    <2>1. (reply'[p].keys = {} /\ reply'[p].gen = NoGen) \/ reply'[p] = reply[p]
        BY <1>a, Empties, Zenon DEF Shapes
    <2>2. ~res'[p].auth
        BY <1>a, Zenon DEF Return, Shapes
    <2> QED
        BY <1>b, <2>1, <2>2, Zenon DEF Goto, keysVars, useVars, Shapes
<1>2. Shapes'
    <2>1. res' \in [Proc -> ResT]
        BY <1>a, <1>c, Zenon DEF Return, Shapes
    <2>2. reply' \in [Proc -> ReplyT]
        BY <1>a, Empties, ZenonT(40) DEF Shapes
    <2> QED
        BY <1>b, <2>1, <2>2, Zenon DEF Goto, keysVars, useVars, Shapes, Steps
<1>3. SameServer /\ Shared'
    BY <1>a, <1>b, <1>c, SharedStays, Zenon DEF Return, Goto, serverVars, diskVars, keysVars,
       useVars, SameServer
<1>4. \A q \in Proc \ {p} : Same(q)
    BY <1>a, <1>b, <1>c, Zenon DEF Return, Goto, serverVars, diskVars, keysVars, useVars,
       Shapes, Same
<1> USE <1>1, <1>3 DEF SameServer
<1>5. Past(p)'
    BY Zenon DEF ProcInv, Past, Base
<1>6. Loading(p)'
    BY Zenon DEF ProcInv, Loading, Open, Installed, Base
<1>7. Open(p)' <=> Open(p)
    BY Zenon DEF Open, Base
<1>8. Journalled(p)' /\ Survives(p)' /\ Complete(p)'
    BY <1>7, KeysStand, Zenon DEF Open
<1>9. Known(p)'
    BY ZenonT(30) DEF ProcInv, Known, Base
<1>10. Placed(p)'
    BY Zenon DEF ProcInv, Placed, FitsNow, Target, Base
<1> QED
    BY <1>2, <1>4, <1>5, <1>6, <1>7, <1>8, <1>9, <1>10, OneMoves, Zenon DEF ProcInv

\* The end of a load closes the journal; without a result the set stays.
LEMMA AdoptNothingKeeps ==
    ASSUME IInv, NEW p \in Proc, AdoptIndex(p), res[p].got = "nil"
    PROVE  IInv'
<1>0. Shapes /\ Shared /\ ProcInv(p) /\ Typed(p) /\ Base(p)
    BY Start, Zenon
<1> USE <1>0
<1>1. /\ pc[p] = "adopt" /\ res[p].got = "nil"
      /\ pc'[p] = "done" /\ disk'[p].keys = {} /\ disk'[p].gen = NoGen /\ reply'[p].keys = {}
      /\ reply'[p].gen = NoGen /\ ~res'[p].auth /\ after'[p] = "done" /\ ~journal'[p].open
      /\ journal'[p].added = {} /\ keys'[p] = keys[p] /\ authoritative'[p] = authoritative[p]
      /\ liveGen'[p] = liveGen[p] /\ live'[p] = live[p] /\ up'[p] = up[p]
      /\ missed'[p] = missed[p] /\ dropped'[p] = dropped[p]
    BY Empties, Zenon DEF AdoptIndex, Finish, End, Goto, serverVars, diskVars, useVars, Shapes,
       Typed
<1>2. Shapes'
    BY Empties, Zenon DEF AdoptIndex, Finish, End, Goto, serverVars, diskVars, useVars, Shapes,
       Steps, Typed
<1>3. SameServer /\ Shared'
    BY SharedStays, Zenon DEF AdoptIndex, Finish, End, Goto, serverVars, diskVars, useVars,
       SameServer
<1>4. \A q \in Proc \ {p} : Same(q)
    BY Zenon DEF AdoptIndex, Finish, End, Goto, serverVars, diskVars, useVars, Shapes, Same
<1> USE <1>1, <1>3 DEF SameServer
<1>5. Past(p)'
    BY Zenon DEF ProcInv, Past, Base
<1>6. Loading(p)'
    BY Zenon DEF ProcInv, Loading, Open, Installed, Base
<1>7. Journalled(p)'
    BY Zenon DEF ProcInv, Journalled, Loading, Open, Base
<1>8. Survives(p)'
    BY Zenon DEF ProcInv, Survives, Journalled, Loading, Open, Base
<1>9. Known(p)'
    BY Zenon DEF ProcInv, Known, Base
<1>10. Placed(p)'
    BY Zenon DEF ProcInv, Placed, FitsNow, Target, Base
<1>11. Complete(p)'
    BY Zenon DEF ProcInv, Complete, CoversNow, Loading, Open, Base
<1> QED
    BY <1>2, <1>4, <1>5, <1>6, <1>7, <1>8, <1>9, <1>10, <1>11, OneMoves, Zenon DEF ProcInv

\* An unchanged index vouches for the set the copy gave.
LEMMA AdoptSameKeeps ==
    ASSUME IInv, NEW p \in Proc, AdoptIndex(p), res[p].got = "same"
    PROVE  IInv'
<1>0. Shapes /\ Shared /\ ProcInv(p) /\ Typed(p) /\ Base(p)
    BY Start, Zenon
<1> USE <1>0
<1>1. /\ pc[p] = "adopt" /\ res[p].got = "same"
      /\ pc'[p] = "done" /\ disk'[p].keys = {} /\ disk'[p].gen = NoGen /\ reply'[p].keys = {}
      /\ reply'[p].gen = NoGen /\ ~res'[p].auth /\ after'[p] = "done"
      /\ authoritative'[p] = res[p].auth /\ ~journal'[p].open /\ journal'[p].added = {}
      /\ keys'[p] = keys[p] /\ liveGen'[p] = liveGen[p] /\ live'[p] = live[p]
      /\ up'[p] = up[p] /\ missed'[p] = missed[p] /\ dropped'[p] = dropped[p]
    BY Empties, ZenonT(40) DEF AdoptIndex, Finish, End, Goto, serverVars, diskVars, useVars,
       Shapes, Typed
<1>2. Shapes'
    BY Empties, Zenon DEF AdoptIndex, Finish, End, Goto, serverVars, diskVars, useVars, Shapes,
       Steps, Typed
<1>3. SameServer /\ Shared'
    BY SharedStays, Zenon DEF AdoptIndex, Finish, End, Goto, serverVars, diskVars, useVars,
       SameServer
<1>4. \A q \in Proc \ {p} : Same(q)
    BY Zenon DEF AdoptIndex, Finish, End, Goto, serverVars, diskVars, useVars, Shapes, Same
<1> USE <1>1, <1>3 DEF SameServer
<1>5. Past(p)'
    BY Zenon DEF ProcInv, Past, Base
<1>6. Loading(p)'
    BY Zenon DEF ProcInv, Loading, Open, Installed, Base
<1>7. Journalled(p)'
    BY Zenon DEF ProcInv, Journalled, Loading, Open, Base
<1>8. Survives(p)'
    BY Zenon DEF ProcInv, Survives, Journalled, Loading, Open, Base
<1>9. Known(p)'
    BY Zenon DEF ProcInv, Known, Base
<1>10. Placed(p)'
    BY Zenon DEF ProcInv, Placed, FitsNow, Target, Base
<1>11. Complete(p)'
    <2>1. disk[p].keys \subseteq keys'[p] \cup dropped'[p]
        BY Zenon DEF ProcInv, Journalled, Open
    <2>2. res[p].auth => CoversNow(disk[p].keys, liveGen[p])
        BY CoversMore, Zenon DEF ProcInv, Placed, FitsNow, CoversNow
    <2>3. res[p].auth => CoversNow(keys'[p] \cup dropped'[p], liveGen[p])
        BY <2>1, <2>2, CoversMore, ZenonT(30) DEF CoversNow
    <2>4. ~live[p].on
        BY Zenon DEF ProcInv, Loading, Open
    <2> QED
        BY <2>3, <2>4, Zenon DEF Complete, CoversNow
<1> QED
    BY <1>2, <1>4, <1>5, <1>6, <1>7, <1>8, <1>9, <1>10, <1>11, OneMoves, Zenon DEF ProcInv

\* A new index replaces the set, with the journal's changes on top.
LEMMA AdoptNewKeeps ==
    ASSUME IInv, NEW p \in Proc, AdoptIndex(p), res[p].got = "new"
    PROVE  IInv'
<1>0. Shapes /\ Shared /\ ProcInv(p) /\ Typed(p) /\ Base(p)
    BY Start, Zenon
<1> USE <1>0
<1>1. /\ pc[p] = "adopt" /\ res[p].got = "new"
      /\ pc'[p] = "done" /\ disk'[p].keys = {} /\ disk'[p].gen = NoGen /\ reply'[p].keys = {}
      /\ reply'[p].gen = NoGen /\ ~res'[p].auth /\ after'[p] = "done"
      /\ keys'[p] = (reply[p].keys \cup journal[p].added) \ journal[p].dropped
      /\ authoritative'[p] = res[p].auth /\ ~journal'[p].open /\ journal'[p].added = {}
      /\ liveGen'[p] = liveGen[p] /\ live'[p] = live[p] /\ up'[p] = up[p]
      /\ missed'[p] = missed[p] /\ dropped'[p] = dropped[p]
    BY Empties, ZenonT(40) DEF AdoptIndex, Finish, End, Goto, serverVars, diskVars, useVars,
       Shapes, Typed
<1>2. Shapes'
    BY Empties, Zenon DEF AdoptIndex, Finish, End, Goto, serverVars, diskVars, useVars, Shapes,
       Steps, Typed
<1>3. SameServer /\ Shared'
    BY SharedStays, Zenon DEF AdoptIndex, Finish, End, Goto, serverVars, diskVars, useVars,
       SameServer
<1>4. \A q \in Proc \ {p} : Same(q)
    BY Zenon DEF AdoptIndex, Finish, End, Goto, serverVars, diskVars, useVars, Shapes, Same
<1> USE <1>1, <1>3 DEF SameServer
<1>5. Past(p)'
    BY Zenon DEF ProcInv, Past, Base
<1>6. Loading(p)'
    BY Zenon DEF ProcInv, Loading, Open, Installed, Base
<1>7. Journalled(p)'
    BY Zenon DEF ProcInv, Journalled, Loading, Open, Base
<1>8. Survives(p)'
    BY ZenonT(40) DEF ProcInv, Survives, Journalled, Loading, Open, Base
<1>9. Known(p)'
    BY Zenon DEF ProcInv, Known, Base
<1>10. Placed(p)'
    BY Zenon DEF ProcInv, Placed, FitsNow, Target, Base
<1>11. Complete(p)'
    <2>1. reply[p].keys \subseteq keys'[p] \cup dropped'[p]
        BY Zenon DEF ProcInv, Journalled, Open
    <2>2. res[p].auth => CoversNow(reply[p].keys, liveGen[p])
        BY CoversMore, Zenon DEF ProcInv, Placed, FitsNow, CoversNow
    <2>3. res[p].auth => CoversNow(keys'[p] \cup dropped'[p], liveGen[p])
        BY <2>1, <2>2, CoversMore, ZenonT(30) DEF CoversNow
    <2>4. ~live[p].on
        BY Zenon DEF ProcInv, Loading, Open
    <2> QED
        BY <2>3, <2>4, Zenon DEF Complete, CoversNow
<1> QED
    BY <1>2, <1>4, <1>5, <1>6, <1>7, <1>8, <1>9, <1>10, <1>11, OneMoves, Zenon DEF ProcInv

\* A process that ends takes its set with it.
LEMMA ExitKeeps ==
    ASSUME IInv, NEW p \in Proc, Exit(p)
    PROVE  IInv'
<1>0. Shapes /\ Shared /\ ProcInv(p) /\ Typed(p) /\ Base(p)
    BY Start, Zenon
<1> USE <1>0
<1>1. /\ pc'[p] = "gone" /\ disk'[p].keys = {} /\ disk'[p].gen = NoGen /\ reply'[p].keys = {}
      /\ reply'[p].gen = NoGen /\ ~res'[p].auth /\ after'[p] = "done" /\ keys'[p] = {}
      /\ authoritative'[p] = FALSE /\ ~journal'[p].open /\ journal'[p].added = {}
      /\ liveGen'[p] = NoGen /\ ~live'[p].on /\ live'[p].keys = {} /\ live'[p].gen = NoGen
      /\ (\A k \in Key : up'[p][k] = "none") /\ missed'[p] = {} /\ dropped'[p] = {}
    BY Empties, ZenonT(40) DEF Exit, End, Goto, serverVars, Shapes, Typed
<1>2. Shapes'
    BY Empties, Zenon DEF Exit, End, Goto, serverVars, Shapes, Steps, Typed
<1>3. SameServer /\ Shared'
    BY SharedStays, Zenon DEF Exit, End, Goto, serverVars, SameServer
<1>4. \A q \in Proc \ {p} : Same(q)
    BY Zenon DEF Exit, End, Goto, serverVars, Shapes, Same
<1> USE <1>1, <1>3 DEF SameServer
<1>5. Past(p)'
    BY Zenon DEF ProcInv, Past, Base
<1>6. Loading(p)'
    BY Zenon DEF ProcInv, Loading, Open, Installed, Base
<1>7. Journalled(p)'
    BY Zenon DEF ProcInv, Journalled, Loading, Open, Base
<1>8. Survives(p)'
    BY Zenon DEF ProcInv, Survives, Journalled, Loading, Open, Base
<1>9. Known(p)'
    BY Zenon DEF ProcInv, Known, Base
<1>10. Placed(p)'
    BY Zenon DEF ProcInv, Placed, FitsNow, Target, Base
<1>11. Complete(p)'
    BY Zenon DEF ProcInv, Complete, CoversNow, Loading, Open, Base
<1> QED
    BY <1>2, <1>4, <1>5, <1>6, <1>7, <1>8, <1>9, <1>10, <1>11, OneMoves, Zenon DEF ProcInv

\* What the build does meanwhile. A claim goes to the set and to an open journal.
LEMMA ClaimKeeps ==
    ASSUME IInv, NEW p \in Proc, NEW k \in Key, Claim(p, k)
    PROVE  IInv'
<1>0. Shapes /\ Shared /\ ProcInv(p) /\ Typed(p) /\ Base(p)
    BY Start, Zenon
<1> USE <1>0
<1>a. /\ journal' \in [Proc -> JournalT] /\ journal'[p].open = journal[p].open
      /\ journal[p].open => journal'[p].added = journal[p].added \cup {k} /\ journal'[p].dropped = journal[p].dropped \ {k}
      /\ ~journal[p].open => journal'[p] = journal[p]
      /\ \A q \in Proc \ {p} : journal'[q] = journal[q]
    <2>1. journal' = [journal EXCEPT ![p] = IF @.open
              THEN [open |-> TRUE, added |-> @.added \cup {k}, dropped |-> @.dropped \ {k}] ELSE @]
        BY Zenon DEF Claim
    <2> QED
        BY <2>1, ZenonT(40) DEF Shapes, JournalT
<1>b. /\ up' \in [Proc -> UpT] /\ up'[p][k] = "sent" /\ \A j \in Key \ {k} : up'[p][j] = up[p][j]
      /\ \A q \in Proc \ {p} : up'[q] = up[q]
    <2>1. up' = [up EXCEPT ![p][k] = "sent"]
        BY Zenon DEF Claim
    <2> QED
        BY <2>1, Zenon DEF Shapes, UpT
<1>1. /\ Installed(p) /\ k \notin keys[p]
      /\ keys'[p] = keys[p] \cup {k} /\ journal'[p].open = journal[p].open
      /\ (journal[p].open => /\ journal'[p].added = journal[p].added \cup {k} /\ journal'[p].dropped = journal[p].dropped \ {k})
      /\ (~journal[p].open => journal'[p] = journal[p]) /\ up'[p][k] = "sent"
      /\ (\A j \in Key \ {k} : up'[p][j] = up[p][j]) /\ dropped'[p] = dropped[p] \ {k}
      /\ pc'[p] = pc[p] /\ disk'[p] = disk[p] /\ reply'[p] = reply[p] /\ res'[p] = res[p]
      /\ after'[p] = after[p] /\ authoritative'[p] = authoritative[p]
      /\ liveGen'[p] = liveGen[p] /\ live'[p] = live[p] /\ missed'[p] = missed[p]
    BY <1>a, <1>b, Zenon DEF Claim, serverVars, diskVars, loadVars, Shapes, Typed
<1>2. Shapes'
    <2>1. keys' \in [Proc -> SUBSET Key] /\ dropped' \in [Proc -> SUBSET Key]
        BY Zenon DEF Claim, Shapes, Typed
    <2> QED
        BY <1>a, <1>b, <2>1, Zenon DEF Claim, loadVars, Shapes
<1>3. SameServer /\ Shared'
    BY <1>a, <1>b, SharedStays, Zenon DEF Claim, serverVars, diskVars, loadVars, SameServer
<1>4. \A q \in Proc \ {p} : Same(q)
    BY <1>a, <1>b, ZenonT(40) DEF Claim, serverVars, diskVars, loadVars, Shapes, Same
<1> USE <1>1, <1>3 DEF SameServer
<1>5. Past(p)' /\ Placed(p)'
    BY LoadStands, Zenon
<1>6. Loading(p)'
    BY ZenonT(40) DEF ProcInv, Loading, Open, Installed, Base
<1>7. Journalled(p)'
    BY ZenonT(40) DEF ProcInv, Journalled, Loading, Open, Base
<1>8. Survives(p)'
    BY ZenonT(40) DEF ProcInv, Survives, Journalled, Loading, Open, Base
<1>9. Known(p)'
    BY ZenonT(40) DEF ProcInv, Known, Typed, Base
<1>10. Complete(p)'
    BY StillComplete, Zenon DEF ProcInv, Open
<1> QED
    BY <1>2, <1>4, <1>5, <1>6, <1>7, <1>8, <1>9, <1>10, OneMoves, Zenon DEF ProcInv

\* A confirmed upload is the server's.
LEMMA UploadConfirmedKeeps ==
    ASSUME IInv, NEW p \in Proc, NEW k \in Key, UploadConfirmed(p, k)
    PROVE  IInv'
<1>0. Shapes /\ Shared /\ ProcInv(p) /\ Typed(p) /\ Base(p)
    BY Start, Zenon
<1> USE <1>0
<1>a. /\ up' \in [Proc -> UpT] /\ up'[p][k] = "none" /\ \A j \in Key \ {k} : up'[p][j] = up[p][j]
      /\ \A q \in Proc \ {p} : up'[q] = up[q]
    <2>1. up' = [up EXCEPT ![p][k] = "none"]
        BY Zenon DEF UploadConfirmed
    <2> QED
        BY <2>1, ZenonT(40) DEF Shapes, UpT
<1>1. /\ up[p][k] = "landed"
      /\ up'[p][k] = "none" /\ (\A j \in Key \ {k} : up'[p][j] = up[p][j]) /\ pc'[p] = pc[p]
      /\ disk'[p] = disk[p] /\ reply'[p] = reply[p] /\ res'[p] = res[p]
      /\ after'[p] = after[p] /\ keys'[p] = keys[p] /\ authoritative'[p] = authoritative[p]
      /\ journal'[p] = journal[p] /\ liveGen'[p] = liveGen[p] /\ live'[p] = live[p]
      /\ missed'[p] = missed[p] /\ dropped'[p] = dropped[p]
    BY <1>a, Zenon DEF UploadConfirmed, serverVars, diskVars, loadVars, keysVars, Shapes, Typed
<1>2. Shapes'
    BY <1>a, Empties, Zenon DEF UploadConfirmed, serverVars, diskVars, loadVars, keysVars,
       Shapes, Steps, Typed
<1>3. SameServer /\ Shared'
    BY <1>a, SharedStays, Zenon DEF UploadConfirmed, serverVars, diskVars, loadVars, keysVars,
       SameServer
<1>4. \A q \in Proc \ {p} : Same(q)
    BY <1>a, Zenon DEF UploadConfirmed, serverVars, diskVars, loadVars, keysVars, Shapes, Same
<1> USE <1>1, <1>3 DEF SameServer
<1>5. Past(p)' /\ Placed(p)'
    BY LoadStands, Zenon
<1>6. Loading(p)'
    BY ZenonT(40) DEF ProcInv, Loading, Open, Installed, Base
<1>7. Journalled(p)'
    BY ZenonT(30) DEF ProcInv, Journalled, Loading, Open, Base
<1>8. Survives(p)'
    BY Zenon DEF ProcInv, Survives, Journalled, Loading, Open, Base
<1>9. Known(p)'
    BY ZenonT(40) DEF ProcInv, Known, Typed, Base
<1>10. Complete(p)'
    BY StillComplete, Zenon DEF ProcInv, Open
<1> QED
    BY <1>2, <1>4, <1>5, <1>6, <1>7, <1>8, <1>9, <1>10, OneMoves, Zenon DEF ProcInv

\* A failed upload is dropped from both.
LEMMA UploadFailsKeeps ==
    ASSUME IInv, NEW p \in Proc, NEW k \in Key, UploadFails(p, k)
    PROVE  IInv'
<1>0. Shapes /\ Shared /\ ProcInv(p) /\ Typed(p) /\ Base(p)
    BY Start, Zenon
<1> USE <1>0
<1>a. /\ journal' \in [Proc -> JournalT] /\ journal'[p].open = journal[p].open
      /\ journal[p].open => journal'[p].added = journal[p].added \ {k} /\ journal'[p].dropped = journal[p].dropped \cup {k}
      /\ ~journal[p].open => journal'[p] = journal[p]
      /\ \A q \in Proc \ {p} : journal'[q] = journal[q]
    <2>1. journal' = [journal EXCEPT ![p] = IF @.open
              THEN [open |-> TRUE, added |-> @.added \ {k}, dropped |-> @.dropped \cup {k}] ELSE @]
        BY Zenon DEF UploadFails, DropKey
    <2> QED
        BY <2>1, ZenonT(40) DEF Shapes, JournalT
<1>b. /\ up' \in [Proc -> UpT] /\ up'[p][k] = "none" /\ \A j \in Key \ {k} : up'[p][j] = up[p][j]
      /\ \A q \in Proc \ {p} : up'[q] = up[q]
    <2>1. up' = [up EXCEPT ![p][k] = "none"]
        BY Zenon DEF UploadFails
    <2> QED
        BY <2>1, ZenonT(40) DEF Shapes, UpT
<1>1. /\ up[p][k] # "none"
      /\ keys'[p] = keys[p] \ {k} /\ journal'[p].open = journal[p].open
      /\ (journal[p].open => /\ journal'[p].added = journal[p].added \ {k} /\ journal'[p].dropped = journal[p].dropped \cup {k})
      /\ (~journal[p].open => journal'[p] = journal[p]) /\ up'[p][k] = "none"
      /\ (\A j \in Key \ {k} : up'[p][j] = up[p][j]) /\ dropped'[p] = dropped[p] \cup {k}
      /\ pc'[p] = pc[p] /\ disk'[p] = disk[p] /\ reply'[p] = reply[p] /\ res'[p] = res[p]
      /\ after'[p] = after[p] /\ authoritative'[p] = authoritative[p]
      /\ liveGen'[p] = liveGen[p] /\ live'[p] = live[p] /\ missed'[p] = missed[p]
    BY <1>a, <1>b, Zenon DEF UploadFails, DropKey, serverVars, diskVars, loadVars, Shapes, Typed
<1>2. Shapes'
    <2>1. keys' \in [Proc -> SUBSET Key] /\ dropped' \in [Proc -> SUBSET Key]
        BY Zenon DEF UploadFails, DropKey, Shapes, Typed
    <2> QED
        BY <1>a, <1>b, <2>1, Zenon DEF UploadFails, DropKey, loadVars, Shapes
<1>3. SameServer /\ Shared'
    BY <1>a, <1>b, SharedStays, Zenon DEF UploadFails, DropKey, serverVars, diskVars, loadVars,
       SameServer
<1>4. \A q \in Proc \ {p} : Same(q)
    BY <1>a, <1>b, ZenonT(40) DEF UploadFails, DropKey, serverVars, diskVars, loadVars, Shapes,
       Same
<1> USE <1>1, <1>3 DEF SameServer
<1>5. Past(p)' /\ Placed(p)'
    BY LoadStands, Zenon
<1>6. Loading(p)'
    BY ZenonT(40) DEF ProcInv, Loading, Open, Installed, Base
<1>7. Journalled(p)'
    BY ZenonT(40) DEF ProcInv, Journalled, Loading, Open, Base
<1>8. Survives(p)'
    BY ZenonT(40) DEF ProcInv, Survives, Journalled, Loading, Open, Base
<1>9. Known(p)'
    <2>1. /\ k \notin keys'[p] \cup journal'[p].added
          /\ keys'[p] \subseteq keys[p] /\ journal'[p].added \subseteq journal[p].added
        BY Zenon DEF ProcInv, Loading
    <2>2. \A j \in keys'[p] \cup journal'[p].added : j \in Key \ {k} /\ j \in keys[p] \cup journal[p].added
        BY <2>1, Zenon DEF Typed
    <2>3. \A j \in Key \ {k} : up'[p][j] = up[p][j]
        BY Zenon
    <2>4. \A j \in Key : up'[p][j] = "landed" => j \in ever
        BY <2>3, Zenon DEF ProcInv, Known
    <2>5. \A j \in keys'[p] \cup journal'[p].added : j \in ever \/ up[p][j] # "none"
        BY <2>2, Zenon DEF ProcInv, Known
    <2>6. \A j \in keys'[p] \cup journal'[p].added : j \in ever \/ up'[p][j] # "none"
        BY <2>2, <2>3, <2>5, Zenon
    <2>7. disk'[p].keys \subseteq ever /\ reply'[p].keys \subseteq ever /\ live'[p].keys \subseteq ever
        BY Zenon DEF ProcInv, Known
    <2> QED
        BY <2>4, <2>6, <2>7, Zenon DEF Known
<1>10. Complete(p)'
    BY StillComplete, Zenon DEF ProcInv, Open
<1> QED
    BY <1>2, <1>4, <1>5, <1>6, <1>7, <1>8, <1>9, <1>10, OneMoves, ZenonT(40) DEF ProcInv

\* A lookup the server answers absent.
LEMMA AskAbsentKeeps ==
    ASSUME IInv, NEW p \in Proc, NEW k \in Key, AskAbsent(p, k)
    PROVE  IInv'
<1>0. Shapes /\ Shared /\ ProcInv(p) /\ Typed(p) /\ Base(p)
    BY Start, Zenon
<1> USE <1>0
<1>1. /\ Installed(p)
      /\ missed'[p] = missed[p] \cup {k} /\ pc'[p] = pc[p] /\ disk'[p] = disk[p]
      /\ reply'[p] = reply[p] /\ res'[p] = res[p] /\ after'[p] = after[p]
      /\ keys'[p] = keys[p] /\ authoritative'[p] = authoritative[p]
      /\ journal'[p] = journal[p] /\ liveGen'[p] = liveGen[p] /\ live'[p] = live[p]
      /\ up'[p] = up[p] /\ dropped'[p] = dropped[p]
    BY Zenon DEF AskAbsent, serverVars, diskVars, loadVars, keysVars, Shapes, Typed
<1>2. Shapes'
    BY Empties, ZenonT(40) DEF AskAbsent, serverVars, diskVars, loadVars, keysVars, Shapes,
       Steps, Typed
<1>3. SameServer /\ Shared'
    BY SharedStays, Zenon DEF AskAbsent, serverVars, diskVars, loadVars, keysVars, SameServer
<1>4. \A q \in Proc \ {p} : Same(q)
    BY Zenon DEF AskAbsent, serverVars, diskVars, loadVars, keysVars, Shapes, Same
<1> USE <1>1, <1>3 DEF SameServer
<1>5. Past(p)' /\ Placed(p)'
    BY LoadStands, Zenon
<1>6. Loading(p)'
    BY ZenonT(40) DEF ProcInv, Loading, Open, Installed, Base
<1>7. Open(p)' <=> Open(p)
    BY Zenon DEF Open, Base
<1>8. Journalled(p)' /\ Survives(p)' /\ Complete(p)'
    BY <1>7, KeysStand, Zenon DEF Open
<1>9. Known(p)'
    BY ZenonT(30) DEF ProcInv, Known, Typed, Base
<1> QED
    BY <1>2, <1>4, <1>5, <1>6, <1>7, <1>8, <1>9, OneMoves, ZenonT(40) DEF ProcInv

\* The key is dropped when the answer is handled.
LEMMA ReclaimAbsentKeeps ==
    ASSUME IInv, NEW p \in Proc, NEW k \in Key, ReclaimAbsent(p, k)
    PROVE  IInv'
<1>0. Shapes /\ Shared /\ ProcInv(p) /\ Typed(p) /\ Base(p)
    BY Start, Zenon
<1> USE <1>0
<1>a. /\ journal' \in [Proc -> JournalT] /\ journal'[p].open = journal[p].open
      /\ journal[p].open => journal'[p].added = journal[p].added \ {k} /\ journal'[p].dropped = journal[p].dropped \cup {k}
      /\ ~journal[p].open => journal'[p] = journal[p]
      /\ \A q \in Proc \ {p} : journal'[q] = journal[q]
    <2>1. journal' = [journal EXCEPT ![p] = IF @.open
              THEN [open |-> TRUE, added |-> @.added \ {k}, dropped |-> @.dropped \cup {k}] ELSE @]
        BY Zenon DEF ReclaimAbsent, DropKey
    <2> QED
        BY <2>1, ZenonT(40) DEF Shapes, JournalT
<1>1. /\ k \in missed[p]
      /\ keys'[p] = keys[p] \ {k} /\ journal'[p].open = journal[p].open
      /\ (journal[p].open => /\ journal'[p].added = journal[p].added \ {k} /\ journal'[p].dropped = journal[p].dropped \cup {k})
      /\ (~journal[p].open => journal'[p] = journal[p]) /\ missed'[p] = missed[p] \ {k}
      /\ dropped'[p] = dropped[p] \cup {k} /\ pc'[p] = pc[p] /\ disk'[p] = disk[p]
      /\ reply'[p] = reply[p] /\ res'[p] = res[p] /\ after'[p] = after[p]
      /\ authoritative'[p] = authoritative[p] /\ liveGen'[p] = liveGen[p]
      /\ live'[p] = live[p] /\ up'[p] = up[p]
    BY <1>a, Zenon DEF ReclaimAbsent, DropKey, serverVars, diskVars, loadVars, Shapes, Typed
<1>2. Shapes'
    <2>1. keys' \in [Proc -> SUBSET Key] /\ dropped' \in [Proc -> SUBSET Key] /\ missed' \in [Proc -> SUBSET Key]
        BY Zenon DEF ReclaimAbsent, DropKey, Shapes, Typed
    <2> QED
        BY <1>a, <2>1, Zenon DEF ReclaimAbsent, DropKey, loadVars, Shapes
<1>3. SameServer /\ Shared'
    BY <1>a, SharedStays, Zenon DEF ReclaimAbsent, DropKey, serverVars, diskVars, loadVars,
       SameServer
<1>4. \A q \in Proc \ {p} : Same(q)
    BY <1>a, ZenonT(40) DEF ReclaimAbsent, DropKey, serverVars, diskVars, loadVars, Shapes, Same
<1> USE <1>1, <1>3 DEF SameServer
<1>5. Past(p)' /\ Placed(p)'
    BY LoadStands, Zenon
<1>6. Loading(p)'
    BY ZenonT(40) DEF ProcInv, Loading, Open, Installed, Base
<1>7. Journalled(p)'
    BY ZenonT(40) DEF ProcInv, Journalled, Loading, Open, Base
<1>8. Survives(p)'
    BY ZenonT(40) DEF ProcInv, Survives, Journalled, Loading, Open, Base
<1>9. Known(p)'
    <2>1. /\ k \notin keys'[p] \cup journal'[p].added
          /\ keys'[p] \subseteq keys[p] /\ journal'[p].added \subseteq journal[p].added
        BY Zenon DEF ProcInv, Loading
    <2> QED
        BY <2>1, Zenon DEF ProcInv, Known, Typed
<1>10. Complete(p)'
    BY StillComplete, Zenon DEF ProcInv, Open
<1> QED
    BY <1>2, <1>4, <1>5, <1>6, <1>7, <1>8, <1>9, <1>10, OneMoves, Zenon DEF ProcInv

\* A live delta is asked for from the position of a complete set.
LEMMA LiveComesKeeps ==
    ASSUME IInv, NEW p \in Proc, AskLive(p), live'[p].on
    PROVE  IInv'
<1>0. Shapes /\ Shared /\ ProcInv(p) /\ Typed(p) /\ Base(p)
    BY Start, Zenon
<1> USE <1>0
<1>a. /\ Installed(p) /\ ~journal[p].open /\ authoritative[p] /\ ~live[p].on
      /\ live' = [live EXCEPT ![p] = [on |-> TRUE, keys |-> Since(liveGen[p].seq), gen |-> Here]]
      /\ liveGen[p].epoch = epoch /\ UNCHANGED liveGen
      /\ UNCHANGED <<serverVars, diskVars, lock, loadVars, keys, authoritative, journal, useVars>>
    BY Zenon DEF AskLive
<1>b. liveGen[p] \in Pos /\ keys[p] \cup dropped[p] \in SUBSET Key /\ ~Open(p)
    BY <1>a, Zenon DEF Shapes, ProcInv, Loading, Typed
<1>c. /\ Since(liveGen[p].seq) \in SUBSET Key /\ Since(liveGen[p].seq) \subseteq ever
      /\ Here \in Pos /\ Here.epoch <= epoch
      /\ CoversNow(keys[p] \cup dropped[p] \cup Since(liveGen[p].seq), Here)
    <2>1. CoversNow(keys[p] \cup dropped[p], liveGen[p])
        BY <1>a, <1>b, Zenon DEF ProcInv, Complete
    <2> QED
        BY <1>a, <1>b, <2>1, DeltaFits, Zenon
<1>d. [on |-> TRUE, keys |-> Since(liveGen[p].seq), gen |-> Here] \in LiveT
    BY <1>c, Zenon DEF LiveT
<1>1. /\ Installed(p) /\ ~Open(p) /\ authoritative[p] /\ ~live[p].on
      /\ live'[p].on /\ live'[p].keys \subseteq ever /\ live'[p].gen = Here
      /\ Here.epoch <= epoch /\ CoversNow(keys[p] \cup dropped[p] \cup live'[p].keys, Here)
      /\ pc'[p] = pc[p] /\ disk'[p] = disk[p] /\ reply'[p] = reply[p] /\ res'[p] = res[p]
      /\ after'[p] = after[p] /\ keys'[p] = keys[p] /\ authoritative'[p] = authoritative[p]
      /\ journal'[p] = journal[p] /\ liveGen'[p] = liveGen[p] /\ up'[p] = up[p]
      /\ missed'[p] = missed[p] /\ dropped'[p] = dropped[p]
    BY <1>a, <1>b, <1>c, <1>d, Zenon DEF serverVars, diskVars, loadVars, useVars, Shapes,
       ProcInv, Loading, Typed
<1>2. Shapes'
    BY <1>a, <1>b, <1>c, <1>d, Zenon DEF loadVars, useVars, Shapes
<1>3. SameServer /\ Shared'
    BY <1>a, <1>b, <1>c, <1>d, SharedStays, Zenon DEF serverVars, diskVars, loadVars, useVars,
       SameServer
<1>4. \A q \in Proc \ {p} : Same(q)
    BY <1>a, <1>b, <1>c, <1>d, Zenon DEF serverVars, diskVars, loadVars, useVars, Shapes, Same
<1> USE <1>1, <1>3 DEF SameServer
<1>5. Past(p)'
    BY Zenon DEF ProcInv, Past, Base
<1>6. Loading(p)'
    BY Zenon DEF ProcInv, Loading, Open, Installed, Base
<1>7. Journalled(p)'
    BY Zenon DEF ProcInv, Journalled, Loading, Open, Base
<1>8. Survives(p)'
    BY Zenon DEF ProcInv, Survives, Journalled, Loading, Open, Base
<1>9. Known(p)'
    BY ZenonT(40) DEF ProcInv, Known, Base
<1>10. Placed(p)'
    BY ZenonT(40) DEF ProcInv, Placed, FitsNow, Target, Open, Base
<1>11. Complete(p)'
    BY Zenon DEF ProcInv, Complete, CoversNow, Loading, Open, Base
<1> QED
    BY <1>2, <1>4, <1>5, <1>6, <1>7, <1>8, <1>9, <1>10, <1>11, OneMoves, ZenonT(40) DEF ProcInv

\* A refused one ends the live position.
LEMMA LiveRefusedKeeps ==
    ASSUME IInv, NEW p \in Proc, AskLive(p), ~live'[p].on
    PROVE  IInv'
<1>0. Shapes /\ Shared /\ ProcInv(p) /\ Typed(p) /\ Base(p)
    BY Start, Zenon
<1> USE <1>0
<1>a. /\ Installed(p) /\ ~journal[p].open /\ authoritative[p] /\ ~live[p].on
      /\ liveGen' = [liveGen EXCEPT ![p] = NoGen] /\ UNCHANGED live
      /\ UNCHANGED <<serverVars, diskVars, lock, loadVars, keys, authoritative, journal, useVars>>
    <2>1. live' # [live EXCEPT ![p] = [on |-> TRUE, keys |-> Since(liveGen[p].seq), gen |-> Here]]
        BY DEF Shapes
    <2> QED
        BY <2>1, Zenon DEF AskLive
<1>b. ~Open(p)
    BY <1>a, Zenon DEF ProcInv, Loading
<1>1. /\ Installed(p) /\ ~Open(p) /\ authoritative[p] /\ ~live[p].on
      /\ liveGen'[p] = NoGen /\ pc'[p] = pc[p] /\ disk'[p] = disk[p] /\ reply'[p] = reply[p]
      /\ res'[p] = res[p] /\ after'[p] = after[p] /\ keys'[p] = keys[p]
      /\ authoritative'[p] = authoritative[p] /\ journal'[p] = journal[p]
      /\ live'[p] = live[p] /\ up'[p] = up[p] /\ missed'[p] = missed[p]
      /\ dropped'[p] = dropped[p]
    BY <1>a, <1>b, Zenon DEF loadVars, useVars, Shapes
<1>2. Shapes'
    BY <1>a, Empties, Zenon DEF loadVars, useVars, Shapes
<1>3. SameServer /\ Shared'
    BY <1>a, <1>b, SharedStays, Zenon DEF serverVars, diskVars, loadVars, useVars, SameServer
<1>4. \A q \in Proc \ {p} : Same(q)
    BY <1>a, <1>b, Zenon DEF serverVars, diskVars, loadVars, useVars, Shapes, Same
<1> USE <1>1, <1>3 DEF SameServer
<1>5. Past(p)'
    BY Zenon DEF ProcInv, Past, Base
<1>6. Loading(p)'
    BY Zenon DEF ProcInv, Loading, Open, Installed, Base
<1>7. Journalled(p)'
    BY Zenon DEF ProcInv, Journalled, Loading, Open, Base
<1>8. Survives(p)'
    BY Zenon DEF ProcInv, Survives, Journalled, Loading, Open, Base
<1>9. Known(p)'
    BY Zenon DEF ProcInv, Known, Base
<1>10. Placed(p)'
    BY Zenon DEF ProcInv, Placed, FitsNow, Target, Open, Base
<1>11. Complete(p)'
    BY Zenon DEF ProcInv, Complete, CoversNow, Loading, Open, Base
<1> QED
    BY <1>2, <1>4, <1>5, <1>6, <1>7, <1>8, <1>9, <1>10, <1>11, OneMoves, Zenon DEF ProcInv

\* A live delta is added to the set the process has by then.
LEMMA ApplyLiveKeeps ==
    ASSUME IInv, NEW p \in Proc, ApplyLive(p)
    PROVE  IInv'
<1>0. Shapes /\ Shared /\ ProcInv(p) /\ Typed(p) /\ Base(p)
    BY Start, Zenon
<1> USE <1>0
<1>1. /\ live[p].on
      /\ keys'[p] = keys[p] \cup live[p].keys /\ liveGen'[p] = live[p].gen /\ ~live'[p].on
      /\ live'[p].keys = {} /\ live'[p].gen = NoGen
      /\ dropped'[p] = dropped[p] \ live[p].keys /\ pc'[p] = pc[p] /\ disk'[p] = disk[p]
      /\ reply'[p] = reply[p] /\ res'[p] = res[p] /\ after'[p] = after[p]
      /\ authoritative'[p] = authoritative[p] /\ journal'[p] = journal[p] /\ up'[p] = up[p]
      /\ missed'[p] = missed[p]
    BY Empties, Zenon DEF ApplyLive, serverVars, diskVars, loadVars, Shapes, Typed
<1>2. Shapes'
    BY Empties, Zenon DEF ApplyLive, serverVars, diskVars, loadVars, Shapes, Steps, Typed
<1>3. SameServer /\ Shared'
    BY SharedStays, Zenon DEF ApplyLive, serverVars, diskVars, loadVars, SameServer
<1>4. \A q \in Proc \ {p} : Same(q)
    BY Zenon DEF ApplyLive, serverVars, diskVars, loadVars, Shapes, Same
<1> USE <1>1, <1>3 DEF SameServer
<1>5. Past(p)'
    BY Zenon DEF ProcInv, Past, Base
<1>6. Loading(p)'
    BY Zenon DEF ProcInv, Loading, Open, Installed, Base
<1>7. Journalled(p)'
    BY Zenon DEF ProcInv, Journalled, Loading, Open, Base
<1>8. Survives(p)'
    BY Zenon DEF ProcInv, Survives, Journalled, Loading, Open, Base
<1>9. Known(p)'
    BY ZenonT(40) DEF ProcInv, Known, Base
<1>10. Placed(p)'
    BY Zenon DEF ProcInv, Placed, FitsNow, Target, Loading, Open, Base
<1>11. Complete(p)'
    <2>1. keys[p] \cup dropped[p] \cup live[p].keys \subseteq keys'[p] \cup dropped'[p]
        BY Zenon
    <2> QED
        BY <2>1, CoversMore, Zenon DEF ProcInv, Complete, CoversNow
<1> QED
    BY <1>2, <1>4, <1>5, <1>6, <1>7, <1>8, <1>9, <1>10, <1>11, OneMoves, ZenonT(40) DEF ProcInv

----------------------------------------------------------------------------
\* The invariant holds of every reachable state.
THEOREM ClientInvariant == Spec => []IInv
<1>1. Init => IInv
    BY InitHolds, Zenon
<1>2. IInv /\ [Next]_vars => IInv'
    <2> SUFFICES ASSUME IInv, [Next]_vars PROVE IInv'
        BY Zenon
    <2>1. CASE \E k \in Key : ServerStore(k) \/ ServerRemove(k)
        BY <2>1, ServerKeeps, Zenon
    <2>2. ASSUME NEW p \in Proc, LoadStep(p) \/ Exit(p) PROVE IInv'
        <3>1. Shapes /\ Typed(p) /\ Base(p) /\ res[p] \in ResT
            BY Start, Zenon DEF Shapes
        <3>2. StartIndexLoad(p) \/ AskDelta(p) \/ ApplyDelta(p) => IInv'
            BY StartAuthoritativeKeeps, StartLoadKeeps, DeltaComesKeeps, DeltaRefusedKeeps,
               DeltaUnwrittenKeeps, DeltaWrittenKeeps, Zenon
        <3>3. WriteIndexGen(p) \/ LockCopy(p) => IInv'
            BY <3>1, GenWrittenLastKeeps, GenWrittenFirstKeeps, LockTakenKeeps,
               LockRefusedKeeps, Zenon DEF Base
        <3>4. AdoptIndex(p) => IInv'
            BY <3>1, AdoptNothingKeeps, AdoptSameKeeps, AdoptNewKeeps, Zenon DEF ResT
        <3> QED
            BY <2>2, <3>2, <3>3, <3>4, StatCopyKeeps, ReadCopyKeeps, DeltaFailsKeeps,
               TouchCopyKeeps, WriteIndexBlobKeeps, ReadAgainKeeps, TakeRefreshedKeeps,
               AskIndexKeeps, FetchFailsKeeps, ExitKeeps, ZenonT(40) DEF LoadStep
    <2>3. ASSUME NEW p \in Builder, UseStep(p) PROVE IInv'
        <3>1. p \in Proc
            BY ClientAssumption, Zenon
        <3>2. AskLive(p) => IInv'
            BY <3>1, LiveComesKeeps, LiveRefusedKeeps, Zenon
        <3>3. \A k \in Used : k \in Key
            BY ClientAssumption, Zenon
        <3> QED
            BY <2>3, <3>1, <3>2, <3>3, ClaimKeeps, LandKeeps, UploadConfirmedKeeps,
               UploadFailsKeeps, AskAbsentKeeps, ReclaimAbsentKeeps, ApplyLiveKeeps, ZenonT(40)
               DEF UseStep
    <2>4. CASE UNCHANGED vars
        <3>1. SameServer /\ Shapes' /\ Shared' /\ \A q \in Proc : Same(q)
            BY <2>4, SharedStays, Zenon DEF vars, serverVars, diskVars, loadVars, keysVars,
               useVars, IInv, SameServer, Shapes, Same
        <3> QED
            BY <3>1, Others, Zenon DEF IInv
    <2> QED
        BY <2>1, <2>2, <2>3, <2>4, Zenon DEF Next
<1> QED
    BY <1>1, <1>2, PTL DEF Spec

\* No claim and no drop is lost to a load or a delta asked for before it
\* (adoptIndex, applyDelta).
THEOREM NoChangeLost == Spec => []ChangesSurvive
<1>1. IInv => ChangesSurvive
    BY Zenon DEF IInv, ProcInv, Survives, ChangesSurvive
<1> QED
    BY <1>1, ClientInvariant, PTL

\* No key is in a set, or in the copy, that nobody uploaded (mergeIndexBlob,
\* writeIndexBlob, enqueuePut).
THEOREM NoKeyInvented == Spec => []NoPhantomKey
<1>1. IInv => NoPhantomKey
    BY Zenon DEF IInv, Shapes, Shared, ProcInv, Known, NoPhantomKey
<1> QED
    BY <1>1, ClientInvariant, PTL

\* A position that readIndexGen accepts is one of the copy beside it, though
\* the two files are written one after the other without a common lock.
THEOREM PositionsFit == Spec => []PositionFitsCopy
<1>1. IInv => PositionFitsCopy
    BY Zenon DEF IInv, Shared, FitsNow, FitsTo, After, PositionFitsCopy, ReadIndexGen, Fits,
       Since, NoGen
<1> QED
    BY <1>1, ClientInvariant, PTL

\* A complete set with a position misses nothing the next live delta does not
\* name (refreshLiveDelta).
THEOREM LiveSetsComplete == Spec => []LiveSetComplete
<1>1. IInv => LiveSetComplete
    BY Zenon DEF IInv, ProcInv, Loading, Complete, CoversNow, Covers, After, LiveSetComplete,
       Since
<1> QED
    BY <1>1, ClientInvariant, PTL
=============================================================================
