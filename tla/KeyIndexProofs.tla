--------------------------- MODULE KeyIndexProofs ---------------------------
(***************************************************************************)
(* Proofs about KeyIndex for every set of keys, forms and clients and for  *)
(* every length of the add log.                                            *)
(***************************************************************************)
EXTENDS KeyIndex, SequenceTheorems, TLAPS

(***************************************************************************)
(* The inductive invariant.  Whatever a blob or a copy says about an older *)
(* epoch is of no interest, because its position is refused; so the log    *)
(* equations are stated for the current epoch, and Past says that a new    *)
(* epoch is new.  Fresh is why a cached blob that BlobGenForm hands out is *)
(* of the current epoch: ending an epoch ages every blob and counts a      *)
(* mutation.                                                               *)
(***************************************************************************)
Past ==
    /\ \A f \in DOMAIN forms : forms[f].epoch <= addEpoch
    /\ \A c \in Client : copies[c].epoch <= addEpoch

Fresh ==
    \A f \in DOMAIN forms :
        /\ forms[f].mutation <= mutations
        /\ forms[f].epoch # addEpoch => ~forms[f].young /\ forms[f].mutation < mutations
        /\ forms[f].mutation = mutations /\ forms[f].epoch = addEpoch
              => forms[f].blob = Names(f, Advertised)

IInv == TypeOK /\ LogIsAdvertised /\ BlobPlusLog /\ CopyPlusLog /\ Past /\ Fresh

\* The log equation of one blob or copy with names N at position seq.
UpTo(f, N, seq) ==
    seq <= Len(added) /\ N \cup Names(f, Since(seq)) = Names(f, Advertised)

----------------------------------------------------------------------------
\* Nothing was added after the end of the log.
LEMMA SinceEnd == ASSUME added \in Seq(ActionKey) PROVE Since(Len(added)) = {}
BY DEF Since

\* Appending to the log adds one hash to what every position lacks.
LEMMA SinceAppend ==
    ASSUME added \in Seq(ActionKey), NEW h \in ActionKey, added' = Append(added, h),
           NEW seq \in Nat, seq <= Len(added)
    PROVE  Since(seq)' = Since(seq) \cup {h} /\ Len(added)' = Len(added) + 1
<1>1. /\ Len(added') = Len(added) + 1
      /\ \A i \in 1..Len(added) : added'[i] = added[i]
      /\ added'[Len(added) + 1] = h
  BY AppendProperties
<1>2. Since(seq)' = {added'[i] : i \in seq + 1..Len(added) + 1}
  BY <1>1 DEF Since
<1>3. seq + 1..Len(added) + 1 = (seq + 1..Len(added)) \cup {Len(added) + 1}
  OBVIOUS
<1>4. \A i \in seq + 1..Len(added) : added'[i] = added[i]
  BY <1>1
<1> QED
  BY <1>1, <1>2, <1>3, <1>4 DEF Since

\* A form writes the names of a union as the union of the names.
LEMMA NamesUnion ==
    ASSUME NEW f, NEW S, NEW T PROVE Names(f, S \cup T) = Names(f, S) \cup Names(f, T)
BY DEF Names

\* A serialization writes names.
LEMMA NamesType ==
    ASSUME NEW f \in Form, NEW S \in SUBSET ActionKey PROVE Names(f, S) \in SUBSET Name
BY IndexAssumption DEF Names

\* Putting a hash in the log and in the advertised set keeps a log equation.
LEMMA UpToAppend ==
    ASSUME TypeOK, NEW h \in ActionKey, added' = Append(added, h),
           Advertised' = Advertised \cup {h},
           NEW f, NEW N, NEW seq \in Nat, UpTo(f, N, seq)
    PROVE  UpTo(f, N, seq)'
<1>1. added \in Seq(ActionKey) /\ seq <= Len(added) /\ Len(added) \in Nat
  BY DEF TypeOK, UpTo
<1>2. Since(seq)' = Since(seq) \cup {h} /\ Len(added)' = Len(added) + 1
  BY <1>1, SinceAppend
<1>3. Names(f, Since(seq))' = Names(f, Since(seq)) \cup Names(f, {h})
  BY <1>2, NamesUnion DEF Names
<1>4. Names(f, Advertised)' = Names(f, Advertised) \cup Names(f, {h})
  BY NamesUnion DEF Names
<1>5. N \cup Names(f, Since(seq)) = Names(f, Advertised)
  BY DEF UpTo
<1>6. (N \cup Names(f, Since(seq)) = Names(f, Advertised))'
  BY Zenon, <1>3, <1>4, <1>5
<1>7. (seq <= Len(added))'
  BY <1>1, <1>2
<1> QED
  BY Zenon, <1>6, <1>7 DEF UpTo

----------------------------------------------------------------------------
\* A step that ends the epoch leaves nothing that claims the new one.
LEMMA NewEpoch ==
    ASSUME IInv, TypeOK', addEpoch' = addEpoch + 1, copies' = copies,
           Range(added') \subseteq Advertised',
           DOMAIN forms' \subseteq DOMAIN forms,
           \A f \in DOMAIN forms' :
               /\ forms'[f].epoch = forms[f].epoch /\ ~forms'[f].young
               /\ forms'[f].mutation = forms[f].mutation /\ mutations < mutations'
    PROVE  IInv'
<1> USE DEF IInv
<1>1. addEpoch \in Nat /\ mutations \in Nat /\ mutations' \in Nat
  BY DEF TypeOK
<1>2. \A f \in DOMAIN forms' : /\ forms'[f].epoch \in Nat /\ forms'[f].mutation \in Nat
                               /\ forms'[f].epoch <= addEpoch
                               /\ forms'[f].mutation <= mutations
  BY DEF TypeOK, Cache, Past, Fresh
<1>3. \A c \in Client : copies'[c].epoch \in Nat /\ copies'[c].epoch <= addEpoch
  BY DEF TypeOK, Copy, Past
<1>4. LogIsAdvertised'
  BY DEF LogIsAdvertised
<1>5. BlobPlusLog'
  BY <1>1, <1>2 DEF BlobPlusLog
<1>6. CopyPlusLog'
  BY <1>1, <1>3 DEF CopyPlusLog
<1>7. Past'
  BY <1>1, <1>2, <1>3 DEF Past
<1>8. Fresh'
  BY <1>1, <1>2 DEF Fresh
<1> QED
  BY <1>4, <1>5, <1>6, <1>7, <1>8

\* A step that keeps the log and the advertised set keeps every equation.
LEMMA SameLog ==
    ASSUME IInv, TypeOK', UNCHANGED <<addEpoch, added, mutations, copies>>,
           Advertised' = Advertised, DOMAIN forms' = DOMAIN forms,
           \A f \in DOMAIN forms :
               /\ forms'[f].blob = forms[f].blob /\ forms'[f].epoch = forms[f].epoch
               /\ forms'[f].seq = forms[f].seq /\ forms'[f].mutation = forms[f].mutation
               /\ forms'[f].young => forms[f].young
    PROVE  IInv'
<1> USE DEF IInv
<1>1. LogIsAdvertised'
  BY DEF LogIsAdvertised
<1>2. \A f, seq : Names(f, Since(seq))' = Names(f, Since(seq))
  BY DEF Names, Since
<1>3. \A f : Names(f, Advertised)' = Names(f, Advertised)
  BY DEF Names
<1>4. BlobPlusLog'
  BY <1>2, <1>3 DEF BlobPlusLog
<1>5. CopyPlusLog'
  BY <1>2, <1>3 DEF CopyPlusLog
<1>6. Past' /\ Fresh'
  BY <1>3 DEF Past, Fresh
<1> QED
  BY <1>1, <1>4, <1>5, <1>6

\* Ageing the cached blobs changes nothing else of them.
LEMMA AgedBlobs ==
    ASSUME TypeOK
    PROVE  /\ DOMAIN Aged(forms) = DOMAIN forms
           /\ Aged(forms) \in [DOMAIN forms -> Cache]
           /\ \A f \in DOMAIN forms :
                 /\ Aged(forms)[f].epoch = forms[f].epoch /\ ~Aged(forms)[f].young
                 /\ Aged(forms)[f].mutation = forms[f].mutation
BY ZenonT(30) DEF TypeOK, Aged, Cache

\* resetAddLogLocked after a change of the lists.
LEMMA ResetStep ==
    ASSUME IInv, NEW log \in Seq(ActionKey), NEW more \in Nat,
           ResetAddLog(log, more, forms) \/ ResetAddLog(log, more, NoForms),
           copies' = copies,
           entries' \in [Key -> Nat], pendingEntries' \in [Key -> Nat],
           hashes' \in SUBSET ActionKey, pending' \in SUBSET ActionKey,
           Range(log) \subseteq Advertised'
    PROVE  IInv'
<1>0. /\ TypeOK /\ mutations \in Nat /\ addEpoch \in Nat /\ addEpoch' = addEpoch + 1
      /\ added' = log /\ mutations' = mutations + 1 + more
  BY SMTT(30) DEF IInv, TypeOK, ResetAddLog
<1>1. CASE forms' = Aged(forms)
  <2>1. TypeOK'
    BY SMTT(40), <1>0, <1>1, AgedBlobs DEF TypeOK
  <2>2. mutations < mutations'
    BY <1>0
  <2> QED
    BY <1>0, <1>1, <2>1, <2>2, AgedBlobs, NewEpoch
<1>2. CASE forms' = Aged(NoForms)
  <2>1. DOMAIN forms' = {} /\ forms' \in [DOMAIN forms' -> Cache]
    BY <1>2 DEF Aged, NoForms
  <2>2. TypeOK'
    BY SMTT(30), <1>0, <2>1 DEF TypeOK
  <2> QED
    BY <1>0, <2>1, <2>2, NewEpoch
<1> QED
  BY <1>1, <1>2 DEF ResetAddLog

----------------------------------------------------------------------------
(* One lemma per operation.                                                 *)

\* Put keeps the invariant: the hash enters the log and the advertised set.
LEMMA PutStep ==
    ASSUME IInv, NEW k \in Key, Put(k), copies' = copies PROVE IInv'
<1>0. TypeOK /\ entries' \in [Key -> Nat] /\ pendingEntries' \in [Key -> Nat]
      /\ UNCHANGED <<entries, hashes>>
  BY DEF IInv, TypeOK, Put
<1>1. CASE k \notin ActionKey
  <2>1. UNCHANGED <<pending, hashes, mutations, forms, addEpoch, added>>
    BY <1>1 DEF Put, logVars
  <2>2. TypeOK'
    BY <1>0, <2>1 DEF TypeOK
  <2> QED
    BY <2>1, <2>2, SameLog DEF Advertised
<1>2. CASE k \in ActionKey
  <2>1. pending' = pending \cup {k} /\ hashes' = hashes /\ AppendAdd(k)
        /\ Advertised' = Advertised \cup {k}
    BY <1>2 DEF Put, Advertised
  <2>2. pending' \in SUBSET ActionKey /\ hashes' \in SUBSET ActionKey
    BY <1>0, <1>2, <2>1 DEF TypeOK
  <2>3. CASE ResetAddLog(<<k>>, 1, forms)
    <3>1. <<k>> \in Seq(ActionKey) /\ Range(<<k>>) \subseteq Advertised'
      BY <1>2, <2>1 DEF Range
    <3> QED
      BY Zenon, <1>0, <2>2, <2>3, <3>1, ResetStep
  <2>4. CASE /\ added' = Append(added, k) /\ mutations' = mutations + 1
             /\ UNCHANGED <<addEpoch, forms>>
    <3>1. TypeOK'
      BY SMTT(30), <1>0, <1>2, <2>2, <2>4 DEF TypeOK
    <3>2. LogIsAdvertised'
      <4>1. Range(added') = Range(added) \cup {k}
        <5>1. /\ added \in Seq(ActionKey) /\ Len(added') = Len(added) + 1
              /\ \A i \in 1..Len(added) : added'[i] = added[i]
              /\ added'[Len(added) + 1] = k /\ added' \in Seq(ActionKey)
          BY <1>0, <1>2, <2>4, AppendProperties DEF TypeOK
        <5>2. DOMAIN added = 1..Len(added) /\ DOMAIN added' = 1..Len(added) + 1
          BY <5>1
        <5>3. DOMAIN added' = DOMAIN added \cup {Len(added) + 1}
          BY <5>1, <5>2
        <5> QED
          BY <5>1, <5>2, <5>3 DEF Range
      <4> QED
        BY <2>1, <4>1 DEF LogIsAdvertised, IInv
    <3>3. BlobPlusLog'
      <4> SUFFICES ASSUME NEW f \in DOMAIN forms, forms[f].epoch = addEpoch
                   PROVE  UpTo(f, forms[f].blob, forms[f].seq)'
        BY <2>4 DEF BlobPlusLog, UpTo
      <4>1. PICK N, seq : N = forms[f].blob /\ seq = forms[f].seq
        OBVIOUS
      <4>2. seq \in Nat /\ UpTo(f, N, seq)
        BY <1>0, <4>1 DEF TypeOK, Cache, IInv, BlobPlusLog, UpTo
      <4>3. UpTo(f, N, seq)'
        BY <1>0, <1>2, <2>1, <2>4, <4>2, UpToAppend
      <4> QED
        BY <2>4, <4>1, <4>3
    <3>4. CopyPlusLog'
      <4> SUFFICES ASSUME NEW c \in Client, copies[c].epoch = addEpoch
                   PROVE  UpTo(copies[c].form, copies[c].known, copies[c].seq)'
        BY <2>4 DEF CopyPlusLog, UpTo
      <4>1. PICK f, N, seq : f = copies[c].form /\ N = copies[c].known /\ seq = copies[c].seq
        OBVIOUS
      <4>2. seq \in Nat /\ UpTo(f, N, seq)
        BY <1>0, <4>1 DEF TypeOK, Copy, IInv, CopyPlusLog, UpTo
      <4>3. UpTo(f, N, seq)'
        BY <1>0, <1>2, <2>1, <2>4, <4>2, UpToAppend
      <4> QED
        BY <4>1, <4>3
    <3>5. Past' /\ Fresh'
      <4>1. mutations \in Nat /\ \A f \in DOMAIN forms : forms[f].mutation \in Nat
        BY <1>0 DEF TypeOK, Cache
      <4> QED
        BY <2>4, <4>1 DEF IInv, Past, Fresh
    <3> QED
      BY <3>1, <3>2, <3>3, <3>4, <3>5 DEF IInv
  <2> QED
    BY <2>1, <2>3, <2>4 DEF AppendAdd
<1> QED
  BY <1>1, <1>2

\* Draining adds the pending entries to the sorted ones.
LEMMA DrainedType == ASSUME TypeOK PROVE Drained \in [Key -> Nat] /\ NoEntries \in [Key -> Nat]
BY DEF TypeOK, Drained, NoEntries

\* Remove and RemoveKeys end the epoch, or touch no hash.
LEMMA RemoveStep ==
    ASSUME IInv, copies' = copies,
           (\E k \in Key : Remove(k)) \/ (\E K \in SUBSET Key : RemoveKeys(K))
    PROVE  IInv'
<1>0. TypeOK
  BY DEF IInv
<1>1. entries' \in [Key -> Nat] /\ pendingEntries' \in [Key -> Nat]
  <2>1. ASSUME NEW k \in Key, Remove(k) PROVE entries' \in [Key -> Nat]
    <3>1. PICK d \in [Key -> Nat] : d = Drained
      BY <1>0, DrainedType
    <3>2. entries' = [d EXCEPT ![k] = IF d[k] = 0 THEN 0 ELSE d[k] - 1]
      BY <2>1, <3>1 DEF Remove
    <3> QED
      BY <3>1, <3>2
  <2>2. ASSUME NEW K \in SUBSET Key, RemoveKeys(K) PROVE entries' \in [Key -> Nat]
    BY <1>0, <2>2, DrainedType DEF RemoveKeys
  <2> QED
    BY <1>0, <2>1, <2>2, DrainedType DEF Remove, RemoveKeys
<1>2. /\ hashes' \in SUBSET ActionKey /\ pending' \in SUBSET ActionKey
      /\ \/ ResetAddLog(<<>>, 0, forms)
         \/ UNCHANGED <<pending, hashes, mutations, forms, addEpoch, added>>
  BY <1>0 DEF TypeOK, Remove, RemoveKeys, logVars
<1>3. CASE ResetAddLog(<<>>, 0, forms)
  <2>1. <<>> \in Seq(ActionKey) /\ Range(<<>>) \subseteq Advertised' /\ 0 \in Nat
    BY DEF Range
  <2> QED
    BY Zenon, <1>1, <1>2, <1>3, <2>1, ResetStep
<1>4. CASE UNCHANGED <<pending, hashes, mutations, forms, addEpoch, added>>
  <2>1. TypeOK'
    BY <1>0, <1>1, <1>4 DEF TypeOK
  <2> QED
    BY <1>4, <2>1, SameLog DEF Advertised
<1> QED
  BY <1>2, <1>3, <1>4

\* The mtime list a walk builds is a list.
LEMMA ListedType == ASSUME NEW S PROVE Listed(S) \in [Key -> Nat]
BY DEF Listed

\* A rebuild or a restart ends the epoch and drops the cached blobs.
LEMMA RebuildStep ==
    ASSUME IInv, copies' = copies, NEW K \in SUBSET Key, ApplyRebuild(K) \/ Restart(K)
    PROVE  IInv'
<1>0. TypeOK /\ entries' \in [Key -> Nat]
  BY ListedType DEF IInv, ApplyRebuild, Restart
<1>1. <<>> \in Seq(ActionKey) /\ Range(<<>>) \subseteq Advertised' /\ 0 \in Nat
  BY DEF Range
<1>2. CASE ApplyRebuild(K)
  <2>1. /\ ResetAddLog(<<>>, 0, NoForms)
        /\ pendingEntries' \in [Key -> Nat] /\ pending' \in SUBSET ActionKey
        /\ hashes' \in SUBSET ActionKey
    BY <1>0, <1>2 DEF ApplyRebuild, TypeOK
  <2> QED
    BY Zenon, <1>0, <1>1, <2>1, ResetStep
<1>3. CASE Restart(K)
  <2>1. DOMAIN forms' = {} /\ forms' \in [DOMAIN forms' -> Cache]
    BY <1>3 DEF Restart, NoForms
  <2>2. TypeOK' /\ addEpoch' = addEpoch + 1
    BY <1>0, <1>1, <1>3, <2>1, DrainedType DEF Restart, TypeOK
  <2> QED
    BY <1>1, <1>3, <2>1, <2>2, NewEpoch DEF Restart
<1> QED
  BY <1>2, <1>3

\* Draining the entries and the passing of the blob interval keep the log.
LEMMA QuietStep ==
    ASSUME IInv, copies' = copies, NearbyKeys \/ \E f \in Form : Age(f)
    PROVE  IInv'
<1>0. TypeOK
  BY DEF IInv
<1>1. CASE NearbyKeys
  <2>1. UNCHANGED <<pending, hashes, mutations, forms, addEpoch, added>>
    BY <1>1 DEF NearbyKeys, logVars
  <2>2. TypeOK'
    BY Zenon, <1>0, <1>1, <2>1, DrainedType DEF NearbyKeys, TypeOK
  <2> QED
    BY <2>1, <2>2, SameLog DEF Advertised
<1>2. ASSUME NEW f \in Form, Age(f) PROVE IInv'
  <2>1. /\ UNCHANGED <<entries, pendingEntries, pending, hashes, mutations, addEpoch, added>>
        /\ f \in DOMAIN forms /\ forms' = [forms EXCEPT ![f].young = FALSE]
    BY <1>2 DEF Age, listVars
  <2>2. DOMAIN forms' = DOMAIN forms /\ forms' \in [DOMAIN forms -> Cache]
    BY ZenonT(30), <1>0, <2>1 DEF TypeOK, Cache
  <2>3. TypeOK'
    BY <1>0, <2>1, <2>2 DEF TypeOK
  <2>4. \A g \in DOMAIN forms :
           /\ forms'[g].blob = forms[g].blob /\ forms'[g].epoch = forms[g].epoch
           /\ forms'[g].seq = forms[g].seq /\ forms'[g].mutation = forms[g].mutation
           /\ forms'[g].young => forms[g].young
    BY <1>0, <2>1 DEF TypeOK, Cache
  <2> QED
    BY <2>1, <2>2, <2>3, <2>4, SameLog DEF Advertised
<1> QED
  BY <1>1, <1>2

\* What BlobGenForm hands out is of the current epoch and complete up to the
\* position it names, whether it was cached or built.
LEMMA BlobFacts ==
    ASSUME IInv, NEW f \in Form, BlobGenForm(f)
    PROVE  /\ UNCHANGED <<entries, pendingEntries, mutations, addEpoch, added>>
           /\ Advertised' = Advertised
           /\ hashes' \in SUBSET ActionKey /\ pending' \in SUBSET ActionKey
           /\ DOMAIN forms' \subseteq Form /\ forms' \in [DOMAIN forms' -> Cache]
           /\ f \in DOMAIN forms' /\ forms'[f].epoch = addEpoch
           /\ \A g \in DOMAIN forms' :
                 \/ g \in DOMAIN forms /\ forms'[g] = forms[g]
                 \/ g = f /\ forms'[g] = Serialized(f)
           /\ ~(f \in DOMAIN forms /\ forms[f].young)
                 => forms'[f].blob = Names(f, Advertised)
<1>0. TypeOK
  BY DEF IInv
<1>1. CASE Servable(f)
  <2>1. UNCHANGED indexVars
    BY <1>1 DEF BlobGenForm
  <2>2. f \in DOMAIN forms /\ forms[f].epoch = addEpoch
    <3>1. /\ f \in DOMAIN forms /\ forms[f] \in Cache /\ mutations \in Nat
          /\ forms[f].mutation = mutations \/ forms[f].young
      BY <1>0, <1>1 DEF Servable, TypeOK
    <3> QED
      BY <3>1 DEF Cache, IInv, Fresh
  <2>3. ~forms[f].young => forms[f].blob = Names(f, Advertised)
    BY <1>1, <2>2 DEF Servable, IInv, Fresh
  <2>4. UNCHANGED <<entries, pendingEntries, hashes, pending, mutations, forms, addEpoch, added>>
    BY <2>1 DEF indexVars
  <2> QED
    BY <1>0, <2>2, <2>3, <2>4 DEF Advertised, TypeOK
<1>2. CASE ~Servable(f)
  <2>1. /\ hashes' = Advertised /\ pending' = {}
        /\ forms' = [g \in DOMAIN forms \cup {f} |->
                        IF g = f THEN Serialized(f) ELSE forms[g]]
        /\ UNCHANGED <<entries, pendingEntries, mutations, addEpoch, added>>
    BY <1>2 DEF BlobGenForm, listVars
  <2>2. Advertised \in SUBSET ActionKey
    BY <1>0 DEF TypeOK, Advertised
  <2>3. Serialized(f) \in Cache /\ Serialized(f).epoch = addEpoch
        /\ Serialized(f).blob = Names(f, Advertised)
    BY <1>0, <2>2, NamesType DEF Serialized, Cache, TypeOK
  <2>4. DOMAIN forms' = DOMAIN forms \cup {f} /\ forms'[f] = Serialized(f)
        /\ \A g \in DOMAIN forms' : g # f => g \in DOMAIN forms /\ forms'[g] = forms[g]
    BY <2>1
  <2>5. forms' \in [DOMAIN forms' -> Cache] /\ DOMAIN forms' \subseteq Form
    BY <1>0, <2>1, <2>3, <2>4 DEF TypeOK
  <2>6. Advertised' = Advertised
    BY <2>1 DEF Advertised
  <2> QED
    BY <2>1, <2>2, <2>3, <2>4, <2>5, <2>6
<1> QED
  BY <1>1, <1>2

\* A whole fetch keeps the invariant.
LEMMA FetchWholeStep == ASSUME IInv, NEW c \in Client, FetchWhole(c) PROVE IInv'
<1>0. TypeOK /\ copies[c] \in Copy /\ copies[c].form \in Form
  BY DEF IInv, TypeOK, Copy
<1>1. PICK f \in Form : f = copies[c].form
  BY <1>0
<1>2. /\ BlobGenForm(f)
      /\ copies' = [copies EXCEPT ![c] =
             [form |-> f, known |-> forms'[f].blob,
              epoch |-> forms'[f].epoch, seq |-> forms'[f].seq]]
  BY <1>1 DEF FetchWhole
<1>3. /\ UNCHANGED <<entries, pendingEntries, mutations, addEpoch, added>>
      /\ Advertised' = Advertised
      /\ hashes' \in SUBSET ActionKey /\ pending' \in SUBSET ActionKey
      /\ DOMAIN forms' \subseteq Form /\ forms' \in [DOMAIN forms' -> Cache]
      /\ f \in DOMAIN forms' /\ forms'[f].epoch = addEpoch
  BY <1>2, BlobFacts
<1>4. \A g \in DOMAIN forms' :
         \/ g \in DOMAIN forms /\ forms'[g] = forms[g]
         \/ g = f /\ forms'[g] = Serialized(f)
  BY <1>2, BlobFacts
<1>5. TypeOK'
  <2>1. forms'[f] \in Cache
    BY <1>3
  <2>2. [form |-> f, known |-> forms'[f].blob,
         epoch |-> forms'[f].epoch, seq |-> forms'[f].seq] \in Copy
    BY <2>1 DEF Cache, Copy
  <2>3. copies' \in [Client -> Copy]
    BY <1>0, <1>2, <2>2 DEF TypeOK
  <2> QED
    BY <1>0, <1>3, <2>3 DEF TypeOK
<1>6. (\A g, seq : Names(g, Since(seq))' = Names(g, Since(seq)))
      /\ (\A g : Names(g, Advertised)' = Names(g, Advertised))
  BY SMTT(30), <1>3 DEF Names, Since
<1>7. BlobPlusLog'
  <2> SUFFICES ASSUME NEW g \in DOMAIN forms', forms'[g].epoch = addEpoch
               PROVE  /\ forms'[g].seq <= Len(added)
                      /\ forms'[g].blob \cup Names(g, Since(forms'[g].seq)) = Names(g, Advertised)
    BY <1>3, <1>6 DEF BlobPlusLog
  <2>1. CASE g \in DOMAIN forms /\ forms'[g] = forms[g]
    BY <2>1 DEF IInv, BlobPlusLog
  <2>2. CASE g = f /\ forms'[g] = Serialized(f)
    <3>1. Len(added) \in Nat /\ Names(f, Since(Len(added))) = {}
      BY <1>0, SinceEnd DEF TypeOK, Names
    <3>2. forms'[g].blob = Names(g, Advertised) /\ forms'[g].seq = Len(added)
      BY <2>2 DEF Serialized
    <3> QED
      BY <2>2, <3>1, <3>2
  <2> QED
    BY <1>4, <2>1, <2>2
<1>8. CopyPlusLog'
  <2> SUFFICES ASSUME NEW d \in Client, copies'[d].epoch = addEpoch
               PROVE  /\ copies'[d].seq <= Len(added)
                      /\ copies'[d].known \cup Names(copies'[d].form, Since(copies'[d].seq))
                            = Names(copies'[d].form, Advertised)
    BY <1>3, <1>6 DEF CopyPlusLog
  <2>1. CASE d # c
    BY SMTT(30), <1>0, <1>2, <2>1 DEF TypeOK, IInv, CopyPlusLog
  <2>2. CASE d = c
    <3>1. copies'[d].form = f /\ copies'[d].known = forms'[f].blob
          /\ copies'[d].seq = forms'[f].seq
      BY <1>0, <1>2, <2>2 DEF TypeOK
    <3>2. /\ forms'[f].seq <= Len(added)
          /\ forms'[f].blob \cup Names(f, Since(forms'[f].seq)) = Names(f, Advertised)
      BY <1>3, <1>6, <1>7 DEF BlobPlusLog
    <3> QED
      BY <3>1, <3>2
  <2> QED
    BY <2>1, <2>2
<1>9. Past' /\ Fresh'
  <2>1. Serialized(f).epoch = addEpoch /\ Serialized(f).mutation = mutations
        /\ Serialized(f).blob = Names(f, Advertised)
    BY DEF Serialized
  <2>2. addEpoch \in Nat /\ mutations \in Nat
    BY <1>0 DEF TypeOK
  <2>3. Fresh'
    BY SMTT(30), <1>3, <1>4, <1>6, <2>1, <2>2 DEF IInv, Fresh
  <2>4. \A g \in DOMAIN forms' : forms'[g].epoch <= addEpoch
    BY SMTT(30), <1>4, <2>1, <2>2 DEF IInv, Past
  <2>5. \A d \in Client : copies'[d].epoch <= addEpoch
    BY <1>0, <1>2, <1>3, <2>2 DEF IInv, Past, TypeOK
  <2> QED
    BY <1>3, <2>3, <2>4, <2>5 DEF Past
<1> QED
  BY <1>3, <1>5, <1>7, <1>8, <1>9 DEF IInv, LogIsAdvertised

\* A delta brings the copy to the end of the log.
LEMMA FetchDeltaStep == ASSUME IInv, NEW c \in Client, FetchDelta(c) PROVE IInv'
<1>0. TypeOK /\ copies[c] \in Copy /\ UNCHANGED indexVars
  BY DEF IInv, TypeOK, FetchDelta
<1>1. UNCHANGED <<entries, pendingEntries, hashes, pending, mutations, forms, addEpoch, added>>
  BY <1>0 DEF indexVars
<1>2. PICK f, N, seq : f = copies[c].form /\ N = copies[c].known /\ seq = copies[c].seq
  OBVIOUS
<1>3. /\ f \in Form /\ N \in SUBSET Name /\ seq \in Nat /\ copies[c].epoch = addEpoch
      /\ copies' = [copies EXCEPT ![c].known = @ \cup Names(f, Since(seq)),
                                  ![c].seq = Len(added)]
  BY <1>0, <1>2 DEF FetchDelta, DeltaOK, Copy
<1>4. /\ N \cup Names(f, Since(seq)) = Names(f, Advertised)
      /\ Names(f, Since(Len(added))) = {} /\ Len(added) \in Nat
      /\ Names(f, Advertised) \in SUBSET Name
  <2>1. N \cup Names(f, Since(seq)) = Names(f, Advertised)
    BY <1>2, <1>3 DEF IInv, CopyPlusLog
  <2>2. Names(f, Since(Len(added))) = {} /\ Len(added) \in Nat
    BY <1>0, SinceEnd DEF TypeOK, Names
  <2>3. Advertised \in SUBSET ActionKey
    BY <1>0 DEF TypeOK, Advertised
  <2> QED
    BY <1>3, <2>1, <2>2, <2>3, NamesType
<1>5. /\ copies' \in [Client -> Copy]
      /\ copies'[c].form = f /\ copies'[c].known = Names(f, Advertised)
      /\ copies'[c].seq = Len(added) /\ copies'[c].epoch = addEpoch
      /\ \A d \in Client : d # c => copies'[d] = copies[d]
  BY ZenonT(30), <1>0, <1>2, <1>3, <1>4 DEF TypeOK, Copy
<1>6. TypeOK'
  BY <1>0, <1>1, <1>5 DEF TypeOK
<1>7. (\A g, n : Names(g, Since(n))' = Names(g, Since(n)))
      /\ (\A g : Names(g, Advertised)' = Names(g, Advertised))
  BY <1>1 DEF Names, Since, Advertised
<1>8. CopyPlusLog'
  <2> SUFFICES ASSUME NEW d \in Client, copies'[d].epoch = addEpoch
               PROVE  /\ copies'[d].seq <= Len(added)
                      /\ copies'[d].known \cup Names(copies'[d].form, Since(copies'[d].seq))
                            = Names(copies'[d].form, Advertised)
    BY <1>1, <1>7 DEF CopyPlusLog
  <2>1. CASE d # c
    BY <1>5, <2>1 DEF IInv, CopyPlusLog
  <2>2. CASE d = c
    BY <1>4, <1>5, <2>2
  <2> QED
    BY <2>1, <2>2
<1>9. BlobPlusLog' /\ Fresh' /\ LogIsAdvertised'
  <2>1. BlobPlusLog'
    BY <1>1, <1>7, SMTT(30) DEF IInv, BlobPlusLog
  <2>2. Fresh'
    BY <1>1, <1>7 DEF IInv, Fresh
  <2>3. LogIsAdvertised'
    BY <1>1 DEF IInv, LogIsAdvertised, Advertised
  <2> QED
    BY <2>1, <2>2, <2>3
<1>10. Past'
  BY <1>0, <1>1, <1>5 DEF IInv, Past, TypeOK
<1> QED
  BY <1>6, <1>8, <1>9, <1>10 DEF IInv

\* A refused delta leaves the copy without a position.
LEMMA GoneStep == ASSUME IInv, NEW c \in Client, Gone(c) PROVE IInv'
<1>0. TypeOK /\ copies[c] \in Copy /\ UNCHANGED indexVars
  BY DEF IInv, TypeOK, Gone
<1>1. UNCHANGED <<entries, pendingEntries, hashes, pending, mutations, forms, addEpoch, added>>
  BY <1>0 DEF indexVars
<1>2. /\ copies' \in [Client -> Copy] /\ copies'[c].epoch = 0
      /\ \A d \in Client : d # c => copies'[d] = copies[d]
  BY Zenon, <1>0 DEF Gone, TypeOK, Copy
<1>3. TypeOK' /\ addEpoch \in Nat \ {0}
  BY <1>0, <1>1, <1>2, SMTT(30) DEF TypeOK
<1>4. (\A g, n : Names(g, Since(n))' = Names(g, Since(n)))
      /\ (\A g : Names(g, Advertised)' = Names(g, Advertised))
  BY <1>1 DEF Names, Since, Advertised
<1>5. CopyPlusLog'
  BY SMTT(40), <1>1, <1>2, <1>3, <1>4 DEF IInv, CopyPlusLog
<1>6. BlobPlusLog' /\ Fresh' /\ LogIsAdvertised'
  <2>1. BlobPlusLog'
    BY <1>1, <1>4 DEF IInv, BlobPlusLog
  <2>2. Fresh'
    BY <1>1, <1>4 DEF IInv, Fresh
  <2>3. LogIsAdvertised'
    BY <1>1 DEF IInv, LogIsAdvertised, Advertised
  <2> QED
    BY <2>1, <2>2, <2>3
<1>7. Past'
  BY <1>1, <1>2, <1>3 DEF IInv, Past
<1> QED
  BY <1>3, <1>5, <1>6, <1>7 DEF IInv

\* Every step keeps the invariant.
LEMMA IndexInvStep == ASSUME IInv, [Next]_vars PROVE IInv'
<1>1. CASE UNCHANGED vars
  <2>1. TypeOK' /\ Advertised' = Advertised
    BY <1>1 DEF vars, IInv, TypeOK, Advertised
  <2> QED
    BY <1>1, <2>1, SameLog DEF vars
<1>2. CASE IndexStep /\ UNCHANGED copies
  BY <1>2, PutStep, RemoveStep, RebuildStep, QuietStep DEF IndexStep
<1>3. ASSUME NEW c \in Client, FetchWhole(c) \/ FetchDelta(c) \/ Gone(c) PROVE IInv'
  BY SMTT(30), <1>3, FetchWholeStep, FetchDeltaStep, GoneStep
<1> QED
  BY <1>1, <1>2, <1>3 DEF Next

\* The invariant holds when the process starts.
LEMMA IndexStart == ASSUME Init PROVE IInv
<1>1. PICK walk \in SUBSET Key :
        /\ entries = Listed(walk) /\ hashes = walk \cap ActionKey
        /\ pendingEntries = [k \in Key |-> 0] /\ pending = {}
        /\ mutations = 1 /\ forms = NoForms /\ addEpoch = 1 /\ added = <<>>
        /\ \E ask \in [Client -> Form] : copies = [c \in Client |-> NoCopy(ask[c])]
  BY DEF Init
<1>2. DOMAIN forms = {} /\ forms \in [DOMAIN forms -> Cache]
  BY <1>1 DEF NoForms
<1>3. copies \in [Client -> Copy] /\ \A c \in Client : copies[c].epoch = 0
  BY <1>1 DEF NoCopy, Copy
<1>4. TypeOK
  BY <1>1, <1>2, <1>3, ListedType DEF TypeOK
<1>5. Range(<<>>) = {}
  BY DEF Range
<1> QED
  BY <1>1, <1>2, <1>3, <1>4, <1>5
     DEF IInv, LogIsAdvertised, BlobPlusLog, CopyPlusLog, Past, Fresh

\* The inductive invariant.
THEOREM IndexInv == Spec => []IInv
<1>1. Init => IInv
  BY IndexStart
<1>2. IInv /\ [Next]_vars => IInv'
  BY IndexInvStep
<1> QED
  BY <1>1, <1>2, PTL DEF Spec

\* A copy whose position is in the current epoch is one delta away from what
\* the index advertises, for any keys, clients and serializations (BlobGenForm,
\* DeltaForm, resetAddLogLocked).
THEOREM DeltasComplete == Spec => []CopyPlusLog
<1>1. IInv => CopyPlusLog
  BY DEF IInv
<1> QED
  BY <1>1, IndexInv, PTL

\* The state keeps its types, the log names advertised keys only, and a cached
\* blob and the log after it are the advertised set.
THEOREM IndexSafe == Spec => [](TypeOK /\ LogIsAdvertised /\ BlobPlusLog)
<1>1. IInv => TypeOK /\ LogIsAdvertised /\ BlobPlusLog
  BY DEF IInv
<1> QED
  BY <1>1, IndexInv, PTL

\* Every answer of /_index names advertised keys only and is of the current
\* epoch, a cached blob included (blobServableLocked, resetAddLogLocked).
THEOREM AnswersCurrent == Spec => AnswersAreCurrent
<1>1. ASSUME IInv, IInv', [Next]_vars
      PROVE  [\A c \in Client :
                copies'[c] # copies[c] /\ copies'[c].epoch # 0 =>
                   /\ copies'[c].epoch = addEpoch'
                   /\ copies'[c].known \subseteq Names(copies'[c].form, Advertised')]_vars
  <2> SUFFICES ASSUME Next, NEW c \in Client,
                      copies'[c] # copies[c], copies'[c].epoch # 0
               PROVE  /\ copies'[c].epoch = addEpoch'
                      /\ copies'[c].known \subseteq Names(copies'[c].form, Advertised')
    BY SMTT(30), <1>1
  <2>0. TypeOK /\ copies[c] \in Copy
    BY ZenonT(30), <1>1 DEF IInv, TypeOK
  <2>1. PICK d \in Client : FetchWhole(d) \/ FetchDelta(d) \/ Gone(d)
    BY DEF Next
  <2>2. d = c
    BY <2>0, <2>1 DEF FetchWhole, FetchDelta, Gone, TypeOK
  <2>3. copies'[c].epoch = addEpoch'
    <3>1. CASE FetchWhole(c)
      <4>1. PICK f \in Form : f = copies[c].form
        BY <2>0 DEF Copy
      <4>2. BlobGenForm(f) /\ copies'[c].epoch = forms'[f].epoch
        BY <2>0, <3>1, <4>1 DEF FetchWhole, TypeOK
      <4>3. forms'[f].epoch = addEpoch /\ addEpoch' = addEpoch
        BY <1>1, <4>2, BlobFacts
      <4> QED
        BY <4>2, <4>3
    <3>2. CASE FetchDelta(c)
      <4>1. copies[c].epoch = addEpoch /\ addEpoch' = addEpoch
        BY <3>2 DEF FetchDelta, DeltaOK, indexVars
      <4>2. copies'[c].epoch = copies[c].epoch
        BY <2>0, <3>2 DEF FetchDelta, TypeOK, Copy
      <4> QED
        BY <4>1, <4>2
    <3>3. CASE Gone(c)
      BY SMTT(30), <2>0, <3>3 DEF Gone, TypeOK, Copy
    <3> QED
      BY <2>1, <2>2, <3>1, <3>2, <3>3
  <2>4. /\ copies'[c].known \cup (Names(copies[c].form, Since(copies[c].seq)))'
              = (Names(copies[c].form, Advertised))'
    BY <1>1, <2>3, SMTT(30) DEF IInv, CopyPlusLog
  <2>5. (Names(copies[c].form, Advertised))' = Names(copies'[c].form, Advertised')
    BY DEF Names
  <2> QED
    BY <2>3, <2>4, <2>5
<1> QED
  BY <1>1, IndexInv, PTL DEF Spec, AnswersAreCurrent

\* Once the cached blob of its form is old, a whole fetch shows every key put
\* before it (BlobGenForm merges pending before it serializes).
THEOREM OldBlobsRebuilt == Spec => OldBlobsAreRebuilt
<1>1. ASSUME IInv, [Next]_vars
      PROVE  [\A c \in Client : LET f == copies[c].form IN
                FetchWhole(c) /\ ~(f \in DOMAIN forms /\ forms[f].young)
                   => copies'[c].known = Names(f, Advertised')]_vars
  <2> SUFFICES ASSUME NEW c \in Client, FetchWhole(c), NEW f, f = copies[c].form,
                      ~(f \in DOMAIN forms /\ forms[f].young)
               PROVE  copies'[c].known = Names(f, Advertised')
    OBVIOUS
  <2>0. TypeOK /\ f \in Form
    BY <1>1 DEF IInv, TypeOK, Copy
  <2>1. BlobGenForm(f) /\ copies'[c].known = forms'[f].blob
    BY <2>0, SMTT(30) DEF FetchWhole, TypeOK
  <2>2. forms'[f].blob = Names(f, Advertised) /\ Advertised' = Advertised
    BY <1>1, <2>0, <2>1, BlobFacts
  <2> QED
    BY <2>1, <2>2
<1> QED
  BY <1>1, IndexInv, PTL DEF Spec, OldBlobsAreRebuilt

\* Seen through hashes and pending alone the index is the key set that
\* AdvertisedKeys describes: BlobGenForm merges, Remove and RemoveKeys drop,
\* applyRebuild replaces the master list, and nothing else changes either part.
THEOREM IndexIsAKeySet == Spec => ImplementsAdvertisedKeys
<1>1. Init => \E walk \in SUBSET ActionKey : Keys!IndexInit(walk)
  <2> SUFFICES ASSUME Init PROVE \E walk \in SUBSET ActionKey : Keys!IndexInit(walk)
    OBVIOUS
  <2>1. PICK walk \in SUBSET Key : hashes = walk \cap ActionKey /\ pending = {}
    BY Zenon DEF Init
  <2>2. Keys!IndexInit(walk \cap ActionKey)
    BY <2>1 DEF Keys!IndexInit
  <2> QED
    BY <2>2
<1>2. ASSUME TypeOK, [Next]_vars
      PROVE  [Keys!IndexNext]_<<hashes, pending>>
  <2>1. ASSUME NEW k \in Key, Put(k)
        PROVE  [Keys!IndexNext]_<<hashes, pending>>
    <3>1. CASE k \in ActionKey
      BY <2>1, <3>1 DEF Put, Keys!IndexNext, Keys!IndexPut
    <3>2. CASE k \notin ActionKey
      BY <2>1, <3>2 DEF Put
    <3> QED
      BY <3>1, <3>2
  <2>2. ASSUME NEW k \in Key, Remove(k)
        PROVE  [Keys!IndexNext]_<<hashes, pending>>
    <3>1. CASE k \in ActionKey
      <4>1. {k} \in SUBSET ActionKey /\ Keys!IndexRemove({k})
        BY <2>2, <3>1 DEF Remove, Keys!IndexRemove
      <4> QED
        BY <4>1 DEF Keys!IndexNext
    <3>2. CASE k \notin ActionKey
      BY <2>2, <3>2 DEF Remove
    <3> QED
      BY <3>1, <3>2
  <2>3. ASSUME NEW K \in SUBSET Key, RemoveKeys(K)
        PROVE  [Keys!IndexNext]_<<hashes, pending>>
    <3>1. CASE K \cap ActionKey # {}
      <4>1. Keys!IndexRemove(K \cap ActionKey)
        BY <1>2, <2>3, <3>1, SMTT(30) DEF RemoveKeys, Keys!IndexRemove, TypeOK
      <4>2. K \cap ActionKey \in SUBSET ActionKey
        OBVIOUS
      <4> QED
        BY <4>1, <4>2 DEF Keys!IndexNext
    <3>2. CASE K \cap ActionKey = {}
      BY <2>3, <3>2 DEF RemoveKeys
    <3> QED
      BY <3>1, <3>2
  <2>4. ASSUME NEW K \in SUBSET Key, ApplyRebuild(K) \/ Restart(K)
        PROVE  [Keys!IndexNext]_<<hashes, pending>>
    <3>1. /\ K \cap ActionKey \in SUBSET ActionKey
          /\ Keys!IndexRebuild(K \cap ActionKey) \/ Keys!IndexRestart(K \cap ActionKey)
      BY <2>4 DEF ApplyRebuild, Restart, Keys!IndexRebuild, Keys!IndexRestart
    <3> QED
      BY <3>1 DEF Keys!IndexNext
  <2>5. ASSUME NEW f, BlobGenForm(f)
        PROVE  [Keys!IndexNext]_<<hashes, pending>>
    BY <2>5 DEF BlobGenForm, indexVars, Advertised, Keys!IndexNext, Keys!IndexMerge,
                Keys!Advertised
  <2>6. CASE IndexStep
    <3>1. CASE NearbyKeys \/ \E f \in Form : Age(f)
      BY <3>1 DEF NearbyKeys, Age
    <3> QED
      BY <2>1, <2>2, <2>3, <2>4, <2>6, <3>1 DEF IndexStep
  <2>7. ASSUME NEW c \in Client, FetchWhole(c) \/ FetchDelta(c) \/ Gone(c)
        PROVE  [Keys!IndexNext]_<<hashes, pending>>
    BY <2>5, <2>7 DEF FetchWhole, FetchDelta, Gone, indexVars
  <2>8. CASE UNCHANGED vars
    BY <2>8 DEF vars
  <2> QED
    BY <1>2, <2>6, <2>7, <2>8 DEF Next
<1> QED
  BY <1>1, <1>2, IndexSafe, PTL DEF Spec, ImplementsAdvertisedKeys, Keys!IndexSpec
=============================================================================
