---------------------------- MODULE UploadsProofs ---------------------------
(***************************************************************************)
(* Proofs, for any number of objects, workers and uploaders, any           *)
(* capacities, and any crashes.                                            *)
(*                                                                         *)
(* Close forgets nothing because the table keeps what is on its way        *)
(* (Table), no worker returns while the queue holds an object and none is  *)
(* left when the coalescer stops (Pool), so that a drain finds every early *)
(* object attempted (Attempted) and a hand-off finds it in the table       *)
(* (Kept).  A spool outlives its work because a runner removes it only     *)
(* after it has put all it read (Work).                                    *)
(***************************************************************************)
EXTENDS Uploads, FiniteSetTheorems, TLAPS

----------------------------------------------------------------------------
(* Claims, and the steps of the build's process.                            *)

\* An object on its way is owed, and a batch on the wire is of objects that are
\* there, each in one batch.
Table ==
    /\ \A o \in Obj : at[o] # "out" => o \in pending
    /\ \A b \in batches : b \subseteq Obj /\ \A o \in b : at[o] = "wire"
    /\ \A b, c \in batches : b # c => b \cap c = {}

\* What a move does to an object.
LEMMA Moves ==
    ASSUME NEW os, NEW place, Move(os, place)
    PROVE  \A o \in Obj : at'[o] = IF o \in os THEN place ELSE at[o]
    BY Zenon DEF Move

\* The steps outside the process of the build leave it alone.
SpoolStep ==
    \/ \E u \in Runner : RunStep(u) \/ Kill(u)
    \/ SweepTry \/ SweepStart \/ DrainStat \/ DrainStep

\* Uploading, sweeping and draining are other processes (RunUploadSpool, sweepSpools,
\* DrainSpools).
LEMMA SpoolSteps == SpoolStep => UNCHANGED buildVars
<1> SUFFICES ASSUME SpoolStep PROVE UNCHANGED buildVars
    OBVIOUS
<1>1. ASSUME NEW u \in Runner, RunStep(u) PROVE UNCHANGED buildVars
    BY <1>1, Zenon DEF RunStep, TryLock, ReadSpool, Release, RemoveSpool, PutEntry
<1>2. ASSUME NEW u \in Runner, Kill(u) PROVE UNCHANGED buildVars
    BY <1>2, Zenon DEF Kill
<1>3. ASSUME SweepTry \/ SweepStart \/ DrainStat \/ DrainStep PROVE UNCHANGED buildVars
    BY <1>3, Zenon DEF SweepTry, SweepStart, DrainStat, DrainStep, DrainWait, DrainRun
<1> QED
    BY <1>1, <1>2, <1>3, Zenon DEF SpoolStep

\* The steps of the build's process that move nothing.
LEMMA CloseSteps ==
    ASSUME WorkerExit \/ Close \/ CloseStep
    PROVE  UNCHANGED <<at, claims, pending, settled, refused, tried, early, single, handsOff, batches>>
    BY Zenon DEF WorkerExit, Close, CloseStep, StopCoalescer, Closed, HandOff

\* The steps of Next, sorted by the process that takes them.
LEMMA BuildSteps ==
    ASSUME [Next]_vars
    PROVE  \/ \E o \in Obj : Put(o) \/ Submit(o) \/ Take(o) \/ Prepare(o) \/ Enqueue(o)
                             \/ Receive(o) \/ AnswerSingle(o)
           \/ Flush \/ \E batch \in batches : AnswerBatch(batch)
           \/ WorkerExit \/ Close \/ CloseStep
           \/ Leave \/ SpoolStep \/ UNCHANGED vars
    BY Zenon DEF Next, BuildStep, SpoolStep

\* No claim outlives both its upload and its confirmation (settle, failUpload,
\* dropUpload): a later Put skips only what is owed or answered for.
THEOREM ClaimsStand == Spec => []ClaimsAreBacked
<1>1. Init => ClaimsAreBacked
    BY DEF Init, ClaimsAreBacked
<1>2. ASSUME ClaimsAreBacked, [Next]_vars PROVE ClaimsAreBacked'
    <2> USE DEF ClaimsAreBacked
    <2>1. ASSUME NEW o \in Obj, Put(o) PROVE ClaimsAreBacked'
        BY <1>2, <2>1 DEF Put
    <2>2. ASSUME NEW o \in Obj, Submit(o) \/ Prepare(o) \/ Enqueue(o) PROVE ClaimsAreBacked'
        <3>1. \/ UNCHANGED <<claims, pending, settled>>
              \/ DropUpload({o}) /\ UNCHANGED settled
            BY <2>2, Zenon DEF Submit, Prepare, Enqueue
        <3> QED
            BY <1>2, <3>1 DEF DropUpload
    <2>3. ASSUME NEW o \in Obj, Take(o) \/ Receive(o) PROVE ClaimsAreBacked'
        BY <1>2, <2>3, Zenon DEF Take, Receive
    <2>4. ASSUME NEW o \in Obj, AnswerSingle(o) PROVE ClaimsAreBacked'
        BY <1>2, <2>4 DEF AnswerSingle, Settle, FailUpload
    <2>5. CASE Flush
        BY <1>2, <2>5, Zenon DEF Flush
    <2>6. ASSUME NEW batch \in batches, AnswerBatch(batch) PROVE ClaimsAreBacked'
        <3>1. \/ claims' = claims \ batch /\ UNCHANGED <<pending, settled>>
              \/ UNCHANGED <<claims, pending, settled>>
              \/ \E os \in SUBSET batch :
                    /\ pending' = pending \ os /\ settled' = settled \cup os
                    /\ claims' = claims \ (batch \ os)
            <4>1. ASSUME NEW ok \in SUBSET batch, NEW dropped \in SUBSET batch
                  PROVE  ok \cup dropped \in SUBSET batch
                OBVIOUS
            <4> QED
                BY <2>6, <4>1, Zenon DEF AnswerBatch, Settle, FailUpload
        <3> QED
            BY <1>2, <3>1
    <2>7. CASE WorkerExit \/ Close \/ CloseStep
        BY <1>2, <2>7, CloseSteps, Zenon
    <2>8. CASE Leave
        BY <2>8 DEF Leave
    <2>9. CASE SpoolStep \/ UNCHANGED vars
        BY <1>2, <2>9, SpoolSteps, Zenon DEF vars, buildVars
    <2> QED
        BY <1>2, <2>1, <2>2, <2>3, <2>4, <2>5, <2>6, <2>7, <2>8, <2>9, BuildSteps, Zenon
<1> QED
    BY <1>1, <1>2, PTL DEF Spec

----------------------------------------------------------------------------
(* The table of pending uploads.                                           *)

\* A move of objects that are in no batch left, and are owed unless they end.
LEMMA TableKept ==
    ASSUME Table, NEW os \in SUBSET Obj, NEW place, Move(os, place),
           batches' \subseteq batches, \A b \in batches' : b \cap os = {},
           place # "out" => os \subseteq pending', pending \ os \subseteq pending'
    PROVE  Table'
<1>1. \A o \in Obj : at'[o] = IF o \in os THEN place ELSE at[o]
    BY Moves, Zenon
<1>2. \A o \in Obj : at'[o] # "out" => o \in pending'
    BY <1>1, Zenon DEF Table
<1>3. \A b \in batches' : b \subseteq Obj /\ \A o \in b : at'[o] = "wire"
    BY <1>1 DEF Table
<1>4. \A b, c \in batches' : b # c => b \cap c = {}
    BY Zenon DEF Table
<1> QED
    BY <1>2, <1>3, <1>4, Zenon DEF Table

\* A move of one object that is not on the wire.
LEMMA TableKeptOne ==
    ASSUME Table, NEW o \in Obj, NEW place, Move({o}, place), at[o] # "wire", batches' = batches,
           place # "out" => o \in pending', pending \ {o} \subseteq pending'
    PROVE  Table'
<1>1. \A b \in batches' : b \cap {o} = {}
    BY DEF Table
<1>2. {o} \in SUBSET Obj /\ batches' \subseteq batches /\ (place # "out" => {o} \subseteq pending')
    OBVIOUS
<1> QED
    BY <1>1, <1>2, TableKept, Zenon

\* A batch that is sent.
LEMMA TableSent ==
    ASSUME Table, NEW os \in SUBSET Obj, \A o \in os : at[o] \in {"chan", "buf"}, SendAll(os),
           pending' = pending
    PROVE  Table' /\ os \subseteq pending
<1>1. \A o \in Obj : at'[o] = IF o \in os THEN "wire" ELSE at[o]
    BY Moves, Zenon DEF SendAll
<1>2. os \subseteq pending
    <2>1. ASSUME NEW o \in os PROVE o \in pending
        <3>1. o \in Obj /\ at[o] # "out"
            OBVIOUS
        <3> QED
            BY <3>1, Zenon DEF Table
    <2> QED
        BY <2>1
<1>3. \A b \in batches : b \cap os = {} /\ b \subseteq Obj /\ \A o \in b : at[o] = "wire"
    BY DEF Table
<1>4. \A b \in batches' : b \in batches \/ b = os
    BY DEF SendAll
<1>5. \A o \in Obj : at'[o] # "out" => o \in pending'
    BY <1>1, <1>2 DEF Table
<1>6. \A b \in batches' : b \subseteq Obj /\ \A o \in b : at'[o] = "wire"
    <2>1. ASSUME NEW b \in batches PROVE \A o \in b : at'[o] = "wire"
        <3>1. ASSUME NEW o \in b PROVE at'[o] = "wire"
            <4>1. o \in Obj /\ at[o] = "wire" /\ o \notin os
                BY <1>3
            <4> QED
                BY <1>1, <4>1, Zenon
        <3> QED
            BY <3>1
    <2>2. \A o \in os : at'[o] = "wire"
        BY <1>1
    <2> QED
        BY <1>3, <1>4, <2>1, <2>2, Zenon
<1>7. \A b, c \in batches' : b # c => b \cap c = {}
    <2>1. \A b, c \in batches : b # c => b \cap c = {}
        BY Zenon DEF Table
    <2>2. \A b \in batches : os \cap b = {}
        BY <1>3
    <2> QED
        BY <1>3, <1>4, <2>1, <2>2, Zenon
<1> QED
    BY <1>2, <1>5, <1>6, <1>7, Zenon DEF Table

\* What an answered batch does to its objects, and to no other (sendBatchPut).
LEMMA AnswerEffect ==
    ASSUME NEW batch \in batches, AnswerBatch(batch)
    PROVE  \E os \in SUBSET batch, place \in {"out", "bsingle"} :
              /\ Move(batch, place) /\ (place # "out" => os = {})
              /\ batches' = batches \ {batch}
              /\ pending' = pending \ os /\ settled' = settled \cup os
              /\ UNCHANGED <<refused, tried, early, phase, handsOff, exited, spoolVars>>
<1>1. /\ batches' = batches \ {batch}
      /\ UNCHANGED <<refused, tried, early, phase, handsOff, exited, spoolVars>>
    BY Zenon DEF AnswerBatch
<1>2. {} \in SUBSET batch /\ pending \ {} = pending /\ settled \cup {} = settled
    OBVIOUS
<1>3. CASE Move(batch, "out") /\ UNCHANGED <<pending, settled>>
    BY <1>1, <1>2, <1>3, Zenon
<1>4. CASE Move(batch, "bsingle") /\ UNCHANGED <<pending, settled>>
    BY <1>1, <1>2, <1>4, Zenon
<1>5. CASE \E ok \in SUBSET batch, dropped \in SUBSET batch :
               Move(batch, "out") /\ Settle(ok \cup dropped)
    <2>1. PICK ok \in SUBSET batch, dropped \in SUBSET batch :
               Move(batch, "out") /\ Settle(ok \cup dropped)
        BY <1>5, Zenon
    <2>2. ok \cup dropped \in SUBSET batch
        OBVIOUS
    <2> QED
        BY <1>1, <2>1, <2>2, Zenon DEF Settle
<1> QED
    BY <1>3, <1>4, <1>5, Zenon DEF AnswerBatch

\* The objects a step sends in a batch come from the coalescer.
LEMMA SendEffect ==
    ASSUME Flush \/ \E o \in Obj : Receive(o)
    PROVE  /\ UNCHANGED <<claims, pending, settled, refused, early, phase, handsOff, exited, spoolVars>>
           /\ \/ \E os \in SUBSET Obj : (\A o \in os : at[o] \in {"chan", "buf"}) /\ SendAll(os)
              \/ \E o \in Obj : /\ Move({o}, "buf") /\ at[o] = "chan"
                                /\ UNCHANGED <<batches, tried>>
<1>1. UNCHANGED <<claims, pending, settled, refused, early, phase, handsOff, exited, spoolVars>>
    BY Zenon DEF Flush, Receive
<1>2. CASE Flush
    <2>1. In({"buf"}) \in SUBSET Obj /\ \A o \in In({"buf"}) : at[o] \in {"chan", "buf"}
        BY DEF In
    <2> QED
        BY <1>1, <1>2, <2>1, Zenon DEF Flush
<1>3. ASSUME NEW o \in Obj, Receive(o)
      PROVE  \/ \E os \in SUBSET Obj : (\A x \in os : at[x] \in {"chan", "buf"}) /\ SendAll(os)
             \/ Move({o}, "buf") /\ at[o] = "chan" /\ UNCHANGED <<batches, tried>>
    <2>1. /\ at[o] = "chan"
          /\ \/ SendAll(In({"buf"}) \cup {o})
             \/ Move({o}, "buf") /\ UNCHANGED <<batches, tried>>
        BY <1>3, Zenon DEF Receive
    <2>2. /\ In({"buf"}) \cup {o} \in SUBSET Obj
          /\ \A x \in In({"buf"}) \cup {o} : at[x] \in {"chan", "buf"}
        BY <2>1 DEF In
    <2> QED
        BY <2>1, <2>2, Zenon
<1> QED
    BY <1>1, <1>2, <1>3, Zenon

\* The steps of a caller or a worker with one object, by where it goes: on, or
\* out, dropped or left to the spool.
Handles(o) == Submit(o) \/ Take(o) \/ Prepare(o) \/ Enqueue(o)
Handled(o, place) ==
    /\ Move({o}, place)
    /\ \/ UNCHANGED <<claims, pending, refused>> /\ (place = "out" => handsOff)
       \/ DropUpload({o}) /\ place = "out"
    /\ \/ place = "wsingle" /\ tried' = tried \cup {o}
       \/ place # "wsingle" /\ tried' = tried
    /\ \/ early' = early
       \/ place = "jobs" /\ early' = early \cup {o} /\ phase = "open"
    /\ place = "jobs" => at[o] = "submit"

\* Each of Submit, Take, Prepare and Enqueue is one of those moves.
LEMMA HandleEffect ==
    ASSUME NEW o \in Obj, Handles(o)
    PROVE  /\ at[o] \in {"submit", "jobs", "prep", "send"}
           /\ UNCHANGED <<settled, single, phase, handsOff, exited, batches, spoolVars>>
           /\ \E place \in {"out", "jobs", "prep", "send", "wsingle", "chan"} : Handled(o, place)
<1>1. /\ at[o] \in {"submit", "jobs", "prep", "send"}
      /\ UNCHANGED <<settled, single, phase, handsOff, exited, batches, spoolVars>>
    BY Zenon DEF Handles, Submit, Take, Prepare, Enqueue
<1>2. CASE Submit(o)
    <2>1. Handled(o, "jobs") \/ Handled(o, "out")
        BY <1>2, Zenon DEF Submit, Handled
    <2> QED
        BY <1>1, <2>1, Zenon
<1>3. CASE Take(o)
    <2>1. Handled(o, "prep")
        BY <1>3, Zenon DEF Take, Handled
    <2> QED
        BY <1>1, <2>1, Zenon
<1>4. CASE Prepare(o)
    <2>1. Handled(o, "out") \/ Handled(o, "send") \/ Handled(o, "wsingle")
        BY <1>4, Zenon DEF Prepare, Handled, Aborted
    <2> QED
        BY <1>1, <2>1, Zenon
<1>5. CASE Enqueue(o)
    <2>1. Handled(o, "chan") \/ Handled(o, "out")
        BY <1>5, Zenon DEF Enqueue, Handled
    <2> QED
        BY <1>1, <2>1, Zenon
<1> QED
    BY <1>2, <1>3, <1>4, <1>5, Zenon DEF Handles

\* Every step keeps the table.
LEMMA TableStep ==
    ASSUME Table, [Next]_vars
    PROVE  Table'
<1>1. ASSUME NEW o \in Obj, Put(o) PROVE Table'
    <2>1. Move({o}, "submit") /\ at[o] # "wire" /\ batches' = batches /\ pending' = pending \cup {o}
        BY <1>1, Zenon DEF Put
    <2>2. o \in pending' /\ pending \ {o} \subseteq pending'
        BY <2>1
    <2> QED
        BY <2>1, <2>2, TableKeptOne, Zenon
<1>2. ASSUME NEW o \in Obj, Handles(o) PROVE Table'
    <2>1. at[o] # "wire" /\ at[o] # "out" /\ batches' = batches
        BY <1>2, HandleEffect, Zenon
    <2>2. PICK place : Handled(o, place)
        BY <1>2, HandleEffect, Zenon
    <2>3. o \in pending
        BY <2>1, Zenon DEF Table
    <2>4. (place # "out" => o \in pending') /\ pending \ {o} \subseteq pending'
        BY <2>2, <2>3, Zenon DEF Handled, DropUpload
    <2> QED
        BY <2>1, <2>2, <2>4, TableKeptOne, Zenon DEF Handled
<1>3. CASE Flush \/ \E o \in Obj : Receive(o)
    <2>1. pending' = pending
        BY <1>3, SendEffect, Zenon
    <2>2. ASSUME NEW os \in SUBSET Obj, \A o \in os : at[o] \in {"chan", "buf"}, SendAll(os)
          PROVE  Table'
        BY <2>1, <2>2, TableSent, Zenon
    <2>3. ASSUME NEW o \in Obj, Move({o}, "buf"), at[o] = "chan", batches' = batches PROVE Table'
        <3>1. o \in pending'
            BY <2>1, <2>3, Zenon DEF Table
        <3>2. at[o] # "wire" /\ pending \ {o} \subseteq pending'
            BY <2>1, <2>3, Zenon
        <3> QED
            BY <2>3, <3>1, <3>2, TableKeptOne, Zenon
    <2> QED
        BY <1>3, <2>2, <2>3, SendEffect, Zenon
<1>4. ASSUME NEW o \in Obj, AnswerSingle(o) PROVE Table'
    <2>1. /\ Move({o}, "out") /\ at[o] # "wire" /\ batches' = batches
          /\ pending \ {o} \subseteq pending'
        BY <1>4, Zenon DEF AnswerSingle, Settle
    <2> QED
        BY <2>1, TableKeptOne, Zenon
<1>5. ASSUME NEW batch \in batches, AnswerBatch(batch) PROVE Table'
    <2>1. PICK os \in SUBSET batch, place \in {"out", "bsingle"} :
              /\ Move(batch, place) /\ (place # "out" => os = {})
              /\ batches' = batches \ {batch} /\ pending' = pending \ os
        BY <1>5, AnswerEffect, ZenonT(30)
    <2>2. batch \in SUBSET Obj /\ \A o \in batch : o \in Obj /\ at[o] = "wire"
        BY DEF Table
    <2>3. batch \subseteq pending
        BY <2>2, Zenon DEF Table
    <2>4. batches' \subseteq batches /\ \A b \in batches' : b \cap batch = {}
        BY <2>1 DEF Table
    <2>5. (place # "out" => batch \subseteq pending') /\ pending \ batch \subseteq pending'
        BY <2>1, <2>3
    <2> QED
        BY <2>1, <2>2, <2>4, <2>5, TableKept, Zenon
<1>6. CASE WorkerExit \/ Close \/ CloseStep \/ SpoolStep \/ UNCHANGED vars
    <2>1. UNCHANGED <<at, pending, batches>>
        BY <1>6, CloseSteps, SpoolSteps, Zenon DEF vars, buildVars
    <2> QED
        BY <2>1, Zenon DEF Table
<1>7. CASE Leave
    <2>1. batches' = {} /\ \A o \in Obj : at'[o] = "out"
        BY <1>7, Zenon DEF Leave
    <2> QED
        BY <2>1, Zenon DEF Table
<1> QED
    BY <1>1, <1>2, <1>3, <1>4, <1>5, <1>6, <1>7, BuildSteps, Zenon DEF Handles

\* An upload for which a request was made leaves the table only when the server
\* answered for it or it was dropped (failUpload keeps it, settle and
\* dropUpload take it off): what was sent and not answered stays owed.
THEOREM UploadsStayOwed == Spec => []OwedUntilAnswered
<1>1. Init => Table /\ OwedUntilAnswered
    <2>1. Init => Table
        BY Zenon DEF Init, Table
    <2>2. Init => OwedUntilAnswered
        BY DEF Init, OwedUntilAnswered
    <2> QED
        BY <2>1, <2>2
<1>2. ASSUME Table, OwedUntilAnswered, [Next]_vars PROVE OwedUntilAnswered'
    <2>1. ASSUME NEW o \in Obj, Put(o) PROVE OwedUntilAnswered'
        <3>1. pending' = pending \cup {o} /\ UNCHANGED <<settled, refused, tried>>
            BY <2>1, Zenon DEF Put
        <3> QED
            BY <1>2, <3>1 DEF OwedUntilAnswered
    <2>2. ASSUME NEW o \in Obj, Handles(o) PROVE OwedUntilAnswered'
        <3>1. at[o] # "out" /\ settled' = settled
            BY <2>2, HandleEffect, Zenon
        <3>2. PICK place : Handled(o, place)
            BY <2>2, HandleEffect, Zenon
        <3>3. o \in pending
            BY <1>2, <3>1, Zenon DEF Table
        <3>4. /\ tried' \subseteq tried \cup {o}
              /\ \/ UNCHANGED <<pending, refused>>
                 \/ pending' = pending \ {o} /\ refused' = refused \cup {o}
            BY <3>2, Zenon DEF Handled, DropUpload
        <3> QED
            BY <1>2, <3>1, <3>3, <3>4 DEF OwedUntilAnswered
    <2>3. CASE Flush \/ \E o \in Obj : Receive(o)
        <3>1. UNCHANGED <<pending, settled, refused>>
            BY <2>3, SendEffect, Zenon
        <3>2. ASSUME NEW os \in SUBSET Obj, \A o \in os : at[o] \in {"chan", "buf"}, SendAll(os)
              PROVE  OwedUntilAnswered'
            <4>1. os \subseteq pending
                BY <1>2, <3>1, <3>2, TableSent, Zenon
            <4>2. tried' = tried \cup os
                BY <3>2, Zenon DEF SendAll
            <4> QED
                BY <1>2, <3>1, <4>1, <4>2 DEF OwedUntilAnswered
        <3>3. tried' = tried => OwedUntilAnswered'
            BY <1>2, <3>1, Zenon DEF OwedUntilAnswered
        <3> QED
            BY <2>3, <3>2, <3>3, SendEffect, Zenon
    <2>4. ASSUME NEW o \in Obj, AnswerSingle(o) PROVE OwedUntilAnswered'
        <3>1. /\ UNCHANGED <<refused, tried>>
              /\ \/ pending' = pending \ {o} /\ settled' = settled \cup {o}
                 \/ UNCHANGED <<pending, settled>>
            BY <2>4, Zenon DEF AnswerSingle, Settle
        <3> QED
            BY <1>2, <3>1 DEF OwedUntilAnswered
    <2>5. ASSUME NEW batch \in batches, AnswerBatch(batch) PROVE OwedUntilAnswered'
        <3>1. PICK os \in SUBSET batch :
                  /\ pending' = pending \ os /\ settled' = settled \cup os
                  /\ UNCHANGED <<refused, tried>>
            BY <2>5, AnswerEffect, Zenon
        <3> QED
            BY <1>2, <3>1 DEF OwedUntilAnswered
    <2>6. CASE WorkerExit \/ Close \/ CloseStep \/ SpoolStep \/ UNCHANGED vars
        <3>1. UNCHANGED <<pending, settled, refused, tried>>
            BY <2>6, CloseSteps, SpoolSteps, Zenon DEF vars, buildVars
        <3> QED
            BY <1>2, <3>1, Zenon DEF OwedUntilAnswered
    <2>7. CASE Leave
        BY <2>7 DEF Leave, OwedUntilAnswered
    <2> QED
        BY <1>2, <2>1, <2>2, <2>3, <2>4, <2>5, <2>6, <2>7, BuildSteps, Zenon DEF Handles
<1> QED
    BY <1>1, <1>2, TableStep, PTL DEF Spec

----------------------------------------------------------------------------
(* Close loses nothing.                                                    *)

\* Only the end of the process takes back what was tried, answered for or
\* dropped, and only before Close does a Put return early.
LEMMA Grows ==
    ASSUME [Next]_vars
    PROVE  \/ Leave
           \/ /\ tried \subseteq tried' /\ refused \subseteq refused' /\ settled \subseteq settled'
              /\ handsOff' = handsOff /\ (phase # "open" => early' = early)
<1>1. ASSUME NEW o \in Obj, Put(o)
      PROVE  UNCHANGED <<tried, refused, settled, handsOff, early>>
    BY <1>1, Zenon DEF Put
<1>2. ASSUME NEW o \in Obj, Handles(o)
      PROVE  /\ tried \subseteq tried' /\ refused \subseteq refused' /\ UNCHANGED <<settled, handsOff>>
             /\ phase # "open" => early' = early
    BY <1>2, HandleEffect, Zenon DEF Handled, DropUpload
<1>3. CASE Flush \/ \E o \in Obj : Receive(o)
    <2>1. UNCHANGED <<refused, settled, handsOff, early>>
        BY <1>3, SendEffect, Zenon
    <2>2. tried \subseteq tried'
        BY <1>3, SendEffect, Zenon DEF SendAll
    <2> QED
        BY <2>1, <2>2, Zenon
<1>4. ASSUME NEW o \in Obj, AnswerSingle(o)
      PROVE  settled \subseteq settled' /\ UNCHANGED <<tried, refused, handsOff, early>>
    BY <1>4, Zenon DEF AnswerSingle, Settle
<1>5. ASSUME NEW batch \in batches, AnswerBatch(batch)
      PROVE  settled \subseteq settled' /\ UNCHANGED <<tried, refused, handsOff, early>>
    BY <1>5, AnswerEffect, Zenon
<1>6. CASE WorkerExit \/ Close \/ CloseStep \/ SpoolStep \/ UNCHANGED vars
    BY <1>6, CloseSteps, SpoolSteps, Zenon DEF vars, buildVars
<1> QED
    BY <1>1, <1>2, <1>3, <1>4, <1>5, <1>6, BuildSteps, Zenon DEF Handles

\* The steps that change the phase of Close, or the workers that have returned.
LEMMA Phases ==
    ASSUME [Next]_vars
    PROVE  /\ Close \/ StopCoalescer \/ Closed \/ HandOff \/ Leave \/ phase' = phase
           /\ WorkerExit \/ Leave \/ exited' = exited
<1>1. ASSUME NEW o \in Obj, Put(o) \/ AnswerSingle(o) PROVE UNCHANGED <<phase, exited>>
    BY <1>1, Zenon DEF Put, AnswerSingle
<1>2. ASSUME NEW o \in Obj, Handles(o) PROVE UNCHANGED <<phase, exited>>
    BY <1>2, HandleEffect, Zenon
<1>3. ASSUME Flush \/ \E o \in Obj : Receive(o) PROVE UNCHANGED <<phase, exited>>
    BY <1>3, SendEffect, Zenon
<1>4. ASSUME NEW batch \in batches, AnswerBatch(batch) PROVE UNCHANGED <<phase, exited>>
    BY <1>4, AnswerEffect, Zenon
<1>5. WorkerExit => phase' = phase
    BY Zenon DEF WorkerExit
<1>6. Close \/ CloseStep => exited' = exited
    BY Zenon DEF Close, CloseStep, StopCoalescer, Closed, HandOff
<1>7. SpoolStep \/ UNCHANGED vars => UNCHANGED <<phase, exited>>
    BY SpoolSteps, Zenon DEF vars, buildVars
<1> QED
    BY <1>1, <1>2, <1>3, <1>4, <1>5, <1>6, <1>7, BuildSteps, Zenon DEF Handles, CloseStep

\* The places of the objects with the workers.
Held == {"prep", "send", "wsingle"}

\* What goes anywhere but to a worker makes no worker busy.
LEMMA NotHeld ==
    ASSUME NEW os, NEW place, place \notin Held, Move(os, place)
    PROVE  \A o \in Obj : at'[o] \in Held => at[o] \in Held
<1>1. \A o \in Obj : at'[o] = IF o \in os THEN place ELSE at[o]
    BY Moves, Zenon
<1> QED
    BY <1>1, Zenon

\* Only Take makes a worker busy.
LEMMA HeldStep ==
    ASSUME [Next]_vars
    PROVE  \/ \A o \in Obj : at'[o] \in Held => at[o] \in Held
           \/ \E w \in Obj : Take(w) /\ \A o \in Obj : at'[o] \in Held => at[o] \in Held \/ o = w
<1> USE DEF Held
<1>1. ASSUME NEW w \in Obj, Put(w) PROVE \A o \in Obj : at'[o] \in Held => at[o] \in Held
    <2>1. Move({w}, "submit")
        BY <1>1, Zenon DEF Put
    <2> QED
        BY <2>1, Moves, Zenon
<1>2. ASSUME NEW w \in Obj, Submit(w) \/ Enqueue(w) PROVE \A o \in Obj : at'[o] \in Held => at[o] \in Held
    <2>1. Move({w}, "jobs") \/ Move({w}, "out") \/ Move({w}, "chan")
        BY <1>2, Zenon DEF Submit, Enqueue
    <2> QED
        BY <2>1, Moves, Zenon
<1>3. ASSUME NEW w \in Obj, Take(w) PROVE \A o \in Obj : at'[o] \in Held => at[o] \in Held \/ o = w
    <2>1. Move({w}, "prep")
        BY <1>3, Zenon DEF Take
    <2> QED
        BY <2>1, Moves, Zenon
<1>4. ASSUME NEW w \in Obj, Prepare(w) PROVE \A o \in Obj : at'[o] \in Held => at[o] \in Held
    <2>1. at[w] = "prep" /\ (Move({w}, "out") \/ Move({w}, "send") \/ Move({w}, "wsingle"))
        BY <1>4, Zenon DEF Prepare
    <2>2. \A o \in Obj : o # w => at'[o] = at[o]
        BY <2>1, Moves
    <2> QED
        BY <2>1, <2>2, Zenon
<1>5. CASE Flush \/ \E o \in Obj : Receive(o)
    <2>1. ASSUME NEW os, Move(os, "wire") \/ Move(os, "buf")
          PROVE  \A o \in Obj : at'[o] \in Held => at[o] \in Held
        <3>1. "wire" \notin Held /\ "buf" \notin Held
            BY Zenon
        <3> QED
            BY <2>1, <3>1, NotHeld, Zenon
    <2> QED
        BY <1>5, <2>1, SendEffect, Zenon DEF SendAll
<1>6. ASSUME NEW w \in Obj, AnswerSingle(w) PROVE \A o \in Obj : at'[o] \in Held => at[o] \in Held
    <2>1. Move({w}, "out")
        BY <1>6, Zenon DEF AnswerSingle
    <2> QED
        BY <2>1, Moves, Zenon
<1>7. ASSUME NEW batch \in batches, AnswerBatch(batch) PROVE \A o \in Obj : at'[o] \in Held => at[o] \in Held
    <2>1. \E place \in {"out", "bsingle"} : Move(batch, place)
        BY <1>7, AnswerEffect, Zenon
    <2>2. \A place \in {"out", "bsingle"} : place \notin Held
        BY Zenon
    <2> QED
        BY <2>1, <2>2, NotHeld, Zenon
<1>8. CASE WorkerExit \/ Close \/ CloseStep \/ SpoolStep \/ UNCHANGED vars
    BY <1>8, CloseSteps, SpoolSteps, Zenon DEF vars, buildVars
<1>9. CASE Leave
    BY <1>9, Zenon DEF Leave
<1> QED
    BY <1>1, <1>2, <1>3, <1>4, <1>5, <1>6, <1>7, <1>8, <1>9, BuildSteps, Zenon

\* A worker that returned is gone, and the coalescer is stopped after all are.
Pool ==
    /\ exited \in Nat /\ Cardinality(In(Held)) + exited <= Workers
    /\ exited > 0 => phase # "open"
    /\ phase \in {"put", "save", "closed"} => exited = Workers

\* The objects with the workers can be counted.
LEMMA HeldFinite ==
    /\ IsFiniteSet(In(Held)) /\ Cardinality(In(Held)) \in Nat
    /\ Workers \in Nat /\ Workers > 0
<1>1. Workers \in Nat /\ Workers > 0 /\ IsFiniteSet(Obj)
    BY UploadsAssumption
<1>2. In(Held) \subseteq Obj
    BY DEF In
<1> QED
    BY <1>1, <1>2, FS_Subset, FS_CardinalityType

\* A worker takes one object at a time and exits once, with none in hand (worker, Close).
LEMMA PoolStep ==
    ASSUME Pool, [Next]_vars
    PROVE  Pool'
<1>1. CASE Leave
    <2>1. exited' = 0 /\ phase' = "dead" /\ \A o \in Obj : at'[o] = "out"
        BY <1>1, Zenon DEF Leave
    <2>2. In(Held)' = {}
        BY <2>1 DEF In, Held
    <2>3. Cardinality(In(Held)') = 0
        BY <2>2, FS_EmptySet, Zenon
    <2> QED
        BY <2>1, <2>3, HeldFinite DEF Pool
<1>2. CASE ~Leave
    <2>1. CASE WorkerExit
        <3>1. at' = at /\ phase' = phase
            BY <2>1, Zenon DEF WorkerExit
        <3>2. In(Held)' = In(Held)
            BY <3>1, Zenon DEF In
        <3>3. exited' = exited + 1 /\ Free /\ phase # "open"
            BY <2>1 DEF WorkerExit, PrepStop
        <3>4. Cardinality(In(Held)) + exited < Workers
            BY <3>3, Zenon DEF Free, Held
        <3>5. Cardinality(In(Held)') = Cardinality(In(Held))
            BY <3>2, Zenon
        <3> QED
            BY <3>1, <3>3, <3>4, <3>5, HeldFinite DEF Pool
    <2>2. CASE ~WorkerExit
        <3>1. exited' = exited
            BY <1>2, <2>2, Phases, Zenon
        <3>2. Cardinality(In(Held)') + exited <= Workers
            <4>1. CASE \A o \in Obj : at'[o] \in Held => at[o] \in Held
                <5>1. In(Held)' \subseteq In(Held)
                    BY <4>1, Zenon DEF In
                <5>2. Cardinality(In(Held)') <= Cardinality(In(Held)) /\ Cardinality(In(Held)') \in Nat
                    BY <5>1, HeldFinite, FS_Subset, FS_CardinalityType
                <5> QED
                    BY <5>2, HeldFinite DEF Pool
            <4>2. ASSUME NEW w \in Obj, Take(w), \A o \in Obj : at'[o] \in Held => at[o] \in Held \/ o = w
                  PROVE  Cardinality(In(Held)') + exited <= Workers
                <5>1. In(Held)' \subseteq In(Held) \cup {w}
                    BY <4>2 DEF In
                <5>2. /\ IsFiniteSet(In(Held) \cup {w})
                      /\ Cardinality(In(Held) \cup {w}) <= Cardinality(In(Held)) + 1
                      /\ Cardinality(In(Held) \cup {w}) \in Nat
                    <6>1. /\ IsFiniteSet(In(Held) \cup {w})
                          /\ \/ Cardinality(In(Held) \cup {w}) = Cardinality(In(Held))
                             \/ Cardinality(In(Held) \cup {w}) = Cardinality(In(Held)) + 1
                        BY HeldFinite, FS_AddElement, Zenon
                    <6> QED
                        BY <6>1, HeldFinite
                <5>3. /\ Cardinality(In(Held)') <= Cardinality(In(Held) \cup {w})
                      /\ Cardinality(In(Held)') \in Nat
                    BY <5>1, <5>2, FS_Subset, FS_CardinalityType
                <5>4. Cardinality(In(Held)) + exited < Workers
                    BY <4>2, Zenon DEF Take, Free, Held
                <5> QED
                    BY <5>2, <5>3, <5>4, HeldFinite DEF Pool
            <4> QED
                BY <4>1, <4>2, HeldStep, Zenon
        <3>3. /\ phase' = "open" => phase = "open"
              /\ phase' \in {"put", "save", "closed"} => phase \in {"put", "save", "closed"} \/ exited = Workers
            BY <1>2, Phases, Zenon DEF Close, StopCoalescer, Closed, HandOff, GoOn
        <3> QED
            BY <3>1, <3>2, <3>3 DEF Pool
    <2> QED
        BY <2>1, <2>2
<1> QED
    BY <1>1, <1>2

\* Once all have returned, no object is with a worker.
LEMMA NoneHeld ==
    ASSUME Pool, exited = Workers, NEW o \in Obj
    PROVE  at[o] \notin Held
<1>1. Cardinality(In(Held)) = 0
    BY HeldFinite DEF Pool
<1>2. In(Held) = {}
    BY <1>1, HeldFinite, FS_EmptySet, Zenon
<1> QED
    BY <1>2, Zenon DEF In

\* An object whose Put returned early is owed, answered for or dropped.
Kept == early \subseteq Obj /\ early \subseteq pending \cup settled \cup refused

\* An object leaves pending only answered for or dropped (settle, dropUpload).
LEMMA KeptStep ==
    ASSUME Table, Kept, [Next]_vars
    PROVE  Kept'
<1>1. ASSUME NEW o \in Obj, Put(o) PROVE Kept'
    <2>1. pending' = pending \cup {o} /\ UNCHANGED <<settled, refused, early>>
        BY <1>1, Zenon DEF Put
    <2> QED
        BY <2>1 DEF Kept
<1>2. ASSUME NEW o \in Obj, Handles(o) PROVE Kept'
    <2>1. at[o] # "out" /\ settled' = settled
        BY <1>2, HandleEffect, Zenon
    <2>2. PICK place : Handled(o, place)
        BY <1>2, HandleEffect, Zenon
    <2>3. o \in pending
        BY <2>1, Zenon DEF Table
    <2>4. /\ early' \subseteq early \cup {o}
          /\ \/ UNCHANGED <<pending, refused>>
             \/ pending' = pending \ {o} /\ refused' = refused \cup {o}
        BY <2>2, Zenon DEF Handled, DropUpload
    <2> QED
        BY <2>1, <2>3, <2>4 DEF Kept
<1>3. CASE Flush \/ \E o \in Obj : Receive(o)
    BY <1>3, SendEffect, Zenon DEF Kept
<1>4. ASSUME NEW o \in Obj, AnswerSingle(o) PROVE Kept'
    <2>1. /\ UNCHANGED <<refused, early>>
          /\ \/ pending' = pending \ {o} /\ settled' = settled \cup {o}
             \/ UNCHANGED <<pending, settled>>
        BY <1>4, Zenon DEF AnswerSingle, Settle
    <2> QED
        BY <2>1 DEF Kept
<1>5. ASSUME NEW batch \in batches, AnswerBatch(batch) PROVE Kept'
    <2>1. PICK os \in SUBSET batch :
              /\ pending' = pending \ os /\ settled' = settled \cup os
              /\ UNCHANGED <<refused, early>>
        BY <1>5, AnswerEffect, Zenon
    <2> QED
        BY <2>1 DEF Kept
<1>6. CASE WorkerExit \/ Close \/ CloseStep \/ SpoolStep \/ UNCHANGED vars
    <2>1. UNCHANGED <<pending, settled, refused, early>>
        BY <1>6, CloseSteps, SpoolSteps, Zenon DEF vars, buildVars
    <2> QED
        BY <2>1, Zenon DEF Kept
<1>7. CASE Leave
    BY <1>7 DEF Leave, Kept
<1> QED
    BY <1>1, <1>2, <1>3, <1>4, <1>5, <1>6, <1>7, BuildSteps, Zenon DEF Handles

\* In a drain, an object whose Put returned early is on its way until a request
\* is made for it or it is dropped, and a worker returns only once none is queued.
Queued == {"jobs", "prep", "send", "chan", "buf"}
OnItsWay(o) ==
    /\ at[o] \in Queued \/ o \in tried \cup refused
    /\ at[o] # "submit" /\ (exited > 0 => at[o] # "jobs")
Attempted == ~handsOff => \A o \in Obj : o \in early => OnItsWay(o)

\* An object that a step moves to a place other than the job queue.
LEMMA WayKept ==
    ASSUME NEW o \in Obj, at'[o] = at[o] \/ at'[o] \notin {"submit", "jobs"},
           at'[o] \in Queued \/ at'[o] = at[o] \/ o \in tried' \cup refused',
           OnItsWay(o), exited' = exited, tried \subseteq tried', refused \subseteq refused'
    PROVE  OnItsWay(o)'
    BY Zenon DEF OnItsWay

\* Every step of a drain keeps them on their way.
LEMMA AttemptedStep ==
    ASSUME Table, Pool, Attempted, [Next]_vars
    PROVE  Attempted'
<1>1. CASE Leave
    BY <1>1 DEF Leave, Attempted
<1>2. CASE handsOff /\ ~Leave
    BY <1>2, Grows, Zenon DEF Attempted
<1>3. CASE ~handsOff /\ ~Leave
    <2>1. tried \subseteq tried' /\ refused \subseteq refused'
        BY <1>3, Grows, Zenon
    <2>2. \A o \in Obj : o \in early => OnItsWay(o)
        BY <1>3, Zenon DEF Attempted
    <2> SUFFICES ASSUME NEW o \in Obj, o \in early' PROVE OnItsWay(o)'
        BY Zenon DEF Attempted
    <2>3. ASSUME NEW w \in Obj, Put(w) PROVE OnItsWay(o)'
        <3>1. /\ UNCHANGED <<early, exited, tried, refused>> /\ at[w] = "out"
              /\ Move({w}, "submit") /\ w \notin tried \cup refused
            BY <2>3, Zenon DEF Put
        <3>2. o # w
            BY <2>2, <3>1, Zenon DEF OnItsWay, Queued
        <3>3. at'[o] = at[o]
            BY <3>1, <3>2, Moves, Zenon
        <3> QED
            BY <2>2, <3>1, <3>3, Zenon DEF OnItsWay
    <2>4. ASSUME NEW w \in Obj, Handles(w) PROVE OnItsWay(o)'
        <3>1. UNCHANGED <<exited, handsOff>>
            BY <2>4, HandleEffect, Zenon
        <3>2. PICK place \in {"out", "jobs", "prep", "send", "wsingle", "chan"} : Handled(w, place)
            BY <2>4, HandleEffect, Zenon
        <3>3. \A x \in Obj : at'[x] = IF x \in {w} THEN place ELSE at[x]
            BY <3>2, Moves, Zenon DEF Handled
        <3>4. CASE o # w
            <4>1. o \in early /\ at'[o] = at[o]
                BY <3>2, <3>3, <3>4, Zenon DEF Handled
            <4> QED
                BY <2>1, <2>2, <3>1, <4>1, WayKept, Zenon
        <3>5. CASE o = w /\ place = "jobs"
            <4>1. at'[o] = "jobs" /\ at[o] = "submit"
                BY <3>2, <3>3, <3>5, Zenon DEF Handled
            <4>2. o \notin early
                BY <2>2, <4>1, Zenon DEF OnItsWay
            <4>3. phase = "open"
                BY <3>2, <3>5, <4>2, Zenon DEF Handled
            <4>4. ~(exited' > 0)
                BY <3>1, <4>3, Zenon DEF Pool
            <4> QED
                BY <4>1, <4>4, Zenon DEF OnItsWay, Queued
        <3>6. CASE o = w /\ place # "jobs"
            <4>1. at'[o] = place
                BY <3>3, <3>6, Zenon
            <4>2. place = "out" => o \in refused'
                BY <1>3, <3>2, <3>6 DEF Handled, DropUpload
            <4>3. place = "wsingle" => o \in tried'
                BY <3>2, <3>6 DEF Handled
            <4> QED
                BY <3>2, <3>6, <4>1, <4>2, <4>3, Zenon DEF OnItsWay, Queued
        <3> QED
            BY <3>4, <3>5, <3>6, Zenon
    <2>5. CASE Flush \/ \E w \in Obj : Receive(w)
        <3>1. UNCHANGED <<early, exited>>
            BY <2>5, SendEffect, Zenon
        <3>2. ASSUME NEW os, SendAll(os) PROVE OnItsWay(o)'
            <4>1. at'[o] = (IF o \in os THEN "wire" ELSE at[o]) /\ (o \in os => o \in tried')
                BY <3>2, Moves DEF SendAll
            <4> QED
                BY <2>1, <2>2, <3>1, <4>1, WayKept, Zenon
        <3>3. ASSUME NEW w, Move({w}, "buf") PROVE OnItsWay(o)'
            <4>1. at'[o] = "buf" \/ at'[o] = at[o]
                BY <3>3, Moves, Zenon
            <4> QED
                BY <2>1, <2>2, <3>1, <4>1, WayKept, Zenon DEF Queued
        <3> QED
            BY <2>5, <3>2, <3>3, SendEffect, Zenon
    <2>6. ASSUME NEW w \in Obj, AnswerSingle(w) PROVE OnItsWay(o)'
        <3>1. UNCHANGED <<early, exited>> /\ Move({w}, "out") /\ at[w] \notin Queued
            BY <2>6, Zenon DEF AnswerSingle, Queued
        <3>2. at'[o] = at[o] \/ (at'[o] = "out" /\ at[o] \notin Queued)
            BY <3>1, Moves, Zenon
        <3>3. at'[o] = at[o] \/ o \in tried' \cup refused'
            BY <2>1, <2>2, <3>1, <3>2, Zenon DEF OnItsWay
        <3> QED
            BY <2>1, <2>2, <3>1, <3>2, <3>3, WayKept, Zenon
    <2>7. ASSUME NEW batch \in batches, AnswerBatch(batch) PROVE OnItsWay(o)'
        <3>1. UNCHANGED <<early, exited>> /\ \E place \in {"out", "bsingle"} : Move(batch, place)
            BY <2>7, AnswerEffect, Zenon
        <3>2. \A x \in batch : at[x] \notin Queued
            BY Zenon DEF Table, Queued
        <3>3. at'[o] = at[o] \/ (at'[o] \in {"out", "bsingle"} /\ at[o] \notin Queued)
            BY <3>1, <3>2, Moves, Zenon
        <3>4. at'[o] = at[o] \/ o \in tried' \cup refused'
            BY <2>1, <2>2, <3>1, <3>3, Zenon DEF OnItsWay
        <3> QED
            BY <2>1, <2>2, <3>1, <3>3, <3>4, WayKept, Zenon
    <2>8. CASE WorkerExit
        <3>1. UNCHANGED <<at, early, tried, refused>> /\ In({"jobs"}) = {}
            BY <2>8, Zenon DEF WorkerExit
        <3>2. at[o] # "jobs"
            BY <3>1 DEF In
        <3> QED
            BY <2>2, <3>1, <3>2, Zenon DEF OnItsWay
    <2>9. CASE Close \/ CloseStep \/ SpoolStep \/ UNCHANGED vars
        <3>1. UNCHANGED <<at, early, tried, refused, exited>>
            BY <2>9, CloseSteps, SpoolSteps, Zenon DEF vars, buildVars, Close, CloseStep,
                   StopCoalescer, Closed, HandOff
        <3> QED
            BY <2>2, <3>1, Zenon DEF OnItsWay
    <2> QED
        BY <1>3, <2>3, <2>4, <2>5, <2>6, <2>7, <2>8, <2>9, BuildSteps, Zenon DEF Handles
<1> QED
    BY <1>1, <1>2, <1>3

----------------------------------------------------------------------------
(* The spool, and the runners that work on it.                             *)

\* A runner works on a spool that was written, has put what it no longer has
\* to do, and removes the spool once nothing is left.
WorksOn(u) ==
    /\ upc[u] \in {"put", "remove"} => spool.file \in {"there", "removed"}
    /\ upc[u] = "put" => spool.entries \subseteq ran \cup todo[u]
    /\ upc[u] = "remove" => spool.entries \subseteq ran
Shape ==
    /\ spool = [file |-> spool.file, entries |-> spool.entries]
    /\ upc = [u \in Runner |-> upc[u]] /\ todo = [u \in Runner |-> todo[u]]
Written ==
    /\ phase \in {"open", "prep", "put"} => spool.file = "none"
    /\ phase = "save" => spool.file = "temp" /\ handsOff
Work == Shape /\ Written /\ (\A u \in Runner : WorksOn(u)) /\ SpoolOutlivesItsWork

\* The steps that change the spool, or take a runner on.
LEMMA SpoolChanges ==
    ASSUME [Next]_vars
    PROVE  \/ Closed \/ HandOff \/ Leave \/ SpoolStep
           \/ /\ UNCHANGED <<spool, upc, todo, ran, handsOff>>
              /\ Close \/ StopCoalescer \/ phase' = phase
<1>1. ASSUME NEW o \in Obj, Put(o) \/ AnswerSingle(o) PROVE UNCHANGED <<phase, handsOff, spoolVars>>
    BY <1>1, Zenon DEF Put, AnswerSingle
<1>2. ASSUME NEW o \in Obj, Handles(o) PROVE UNCHANGED <<phase, handsOff, spoolVars>>
    BY <1>2, HandleEffect, Zenon
<1>3. ASSUME Flush \/ \E o \in Obj : Receive(o) PROVE UNCHANGED <<phase, handsOff, spoolVars>>
    BY <1>3, SendEffect, Zenon
<1>4. ASSUME NEW batch \in batches, AnswerBatch(batch) PROVE UNCHANGED <<phase, handsOff, spoolVars>>
    BY <1>4, AnswerEffect, Zenon
<1>5. WorkerExit \/ Close \/ StopCoalescer => UNCHANGED <<handsOff, spoolVars>>
    BY Zenon DEF WorkerExit, Close, StopCoalescer
<1>6. WorkerExit => phase' = phase
    BY Zenon DEF WorkerExit
<1>7. UNCHANGED vars => UNCHANGED <<phase, handsOff, spoolVars>>
    BY Zenon DEF vars, buildVars
<1> QED
    BY <1>1, <1>2, <1>3, <1>4, <1>5, <1>6, <1>7, BuildSteps, Zenon DEF Handles, CloseStep, spoolVars

\* One runner's step, or one entry of a table by runner.
LEMMA OneChanges ==
    ASSUME NEW S, NEW f, f = [v \in S |-> f[v]], NEW u \in S, NEW x, NEW g, g = [f EXCEPT ![u] = x]
    PROVE  g = [v \in S |-> g[v]] /\ g[u] = x /\ \A v \in S : v # u => g[v] = f[v]
    OBVIOUS

\* A spool whose file alone changes.
LEMMA FileChanges ==
    ASSUME NEW s, s = [file |-> s.file, entries |-> s.entries], NEW x, NEW t, t = [s EXCEPT !.file = x]
    PROVE  t = [file |-> t.file, entries |-> t.entries] /\ t.file = x /\ t.entries = s.entries
    OBVIOUS

\* A runner's step leaves the spool and every other runner alone.
LEMMA RunnerStep ==
    ASSUME Work, NEW u \in Runner, Shape', UNCHANGED <<spool, phase, handsOff>>, ran \subseteq ran',
           \A v \in Runner : v # u => upc'[v] = upc[v] /\ todo'[v] = todo[v],
           WorksOn(u)'
    PROVE  Work'
<1>1. Written' /\ SpoolOutlivesItsWork'
    BY Zenon DEF Work, Written, SpoolOutlivesItsWork
<1>2. ASSUME NEW v \in Runner, v # u PROVE WorksOn(v)'
    <2>1. WorksOn(v) /\ upc'[v] = upc[v] /\ todo'[v] = todo[v]
        BY <1>2, Zenon DEF Work
    <2> QED
        BY <2>1, Zenon DEF WorksOn
<1> QED
    BY <1>1, <1>2, Zenon DEF Work

\* A runner that starts, waits or ends holds no entry back.
LEMMA RunnerRests ==
    ASSUME Work, NEW u \in Runner, NEW s, s \notin {"put", "remove"},
           upc' = [upc EXCEPT ![u] = s], todo' = todo \/ todo' = [todo EXCEPT ![u] = {}],
           UNCHANGED <<spool, phase, handsOff, ran>>
    PROVE  Work'
<1>1. /\ upc' = [v \in Runner |-> upc'[v]] /\ upc'[u] = s
      /\ \A v \in Runner : v # u => upc'[v] = upc[v]
    BY OneChanges, Zenon DEF Work, Shape
<1>2. todo' = [v \in Runner |-> todo'[v]] /\ \A v \in Runner : v # u => todo'[v] = todo[v]
    BY OneChanges, Zenon DEF Work, Shape
<1>3. Shape'
    BY <1>1, <1>2, Zenon DEF Work, Shape
<1>4. WorksOn(u)'
    BY <1>1, Zenon DEF WorksOn
<1> QED
    BY <1>1, <1>2, <1>3, <1>4, RunnerStep, Zenon

\* A spool no runner is on may be replaced.
LEMMA SpoolReplaced ==
    ASSUME Work, spool.file \in {"none", "temp"},
           spool' = [file |-> spool'.file, entries |-> spool'.entries],
           spool'.file # "removed", UNCHANGED todo,
           upc' = upc \/ \E u \in Runner : upc' = [upc EXCEPT ![u] = "try"]
    PROVE  Shape' /\ (\A u \in Runner : WorksOn(u)') /\ SpoolOutlivesItsWork'
<1>1. \A u \in Runner : upc[u] \notin {"put", "remove"}
    BY Zenon DEF Work, WorksOn
<1>2. upc' = [v \in Runner |-> upc'[v]] /\ \A u \in Runner : upc'[u] \notin {"put", "remove"}
    <2>1. CASE upc' = upc
        BY <1>1, <2>1, Zenon DEF Work, Shape
    <2>2. ASSUME NEW u \in Runner, upc' = [upc EXCEPT ![u] = "try"]
          PROVE  upc' = [v \in Runner |-> upc'[v]] /\ \A v \in Runner : upc'[v] \notin {"put", "remove"}
        <3>1. /\ upc' = [v \in Runner |-> upc'[v]] /\ upc'[u] = "try"
              /\ \A v \in Runner : v # u => upc'[v] = upc[v]
            BY <2>2, OneChanges, ZenonT(30) DEF Work, Shape
        <3> QED
            BY <1>1, <3>1, Zenon
    <2> QED
        BY <2>1, <2>2, Zenon
<1> QED
    BY <1>2, Zenon DEF Work, Shape, WorksOn, SpoolOutlivesItsWork

\* Each step of a runner (RunUploadSpool).
LEMMA RunKeepsWork ==
    ASSUME Work, NEW u \in Runner, RunStep(u) \/ Kill(u)
    PROVE  Work'
<1>1. UNCHANGED <<phase, handsOff>>
    BY SpoolSteps, Zenon DEF SpoolStep, buildVars
<1>2. CASE TryLock(u)
    <2>1. \/ upc' = [upc EXCEPT ![u] = "read"] /\ todo' = todo
          \/ upc' = [upc EXCEPT ![u] = "idle"] /\ todo' = [todo EXCEPT ![u] = {}]
        BY <1>2, Zenon DEF TryLock, EndRun
    <2>2. UNCHANGED <<spool, ran>>
        BY <1>2, Zenon DEF TryLock
    <2> QED
        BY <1>1, <2>1, <2>2, RunnerRests, Zenon
<1>3. CASE ReadSpool(u)
    <2>1. UNCHANGED <<spool, ran>>
        BY <1>3, Zenon DEF ReadSpool
    <2>2. CASE EndRun(u, TRUE) \/ EndRun(u, FALSE)
        <3>1. upc' = [upc EXCEPT ![u] = "idle"] /\ todo' = [todo EXCEPT ![u] = {}]
            BY <2>2, Zenon DEF EndRun
        <3> QED
            BY <1>1, <2>1, <3>1, RunnerRests, Zenon
    <2>3. CASE /\ spool.file = "there" /\ todo' = [todo EXCEPT ![u] = spool.entries]
               /\ upc' = [upc EXCEPT ![u] = "put"]
        <3>1. /\ upc' = [v \in Runner |-> upc'[v]] /\ upc'[u] = "put"
              /\ \A v \in Runner : v # u => upc'[v] = upc[v]
            BY <2>3, OneChanges, Zenon DEF Work, Shape
        <3>2. /\ todo' = [v \in Runner |-> todo'[v]] /\ todo'[u] = spool.entries
              /\ \A v \in Runner : v # u => todo'[v] = todo[v]
            BY <2>3, OneChanges, Zenon DEF Work, Shape
        <3>3. Shape'
            BY <2>1, <3>1, <3>2, Zenon DEF Work, Shape
        <3>4. WorksOn(u)'
            BY <2>1, <2>3, <3>1, <3>2, Zenon DEF WorksOn
        <3>5. ran \subseteq ran'
            BY <2>1, Zenon
        <3> QED
            BY <1>1, <2>1, <3>1, <3>2, <3>3, <3>4, <3>5, RunnerStep, ZenonT(30)
    <2> QED
        BY <1>3, <2>2, <2>3, Zenon DEF ReadSpool
<1>4. ASSUME NEW o \in Obj, PutEntry(u, o) PROVE Work'
    <2>1. /\ upc[u] = "put" /\ todo' = [todo EXCEPT ![u] = todo[u] \ {o}] /\ ran' = ran \cup {o}
          /\ UNCHANGED <<spool, upc>>
        BY <1>4, Zenon DEF PutEntry
    <2>2. /\ todo' = [v \in Runner |-> todo'[v]] /\ todo'[u] = todo[u] \ {o}
          /\ \A v \in Runner : v # u => todo'[v] = todo[v]
        BY <2>1, OneChanges, Zenon DEF Work, Shape
    <2>3. Shape'
        BY <2>1, <2>2, Zenon DEF Work, Shape
    <2>4. WorksOn(u)'
        <3>1. spool.entries \subseteq ran \cup todo[u] /\ spool.file \in {"there", "removed"}
            BY <2>1, Zenon DEF Work, WorksOn
        <3>2. spool'.entries \subseteq ran' \cup todo'[u]
            <4>1. spool'.entries = spool.entries
                BY <2>1, Zenon
            <4> QED
                BY <2>1, <2>2, <3>1, <4>1
        <3> QED
            BY <2>1, <3>1, <3>2, Zenon DEF WorksOn
    <2>5. ran \subseteq ran' /\ \A v \in Runner : v # u => upc'[v] = upc[v]
        BY <2>1, Zenon
    <2> QED
        BY <1>1, <2>1, <2>2, <2>3, <2>4, <2>5, RunnerStep, Zenon
<1>5. CASE Release(u)
    <2>1. /\ upc[u] = "put" /\ todo[u] = {} /\ upc' = [upc EXCEPT ![u] = "remove"]
          /\ UNCHANGED <<spool, todo, ran>>
        BY <1>5, Zenon DEF Release
    <2>2. /\ upc' = [v \in Runner |-> upc'[v]] /\ upc'[u] = "remove"
          /\ \A v \in Runner : v # u => upc'[v] = upc[v]
        BY <2>1, OneChanges, Zenon DEF Work, Shape
    <2>3. Shape'
        BY <2>1, <2>2, Zenon DEF Work, Shape
    <2>4. WorksOn(u)'
        <3>1. spool.entries \subseteq ran \cup todo[u] /\ spool.file \in {"there", "removed"}
            BY <2>1, Zenon DEF Work, WorksOn
        <3>2. spool.entries \subseteq ran
            BY <2>1, <3>1
        <3> QED
            BY <2>1, <2>2, <3>1, <3>2, Zenon DEF WorksOn
    <2>5. ran \subseteq ran' /\ \A v \in Runner : v # u => todo'[v] = todo[v]
        BY <2>1, Zenon
    <2> QED
        BY <1>1, <2>1, <2>2, <2>3, <2>4, <2>5, RunnerStep, Zenon
<1>6. CASE RemoveSpool(u)
    <2>1. /\ upc[u] = "remove" /\ upc' = [upc EXCEPT ![u] = "idle"] /\ todo' = [todo EXCEPT ![u] = {}]
          /\ UNCHANGED ran
          /\ spool' = IF spool.file = "there" THEN [spool EXCEPT !.file = "removed"] ELSE spool
        BY <1>6, Zenon DEF RemoveSpool, EndRun
    <2>2. CASE spool.file = "there"
        <3>1. /\ spool' = [file |-> spool'.file, entries |-> spool'.entries]
              /\ spool'.file = "removed" /\ spool'.entries = spool.entries
            BY <2>1, <2>2, FileChanges, Zenon DEF Work, Shape
        <3>2. /\ upc' = [v \in Runner |-> upc'[v]] /\ upc'[u] = "idle"
              /\ \A v \in Runner : v # u => upc'[v] = upc[v]
            BY <2>1, OneChanges, Zenon DEF Work, Shape
        <3>3. /\ todo' = [v \in Runner |-> todo'[v]]
              /\ \A v \in Runner : v # u => todo'[v] = todo[v]
            BY <2>1, OneChanges, Zenon DEF Work, Shape
        <3>4. Shape'
            BY <3>1, <3>2, <3>3, Zenon DEF Shape
        <3>5. SpoolOutlivesItsWork'
            BY <2>1, <3>1, Zenon DEF Work, WorksOn, SpoolOutlivesItsWork
        <3>6. Written'
            BY <1>1, <2>2, Zenon DEF Work, Written
        <3>7. ASSUME NEW v \in Runner PROVE WorksOn(v)'
            <4>1. WorksOn(v)
                BY Zenon DEF Work
            <4> QED
                BY <2>1, <3>1, <3>2, <3>3, <4>1, Zenon DEF WorksOn
        <3> QED
            BY <3>4, <3>5, <3>6, <3>7, Zenon DEF Work
    <2>3. CASE spool.file # "there"
        BY <1>1, <2>1, <2>3, RunnerRests, Zenon
    <2> QED
        BY <2>2, <2>3
<1>7. CASE Kill(u)
    <2>1. upc' = [upc EXCEPT ![u] = "idle"] /\ todo' = [todo EXCEPT ![u] = {}] /\ UNCHANGED <<spool, ran>>
        BY <1>7, Zenon DEF Kill, EndRun
    <2> QED
        BY <1>1, <2>1, RunnerRests, Zenon
<1> QED
    BY <1>2, <1>3, <1>4, <1>5, <1>6, <1>7, Zenon DEF RunStep

\* Every step keeps the runners' work true to the spool.
LEMMA WorkStep ==
    ASSUME Work, [Next]_vars
    PROVE  Work'
<1>1. CASE /\ UNCHANGED <<spool, upc, todo, ran, handsOff>>
           /\ Close \/ StopCoalescer \/ phase' = phase
    <2>1. Written'
        BY <1>1, Zenon DEF Work, Written, Close, StopCoalescer, GoOn
    <2>2. Shape' /\ (\A u \in Runner : WorksOn(u)') /\ SpoolOutlivesItsWork'
        BY <1>1, Zenon DEF Work, Shape, WorksOn, SpoolOutlivesItsWork
    <2> QED
        BY <2>1, <2>2, Zenon DEF Work
<1>2. CASE Closed
    <2>1. phase = "put" /\ UNCHANGED <<upc, todo, ran, handsOff>>
        BY <1>2, Zenon DEF Closed
    <2>2. CASE phase' = "closed" /\ UNCHANGED spool
        <3>1. Shape' /\ (\A u \in Runner : WorksOn(u)') /\ SpoolOutlivesItsWork'
            BY <2>1, <2>2, Zenon DEF Work, Shape, WorksOn, SpoolOutlivesItsWork
        <3> QED
            BY <2>2, <3>1, Zenon DEF Work, Written
    <2>3. CASE handsOff /\ phase' = "save" /\ spool' = [file |-> "temp", entries |-> pending]
        <3>1. spool'.file = "temp" /\ spool' = [file |-> spool'.file, entries |-> spool'.entries]
            BY <2>3
        <3>2. spool.file = "none"
            BY <2>1, Zenon DEF Work, Written
        <3>3. Shape' /\ (\A u \in Runner : WorksOn(u)') /\ SpoolOutlivesItsWork'
            BY <2>1, <3>1, <3>2, SpoolReplaced, Zenon
        <3> QED
            BY <2>1, <2>3, <3>1, <3>3, Zenon DEF Work, Written
    <2> QED
        BY <1>2, <2>2, <2>3, Zenon DEF Closed
<1>3. CASE HandOff
    <2>1. /\ phase = "save" /\ phase' = "closed" /\ UNCHANGED <<todo, ran>>
          /\ upc' = upc \/ \E u \in Runner : upc' = [upc EXCEPT ![u] = "try"]
        BY <1>3, Zenon DEF HandOff, GoOn, StartUploader, Runner
    <2>2. spool.file = "temp"
        BY <2>1, Zenon DEF Work, Written
    <2>3. /\ spool' = [file |-> spool'.file, entries |-> spool'.entries]
          /\ spool'.file # "removed"
        <3>1. CASE spool' = [file |-> "none", entries |-> {}]
            BY <3>1
        <3>2. CASE spool' = [spool EXCEPT !.file = "there"]
            BY <3>2, FileChanges, Zenon DEF Work, Shape
        <3> QED
            BY <1>3, <3>1, <3>2, Zenon DEF HandOff
    <2>4. Shape' /\ (\A u \in Runner : WorksOn(u)') /\ SpoolOutlivesItsWork'
        BY <2>1, <2>2, <2>3, SpoolReplaced, Zenon
    <2> QED
        BY <2>1, <2>4, Zenon DEF Work, Written
<1>4. CASE Leave
    <2>1. phase' = "dead" /\ UNCHANGED <<upc, todo, ran>>
        BY <1>4, Zenon DEF Leave
    <2>2. CASE UNCHANGED spool
        <3>1. Shape' /\ (\A u \in Runner : WorksOn(u)') /\ SpoolOutlivesItsWork'
            BY <2>1, <2>2, Zenon DEF Work, Shape, WorksOn, SpoolOutlivesItsWork
        <3> QED
            BY <2>1, <3>1, Zenon DEF Work, Written
    <2>3. CASE spool.file = "temp" /\ spool' = [spool EXCEPT !.file = "there"]
        <3>1. /\ spool' = [file |-> spool'.file, entries |-> spool'.entries]
              /\ spool'.file # "removed"
            BY <2>3, FileChanges, Zenon DEF Work, Shape
        <3>2. Shape' /\ (\A u \in Runner : WorksOn(u)') /\ SpoolOutlivesItsWork'
            BY <2>1, <2>3, <3>1, SpoolReplaced, Zenon
        <3> QED
            BY <2>1, <3>2, Zenon DEF Work, Written
    <2> QED
        BY <1>4, <2>2, <2>3, Zenon DEF Leave
<1>5. CASE SweepTry
    <2>1. phase = "dead" /\ phase' = phase /\ UNCHANGED <<upc, todo, ran>>
        BY <1>5, Zenon DEF SweepTry, buildVars
    <2>2. CASE UNCHANGED spool
        <3>1. Shape' /\ (\A u \in Runner : WorksOn(u)') /\ SpoolOutlivesItsWork'
            BY <2>1, <2>2, Zenon DEF Work, Shape, WorksOn, SpoolOutlivesItsWork
        <3> QED
            BY <2>1, <3>1, Zenon DEF Work, Written
    <2>3. CASE spool.file = "temp" /\ spool' = [file |-> "none", entries |-> {}]
        <3>1. /\ spool' = [file |-> spool'.file, entries |-> spool'.entries]
              /\ spool'.file # "removed"
            BY <2>3
        <3>2. Shape' /\ (\A u \in Runner : WorksOn(u)') /\ SpoolOutlivesItsWork'
            BY <2>1, <2>3, <3>1, SpoolReplaced, Zenon
        <3> QED
            BY <2>1, <3>2, Zenon DEF Work, Written
    <2> QED
        BY <1>5, <2>2, <2>3, Zenon DEF SweepTry
<1>6. CASE SweepStart \/ DrainRun
    <2>1. UNCHANGED <<spool, todo, ran, phase, handsOff>>
        BY <1>6, Zenon DEF SweepStart, DrainRun, buildVars
    <2>2. upc' = upc \/ \E u \in Runner : upc' = [upc EXCEPT ![u] = "try"]
        BY <1>6, Zenon DEF SweepStart, DrainRun, StartUploader, Runner
    <2>3. ASSUME NEW u \in Runner, upc' = [upc EXCEPT ![u] = "try"] PROVE Work'
        BY <2>1, <2>3, RunnerRests, Zenon
    <2>4. ASSUME upc' = upc PROVE Work'
        BY <2>1, <2>4, Zenon DEF Work, Shape, Written, WorksOn, SpoolOutlivesItsWork
    <2> QED
        BY <2>2, <2>3, <2>4, Zenon
<1>7. CASE DrainStat \/ DrainWait
    <2>1. UNCHANGED <<spool, upc, todo, ran, phase, handsOff>>
        BY <1>7, Zenon DEF DrainStat, DrainWait, buildVars
    <2> QED
        BY <2>1, Zenon DEF Work, Shape, Written, WorksOn, SpoolOutlivesItsWork
<1> QED
    BY <1>1, <1>2, <1>3, <1>4, <1>5, <1>6, <1>7, SpoolChanges, RunKeepsWork, Zenon DEF SpoolStep, DrainStep

\* At the start there is no spool and nobody runs one.
LEMMA InitWork == Init => Work
<1> SUFFICES ASSUME Init PROVE Work
    OBVIOUS
<1>1. /\ spool.file = "none" /\ spool.entries = {} /\ phase = "open"
      /\ spool = [file |-> spool.file, entries |-> spool.entries]
    BY DEF Init
<1>2. \A u \in Runner : upc[u] = "idle"
    BY Zenon DEF Init
<1>3. Shape
    BY <1>1, Zenon DEF Init, Shape
<1> QED
    BY <1>1, <1>2, <1>3, Zenon DEF Work, Written, WorksOn, SpoolOutlivesItsWork

\* A spool is removed only after some runner has dealt with each entry of it,
\* for any number of uploaders, crashes and sweeps (RunUploadSpool, sweepSpools,
\* DrainSpools).
THEOREM SpoolsOutlive == Spec => []SpoolOutlivesItsWork
<1>1. Work => SpoolOutlivesItsWork
    BY DEF Work
<1> QED
    BY <1>1, InitWork, WorkStep, PTL DEF Spec

\* While the spool is being written its entries stay, so does what Close found.
LEMMA SavedStays ==
    ASSUME Work, [Next]_vars, phase = "save", phase' = "save"
    PROVE  spool'.entries = spool.entries
<1>1. ~Leave /\ ~Closed /\ ~HandOff
    BY Zenon DEF Leave, Closed, HandOff, GoOn
<1>2. ASSUME NEW u \in Runner, RunStep(u) \/ Kill(u) PROVE spool' = spool
    <2>1. spool.file # "there"
        BY Zenon DEF Work, Written
    <2> QED
        BY <1>2, <2>1, Zenon DEF RunStep, TryLock, ReadSpool, Release, RemoveSpool, PutEntry, Kill
<1>3. SpoolStep => spool' = spool
    BY <1>2, Zenon DEF SpoolStep, SweepTry, SweepStart, DrainStat, DrainStep, DrainWait, DrainRun
<1> QED
    BY <1>1, <1>3, SpoolChanges, Zenon

\* The step by which Close ends the uploads leaves no early object behind.
LEMMA ClosedForgetsNothing ==
    ASSUME Pool, Kept, Attempted, Closed
    PROVE  NothingForgotten'
<1>1. /\ phase = "put" /\ In({"chan", "buf", "wire", "bsingle"}) = {}
      /\ UNCHANGED <<early, tried, refused, settled, handsOff>>
    BY Zenon DEF Closed
<1>2. exited = Workers /\ exited > 0
    BY <1>1, HeldFinite DEF Pool
<1>3. CASE phase' = "closed"
    <2>1. ASSUME ~handsOff, NEW o \in early PROVE o \in tried \cup refused
        <3>1. o \in Obj /\ OnItsWay(o)
            BY <2>1 DEF Kept, Attempted
        <3>2. at[o] \notin {"prep", "send"}
            BY <1>2, <3>1, NoneHeld, Zenon DEF Held
        <3>3. at[o] \notin {"chan", "buf"}
            BY <1>1, <3>1 DEF In
        <3> QED
            BY <1>2, <3>1, <3>2, <3>3, Zenon DEF OnItsWay, Queued
    <2> QED
        BY <1>1, <1>3, <2>1, Zenon DEF NothingForgotten
<1>4. CASE phase' = "save" /\ spool' = [file |-> "temp", entries |-> pending]
    <2>1. spool'.entries = pending
        BY <1>4
    <2>2. early \subseteq settled \cup refused \cup pending
        BY DEF Kept
    <2> QED
        BY <1>1, <1>4, <2>1, <2>2, Zenon DEF NothingForgotten
<1> QED
    BY <1>3, <1>4, Zenon DEF Closed

\* Close loses no object whose Put returned before it, for any number of
\* objects and workers and any capacities: a drain has made a request for it
\* (prepPool.Close, batchPutCoalescer), a hand-off has it answered for or in
\* the spool (closeHandOff), or it was dropped.
THEOREM CloseForgetsNothing == Spec => []NothingForgotten
<1> DEFINE Inv == Table /\ Pool /\ Kept /\ Attempted /\ Work /\ NothingForgotten
<1>1. Init => Inv
    <2> SUFFICES ASSUME Init PROVE Inv
        OBVIOUS
    <2>1. /\ (\A o \in Obj : at[o] = "out") /\ early = {} /\ phase = "open" /\ exited = 0 /\ batches = {}
        BY Zenon DEF Init
    <2>2. Table
        BY <2>1, Zenon DEF Table
    <2>3. Kept /\ Attempted /\ NothingForgotten
        BY <2>1 DEF Kept, Attempted, NothingForgotten
    <2>4. Pool
        <3>1. In(Held) = {}
            BY <2>1 DEF In, Held
        <3>2. Cardinality(In(Held)) = 0
            BY <3>1, FS_EmptySet, Zenon
        <3> QED
            BY <2>1, <3>2, HeldFinite DEF Pool
    <2> QED
        BY <2>2, <2>3, <2>4, InitWork, Zenon
<1>2. ASSUME Inv, [Next]_vars PROVE NothingForgotten'
    <2>1. CASE Closed
        BY <1>2, <2>1, ClosedForgetsNothing, Zenon
    <2>2. CASE Leave
        BY <2>2, Zenon DEF Leave, NothingForgotten
    <2>3. CASE ~Closed /\ ~Leave
        <3>1. /\ tried \subseteq tried' /\ refused \subseteq refused' /\ settled \subseteq settled'
              /\ handsOff' = handsOff /\ (phase # "open" => early' = early)
            BY <1>2, <2>3, Grows, Zenon
        <3>2. /\ phase' = "closed" => phase \in {"closed", "save"}
              /\ phase' = "save" => phase = "save"
            BY <1>2, <2>3, Phases, Zenon DEF Close, StopCoalescer, HandOff, GoOn
        <3>3. ASSUME phase' = "closed", ~handsOff' PROVE early' \subseteq tried' \cup refused'
            <4>1. phase = "closed"
                BY <1>2, <3>1, <3>2, <3>3, Zenon DEF Work, Written
            <4>2. early \subseteq tried \cup refused /\ early' = early
                BY <1>2, <3>1, <3>3, <4>1, Zenon DEF NothingForgotten
            <4> QED
                BY <3>1, <4>2
        <3>4. ASSUME phase' = "save" PROVE early' \subseteq settled' \cup refused' \cup spool'.entries
            <4>1. spool'.entries = spool.entries
                BY <1>2, <3>2, <3>4, SavedStays, Zenon
            <4>2. early \subseteq settled \cup refused \cup spool.entries /\ early' = early
                BY <1>2, <3>1, <3>2, <3>4, Zenon DEF NothingForgotten
            <4> QED
                BY <3>1, <4>1, <4>2
        <3> QED
            BY <3>3, <3>4, Zenon DEF NothingForgotten
    <2> QED
        BY <2>1, <2>2, <2>3
<1>3. Inv /\ [Next]_vars => Inv'
    BY <1>2, TableStep, PoolStep, KeptStep, AttemptedStep, WorkStep, Zenon
<1>4. Inv => NothingForgotten
    BY Zenon
<1> QED
    BY <1>1, <1>3, <1>4, PTL DEF Spec
=============================================================================
