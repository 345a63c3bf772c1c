------------------------------ MODULE Uploads ------------------------------
(***************************************************************************)
(* The way of an object from Put to the store: the claim and the table of  *)
(* pending uploads (webput.go, handoff.go), the prep workers (prep.go),    *)
(* the PUT coalescer and its batches (batchput.go), and the two ways Close *)
(* ends them.  A drain waits for every upload to be attempted; a hand-off  *)
(* cancels them and writes what is pending to a spool, which a detached    *)
(* uploader runs (RunUploadSpool), a later owner's sweep restarts, and a   *)
(* job's last step waits for (DrainSpools).                                *)
(*                                                                         *)
(* An object is where at says: with its caller ("submit"), in the job      *)
(* queue, with a worker ("prep", "send"), in the coalescer's channel or    *)
(* batch ("chan", "buf"), in a batch request ("wire"), or in a PUT of its  *)
(* own, sent by a worker ("wsingle") or for a refused batch ("bsingle").   *)
(* A request is answered or not; ObjectStore has the server's side.  One   *)
(* process builds; its crash and that of an uploader may come between any  *)
(* two steps.                                                              *)
(***************************************************************************)
EXTENDS Integers, FiniteSets

CONSTANTS
    Obj,          \* objects, each under a key of its own
    Workers,      \* prep workers
    JobsCap,      \* capacity of the job queue
    ChanCap,      \* batchReqChBuf
    BatchMax,     \* batchMaxKeys
    Uploader,     \* processes that run a spool
    Sweeper, Drainer, None,
    MaxStops,     \* bound: uploaders that are killed
    MaxSweeps     \* bound: later owners, each of which sweeps once

ASSUME UploadsAssumption ==
    /\ {Workers, JobsCap, ChanCap, BatchMax} \subseteq Nat \ {0} /\ {MaxStops, MaxSweeps} \subseteq Nat
    /\ {Sweeper, Drainer, None} \cap Uploader = {} /\ IsFiniteSet(Obj)

VARIABLES
    at,           \* where an object is, "out" before Put and after its end
    claims,       \* keys claimed in the live set
    pending,      \* uploads the store has not confirmed
    settled,      \* uploads the server answered for
    refused,      \* uploads a guard, a missing body or a late Put ended
    tried,        \* objects a request was made for
    early,        \* objects whose Put returned before Close began
    single,       \* batchPutUnsupported
    phase,        \* of Close
    handsOff,     \* Close hands the uploads off
    exited,       \* prep workers that have returned
    batches,      \* batch requests on the wire
    spool,        \* the spool: its file and its entries
    lock,         \* holder of the spool's lock file
    upc, todo,    \* an uploader's step, the entries it has yet to put
    ran,          \* entries some uploader dealt with
    failing,      \* runners with an upload that failed
    sweep, drain, \* steps of sweepSpools and DrainSpools
    stops, sweeps

\* The processes that run a spool: detached uploaders, and DrainSpools itself.
Runner == Uploader \cup {Drainer}

buildVars == <<at, claims, pending, settled, refused, tried, early, single,
               phase, handsOff, exited, batches>>
spoolVars == <<spool, lock, upc, todo, ran, failing, sweep, drain, stops, sweeps>>
vars == <<buildVars, spoolVars>>

Init ==
    /\ at = [o \in Obj |-> "out"] /\ claims = {} /\ pending = {} /\ settled = {}
    /\ refused = {} /\ tried = {} /\ early = {} /\ single = FALSE
    /\ phase = "open" /\ handsOff \in BOOLEAN /\ exited = 0 /\ batches = {}
    /\ spool = [file |-> "none", entries |-> {}] /\ lock = None
    /\ upc = [u \in Runner |-> "idle"] /\ todo = [u \in Runner |-> {}]
    /\ ran = {} /\ failing = {} /\ sweep = "idle" /\ drain = "idle" /\ stops = 0 /\ sweeps = 0

In(places) == {o \in Obj : at[o] \in places}
Move(os, place) == at' = [o \in Obj |-> IF o \in os THEN place ELSE at[o]]

Running == phase # "dead"
Aborted == handsOff /\ phase # "open"
PrepStop == phase \in {"prep", "put", "save", "closed"}
PutStop == phase \in {"put", "save", "closed"}

\* settle: the upload leaves the table and the claim stands.
Settle(os) == pending' = pending \ os /\ settled' = settled \cup os
\* failUpload: the claim goes and the upload stays pending.
FailUpload(os) == claims' = claims \ os
\* Variant of DropUpload: the claim is kept.
DropUploadKeepsClaim(os) ==
    pending' = pending \ os /\ refused' = refused \cup os /\ UNCHANGED claims

\* dropUpload, abandonUpload: both go.
DropUpload(os) ==
    /\ claims' = claims \ os /\ pending' = pending \ os /\ refused' = refused \cup os

----------------------------------------------------------------------------
(* enqueuePut and the prep pool.                                           *)

\* A key that is claimed is not uploaded again.  (Bound: nor is one whose
\* upload failed or was dropped, which a later Put would claim again.)
Put(o) ==
    /\ phase # "dead" /\ at[o] = "out" /\ o \notin claims \cup tried \cup refused
    /\ claims' = claims \cup {o} /\ pending' = pending \cup {o}
    /\ Move({o}, "submit")
    /\ UNCHANGED <<settled, refused, tried, early, single, phase, handsOff,
                   exited, batches, spoolVars>>

\* submit queues the job, if the queue has room, or is refused once the pool
\* stops; when both can be, either happens.
Submit(o) ==
    /\ phase # "dead" /\ at[o] = "submit"
    /\ \/ /\ Cardinality(In({"jobs"})) < JobsCap /\ Move({o}, "jobs")
          /\ early' = IF phase = "open" THEN early \cup {o} ELSE early
          /\ UNCHANGED <<claims, pending, refused>>
       \/ PrepStop /\ Move({o}, "out") /\ DropUpload({o}) /\ UNCHANGED early
    /\ UNCHANGED <<settled, tried, single, phase, handsOff, exited, batches,
                   spoolVars>>

\* A worker without an object: it waits, or takes the next.
Free == Cardinality(In({"prep", "send", "wsingle"})) + exited < Workers

Take(o) ==
    /\ Running /\ at[o] = "jobs" /\ Free /\ Move({o}, "prep")
    /\ UNCHANGED <<claims, pending, settled, refused, tried, early, single,
                   phase, handsOff, exited, batches, spoolVars>>

\* A stopped worker returns once the queue is empty.
WorkerExit ==
    /\ Running /\ PrepStop /\ Free /\ In({"jobs"}) = {}
    /\ exited' = exited + 1
    /\ UNCHANGED <<at, claims, pending, settled, refused, tried, early, single,
                   phase, handsOff, batches, spoolVars>>

\* prepare: after a hand-off the object is left to the spool; a body that
\* cannot be read, may not be published or cannot be compressed is dropped;
\* without a batch endpoint the worker sends it itself.
Prepare(o) ==
    /\ Running /\ at[o] = "prep"
    /\ \/ Aborted /\ Move({o}, "out") /\ UNCHANGED <<claims, pending, refused, tried>>
       \/ ~Aborted /\ Move({o}, "out") /\ DropUpload({o}) /\ UNCHANGED tried
       \/ /\ ~Aborted
          /\ \/ ~single /\ Move({o}, "send") /\ UNCHANGED tried
             \/ single /\ Move({o}, "wsingle") /\ tried' = tried \cup {o}
          /\ UNCHANGED <<claims, pending, refused>>
    /\ UNCHANGED <<settled, early, single, phase, handsOff, exited, batches,
                   spoolVars>>

\* The select of prepare: the channel has room, or the coalescer is stopping.
Enqueue(o) ==
    /\ Running /\ at[o] = "send"
    /\ \/ /\ Cardinality(In({"chan"})) < ChanCap /\ Move({o}, "chan")
          /\ UNCHANGED <<claims, pending, refused>>
       \/ PutStop /\ Move({o}, "out") /\ DropUpload({o})
    /\ UNCHANGED <<settled, tried, early, single, phase, handsOff, exited,
                   batches, spoolVars>>

----------------------------------------------------------------------------
(* batchPutCoalescer.  Its window may end at any time; after the stop it    *)
(* takes what is queued, sends it and waits for the answers.               *)

Coalescing == phase \in {"open", "prep", "put"}

\* A batch is sent once it is full, when its window ends, or at the stop.
SendAll(os) ==
    /\ batches' = IF os = {} THEN batches ELSE batches \cup {os}
    /\ tried' = tried \cup os /\ Move(os, "wire")

Receive(o) ==
    /\ Coalescing /\ at[o] = "chan"
    /\ LET buf == In({"buf"}) \cup {o}
       IN \/ Cardinality(buf) >= BatchMax /\ SendAll(buf)
          \/ Cardinality(buf) < BatchMax /\ Move({o}, "buf") /\ UNCHANGED <<batches, tried>>
    /\ UNCHANGED <<claims, pending, settled, refused, early, single, phase,
                   handsOff, exited, spoolVars>>

Flush ==
    /\ Coalescing /\ In({"buf"}) # {} /\ SendAll(In({"buf"}))
    /\ UNCHANGED <<claims, pending, settled, refused, early, single, phase,
                   handsOff, exited, spoolVars>>

\* sendBatchPut: no usable answer fails every upload of the batch; a server
\* without the endpoint has each sent on its own; otherwise each is stored,
\* dropped by the server, or answered with an error.
AnswerBatch(batch) ==
    /\ Running /\ batch \in batches /\ batches' = batches \ {batch}
    /\ \/ /\ Move(batch, "out") /\ FailUpload(batch)
          /\ UNCHANGED <<single, pending, settled>>
       \/ /\ single' = TRUE /\ Move(batch, "bsingle")
          /\ UNCHANGED <<claims, pending, settled>>
       \/ \E ok \in SUBSET batch, dropped \in SUBSET batch :
            /\ ok \cap dropped = {} /\ Move(batch, "out")
            /\ Settle(ok \cup dropped) /\ FailUpload(batch \ (ok \cup dropped))
            /\ UNCHANGED single
    /\ UNCHANGED <<refused, tried, early, phase, handsOff, exited, spoolVars>>

\* Variant of AnswerSingle: a PUT that failed is taken off the table.
AnswerSingleForgets(o) ==
    /\ Running /\ at[o] \in {"wsingle", "bsingle"} /\ Move({o}, "out")
    /\ \/ Settle({o}) /\ UNCHANGED claims
       \/ FailUpload({o}) /\ pending' = pending \ {o} /\ UNCHANGED settled
    /\ UNCHANGED <<refused, tried, early, single, phase, handsOff, exited,
                   batches, spoolVars>>

\* putSingle.
AnswerSingle(o) ==
    /\ Running /\ at[o] \in {"wsingle", "bsingle"} /\ Move({o}, "out")
    /\ \/ Settle({o}) /\ UNCHANGED claims
       \/ FailUpload({o}) /\ UNCHANGED <<pending, settled>>
    /\ UNCHANGED <<refused, tried, early, single, phase, handsOff, exited,
                   batches, spoolVars>>

----------------------------------------------------------------------------
(* Close and closeHandOff.                                                 *)

GoOn(from, to) == phase = from /\ phase' = to

\* A hand-off cancels the requests; both then stop the prep pool.
Close ==
    /\ GoOn("open", "prep")
    /\ UNCHANGED <<at, claims, pending, settled, refused, tried, early, single,
                   handsOff, exited, batches, spoolVars>>

\* Variant of StopCoalescer: it does not wait for the prep workers.
StopCoalescerFirst ==
    /\ GoOn("prep", "put")
    /\ UNCHANGED <<at, claims, pending, settled, refused, tried, early, single,
                   handsOff, exited, batches, spoolVars>>

\* Variant of StopCoalescer: it waits for every object submitted, not for the
\* workers.
StopCoalescerAwaits ==
    /\ GoOn("prep", "put") /\ In({"jobs", "prep", "send", "wsingle"}) = {}
    /\ UNCHANGED <<at, claims, pending, settled, refused, tried, early, single,
                   handsOff, exited, batches, spoolVars>>

\* The workers have returned: the coalescer is told to stop.
StopCoalescer ==
    /\ GoOn("prep", "put") /\ exited = Workers
    /\ UNCHANGED <<at, claims, pending, settled, refused, tried, early, single,
                   handsOff, exited, batches, spoolVars>>

Closed ==
    /\ phase = "put" /\ In({"chan", "buf", "wire", "bsingle"}) = {}
    /\ \/ /\ ~handsOff \/ pending = {}
          /\ phase' = "closed" /\ UNCHANGED spool
       \/ /\ handsOff /\ pending # {} /\ phase' = "save"
          /\ spool' = [file |-> "temp", entries |-> pending]
    /\ UNCHANGED <<at, claims, pending, settled, refused, tried, early, single,
                   handsOff, exited, batches, lock, upc, todo, ran,
                   failing, sweep, drain, stops, sweeps>>

StartUploader ==
    \E u \in Uploader : upc[u] = "idle" /\ upc' = [upc EXCEPT ![u] = "try"]

\* writeSpool renames the temporary file, and startUploader starts the
\* uploader; either may fail, and a spool without an uploader stays.
HandOff ==
    /\ GoOn("save", "closed")
    /\ \/ spool' = [file |-> "none", entries |-> {}] /\ UNCHANGED upc
       \/ /\ spool' = [spool EXCEPT !.file = "there"]
          /\ \/ StartUploader \/ UNCHANGED upc
    /\ UNCHANGED <<at, claims, pending, settled, refused, tried, early, single,
                   handsOff, exited, batches, lock, todo, ran,
                   failing, sweep, drain, stops, sweeps>>

\* The process ends, after Close or because it is killed, and its memory with
\* it.  A rename it made stays made.
Leave ==
    /\ phase # "dead" /\ phase' = "dead"
    /\ at' = [o \in Obj |-> "out"] /\ exited' = 0 /\ batches' = {}
    /\ claims' = {} /\ pending' = {} /\ settled' = {} /\ refused' = {}
    /\ tried' = {} /\ early' = {} /\ single' = FALSE /\ handsOff' = FALSE
    /\ \/ UNCHANGED spool
       \/ spool.file = "temp" /\ spool' = [spool EXCEPT !.file = "there"]
    /\ UNCHANGED <<lock, upc, todo, ran, failing, sweep, drain, stops, sweeps>>

----------------------------------------------------------------------------
(* RunUploadSpool, by a detached uploader or by DrainSpools.  The lock is   *)
(* on the file at the lock's path: once that file is removed, a lock on it  *)
(* keeps nobody out.  (The steps the build's process has left once it has   *)
(* written the spool touch nothing here, so the model lets it end first.)   *)

Unlock(u) == lock' = IF lock = u THEN None ELSE lock

\* The run ends; DrainSpools looks again, or reports the error.
EndRun(u, ok) ==
    /\ upc' = [upc EXCEPT ![u] = "idle"] /\ todo' = [todo EXCEPT ![u] = {}]
    /\ failing' = failing \ {u}
    /\ drain' = IF u # Drainer THEN drain ELSE IF ok THEN "stat" ELSE "failed"

\* A spool that is locked is left to its holder.
TryLock(u) ==
    /\ upc[u] = "try" /\ phase = "dead"
    /\ \/ /\ lock = None /\ lock' = u /\ upc' = [upc EXCEPT ![u] = "read"]
          /\ UNCHANGED <<todo, failing, drain>>
       \/ lock # None /\ EndRun(u, TRUE) /\ UNCHANGED lock
    /\ UNCHANGED <<buildVars, spool, ran, sweep, stops, sweeps>>

\* A spool that is gone takes the lock file with it; one that no store is
\* configured for stays.
ReadSpool(u) ==
    /\ upc[u] = "read"
    /\ \/ /\ spool.file = "there" /\ todo' = [todo EXCEPT ![u] = spool.entries]
          /\ upc' = [upc EXCEPT ![u] = "put"] /\ UNCHANGED <<failing, drain, lock>>
       \/ spool.file # "there" /\ EndRun(u, TRUE) /\ lock' = None
       \/ spool.file = "there" /\ EndRun(u, FALSE) /\ Unlock(u)
    /\ UNCHANGED <<buildVars, spool, ran, sweep, stops, sweeps>>

\* An entry is uploaded by a backend that drains at Close: it is stored or
\* refused, fails, or its body is gone.
PutEntry(u, o) ==
    /\ upc[u] = "put" /\ o \in todo[u]
    /\ todo' = [todo EXCEPT ![u] = @ \ {o}] /\ ran' = ran \cup {o}
    /\ \/ UNCHANGED failing
       \/ failing' = failing \cup {u}
    /\ UNCHANGED <<buildVars, spool, lock, upc, sweep, drain, stops, sweeps>>

\* Variant of Release: the backend is not drained first.
ReleaseUndrained(u) ==
    /\ upc[u] = "put" /\ Unlock(u)
    /\ upc' = [upc EXCEPT ![u] = "remove"]
    /\ UNCHANGED <<buildVars, spool, todo, ran, failing, sweep, drain, stops, sweeps>>

\* The lock goes first, then the spool and the lock file, failures or not.
Release(u) ==
    /\ upc[u] = "put" /\ todo[u] = {} /\ Unlock(u)
    /\ upc' = [upc EXCEPT ![u] = "remove"]
    /\ UNCHANGED <<buildVars, spool, todo, ran, failing, sweep, drain, stops, sweeps>>

RemoveSpool(u) ==
    /\ upc[u] = "remove" /\ lock' = None
    /\ EndRun(u, spool.file = "there" /\ u \notin failing)
    /\ spool' = IF spool.file = "there" THEN [spool EXCEPT !.file = "removed"] ELSE spool
    /\ UNCHANGED <<buildVars, ran, sweep, stops, sweeps>>

\* An uploader is killed and the system releases its lock.
Kill(u) ==
    /\ u \in Uploader /\ upc[u] # "idle" /\ stops < MaxStops /\ stops' = stops + 1
    /\ EndRun(u, FALSE) /\ Unlock(u)
    /\ UNCHANGED <<buildVars, spool, ran, sweep, sweeps>>

----------------------------------------------------------------------------
(* sweepSpools, of a later owner, and DrainSpools.                         *)

\* A stale spool whose lock can be had gets an uploader; the lock is given up
\* first.  A temporary file whose writer is dead is removed.
SweepTry ==
    /\ sweep = "idle" /\ phase = "dead" /\ sweeps < MaxSweeps /\ sweeps' = sweeps + 1
    /\ \/ spool.file = "there" /\ lock = None /\ lock' = Sweeper /\ sweep' = "locked" /\ UNCHANGED spool
       \/ spool.file = "temp" /\ spool' = [file |-> "none", entries |-> {}] /\ UNCHANGED <<lock, sweep>>
    /\ UNCHANGED <<buildVars, upc, todo, ran, failing, drain, stops>>

SweepStart ==
    /\ sweep = "locked" /\ sweep' = "idle" /\ Unlock(Sweeper)
    /\ StartUploader \/ UNCHANGED upc
    /\ UNCHANGED <<buildVars, spool, todo, ran, failing, drain, stops, sweeps>>

\* drainSpool: while the spool is there, wait for its lock, give it up and run it.
DrainStat ==
    /\ \/ drain = "idle" /\ phase = "dead" /\ spool.file = "there" /\ drain' = "wait"
       \/ drain = "stat" /\ drain' = IF spool.file = "there" THEN "wait" ELSE "done"
    /\ UNCHANGED <<buildVars, spool, lock, upc, todo, ran, failing, sweep, stops, sweeps>>

DrainWait ==
    /\ drain = "wait" /\ lock = None /\ lock' = Drainer /\ drain' = "held"
    /\ UNCHANGED <<buildVars, spool, upc, todo, ran, failing, sweep, stops, sweeps>>

\* Variant of DrainRun: the lock is kept for the run.
DrainRunLocked ==
    /\ drain = "held" /\ drain' = "run"
    /\ upc' = [upc EXCEPT ![Drainer] = "try"]
    /\ UNCHANGED <<buildVars, spool, lock, todo, ran, failing, sweep, stops, sweeps>>

DrainRun ==
    /\ drain = "held" /\ Unlock(Drainer) /\ drain' = "run"
    /\ upc' = [upc EXCEPT ![Drainer] = "try"]
    /\ UNCHANGED <<buildVars, spool, todo, ran, failing, sweep, stops, sweeps>>

----------------------------------------------------------------------------
BuildStep ==
    \/ \E o \in Obj : Submit(o) \/ Take(o) \/ Prepare(o) \/ Enqueue(o)
                      \/ Receive(o) \/ AnswerSingle(o)
    \/ Flush \/ WorkerExit \/ \E batch \in batches : AnswerBatch(batch)

CloseStep == StopCoalescer \/ Closed \/ HandOff

RunStep(u) ==
    \/ TryLock(u) \/ ReadSpool(u) \/ Release(u) \/ RemoveSpool(u)
    \/ \E o \in Obj : PutEntry(u, o)

DrainStep == DrainWait \/ DrainRun

Next ==
    \/ \E o \in Obj : Put(o)
    \/ BuildStep \/ Close \/ CloseStep \/ Leave
    \/ \E u \in Runner : RunStep(u) \/ Kill(u)
    \/ SweepTry \/ SweepStart \/ DrainStat \/ DrainStep

\* The goroutines and processes that were started run, and the requests they
\* make end (each has a timeout); Put, Close, crashes and sweeps need not come.
Fairness ==
    /\ WF_vars(BuildStep) /\ WF_vars(CloseStep) /\ WF_vars(phase = "closed" /\ Leave)
    /\ \A u \in Runner : WF_vars(RunStep(u))
    /\ WF_vars(SweepStart) /\ WF_vars(drain = "stat" /\ DrainStat) /\ WF_vars(DrainStep)

Spec == Init /\ [][Next]_vars /\ Fairness

----------------------------------------------------------------------------
(* Properties.                                                             *)

TypeOK ==
    /\ at \in [Obj -> {"out", "submit", "jobs", "prep", "send", "chan", "buf",
                       "wire", "wsingle", "bsingle"}]
    /\ {claims, pending, settled, refused, tried, early, ran, spool.entries} \subseteq SUBSET Obj
    /\ single \in BOOLEAN /\ handsOff \in BOOLEAN /\ exited \in 0..Workers
    /\ phase \in {"open", "prep", "put", "save", "closed", "dead"}
    /\ batches \subseteq SUBSET Obj /\ spool.file \in {"none", "temp", "there", "removed"}
    /\ lock \in Runner \cup {Sweeper, None}
    /\ upc \in [Runner -> {"idle", "try", "read", "put", "remove"}]
    /\ todo \in [Runner -> SUBSET Obj] /\ failing \subseteq Runner
    /\ sweep \in {"idle", "locked"} /\ stops \in 0..MaxStops /\ sweeps \in 0..MaxSweeps
    /\ drain \in {"idle", "stat", "wait", "held", "run", "done", "failed"}

\* Close loses no object whose Put returned before it: a drain returns after a
\* request was made for each (prepPool.Close, batchPutCoalescer), a hand-off
\* after each is confirmed or written to the spool (closeHandOff).
NothingForgotten ==
    /\ phase = "closed" /\ ~handsOff => early \subseteq tried \cup refused
    /\ phase = "save" => early \subseteq settled \cup refused \cup spool.entries

\* A claim makes later Puts skip the object, so it is backed: the upload is
\* still owed, or the server has answered for it (settle, failUpload).
ClaimsAreBacked == claims \subseteq pending \cup settled

\* What the server answered for is the only thing that leaves the table
\* without being dropped: an upload whose answer was lost stays owed, and a
\* confirmed one is stored, or was refused by the server.
OwedUntilAnswered == tried \subseteq pending \cup settled \cup refused

\* A spool goes only after a runner has dealt with each of its entries,
\* whichever runners were killed, raced for its lock, or worked on it at once
\* (RunUploadSpool releases the lock before it removes the file).
SpoolOutlivesItsWork == spool.file = "removed" => spool.entries \subseteq ran

\* Close returns: the workers, the coalescer and the requests never wait for
\* each other in a circle.
CloseReturns == phase = "prep" ~> phase \in {"closed", "dead"}

\* DrainSpools ends, whoever else takes the lock meanwhile.
DrainEnds == drain = "wait" ~> drain \in {"done", "failed"}
=============================================================================
