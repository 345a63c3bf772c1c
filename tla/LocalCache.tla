----------------------------- MODULE LocalCache -----------------------------
(***************************************************************************)
(* The build cache's directory and the processes of a build that share it: *)
(* cachedisk/diskcache.go, the tier that puts the store under it           *)
(* (storetier.go), and the broker by which the process that owns the cache *)
(* serves the processes below it (brokerowner.go, brokerflight.go,         *)
(* brokerchild.go).                                                        *)
(*                                                                         *)
(* An output file is the set of its parts that were written: all but the   *)
(* last byte ("pre"), and the last byte, which makes the size match.  A    *)
(* read, a write or a system call another process may come between is a    *)
(* step.  The owner may die at any step, with whatever it had on its hands.*)
(*                                                                         *)
(* LocalProofs extends this module and Manifest, so the names are apart.   *)
(***************************************************************************)
EXTENDS Naturals, FiniteSets

CONSTANTS
    Child,            \* the processes below the owner
    Req,              \* gets and puts, each made once
    Kind(_),          \* "get" or "put"
    By(_),            \* the child that makes a request
    Action(_),        \* the action a request is about
    Out(_),           \* the output a put stores
    Served(_),        \* the output the store serves for an action, when it has it
    Left,             \* outputs an earlier build may have left
    Faulty,           \* outputs whose copy may fail: the disk is full, the source changed
    None

Acts == {Action(q) : q \in Req}
Outs == {Out(q) : q \in Req} \cup {Served(a) : a \in Acts}
Gone == {"gone"}                     \* a file that is not there
Whole == {"pre", "last"}

VARIABLES
    act, body,        \* action entries and output files on disk
    old, doomed,      \* files not used for trimLimit; those a trim saw so
    cut,              \* outputs a trim removed while an entry may name them
    alive,            \* the owner runs
    mode,             \* a child is "new", "linked", on the directory ("solo") or cut off ("failed")
    ask,              \* a request in its process: "new", "sent", "over"
    pc, got,          \* the goroutine that serves it, and its result
    keeps, fd,        \* requests that write what the store served; whose open file still has its name
    gets, puts        \* flights: the request that flies for an action

disk == <<act, body, old, doomed, cut>>
procs == <<alive, mode, ask>>
work == <<pc, got, keeps, fd>>
diskVars == <<disk, procs, work, gets, puts>>

\* The directory holds what earlier builds left, a half-written file included.
DiskInit ==
    /\ act \in [Acts -> {None} \cup Left]
    /\ body \in [Outs -> {Gone, {"pre"}, Whole}] /\ \A o \in Outs \ Left : body[o] = Gone
    /\ old = {a \in Acts : act[a] # None} \cup {o \in Outs : body[o] # Gone}
    /\ doomed = {} /\ cut = {o \in Outs : body[o] # Whole /\ \E a \in Acts : act[a] = o}
    /\ alive = TRUE /\ mode = [c \in Child |-> "new"]
    /\ ask = [q \in Req |-> "new"] /\ pc = [q \in Req |-> "idle"]
    /\ keeps = {} /\ fd = {} /\ got = [q \in Req |-> None]
    /\ gets = [a \in Acts |-> None] /\ puts = [a \in Acts |-> None]

Go(q, l) == pc' = [pc EXCEPT ![q] = l]

\* The goroutine that serves q runs in the owner.
OwnersWork(q) == mode[By(q)] # "solo"

----------------------------------------------------------------------------
(* A process opens the cache: dialBroker, or the directory itself.         *)

\* The owner opens the channel the child made and sends its directory.
Greets(c) == alive /\ mode' = [mode EXCEPT ![c] = "linked"]

\* The handshake succeeds, or times out and the child opens the directory.
Dial(c) ==
    /\ mode[c] = "new"
    /\ \/ Greets(c)
       \/ mode' = [mode EXCEPT ![c] = "solo"]
    /\ UNCHANGED <<disk, alive, ask, work, gets, puts>>

\* Variant of Ask: a closed link is not looked at.
AskBlindly(q) ==
    /\ ask[q] = "new"
    /\ \/ mode[By(q)] = "solo" /\ Go(q, "start")
       \/ mode[By(q)] \in {"linked", "failed"} /\ UNCHANGED pc
    /\ ask' = [ask EXCEPT ![q] = "sent"]
    /\ UNCHANGED <<disk, alive, mode, got, keeps, fd, gets, puts>>

\* A request: a direct call, or a registered waiter and a record in the ring.
\* A link that failed answers a miss at once.
Ask(q) ==
    /\ ask[q] = "new"
    /\ \/ mode[By(q)] = "solo" /\ Go(q, "start") /\ ask' = [ask EXCEPT ![q] = "sent"]
       \/ mode[By(q)] = "linked" /\ UNCHANGED pc /\ ask' = [ask EXCEPT ![q] = "sent"]
       \/ mode[By(q)] = "failed" /\ UNCHANGED pc /\ ask' = [ask EXCEPT ![q] = "over"]
    /\ UNCHANGED <<disk, alive, mode, got, keeps, fd, gets, puts>>

\* The flight of an action is joined, or started by whoever finds none.
Board(q, flights) ==
    IF flights[Action(q)] = None THEN [flights EXCEPT ![Action(q)] = q] ELSE flights

\* attend takes the record and gives it a goroutine, which flies or joins.
Attend(q) ==
    /\ ask[q] = "sent" /\ pc[q] = "idle" /\ alive
    /\ gets' = IF Kind(q) = "get" THEN Board(q, gets) ELSE gets
    /\ puts' = IF Kind(q) = "put" THEN Board(q, puts) ELSE puts
    /\ Go(q, IF q \in {gets'[Action(q)], puts'[Action(q)]} THEN "start" ELSE "joined")
    /\ UNCHANGED <<disk, procs, got, keeps, fd>>

\* The reader of the link hands the reply to whoever waits for it; a call
\* on the directory returns.
Deliver(q) ==
    /\ pc[q] = "replied" /\ ask[q] = "sent" /\ mode[By(q)] # "failed"
    /\ ask' = [ask EXCEPT ![q] = "over"]
    /\ UNCHANGED <<disk, alive, mode, work, gets, puts>>

\* The owner goes: what it was doing stays as it is on disk.
OwnerDies ==
    /\ alive /\ alive' = FALSE
    /\ pc' = [q \in Req |-> IF OwnersWork(q) /\ pc[q] # "replied" THEN "idle" ELSE pc[q]]
    /\ fd' = {q \in fd : ~OwnersWork(q)} /\ keeps' = {q \in keeps : ~OwnersWork(q)}
    /\ gets' = [a \in Acts |-> None] /\ puts' = [a \in Acts |-> None]
    /\ UNCHANGED <<disk, mode, ask, got>>

\* The link's reader finds the owner gone and wakes everyone who waits (fail).
LinkFails(c) ==
    /\ mode[c] = "linked" /\ ~alive /\ mode' = [mode EXCEPT ![c] = "failed"]
    /\ ask' = [q \in Req |-> IF By(q) = c /\ ask[q] = "sent" THEN "over" ELSE ask[q]]
    /\ UNCHANGED <<disk, alive, work, gets, puts>>

----------------------------------------------------------------------------
(* The result of a flight is everyone's who joined it; a put that joined   *)
(* one looks for itself.                                                   *)

Joined(q) == {j \in Req : pc[j] = "joined" /\ Kind(j) = Kind(q) /\ Action(j) = Action(q)}

Reply(q, r) ==
    LET a == Action(q)
        J == IF q \in {gets[a], puts[a]} THEN Joined(q) ELSE {}
    IN /\ pc' = [j \in Req |-> IF j = q THEN "replied"
                              ELSE IF j \in J THEN (IF Kind(q) = "get" THEN "replied" ELSE "look")
                              ELSE pc[j]]
       /\ got' = [j \in Req |-> IF j = q \/ (j \in J /\ Kind(q) = "get") THEN r ELSE got[j]]
       /\ gets' = IF gets[a] = q THEN [gets EXCEPT ![a] = None] ELSE gets
       /\ puts' = IF puts[a] = q THEN [puts EXCEPT ![a] = None] ELSE puts

\* Go on to step l, or finish with result r.
Continue(q, l) == Go(q, l) /\ UNCHANGED <<got, gets, puts>>
Missed(q) == IF Kind(q) = "get" THEN Reply(q, None) ELSE Continue(q, "copy")

\* Disk answers, and stamps what it answers with; the store is asked next.
\* After the store's body was kept, disk has the last word; a put that found
\* nothing stores its own output.
LookOnDisk(q) ==
    LET a == Action(q)
    IN /\ \/ pc[q] = "start" /\ Kind(q) = "get"
          \/ pc[q] \in {"look", "again"}
       /\ old' = old \ {a} /\ keeps' = keeps \ {q}
       /\ \/ act[a] # None /\ Reply(q, act[a])
          \/ act[a] = None /\ pc[q] # "again" /\ Continue(q, "remote")
          \/ act[a] = None /\ pc[q] = "again" /\ Missed(q)
       /\ UNCHANGED <<act, body, doomed, cut, procs, fd>>

\* The store serves a body, checked already, or misses.
Remote(q) ==
    /\ pc[q] = "remote"
    /\ \/ Missed(q) /\ UNCHANGED keeps
       \/ Continue(q, "copy") /\ keeps' = keeps \cup {q}
    /\ UNCHANGED <<disk, procs, fd>>

\* The output a request is writing.
Writes(q) == IF q \in keeps THEN Served(Action(q)) ELSE Out(q)

Copying(q) == pc[q] = "copy" \/ (pc[q] = "start" /\ Kind(q) = "put")

\* Variant of OpenOut: the open truncates.
OpenOutTruncates(q) ==
    /\ Copying(q) /\ body[Writes(q)] # Whole
    /\ Continue(q, "pre") /\ fd' = fd \cup {q} /\ body' = [body EXCEPT ![Writes(q)] = {}]
    /\ UNCHANGED <<act, old, doomed, cut, procs, keeps>>

\* copyFile opens a file that is not whole and keeps what it holds.
OpenOut(q) ==
    /\ Copying(q) /\ body[Writes(q)] # Whole
    /\ Continue(q, "pre") /\ fd' = fd \cup {q} /\ body' = [body EXCEPT ![Writes(q)] = @ \ Gone]
    /\ UNCHANGED <<act, old, doomed, cut, procs, keeps>>

\* Variant of SkipCopy: a file that is there is taken for whole.
SkipCopyUnchecked(q) ==
    /\ Copying(q) /\ body[Writes(q)] # Gone /\ Continue(q, "entry")
    /\ UNCHANGED <<disk, procs, keeps, fd>>

\* It leaves one that is whole alone.
SkipCopy(q) ==
    /\ Copying(q) /\ body[Writes(q)] = Whole /\ Continue(q, "entry")
    /\ UNCHANGED <<disk, procs, keeps, fd>>

\* A write reaches the file that has the name, unless a trim unlinked it.
Write(q, content) ==
    LET o == Writes(q)
    IN IF q \in fd
       THEN /\ body' = [body EXCEPT ![o] = content] /\ old' = old \ {o}
            /\ cut' = IF content = Whole THEN cut \ {o} ELSE cut
       ELSE UNCHANGED <<body, old, cut>>

WritePre(q) ==
    /\ pc[q] = "pre" /\ Write(q, body[Writes(q)] \cup {"pre"}) /\ Continue(q, "last")
    /\ UNCHANGED <<act, doomed, procs, keeps, fd>>

WriteLast(q) ==
    /\ pc[q] = "last" /\ Write(q, body[Writes(q)] \cup {"last"}) /\ Continue(q, "entry")
    /\ fd' = fd \ {q}
    /\ UNCHANGED <<act, doomed, procs, keeps>>

\* A failed copy is an error of a put; a body the store served is let go.
CopyEnds(q) ==
    IF q \in keeps THEN Continue(q, "again") ELSE Reply(q, "error")

\* A copy that fails truncates the file.
CopyFails(q) ==
    /\ Writes(q) \in Faulty /\ pc[q] \in {"pre", "last"} /\ Write(q, {}) /\ CopyEnds(q)
    /\ fd' = fd \ {q}
    /\ UNCHANGED <<act, doomed, procs, keeps>>

\* A close that fails removes whatever has the name.
CloseFails(q) ==
    /\ Writes(q) \in Faulty /\ pc[q] = "last" /\ CopyEnds(q)
    /\ body' = [body EXCEPT ![Writes(q)] = Gone]
    /\ fd' = {p \in fd : Writes(p) # Writes(q)}
    /\ UNCHANGED <<act, old, doomed, cut, procs, keeps>>

\* putIndexEntry, after the output; the tier's put then names the file, which
\* stamps it.
WriteEntry(q) ==
    LET a == Action(q) o == Writes(q)
    IN /\ pc[q] = "entry" /\ act' = [act EXCEPT ![a] = o]
       /\ old' = old \ (IF q \in keeps THEN {a} ELSE {a, o})
       /\ IF q \in keeps THEN Continue(q, "again") ELSE Reply(q, o)
       /\ UNCHANGED <<body, doomed, cut, procs, keeps, fd>>

EntryFails(q) ==
    /\ Writes(q) \in Faulty /\ pc[q] = "entry" /\ act' = [act EXCEPT ![Action(q)] = None]
    /\ CopyEnds(q)
    /\ UNCHANGED <<body, old, doomed, cut, procs, keeps, fd>>

----------------------------------------------------------------------------
(* The trim of a process that closes: it looks at a file, then removes it. *)

Exists(f) == (f \in Acts /\ act[f] # None) \/ (f \in Outs /\ body[f] # Gone)

TrimLooks(f) ==
    /\ f \in old \ doomed /\ Exists(f) /\ doomed' = doomed \cup {f}
    /\ UNCHANGED <<act, body, old, cut, procs, work, gets, puts>>

TrimRemoves(f) ==
    /\ f \in doomed /\ doomed' = doomed \ {f} /\ old' = old \ {f}
    /\ act' = [a \in Acts |-> IF a = f THEN None ELSE act[a]]
    /\ body' = [o \in Outs |-> IF o = f THEN Gone ELSE body[o]]
    /\ cut' = cut \cup ({f} \cap Outs)
    /\ fd' = {q \in fd : Writes(q) # f}
    /\ UNCHANGED <<procs, pc, got, keeps, gets, puts>>

----------------------------------------------------------------------------
Serve(q) ==
    \/ LookOnDisk(q) \/ Remote(q) \/ OpenOut(q) \/ SkipCopy(q) \/ WritePre(q) \/ WriteLast(q)
    \/ CopyFails(q) \/ CloseFails(q) \/ WriteEntry(q) \/ EntryFails(q)

Serving ==
    \/ \E c \in Child : Dial(c) \/ LinkFails(c)
    \/ \E q \in Req : Ask(q) \/ Attend(q) \/ Deliver(q) \/ Serve(q)

DiskNext ==
    \/ Serving
    \/ OwnerDies
    \/ \E f \in Acts \cup Outs : TrimLooks(f) \/ TrimRemoves(f)

\* Goroutines run, calls return, and a ring whose owner died says so.
DiskSpec == DiskInit /\ [][DiskNext]_diskVars /\ WF_diskVars(Serving)

----------------------------------------------------------------------------
(* Properties.                                                             *)

\* A file of the right size holds the right bytes: several writers, a writer
\* that died half-way and a trim leave no file of the full size with a hole
\* (copyFile holds the last byte back).
SizeMeansBytes == \A o \in Outs : "last" \in body[o] => "pre" \in body[o]

\* What a get or a put answered with is whole on disk unless a trim took it:
\* an entry is written after its output, and a put that joined another's
\* flight does not answer for it unseen (putIndexEntry, store).
AnsweredIsWhole == \A q \in Req : got[q] \in Outs => body[got[q]] = Whole \/ got[q] \in cut

\* Every request of a process that lives returns, though the owner dies at any
\* step: before the record, with the record in the ring, in a flight others
\* joined, or with the reply on its way (ask, deliver, fail).
AsksReturn == <>(\A q \in Req : ask[q] = "over")
=============================================================================
