----------------------------- MODULE ServerDown -----------------------------
(***************************************************************************)
(* The retry loop under every request of the client (doRetry in            *)
(* cacheclient/web_resilience.go), with the quiet period a shed server     *)
(* asks for, the latch that stops a build from waiting on a server that    *)
(* stopped answering, and the fetches of objects a build cannot do without *)
(* (Fetch in cacheclient/storetier.go), which park while it is set.        *)
(*                                                                         *)
(* Each atomic read, compare-and-swap or signal that another goroutine may *)
(* come between is a step.  Time is what may happen next: a quiet period   *)
(* ends, a probe falls due, a sleep or a timer ends.                       *)
(*                                                                         *)
(* RequestProofs extends this module and BatchGet, so the names are apart. *)
(***************************************************************************)
EXTENDS Integers, FiniteSets

CONSTANTS
    Lookup,           \* requests the build waits on, one attempt loop each
    Fetcher,          \* calls of Fetch: a request, and another while the server was down
    MaxRetries        \* maxRetries

ASSUME ServerDownAssumption == MaxRetries \in Nat /\ Lookup \cap Fetcher = {}

Req == Lookup \cup Fetcher

VARIABLES
    at, try,              \* a request's step and attempt
    down, due, quiet,     \* downSince is set; probeAt is past; shedUntil is not
    probes,               \* requests let through since probeAt was last set or passed
    was, said,            \* Fetch's wasDown; what its request learnt from the server
    sig                   \* Fetch's channel of upSignal

net == <<down, due, quiet, probes>>
fetch == <<was, said, sig>>
downVars == <<at, try, net, fetch>>

DownInit ==
    /\ at = [r \in Req |-> IF r \in Lookup THEN "top" ELSE "begin"] /\ try = [r \in Req |-> 0]
    /\ down = FALSE /\ due = FALSE /\ quiet = FALSE /\ probes = 0
    /\ was = [f \in Fetcher |-> FALSE] /\ said = [f \in Fetcher |-> "nothing"]
    /\ sig = [f \in Fetcher |-> "none"]

\* A request that is over leaves nothing behind; a Fetch judges its result.
After(r, l) == IF l = "over" /\ r \in Fetcher THEN "judge" ELSE l
Goto(r, l) ==
    /\ at' = [at EXCEPT ![r] = After(r, l)]
    /\ try' = IF l = "over" THEN [try EXCEPT ![r] = 0] ELSE try

\* What Fetch's request learnt: a hit, an absence, or that the server is down.
Learns(r, a) == said' = [f \in Fetcher |-> IF f = r THEN a ELSE said[f]]

----------------------------------------------------------------------------
(* The head of the loop: the context, the quiet period, and mayAsk.        *)

\* The context of a request may be done at any time.
Cancel(r) ==
    /\ at[r] = "top" /\ Goto(r, "over")
    /\ UNCHANGED <<net, fetch>>

\* An operation whose every attempt fell in the quiet period gets the shed the
\* server would have answered (heldBackResponse).
HeldBack(r) == try[r] >= MaxRetries

\* In the quiet period nothing is sent; the wait counts as an attempt.
Hold(r) ==
    /\ at[r] = "top" /\ quiet
    /\ Goto(r, IF HeldBack(r) THEN "over" ELSE "sleep")
    /\ UNCHANGED <<net, fetch>>

\* Requests pass while the server answers; while it does not, they are refused
\* unless a probe is due, and then race for it.
MayAsk(r) ==
    /\ at[r] = "top" /\ ~quiet
    /\ Goto(r, IF ~down THEN "sent" ELSE IF due THEN "swap" ELSE "over")
    /\ IF down /\ ~due THEN Learns(r, "down") ELSE UNCHANGED said
    /\ UNCHANGED <<net, was, sig>>

\* probeAt changes: a compare-and-swap with the value read before will fail.
Outdated(f) == [r \in Req |-> IF f[r] = "swap" THEN "late" ELSE f[r]]

\* Variant of ClaimProbe: probeAt is stored, not swapped.
ClaimProbeStores(r) ==
    /\ at[r] = "swap" /\ due' = FALSE /\ probes' = probes + 1
    /\ at' = [at EXCEPT ![r] = "sent"]
    /\ UNCHANGED <<try, down, quiet, fetch>>

ClaimProbe(r) ==
    /\ at[r] = "swap" /\ due' = FALSE /\ probes' = probes + 1
    /\ at' = Outdated([at EXCEPT ![r] = "sent"])
    /\ UNCHANGED <<try, down, quiet, fetch>>

LoseProbe(r) ==
    /\ at[r] = "late" /\ Goto(r, "over") /\ Learns(r, "down")
    /\ UNCHANGED <<net, was, sig>>

----------------------------------------------------------------------------
(* One attempt.                                                            *)

\* The result is final, or the next attempt comes after a sleep.
Settle(r, final) == IF final \/ try[r] >= MaxRetries THEN "over" ELSE "sleep"

NoteNoAnswer == down' = TRUE /\ due' = FALSE /\ probes' = 0

\* Variant of Answered: a server that answers again is noted, nobody is told.
AnsweredUntold(r) ==
    /\ at[r] = "sent" /\ down' = FALSE
    /\ Goto(r, "answered")
    /\ UNCHANGED <<due, quiet, probes, fetch>>

\* noteAnswered: a down server is back; the waiters are told in a second step.
Answered(r) ==
    /\ at[r] = "sent" /\ down' = FALSE
    /\ Goto(r, IF down THEN "fire" ELSE "answered")
    /\ UNCHANGED <<due, quiet, probes, fetch>>

Fire(r) ==
    /\ at[r] = "fire" /\ Goto(r, "answered")
    /\ sig' = [f \in Fetcher |-> IF sig[f] = "taken" THEN "fired" ELSE sig[f]]
    /\ UNCHANGED <<net, was, said>>

\* A transient answer may carry a Retry-After of some time (parseRetryAfter);
\* noteShed keeps the later deadline.
RetryAfter == BOOLEAN
NoteShed(after) == quiet' = (quiet \/ after)

\* The watchdog cuts a body off that stops to flow.
Body == {"hit", "absent", "cut"}

\* A definitive answer is the result; a transient one is retried.
Classify(r) ==
    /\ at[r] = "answered"
    /\ \/ /\ Goto(r, Settle(r, TRUE)) /\ UNCHANGED quiet
          /\ \E a \in Body : Learns(r, a)
       \/ /\ Goto(r, Settle(r, FALSE)) /\ UNCHANGED said
          /\ \E after \in RetryAfter : NoteShed(after)
    /\ UNCHANGED <<down, due, probes, was, sig>>

\* A request the build waits on that waited past slowAnswer marks the server down although an
\* answer came, and uses the answer.
SlowAnswer(r) ==
    /\ at[r] = "sent" /\ NoteNoAnswer
    /\ at' = Outdated([at EXCEPT ![r] = "answered"])
    /\ UNCHANGED <<try, quiet, fetch>>

\* Silence marks the server down and ends the request: the build compiles.
NoAnswer(r) ==
    /\ at[r] = "sent" /\ NoteNoAnswer
    /\ at' = Outdated([at EXCEPT ![r] = After(r, "over")]) /\ try' = [try EXCEPT ![r] = 0]
    /\ Learns(r, "down")
    /\ UNCHANGED <<quiet, was, sig>>

\* Any other error says nothing about the server and is retried.
AttemptFails(r) ==
    /\ at[r] = "sent" /\ Goto(r, Settle(r, FALSE))
    /\ UNCHANGED <<net, fetch>>

\* Variant of Wake: a wait is not an attempt.
WakeUncounted(r) ==
    /\ at[r] = "sleep" /\ at' = [at EXCEPT ![r] = "top"]
    /\ UNCHANGED <<try, net, fetch>>

\* sleepQuiet, sleepBackoff.
Wake(r) ==
    /\ at[r] = "sleep" /\ at' = [at EXCEPT ![r] = "top"] /\ try' = [try EXCEPT ![r] = @ + 1]
    /\ UNCHANGED <<net, fetch>>

ProbeDue ==
    /\ down /\ ~due /\ due' = TRUE /\ probes' = 0
    /\ UNCHANGED <<at, try, down, quiet, fetch>>

QuietEnds ==
    /\ quiet /\ quiet' = FALSE
    /\ UNCHANGED <<at, try, down, due, probes, fetch>>

----------------------------------------------------------------------------
(* Fetch, and awaitAnswer: the channel is taken before the server is       *)
(* looked at.                                                              *)

\* Variant of Begin: wasDown is read once, before the loop.
BeginOnce(f) ==
    /\ at[f] = "begin" /\ Goto(f, "top") /\ was' = [was EXCEPT ![f] = @ \/ down]
    /\ UNCHANGED <<net, said, sig>>

\* Disk misses, and the store is asked.
Begin(f) ==
    /\ at[f] = "begin" /\ Goto(f, "top") /\ was' = [was EXCEPT ![f] = down]
    /\ UNCHANGED <<net, said, sig>>

\* A hit is the result.  A miss is final from a server that is up and was;
\* while it is down it is an outage.
Judge(f) ==
    /\ at[f] = "judge"
    /\ at' = [at EXCEPT ![f] = IF said[f] = "hit" THEN "over" ELSE IF down THEN "await"
                               ELSE IF was[f] THEN "begin" ELSE "over"]
    /\ said' = IF at'[f] = "over" THEN said ELSE [said EXCEPT ![f] = "nothing"]
    /\ UNCHANGED <<try, net, was, sig>>

TakeSignal(f) ==
    /\ at[f] = "await" /\ Goto(f, "look") /\ sig' = [sig EXCEPT ![f] = "taken"]
    /\ UNCHANGED <<net, was, said>>

Look(f) ==
    /\ at[f] = "look" /\ Goto(f, IF down THEN "park" ELSE "begin")
    /\ sig' = IF down THEN sig ELSE [sig EXCEPT ![f] = "none"]
    /\ UNCHANGED <<net, was, said>>

\* On the signal, or when the probe that was next at the look falls due.
Unpark(f) ==
    /\ at[f] = "park"
    /\ Goto(f, "begin") /\ sig' = [sig EXCEPT ![f] = "none"]
    /\ UNCHANGED <<net, was, said>>

----------------------------------------------------------------------------
RetryStep(r) ==
    \/ Cancel(r) \/ Hold(r) \/ MayAsk(r) \/ ClaimProbe(r) \/ LoseProbe(r)
    \/ Answered(r) \/ Fire(r) \/ Classify(r) \/ SlowAnswer(r) \/ NoAnswer(r)
    \/ AttemptFails(r) \/ Wake(r)

FetchStep(f) ==
    RetryStep(f) \/ Begin(f) \/ Judge(f) \/ TakeSignal(f) \/ Look(f) \/ Unpark(f)

DownNext ==
    \/ \E r \in Lookup : RetryStep(r)
    \/ \E f \in Fetcher : FetchStep(f)
    \/ ProbeDue \/ QuietEnds

\* Goroutines run and timers fire; a request ends, because its watchdog cancels
\* it when nothing moves.  No quiet period has to end, no probe to fall due.
\* The lookups take finitely many steps, so it is enough that one of them runs.
DownFairness == WF_downVars(\E r \in Lookup : RetryStep(r)) /\ \A f \in Fetcher : WF_downVars(FetchStep(f))

DownSpec == DownInit /\ [][DownNext]_downVars /\ DownFairness

----------------------------------------------------------------------------
(* Properties.                                                             *)

DownTypeOK ==
    /\ at \in [Req -> {"begin", "judge", "await", "look", "park", "top", "swap", "late",
                       "sent", "fire", "answered", "sleep", "over"}]
    /\ try \in [Req -> 0..MaxRetries] /\ probes \in Nat
    /\ {down, due, quiet} \subseteq BOOLEAN /\ was \in [Fetcher -> BOOLEAN]
    /\ said \in [Fetcher -> {"nothing", "down"} \cup Body]
    /\ sig \in [Fetcher -> {"none", "taken", "fired"}]

\* While the server is down one request goes out per downProbeEvery, however
\* many goroutines find the probe due at once (mayAsk).
OneProbe == probes <= 1

\* A Fetch parked while the server answers has been told so, or is about to be:
\* no answer falls between its look and its park (awaitAnswer).
NoLostWakeup ==
    \A f \in Fetcher : at[f] = "park" /\ ~down /\ (\A r \in Req : at[r] # "fire") => sig[f] = "fired"

\* Every lookup ends in a bounded number of attempts, though the server asks
\* for quiet again and again (doRetry).
RequestsEnd == <>(\A r \in Lookup : at[r] = "over")

\* Once the server stays up every Fetch returns, whatever outage it began,
\* asked or parked in (Fetch).
FetchReturns == <>[]~down => \A f \in Fetcher : <>(at[f] = "over")

\* No Fetch returns a miss because the server was down: "A miss is final only
\* from a server that was up for the whole lookup" (Fetch).
OutageIsNoMiss == \A f \in Fetcher : at[f] = "over" => said[f] # "down"
=============================================================================
