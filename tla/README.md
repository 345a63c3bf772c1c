# A TLA+ model of the go-s3-server build cache

The server keeps build outputs as files under a data directory, answers single
and batch requests for them, advertises what it holds through `/_index`, and
evicts what is old. The client library (`cacheclient/`) looks keys up in a copy
of that index, gets and puts objects through it, keeps them in a directory that
the processes of a build share, and hands what is left at the end to a detached
uploader. This project models the parts whose correctness depends on the order
of steps: the server has no lock per key, and the client's processes share files
and may be killed at any time.

## The system's parts

| part | state | operations | what makes it hard |
|---|---|---|---|
| admission (`admit.go`, `server.go`) | free slots, two wait lists, a grant per waiter | `tryTake`, `take`, `release`, `releaseSlot` | a hand-over races a timer and a cancellation; release happens twice |
| key index (`index.go`, `indexdelta.go`) | sorted and pending hashes, cached blobs, add log and its epoch | `Put`, `Remove`, `BlobGenForm`, `DeltaForm`, `applyRebuild` | cached blobs and clients' positions outlive what they were built from |
| storage (`storage.go`) | files, attributes, temp files | `PutStream`, `Delete`, `Open`, `Stat`, `Walk` | check-then-rename, rename-then-index, crash between them |
| eviction (`eviction.go`) | cutoff, batch of victims, access table | `Evict`, `sweepBelow`, `evictOne` | everything it decided on may have changed when it acts |
| read path (`handlers.go`, `batch.go`, `selfheal.go`, `modindex.go`) | open files, memos of checked files | GET, PUT, DELETE, batch GET, self-heal | metadata and body read at different times, memos that skip checks |
| client index (`web_index*.go`) | key set, journal, copy on disk, position | load, adopt, delta, persist, claim, drop | a load in the background while keys are claimed; two files, several processes |
| GET coalescer (`batch.go`, `webget.go`, `batch_prefetch.go`) | channel, batches, reply channels, budget | `Get`, `sendBatch`, hand-over, `Close` | cut streams, refused endpoints, twins, shutdown |
| uploads (`webput.go`, `prep.go`, `batchput.go`, `handoff.go`) | pending table, job queue, batches, spool and its lock | `Put`, `Close`, `RunUploadSpool`, sweep, drain | shutdown with work queued, processes killed, two uploaders |
| retry loop (`web_resilience.go`, `storetier.go`) | down latch, probe time, quiet period, signals | `doRetry`, `mayAsk`, `awaitAnswer`, `Fetch` | compare-and-swap and signal against other goroutines |
| disk cache and broker (`cachedisk/`, `broker*.go`) | output files, entries, flights, the owner | `Get`, `Put`, copy, trim, `ask` | several writers of a file, the owner dies |
| manifest and look-ahead (`manifest*.go`, `lookahead.go`) | marks per key, parts, gate, generations | walk, fetch, claim, wait, judge, store | a key wanted by two paths |

## Modules

- `SlotQueue` models admission. Per request it keeps where the request is,
  whether it was granted a slot, whether its timer fired and whether its client
  left; beside that the free count and the two wait lists. `tryTake`, both
  critical sections of `take` (`Take`, `Settle`), the select between them
  (`Ready`, `Timeout`, `Cancelled`), the early `ReleaseSlot` and the deferred
  `Return` are one action each. `WorkSlots` is what it promises: a semaphore with
  direct hand-over, which `SlotQueue` implements with the mapping in
  `ImplementsSemaphore`.
- `KeyIndex` models the index and its clients' copies. Each method of `Index`
  runs under `Index.mu` and is one action. `AdvertisedKeys` is what it promises:
  a set of keys, part of it pending, which `KeyIndex` implements
  (`ImplementsAdvertisedKeys`).
- `ObjectStore` models uploads, deletes, reads, one sweeper and restarts over
  the data directory and `AdvertisedKeys`. One action per file system call or
  index call, because that is the grain at which they interleave.
- `ReadPath` models one key under GET, batch GET, DELETE and PUT, file by file:
  a version is an inode, and a request keeps reading the one it opened after it
  was replaced. It has what `ObjectStore` leaves out: the extended attributes,
  the module-index guard, the digest check, the self-heal that mints a missing
  `outputid`, the metadata cache and the two memos that let a read skip a check.
  A GET reads the body through its open file, but its attributes by path unless
  they are cached; a batch entry keeps no file open and opens the body later.
- `ClientIndex` models the key set a build process works from: the copy it
  installs from disk, the load in the background (a delta or the whole index),
  the journal of claims and drops that adoption replays, live deltas, and the
  two files the processes of a machine share. What runs under `keysMu` is one
  step; reads, requests and writes of a load are steps of their own.
- `BatchGet` models a lookup from `Get` to its reply: the coalescer's channel
  and buffer, one request per batch, entries streamed back or keys asked for one
  by one, and the bodies nobody asked for with their budget. A batch is named
  after one of its callers.
- `Uploads` models an object from `Put` to the store: the claim, the table of
  pending uploads, the prep workers, the PUT coalescer, and the two ways `Close`
  ends them; then the spool, the uploader, the sweep and the drain.
- `ServerDown` models the retry loop under every request, the quiet period, the
  latch that stops a build from waiting on a dead server, and `Fetch`, which
  parks behind it. Each atomic access is a step. `BatchGet` and `Uploads` let a
  request end in any of the ways this loop can end.
- `LocalCache` models the cache directory and the processes that share it: an
  output file is the set of its parts that were written; the owner serves its
  children by a broker, shares flights among them, and may die at any step.
- `Manifest` models the fetch ahead of a build: the walk of the generations, the
  parts on the wire, lookups that claim a key or wait for it, the judge that
  pauses a fetch nobody uses, the look-ahead's gate, and the generation the
  build stores for the next one.
- `...Proofs` hold the theorems of the module they are named after, and `MC...`
  give its constants their values. Two proof modules serve two components each:
  `RequestProofs` those of `BatchGet` and `ServerDown`, `LocalProofs` those of
  `Manifest` and `LocalCache`. The names of such a pair are apart, so
  `ServerDown` has `DownSpec` and `LocalCache` has `DiskSpec` for `Spec`.

Composition: `ObjectStore` uses the index only through `AdvertisedKeys`, and
`KeyIndex` is shown to implement `AdvertisedKeys`, so what the store relies on is
what the index does. `ClientIndex` takes for its server what `KeyIndex` shows
of one: a set, an epoch that a removal ends, and a log of the keys added since.

An operator whose comment starts "Variant of" is a plausible mistake in the
definition it is a variant of. None is used by a specification; each is there to
show that a property notices it.

## Runs

| run | question | instance |
|---|---|---|
| `admission` | is the queue a semaphore, do builds go first, and is every waiting build served? | 4 requests of both classes, 1 slot, 2 places to wait, weak fairness |
| `index` | is a copy plus the log the advertised set, and is the index a key set? | 2 keys that share a short name, 2 forms, 2 clients, a log of 1 |
| `store_listed` | is what is stored advertised, and nothing else? | write once, 2 keys, all windows excluded |
| `store_busy` | what may `evictOne` unlink, with nothing excluded, and does a sweep end? | 1 key, everything at once, weak fairness of the sweeper |
| `store_lost_put` | fails: see Findings | the smallest instance that shows it |
| `read_path` | what may a read send, stamp and evict? | 1 GET or DELETE, 1 batch GET, 1 upload, 2 versions, with and without write_once |
| `client_index` | does a load lose a claim or a drop, invent a key, or use a position with the wrong copy? | 2 processes, one of which builds, 2 keys, 2 epochs |
| `uploads` | is every object stored, owed, spooled or refused, and do `Close` and the drain end? | 3 objects, 2 workers, batches of 2, queues of 1, 2 uploaders, 1 kill, 1 sweep |
| `batch_get` | is an absence ever wrong, is the budget kept, and does every `Get` return? | 3 lookups, batches of 2, a channel of 1, a budget of 1 |
| `server_down` | is there one probe, is a wake-up lost, and do requests and fetches end? | 2 lookups, 1 `Fetch`, 1 retry |
| `local_cache` | does a file of full size have its bytes, is what was answered there, and does every request return? | a get and two puts of one action, 2 processes and the owner |
| `prefetch` | is a key fetched twice, is what landed found, does the next build read what this one stored, and does everything end? | 3 lookups, 2 of one key, 2 parts, 3 keys |

Bounds. Two keys are enough for a batch to hold one and the walk to meet the
other, two uploads for one to overtake the other, two seconds for "the same
second" and "a later one". The add log's limit is reached within the bound, so
its overflow happens. Four requests for one slot fill both places of a wait
list and leave one to be turned away. Versions, epochs, entries and time are
capped by `MaxUploads`, `MaxVersions`, `MaxEpoch`, `MaxEntries` and `MaxTime` in
guards. `ReadPath` has two versions, the one found and the one that replaces it;
at most one file is damaged on disk; the LRU caches may forget an entry at any
time. Its versions are told apart by inode and mtime, as the memos do; an
overwrite that reuses both is outside the model. Queues, batches and budgets of
the client have room for fewer objects than there are, so that each is full at
some time; uploaders killed and later owners are counted by `MaxStops` and
`MaxSweeps`. The proofs do away with these bounds for the invariants they cover.

Configurations beside the runs: `MCLocalMore` is `local_cache` with a second get
(1.2 million states); `MCStoreOverwrite` is `NoPhantom` with overwriting and
merges. The others each show the observation that names them below.

Excluded windows. The server has no lock per key, and four orders of steps break
what `ObjectStore` states. They are named by the constant `Excluded`, so that
what holds outside them can be checked and proved:

- `merge`: a GET of `/_index` during a rebuild's walk moves a new upload out of
  `pending`, and the rebuild then drops it (`store_lost_put` shows it);
- `fresh`: a cutoff at the upper edge of a bucket reaches an upload that has
  renamed but not yet called `Index.Put`;
- `gap`: a rename between `evictOne`'s stat and its remove;
- `twin`: two uploads of one key at once, of which one is swept before the
  other's `Index.Put`.

`store_busy` excludes none of them.

Fairness. Every liveness run assumes that a goroutine that can run does and that
a request ends, because the code bounds it by a timer or a deadline: handlers by
the stall guard, client requests by their contexts. `admission` assumes this of
requests at work, `store_busy` of the sweeper, `batch_get` of the coalescer and
its requests, `uploads` of the workers, `Close`, the uploaders and the drain,
`server_down` of the retry loop, `local_cache` and `prefetch` of everything that
runs. None assumes that a client sends, cancels or stays, that a timer fires
before what it guards, or that the server is up: `FetchReturns` is stated for a
server that comes back for good. Runs of programs that stop by themselves say
`CHECK_DEADLOCK FALSE`.

## Findings

`PROJECT.json` quotes the line it contradicts.

- An upload that finishes during a rebuild's walk and is merged by a GET of
  `/_index` is lost from the index until the next rebuild or upload
  (`store_lost_put`).

Observations, each with a configuration that shows it:

- A delete between an upload's rename and its `Index.Put` leaves the key
  advertised without a file (`MCStoreDeletePut`).
- Two uploads of a new key at once both pass the write-once stat, and the second
  replaces the first (`MCStoreWriteOnce`).
- The clean memo is kept by key: a GET that opened a module index before it was
  replaced can find the memo set for its replacement, and sends the index
  (`MCReadIndex`).
- After a failed self-heal the key is out of the index and its file stays; the
  same body uploaded again under write_once is answered "stored" and is not
  listed (`MCReadStored`).
- Two lookups of one key in one batch: one of them has no answer coming until
  `Close` (`MCBatchTwins`). `GetReturns` is therefore about keys asked for once.
- An outage that begins and ends between the two looks of `Fetch` is returned
  as a miss (`MCFetchMiss`).
- Two writers of one output, of which one fails: the file can have its full size
  and a hole (`MCLocalHoles`).
- A part of the module's fallback goes out with a key that a lookup claimed
  meanwhile (`MCManifestClaim`).

## Proofs

All theorems hold for every value of the constants under the named assumptions
of the modules. Each invariant was checked by TLC before it was proved.

- `SlotQueueProofs`: `AdmissionSafe`, `NobodyBarges`, `BuildsGoFirst`,
  `AdmissionIsASemaphore`. The inductive invariant is conservation of slots with
  the shape of the lists: they hold exactly the waiters without a grant, each
  once; they are within their bound; no slot is idle while somebody waits; grant,
  timer and cancellation flags fit where a request is. Conservation alone is not
  inductive: `Settle` of a granted waiter would not be known to hold the slot it
  gives back.
- `KeyIndexProofs`: `DeltasComplete`, `IndexSafe`, `AnswersCurrent`,
  `OldBlobsRebuilt`. The invariant says of every cached blob and every copy of
  the current epoch that it and the log after its position are the advertised
  set, of earlier epochs only that they are earlier, and of a young blob that it
  is of the current epoch. `IndexIsAKeySet` maps every action to a step or a
  stutter of `AdvertisedKeys`.
- `ObjectStoreProofs`: `StoreTypes`; `SweepLeavesNoPhantom`, which assumes
  `Quiet`: no deletes by request and none of the windows `fresh`, `gap` and
  `twin`. Its invariant follows a victim from the walk to the unlink: it is older
  than the cutoff, de-advertised once its batch is flushed, and no running upload
  is as old. `EvictsOnlyWalked` assumes nothing: with deletes, overwrites and
  every window open, what `evictOne` is about to unlink was written in the second
  the walk saw. Its invariant (`Walked`) is about identities: every version has an
  id of its own, smaller than the next one, and the ids of files being written are
  at no path. `NoUploadLost` assumes `QuietIndex`: no deletes by request,
  write_once with notification never or always, and neither `merge` nor `twin`. Its
  invariant (`Listed`) adds to the statement that an upload renames only where no
  file is, that a victim stays as the walk saw it, and that what the rebuild's
  walk has passed by is still pending. Without `merge` excluded it is false, as
  `store_lost_put` shows.
- `ReadPathProofs`: `StampsTrue`, `RotDetectable`, `IndexRefusedAtPath`. The
  invariant follows an `outputid` through every place it is copied to: the file,
  the metadata cache, the request. One that was minted from a damaged body belongs
  to a file that never had a digest (`Copies`). A damaged file differs from what
  was uploaded and keeps the digest of the latter (`Files`). While a module index
  is at the path no memo calls the key clean and no request is past the guard,
  except a batch entry whose probe could not read the file (`Guarded`).
  `EvictsOnlyBad` is the action property about eviction. A read may hold metadata
  of another version than its file; the invariant (`EInv`) says that then the
  version it found has left the path for good, because a file that is not at the
  path yet has been read by nobody.
- `ClientIndexProofs`: `NoChangeLost`, `NoKeyInvented`, `PositionsFit`,
  `LiveSetsComplete`. The invariant says when the journal is open and that it
  holds what the process changed since it installed the copy (`Loading`,
  `Journalled`); that every set in flight, on disk or live consists of keys the
  server had or this process claimed (`Known`); and that every position fits the
  keys it came with (`Placed`, `Complete`). A position of an earlier epoch promises
  nothing, so no position may be of an epoch to come (`Past`). The four statements
  are proved together: adoption needs all of them.
- `RequestProofs`, of `BatchGet`: `AbsencesProved`, from the fact that a stream
  that was not cut still holds the entry of every caller it owes one.
  `HoldsReturned`: what is charged to the budget is the number of bodies that
  batches collect or hand over (`Charged`, a cardinality); a batch is in one of
  these stages at a time; and `Close` waits for both in this order (`Waited`).
  Of `ServerDown`: `ProbesAreSingle`: whoever is about to
  claim the probe read a time that is still current, so the first swap makes the
  others late. `NoWakeupLost`: a parked `Fetch` that was not told parked while the
  server was down, or whoever brought it back has yet to tell.
- `UploadsProofs`: `ClaimsStand`, `UploadsStayOwed`, `SpoolsOutlive`,
  `CloseForgetsNothing`. What is on its way is in the table, and a batch on the
  wire is of objects that are there, each in one batch (`Table`); without it an
  answer could settle what another batch carries. `NothingForgotten` is about the
  end of `Close` and needs the whole way to it: the objects in the workers' hands
  and the workers that have returned are together at most the pool, so all have
  returned only when no object is left with them (`Pool`, a cardinality, which is
  why `UploadsAssumption` makes `Obj` finite); what a `Put` left to them is
  queued, attempted or dropped (`Attempted`), and in the table or answered for
  (`Kept`). For the spool, the invariant (`Work`) follows each runner: what it
  has still to put and what was put cover the entries it read, so one that
  removes the file leaves nothing, though another may hold the lock by then.
- `LocalProofs`, of `Manifest`: `ClaimsStay`, `LandedFound`, `LookAheadStaysOff`.
  The invariant says which step of the walk goes with which path, that nothing is
  asked for before the marks are set, that what a part of the own manifest asked
  for is neither queued nor claimed, and that an entry is stored before its
  lookups are let go. Of `LocalCache`: `SafeOutputs`, about
  every output that is `Safe`: its copy does not fail, or one request alone may
  write it. Two writers of an output of which one may fail do leave a hole
  (`MCLocalHoles`), so the condition is needed; it is a condition on the output,
  and other outputs may be as faulty as they like. `SizesMeanBytes` and
  `AnswersAreWhole` state the two invariants of the runs for a system in which
  every faulty output is written by one request (`FaultsAlone`, as in the
  instances `MCLocalCache` and `MCLocalMore`). All three assume `Named`: neither
  `None` nor `"error"` is the name of an output. The invariant (`CacheInv`) says
  of a request with an open file that the file has its name and, before the last
  byte, the bytes before it (`HasFile`); of a request past its copy, of an entry
  and of an answer, that the output is whole or was trimmed.

Only model-checked:

- liveness, which the prover does not do: `DemandServed`, `SweepEnds`,
  `GetReturns`, `CloseEndsAll`, `CloseReturns`, `DrainEnds`, `RequestsEnd`,
  `FetchReturns`, `AsksReturn`, `AllEnd`;
- `NextBuildReadsIt`, which is about what the doubling search and the walk compute,
  an induction over the generations.

## Not modelled and why

Authentication, configuration and start-up wiring are stateless, and the purge of
an old cache version runs before anything else does. Metrics, dashboards, log
aggregation and client reports change no answer. File system compression and the
per-platform files are system calls that do not change what a file reads as. HTTP
and tar framing, header formatting, lz4 and JSON are conversions no property here
is about; a digest or an `outputid` stands for the bytes it hashes. Which entry an
LRU drops, and how the memory controller scales it, is left open: the model drops
any. The schedule of sweeps is left open too. `PROJECT.json` lists every component
with its status.
