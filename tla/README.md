# Verification of eoa-topic-indexer

eoa-topic-indexer follows an Ethereum chain through several RPC endpoints and
stores, for every transaction from or to `ADDRESS` that logs `TOPIC`, one record
in a BoltDB file. It serves the records over HTTP. This directory holds TLA+
models of its core, the TLC runs that check them and TLAPS proofs about them.

## The system

| part | state | operations | interacts with |
|---|---|---|---|
| `orchestrator` | mode, end of the last range requested | `StartOrchestrator`, `manageRange`, `manageFull`, the `orchestrate` loop | opens the persistor, spawns `synchronizer.Start` and `fetcher.RequestRange`, asks the balancer for the tag, reads `GetCurrBlock` |
| `fetcher` | a semaphore of `CONCURRENCY` permits, any number of goroutines with a range each | `RequestRange`, `fetchWithRetry` (with splits), `fetchData` | calls the balancer, sends `SyncStruct`s with `synchronizer.Add` |
| `synchronizer` | channel of 200 items, `dataToSave`, `currBlock`, `currIndex` | `Add`, `GetCurrBlock`, `Start`, `add`, `save` | `persistor.SaveData` on every tick |
| `persistor` | two Bolt buckets: records by key, and mode and last block | `StartDB`, `GetLastBlockIndex`, `SaveData`, `GetPaginated` | - |
| `balancer` | a shared counter, `blockedUntil` of each client | `GetLogs`, `GetBlockFromTag`, `GetBlocksAndTxs`, all through `handleRounds`, `handleRetries`, `doRetry` | RPC endpoints; `error_code.go` classifies their errors |
| `router` | two goroutines in an error group | `/data`, `/health`, `/last-block-indexed`, `RunServer` | `GetPaginated`, `GetCurrBlock`; `main` closes the database after it |
| `main`, `environment`, `types` | - | construction, settings, encodings | - |

What is hard in it:

- three kinds of goroutines (orchestrator, fetchers, synchronizer) coordinate
  through one counter, `currBlock`, that is read without a lock, before an RPC
  and used after it;
- ranges are split when an endpoint refuses them, and the halves arrive in any
  order through a bounded channel;
- nothing above `fetchWithRetry` retries: one block that gets lost, one leaked
  permit or one stuck goroutine stalls the index for ever, without an error;
- the process panics by design, at any point, and resumes from the database;
- the database commits before the counters advance;
- callers of the balancer share its counter and its blocks, and the sleep
  between rounds has exactly the length of a temporary block;
- the tag, the logs and the headers of one range may come from three endpoints
  at three heights;
- readers follow pages by index while the index grows, is restarted or emptied;
- a signal, an error of `ListenAndServe`, `Shutdown`, `g.Wait` and the deferred
  close of the database meet requests that are being served.

What makes each part correct: the orchestrator never requests a block twice and
always starts the next cycle; the fetcher gives back every permit and covers
exactly its range; the synchronizer saves whole blocks in chain order with
contiguous keys; the persistor resumes after the last stored block and mixes no
range index into a full one; the balancer returns from every call and reaches an
endpoint that answers; `fetchData` returns each matching transaction of its
range that the endpoint knows once, with its own block's header; the router names no block that is not
stored, its pages leave nothing out, and it shuts down before the database is
closed, and always does.

## Modules

| module | models |
|---|---|
| `Chain` | external: the chain and the heights endpoints answer for `BLOCK_TAG` |
| `Persistor` | `StartDB`, `GetLastBlockIndex`, `SaveData`, each one Bolt transaction |
| `Synchronizer` | `Add`, `Start`, `add`, `save` |
| `Fetcher` | `RequestRange`, `fetchWithRetry`, the semaphore |
| `Environment` | the fallbacks of `GetInt64` and `GetString` |
| `Orchestrator` | both modes and the `orchestrate` loop; extends the three above |
| `Indexer` | the process: all of these, crashes and restarts, the properties |
| `BlockIndex` | abstract: what the index promises its readers |
| `ErrorCode` | `getErrCode` and `handleRPCError` |
| `Balancer` | callers of `handleRounds`, client blocks and time |
| `FetchData` | inside `fetchData`: its two calls, the requests of `rpc.go`, endpoints at different heights, the join |
| `Server` | `main` and the two goroutines of `RunServer`, from the start of the process to the close of the database |
| `Router` | `/data`, `GetPaginated`, the keys' encoding, clients; extends `Persistor` and `Server` |
| `MCIndexer`, `MCBalancer`, `MCFetchData`, `MCRouter` | small instances for TLC |
| `FlattenFacts`, `IndexerTypes`, `IndexerCounts`, `IndexerProofs`, `IndexRefinement`, `RouterProofs`, `FetchDataProofs`, `BalancerProofs` | proofs |

### The indexer

A block is its number; its content is the sequence of records `fetchData` makes
of it when the endpoint knows it, `Events(b)`, of any length including none. State
and code correspond by name: `datachan`, `dataToSave`, `currBlock`, `currIndex`,
`currEndblock` are the code's variables, `dbMode`, `dbLast` and `dbData` the two
buckets, and `fetch` and `permits` the fetcher's goroutines and its semaphore. `syncPc`, `orchPc` and
`fetch[g].pc` are places in the code.

Where the code can be interrupted, an operation is several steps:

- `save()` is `SaveCommit` (the transaction) and `SaveAdvance` (the counters):
  `currBlock` is atomic, not behind the mutex, so others read it in between, and
  the process can die there. `SaveError` is a transaction that fails;
- an iteration of `orchestrate` is `OrchestrateTick` (read `currBlock`) and
  `OrchestrateTag` (the answer arrives and the value read before is used). The
  answer is any height up to `head`, for endpoints lag. An error is height 0,
  because the loop goes on with the zero value the call returned;
- `manageFull` is `StartFull` and `StartFullTag` around its RPC;
- `go synchronizer.Start` is `GoStart` and, when the goroutine runs, `Start`;
  `currBlock` is 0 in between, and the router may report it;
- a goroutine of `fetchWithRetry` waits for a permit, is inside `fetchData`, or
  waits in `Add` for room in the channel. `fetchData` ends with the data of the
  range as far as the endpoint that answered knew it (`MayKnow`), with
  `ErrReqTooBig` (both halves are retried, a reversed or one-block range
  included), or with any other error, which panics (`FetchPanics`).

An endpoint that is behind answers `GetLogs` without an error. `MaxShort` is how
many of the last blocks of the orchestrator's range it may not know; their
records are then missing, and the synchronizer saves the blocks as blocks that
have none. `FetchData` shows what `MaxShort` is: what the endpoints' lag exceeds
the depth of the tag by (`FetchComplete`), 0 for a deep tag. For an `END_BLOCK` in
the future it is the number of blocks that do not exist yet. The abstract
`BlockIndex` has the same parameter: when the index grows, its new blocks can be
without their records if they are among the last `MaxShort`.

A crash (`Crash`, `FetchPanics`) clears everything but the database. The next
start chooses any environment of `Envs`, so modes alternate.

### The balancer

A call is one run of `handleRounds`; the three public calls differ in payload
only. Loading the counter, checking the client, the request, the block of the
client and the sleep are separate steps of each caller. Time is counted in ticks
that may pass between any two steps: `blocked[c]` is what is left until
`blockedUntil`. What the endpoints can answer, `answers`, is arbitrary within
`Answers` and fixed for a behaviour. An error is its shape and its codes
(`ErrorCode`); that is all `getErrCode` looks at.

### fetchData

`Fetcher` takes `fetchData` as one step that returns the records of the range up
to a block `knew`; `FetchData` opens it, and `FetchExact` says that a call returns
just that. A block is the sequence of its logs with `TOPIC`: of each,
the number of its transaction and whether that transaction is to `ADDRESS`, from
it, of others, or creates a contract. Each endpoint has its own height, and the
two calls may go to different ones (that is the balancer's choice, hence
arbitrary). An endpoint answers with what it has: `getLogs` with the logs up to
its height, `getBlocksAndTxs` with a null for a block or transaction beyond it.
A null, or the missing recipient of a contract creation, panics when it is
dereferenced. The join is written as the code does it, with one hash per log,
the map that keeps the last log of a transaction, the log indexes sorted per
block and the header found by block number. The reference, `Recorded` and `Due`,
is written from the chain alone. `knew` remembers the height of the endpoint that
answered `GetLogs`.

### The router

`Router` uses the transactions of `Persistor`. Of the synchronizer it keeps
`currBlock` and `currIndex`, the latter 0 after every start as in the code, so a
restarted full index writes over its records here too. A client asks for a first
page with any `startIndex` and `limit` of small sets and then follows
`nextPage`; a client whose connection is lost asks for the same page again.
Accepting a request and reading its page are two steps, so that a shutdown, a
save or the death of the process falls between them. Saves go on until `main`
closes the database: nothing stops the synchronizer before. A key is an unsigned
word, so a negative `startIndex` is beyond all keys. A client record remembers in
`since` whether the database was emptied, or records written over, since its
first request.

The life of the process is in `Server`: `main` starts the indexer, runs
`RunServer`, waits in `g.Wait` and closes the database by its deferred call
(`mainPc`). One goroutine is inside `ListenAndServe` (`listener`); the other waits
until the group's context is done and calls `Shutdown` (`shutdown`). The context
is done after a signal, which may come at any time, or after an error of
`ListenAndServe`, since the error group cancels it. Of `net/http` it is taken that
`Shutdown` stops the listener first and returns when no accepted request is
active, and that `ListenAndServe` returns at once when `Shutdown` is called, thus
before the last request is answered. A process that dies before is `ProcessEnds`.

## Runs

| run | checks | result |
|---|---|---|
| `restart` | `TypeOK`, `NoBlockLost`, `NoBlockTwice`, `ReportedIsIndexed`, `PermitsAccounted`, `KeysContiguous`, `Accounting`, `FullOnlyAdvances` | hold, 758k states |
| `index` | `IndexImplemented`: the process implements `BlockIndex`; `StoredExactly`: the database holds exactly the records of one run of blocks, but for what endpoints did not know | hold, 81k states |
| `catch_up` | `CatchesUp`: every block the tag reaches is indexed in the end | holds, 5k states |
| `full_key_reuse` | `SavedDataKept` | violated |
| `split_reversed` | `FetchesRanges` | violated |
| `balancer_solo` | `TypeOK`, `SleepOutlastsBlocks`, `HealthyServes` with one caller | hold, 3k states |
| `balancer_calls` | `CallsReturn` with two callers | holds, 42k states |
| `balancer_starved` | `HealthyServes` with two callers | violated |
| `balancer_unblocked` | `IndefiniteIsForever` | violated |
| `fetch_data` | `FetchExact`: a result is the reference for what the endpoint knew; `FetchComplete`: what it misses is bounded by the lag beyond the tag's depth | hold, 51k states |
| `fetch_lagging` | `FetchesUntilTag`: for the whole range, with the tag `latest` | violated |
| `pages` | `PagesExact`, `ReadToTheEnd`; `RequestsFindDatabase`: no accepted request meets a closed database; `ServerStops`: after a signal or an error of the listener `main` gets to the end | hold, 282k states |

Run one with `tlc -config restart.cfg MCIndexer`.

Bounds. `MaxBlock` 2 or 3 gives a block without records between blocks with one
and two, ranges that split twice, and several cycles of the orchestrator.
`Goroutine` bounds the goroutines alive at a time: three allow a split of a half
while the other half is in flight. A split waits for a free goroutine, which the
code does not do; the proofs show that the safety properties hold for any number.
`Concurrency` is below the number of goroutines, so that they wait for permits,
and `ChanCap` 1 or 2 instead of 200 so that the channel is full. `MaxCrashes` is
1: the database is all that survives a crash, so one crash at every step meets
every kind of restart, and the proofs cover any number. `Served` is the longest range an
endpoint never refuses; `ServesNothing` refuses everything, reversed ranges
included, and is what the safety run uses. `lenClients` 3, `maxRounds` 2 and
`blockTime` 2 let blocks of one round expire in the middle of the next. Fetcher
goroutines are symmetric, and so are endpoints; `pages` and `catch_up` use no
symmetry, since they check liveness.

`fetch_data` takes every chain of three blocks out of six shapes: no log, a log
of others alone, before or after a matching one, several logs of one transaction,
a contract creation. `MaxLag` is how far endpoints are behind each other and
`Depth` how far a tag is behind the head of each; with `MaxLag` 1 the tag
`latest` (depth 0) is on one side of the condition of `FetchComplete` and `safe`
(depth 1) on the other. In the indexer's runs the same lag is `MaxShort`: 1 in
`restart`, so that the accounting is checked with blocks that were not known, and
in `index`, so that of four blocks all but the last must be complete in a range
index. `catch_up` and the two findings beside it have 0: they are not about the
records an answer has. `pages` has three records, limits of 1 and the default (2
instead of 10), so that pages are partly full, exactly full and empty, and start
indexes before, inside and, while the database is empty, past the records. Two
clients let two requests be active when the server is shut down. `Word` is 256
instead of 2^64; what matters is that it is far above the keys.

Deadlock is not checked where range mode occurs, since a range index has nothing
left to do once its range is saved. `index` excludes restarts of a full index
(`FullKeepsRunning`): what they do is the finding of `full_key_reuse`.

### Fairness

`catch_up` assumes that goroutines that can run do (the Go scheduler), that the
two ready cases of the synchronizer's `select` are both taken in the end (Go
chooses at random), that calls of the balancer return (`CallsReturn`), and of the
world that a commit does not fail for ever, that the operator restarts the
process, and that an endpoint that knows the head answers the tag request again
and again (strong fairness on `OrchestrateTag(head)`: the request is repeated
every cycle but lagging answers may come between). Endpoints serve one block at
least (`Served = 1`): a block they refuse for ever is never indexed, as
`split_reversed` shows. Nothing is assumed of crashes but that they are bounded.

`pages` assumes that `main` and the goroutines of `RunServer` run when they can,
which includes that `StartOrchestrator` returns (its one call of the balancer does,
`CallsReturn`), and that a handler returns: it makes one read of the database and
one write. A client that never reads its answer would hold `Shutdown`, which is
called without a deadline, for ever. Nothing is assumed of the signal, of the
start of the listener or of its errors.

`balancer_calls` assumes that time passes and that callers run. A request ends
because `doRetry` selects on `time.After`.

## What does not hold

- `full_key_reuse`: `Start` restores `currBlock` from the database but leaves
  `currIndex` at 0. A full index that is restarted writes its records from key 0
  over stored ones. `fetcher.go:201` and `README.MD:15` promise that nothing
  saved is lost.
- `split_reversed`: a single block that is refused is split into itself and a
  range that ends before it starts. `fetcher.go:62` speaks of two halves.
- `balancer_starved`: callers move the shared counter, so the retries of one
  caller may meet the same blocked client in every retry of every round. It
  returns `ErrMaxRounds`, which panics the fetcher, though another client answers
  everything.
- `balancer_unblocked`: a rate limit or timeout that arrives late replaces the
  indefinite block another caller has set by a temporary one.
- `fetch_lagging`: the range ends at the tag one endpoint knows, and another one
  that is behind answers `GetLogs` with the logs it has. The blocks it does not
  know are saved as blocks without records and never fetched again, though
  `README.MD:14` says that the service indexes until the tag. `FetchComplete`
  shows how many blocks it can be, none with a tag at least as deep as endpoints
  lag, and `IndexImplemented` what it does to the index.

Two smaller ones have no run of their own. In range mode `/last-block-indexed`
answers `START_BLOCK - 1` while the database is empty (the premise of
`ReportedIsIndexed`), where `README.MD:136` promises a block that is indexed. And
the leading zero codes of a batch are skipped, so that the codes 0, -32602 count
as a request that is too big although `error_code.go:63` says that codes that are
not all equal are a fault of the node.

## Proofs

The theorems hold for every value of the constants that satisfies the `ASSUME`s
of the modules: any `MaxBlock` and any number of records per block, any lag
`MaxShort`, any finite set of goroutines, any number of permits, channel capacity, environments and
crashes, any number of clients, endpoints, lags, rounds and ticks.

| theorem | states |
|---|---|
| `AccountingInvariant` | `Spec => []Accounting` |
| `TypeCorrect`, `NothingLost`, `NothingTwice`, `PermitsNeverLeak`, `KeysNeverGap` | the invariants of `restart` |
| `ReportedIsStored` | `Spec => []ReportedIsIndexed` |
| `IndexerImplementsIndex` | `Spec /\ [][FullKeepsRunning]_vars => IndexImplemented` |
| `ReadersGetTheRun` | `Spec /\ [][FullKeepsRunning]_vars => []StoredExactly` |
| `RecordsKeptWhileRunning` | `Spec /\ [][FullKeepsRunning]_vars => SavedDataKept` |
| `FullNeverGoesBack` | `Spec => FullOnlyAdvances` |
| `PagesAreExact`, `LastPageIsLast` | the two properties of `pages` |
| `RequestsFindIt` | `Spec => []RequestsFindDatabase` |
| `FetchIsExact`, `DeepTagCompletes` | the two properties of `fetch_data` |
| `SleepsLongEnough`, `OneHealthyServes` | `SleepOutlastsBlocks` and `HealthyServes`, if there is one caller |
| `BalancerTypeCorrect` | `Balancer!Spec => []TypeOK` |

`Accounting` is inductive. `NoBlockLost` and `NoBlockTwice` alone are not:

- that a new cycle requests nothing a second time needs `OnlyRequested` (all that
  is on the way or buffered lies between the next block to save and the end of
  the last range), so that `currBlock > currEndblock` means nothing is;
- that the value `orchestrate` read before the RPC is still right after it needs
  `Phases`: while it waits, `orchBlock = currBlock` and nothing is on the way,
  hence nothing can move;
- that the advance after a commit removes exactly the stored blocks, and that a
  restart resumes after the last of them, needs `SavedUpToNext`;
- that keys have no gap after a restart, when the key counter starts again at 0,
  needs `KeysCounted`: the counter never exceeds the stored keys.

A split preserves the accounting because the two halves partition the range, for
reversed ranges too (`SplitHalves`). `IndexerTypes` has the lemmas about the
operators and the preservation of the types, `IndexerCounts` the permits and the
keys, `IndexerProofs` the blocks, one step per action, and the theorems.
`FlattenFacts` types what `save()` writes: `FlattenSeq` is a recursive function,
and the induction goes over a set of naturals without a least element.

`IndexRefinement` shows that the process implements `BlockIndex`: a start is
`Open`, a commit is `Extend` of the blocks it takes, and every other step leaves
the index alone. Nothing is assumed of what endpoints know: that the blocks a
commit misses are among its last `MaxShort` is `FetchedInFull`. Wherever a block is,
in a goroutine whose fetch succeeded, in the channel or in the buffer, its records
are with it unless it is one of the last `MaxShort` of the range the orchestrator
asked for, and the next range is asked for when all of that one is stored. The hypothesis `[][FullKeepsRunning]_vars` says that no full
index dies; range indexes may, and full ones may follow them. It cannot be
dropped, since `full_key_reuse` refutes the conclusion without it, and
`RecordsKeptWhileRunning` shows the converse: nothing but that restart replaces a
stored record. Two facts are added to `Accounting`. `KeysExact`: while the
synchronizer lives its key counter is exactly the number of stored keys, so that
a commit appends. `ModesAgree`: a database that is opened for a full index and
was not wiped is empty. A commit appends a run to a run, and `StoredExactly`
calls the result one run (`FlattenSplit`, `RunsMeet`, `RunsJoin`). That a full index never
goes back holds with restarts too; it follows from `SavedUpToNext`.

`RouterProofs`: the keys are an interval from 0, because the counter that a
restart sets back to 0 never exceeds them (`KeysInv`), so the n-th key a cursor
visits from `startIndex` is `startIndex + n - 1` (`PageIs`; a negative
`startIndex` visits none), and a client's next index is its first index plus what
it has received (`ClientInv`). This rests on the keys being below half of `Word`,
the bound in the guard of `Save`. `RequestsFindIt` rests on `ShutdownInv`: `main` is
past `g.Wait` only when `Shutdown` has returned, no request was active then, and
none is accepted after it was called. `ListenAndServe` returns earlier than that,
and waiting for it alone would not do.

`FetchDataProofs`: the answer to `GetLogs` has the logs of the range, as far as
the endpoint knows it, and no others, in chain order (`Listed`, by induction over
the blocks). The join rests on that order: the map keeps the last log of a
transaction (`LastLog`), so the indexes of a block are its kept logs
(`IndexesAreKept`), and a batch without nulls has the header that was requested
for each of them (`AnswerIs`). `Sorted` is any increasing sequence of a set; that
there is exactly one, and that its k-th member has k members up to it, which is
how the reference `Recorded` counts, follows from counting (`RankIsOnto`,
`SortedIs`). Between the two calls `LogsInHand` carries the list. It is assumed
that a transaction relates to `ADDRESS` in one way, whichever of its logs is
looked at. `FetchComplete` then needs that
the endpoint knew the range but for its last blocks: endpoints are at most `MaxLag`
apart, so the tag of one is at most `MaxLag - Depth` blocks ahead of what all of
them know when the range is requested, and they only learn more (`InReach`).

`BalancerProofs`: blocks are set to `blockTime`, and a sleep of that length begins
after the last of them; a tick shortens both. `HealthyServes` follows from a
distance: alone, the counter moves once per retry, so the retries that are left
in a round are more than the steps from the counter to the healthy client
(`OnTheWayTo`), which nobody ever blocks: the first round ends there at the
latest, and the caller never sleeps. It needs `maxRounds > 0`: with `MAX_ROUNDS` 0
every call fails. With a second caller, which can renew a block and move the
counter meanwhile, both are false (`balancer_starved`).

Only model-checked is liveness (`CatchesUp`, `CallsReturn`, `ServerStops`), which is beyond the
provers: every invariant and action property of the passing runs is a theorem.

## What is not modelled

- reorganisations of the chain, which the code does not handle: blocks are joined
  by number, and what is saved is never revised;
- the late answer of a request that timed out: it goes into a channel nobody
  reads;
- the HTTP protocol, gob, hex, ABI and JSON-RPC encodings, which are library
  code, and `/health`, which has no state;
- settings other than the ones that choose the mode: they are constants.

## Plan

1. `FetchData` composed with `Fetcher`: that the step in which `Fetcher` returns the
   records of a range is what a call of `FetchData` amounts to. Today `FetchExact`
   and `FetchComplete` on the one side and `MaxShort` on the other are tied by this
   text alone.
2. Reorganisations, if the code comes to handle them.
