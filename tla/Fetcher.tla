------------------------------- MODULE Fetcher -------------------------------
(***************************************************************************)
(* The fetcher (fetcher/fetcher.go): goroutines running fetchWithRetry     *)
(* over a range of blocks, at most Concurrency of them inside fetchData at *)
(* a time.  fetchData is one step with three outcomes, those of the two    *)
(* balancer calls it makes: the data of the range, as far as the endpoint  *)
(* that answers GetLogs knows the chain, types.ErrReqTooBig, or another    *)
(* error, which panics and is a step of the whole process (module          *)
(* Indexer).                                                               *)
(***************************************************************************)
EXTENDS Chain, FiniteSets

CONSTANTS
    Goroutine,    \* goroutines that can exist at a time: bounds the splits
    Concurrency,  \* size of the semaphore (CONCURRENCY)
    Served,       \* an endpoint never finds a request for Served blocks or
                  \* fewer too big; it may refuse any longer one
    MaxShort      \* how many of the last blocks that the orchestrator asks for
                  \* an endpoint may not know yet: what its lag is beyond the
                  \* depth of the tag (module FetchData)

ASSUME FetcherAssumption ==
    /\ IsFiniteSet(Goroutine)
    /\ Concurrency \in Nat \ {0}
    /\ Served \in Int
    /\ MaxShort \in Nat

VARIABLES
    fetch,    \* goroutine |-> its place in fetchWithRetry, its range, and the
              \* last block known to the endpoint that answered its GetLogs
    permits   \* permits of the semaphore that are taken

fetchVars == <<fetch, permits>>

FetchPcs == {"none", "acquire", "fetchData", "add"}

NoFetch == [pc |-> "none", start |-> 0, end |-> 0, knew |-> 0]

NewFetcher ==
    /\ fetch = [g \in Goroutine |-> NoFetch]
    /\ permits = 0

Waiting(start, end) == [pc |-> "acquire", start |-> start, end |-> end, knew |-> 0]

\* A new goroutine, for the range start..end.
RequestRange(start, end) ==
    \E g \in Goroutine :
        /\ fetch[g].pc = "none"
        /\ fetch' = [fetch EXCEPT ![g] = Waiting(start, end)]
        /\ UNCHANGED permits

Acquire(g) ==
    /\ fetch[g].pc = "acquire"
    /\ permits < Concurrency
    /\ permits' = permits + 1
    /\ fetch' = [fetch EXCEPT ![g].pc = "fetchData"]

\* Variant: the logs of the last block of the range are dropped.
fetchDataBeforeEnd(start, end, knew) ==
    [b \in {x \in start..(end - 1) : x <= knew /\ Matching[x] > 0} |-> Events(b)]

\* What fetchData returns for a range: the records of each block that has
\* some, and no entry for the others.  An endpoint whose chain ends at knew
\* answers GetLogs without an error, with the logs of the blocks up to there.
fetchData(start, end, knew) ==
    [b \in {x \in start..end : x <= knew /\ Matching[x] > 0} |-> Events(b)]

\* Variant: the permit is not given back.
ReleaseForgotten == UNCHANGED permits

\* The deferred Release of concurrentFetchData.
Release == permits' = permits - 1

FetchOk(g, knew) ==
    /\ fetch[g].pc = "fetchData"
    /\ fetch' = [fetch EXCEPT ![g].pc = "add", ![g].knew = knew]
    /\ Release

midBlock(start, end) == (start + end) \div 2

\* The endpoint refuses the range: both halves are retried.  The goroutine
\* that returns is reused for the left half.
FetchTooBig(g) ==
    LET start == fetch[g].start
        end   == fetch[g].end
        mid   == midBlock(start, end)
    IN  /\ fetch[g].pc = "fetchData"
        /\ end - start + 1 > Served
        /\ \E h \in Goroutine :
             /\ fetch[h].pc = "none"
             /\ fetch' = [fetch EXCEPT ![g] = Waiting(start, mid),
                                       ![h] = Waiting(mid + 1, end)]
        /\ Release

\* The SyncStruct of a goroutine whose fetch succeeded.
SyncStruct(g) ==
    [StartBlock |-> fetch[g].start,
     EndBlock   |-> fetch[g].end,
     DataToSave |-> fetchData(fetch[g].start, fetch[g].end, fetch[g].knew)]

\* The call of synchronizer.Add returned, and with it fetchWithRetry.
Added(g) ==
    /\ fetch[g].pc = "add"
    /\ fetch' = [fetch EXCEPT ![g] = NoFetch]
    /\ UNCHANGED permits
=============================================================================
