------------------------------- MODULE Indexer -------------------------------
(***************************************************************************)
(* The whole process (main.go): the orchestrator, the fetcher goroutines   *)
(* and the synchronizer over one database, beside a chain that grows.  The *)
(* process can die at any point, by a signal or by a panic, and be started *)
(* again, with the same or another environment, on the database it left.   *)
(*                                                                         *)
(* The balancer appears through the outcomes of its calls: an answer,      *)
(* types.ErrReqTooBig, or types.ErrMaxRounds.                              *)
(***************************************************************************)
EXTENDS Orchestrator

CONSTANT MaxCrashes   \* bound on the number of times the process dies

ASSUME CrashAssumption == MaxCrashes \in Nat

VARIABLE crashes

vars == <<head, dbVars, syncVars, fetchVars, orchVars, crashes>>

Init ==
    /\ ChainInit
    /\ NewPersistor
    /\ NewSynchronizer
    /\ NewFetcher
    /\ OrchestratorInit
    /\ crashes = 0

-----------------------------------------------------------------------------
(* The chain. *)
Grow ==
    /\ NewBlock
    /\ UNCHANGED <<dbVars, syncVars, fetchVars, orchVars, crashes>>

(* The orchestrator. *)
StartRange ==
    /\ \E env \in Envs : manageRange(env)
    /\ UNCHANGED <<head, crashes>>

StartFull ==
    /\ \E env \in Envs : manageFull(env)
    /\ UNCHANGED <<head, crashes>>

StartFullTag ==
    /\ \E endBlock \in TagAnswers : manageFullTag(endBlock)
    /\ UNCHANGED <<head, crashes>>

OrchestrateTick ==
    /\ orchestrate
    /\ UNCHANGED <<head, crashes>>

OrchestrateTag(endBlock) ==
    /\ orchestrateTag(endBlock)
    /\ UNCHANGED <<head, crashes>>

(* The fetcher. *)
FetchAcquire(g) ==
    /\ Acquire(g)
    /\ UNCHANGED <<head, dbVars, syncVars, orchVars, crashes>>

\* The last blocks the endpoint that answers GetLogs may know.  What it does
\* not know is counted from the end of the range the orchestrator asked for,
\* of which the range of a goroutine is a part.
MayKnow == {k \in Blocks : currEndblock - MaxShort <= k /\ k <= currEndblock}

FetchReturns(g) ==
    /\ (\E knew \in MayKnow : FetchOk(g, knew)) \/ FetchTooBig(g)
    /\ UNCHANGED <<head, dbVars, syncVars, orchVars, crashes>>

FetchAdds(g) ==
    /\ Added(g)
    /\ Add(SyncStruct(g))
    /\ UNCHANGED <<head, dbVars, orchVars, crashes>>

(* The synchronizer. *)
SyncStart ==
    /\ Start
    /\ UNCHANGED <<head, dbVars, fetchVars, orchVars, crashes>>

SyncReceive ==
    /\ Receive
    /\ UNCHANGED <<head, dbVars, fetchVars, orchVars, crashes>>

SyncCommit ==
    /\ SaveCommit
    /\ UNCHANGED <<head, fetchVars, orchVars, crashes>>

SyncError ==
    /\ SaveError
    /\ UNCHANGED <<head, fetchVars, orchVars, crashes>>

SyncAdvance ==
    /\ SaveAdvance
    /\ UNCHANGED <<head, dbVars, fetchVars, orchVars, crashes>>

(* The process ends: everything but the database is gone. *)
Die ==
    /\ crashes < MaxCrashes
    /\ crashes' = crashes + 1
    /\ orchPc' = "down"
    /\ currEndblock' = 0
    /\ orchBlock' = 0
    /\ datachan' = <<>>
    /\ dataToSave' = NothingToSave
    /\ currBlock' = 0
    /\ currIndex' = 0
    /\ syncPc' = "off"
    /\ startBlock' = 0
    /\ blockIterator' = 0
    /\ keyIterator' = 0
    /\ fetch' = [g \in Goroutine |-> NoFetch]
    /\ permits' = 0
    /\ UNCHANGED <<head, dbVars>>

\* fetchWithRetry panics on an error other than ErrReqTooBig.
FetchPanics(g) ==
    /\ fetch[g].pc = "fetchData"
    /\ Die

\* A signal, a kill, or main's panic on an error of StartOrchestrator.
Crash ==
    /\ orchPc # "down"
    /\ Die

Next ==
    \/ Grow
    \/ StartRange
    \/ StartFull
    \/ StartFullTag
    \/ OrchestrateTick
    \/ \E endBlock \in TagAnswers : OrchestrateTag(endBlock)
    \/ \E g \in Goroutine : FetchAcquire(g) \/ FetchReturns(g) \/ FetchAdds(g)
    \/ SyncStart
    \/ SyncReceive
    \/ SyncCommit
    \/ SyncError
    \/ SyncAdvance
    \/ \E g \in Goroutine : FetchPanics(g)
    \/ Crash

Spec == Init /\ [][Next]_vars

(***************************************************************************)
(* Fairness.  Every goroutine that can run runs (the Go scheduler), the    *)
(* balancer returns from every call, because its rounds are bounded, and   *)
(* both ready cases of the synchronizer's select are taken in the end.     *)
(* Of the world outside: a commit does not fail for ever, an endpoint      *)
(* that knows the head answers the tag request again and again, and an     *)
(* operator restarts the process when it dies.                             *)
(***************************************************************************)
Fairness ==
    /\ WF_vars(StartRange) /\ WF_vars(StartFull) /\ WF_vars(StartFullTag)
    /\ WF_vars(OrchestrateTick)
    /\ SF_vars(OrchestrateTag(head))
    /\ \A g \in Goroutine :
         WF_vars(FetchAcquire(g)) /\ WF_vars(FetchReturns(g)) /\ WF_vars(FetchAdds(g))
    /\ WF_vars(SyncStart)
    /\ WF_vars(SyncReceive)
    /\ WF_vars(SyncCommit)
    /\ WF_vars(SyncAdvance)

FairSpec == Spec /\ Fairness

-----------------------------------------------------------------------------
(* The SyncStructs a fetcher goroutine can send. *)
SyncStructs ==
    {[StartBlock |-> s, EndBlock |-> e, DataToSave |-> fetchData(s, e, k)] :
        s \in 0..(MaxBlock + 1), e \in Blocks, k \in Blocks}

DbTypeOK ==
    /\ dbMode \in {"none", ModeRange, ModeFull}
    /\ dbLast \in -1..MaxBlock
    /\ \A k \in DOMAIN dbData : k \in Nat /\ dbData[k] \in Records

SyncTypeOK ==
    /\ datachan \in Seq(SyncStructs)
    /\ DOMAIN dataToSave \subseteq Blocks
    /\ \A b \in DOMAIN dataToSave : dataToSave[b] \in {Events(b), <<>>}
    /\ currBlock \in 0..(MaxBlock + 1)
    /\ currIndex \in Nat
    /\ syncPc \in SyncPcs
    /\ startBlock \in 0..(MaxBlock + 1)
    /\ blockIterator \in 0..(MaxBlock + 1)
    /\ keyIterator \in Nat

Fetches == [pc : FetchPcs, start : 0..(MaxBlock + 1), end : Blocks, knew : Blocks]

FetchTypeOK ==
    /\ fetch \in [Goroutine -> Fetches]
    /\ permits \in 0..Concurrency

OrchTypeOK ==
    /\ orchPc \in OrchPcs
    /\ currEndblock \in Blocks
    /\ orchBlock \in 0..(MaxBlock + 1)

\* Type invariant.  The buffered records of a block are those of the chain or
\* none, and the range of a goroutine or of an item may be reversed
\* (start > end) but ends in the chain.
TypeOK ==
    /\ head \in Blocks
    /\ DbTypeOK
    /\ SyncTypeOK
    /\ FetchTypeOK
    /\ OrchTypeOK
    /\ crashes \in 0..MaxCrashes

-----------------------------------------------------------------------------
(* Where the blocks are. *)

InFlight(g) == IF fetch[g].pc = "none" THEN {} ELSE fetch[g].start .. fetch[g].end

InChannel(i) == datachan[i].StartBlock .. datachan[i].EndBlock

\* Blocks that were requested and are not handled by the synchronizer yet.
OnTheWay ==
    (UNION {InFlight(g) : g \in Goroutine})
        \cup (UNION {InChannel(i) : i \in DOMAIN datachan})

\* No block is lost between the RPC and the database: every block of the
\* range that was requested since the process started is in the database, in
\* the synchronizer's buffer, in the channel, or in the range of a goroutine
\* that is still fetching it.  The code has no retry above fetchWithRetry, so
\* a block that leaves this set unsaved stalls the synchronizer for ever.
NoBlockLost ==
    syncPc # "off" =>
        startBlock .. currEndblock \subseteq
            (0 .. dbLast) \cup DOMAIN dataToSave \cup OnTheWay

\* No block is fetched or saved a second time: the ranges in flight and in the
\* channel are pairwise disjoint, disjoint from the buffer, and lie beyond the
\* last block of the database.  A block that arrived twice would be saved
\* under two keys, or stay in dataToSave for ever.
NoBlockTwice ==
    /\ \A g, h \in Goroutine : g # h => InFlight(g) \cap InFlight(h) = {}
    /\ \A i, j \in DOMAIN datachan : i # j => InChannel(i) \cap InChannel(j) = {}
    /\ \A g \in Goroutine, i \in DOMAIN datachan : InFlight(g) \cap InChannel(i) = {}
    /\ OnTheWay \cap ((0 .. dbLast) \cup DOMAIN dataToSave) = {}
    /\ syncPc = "select" => DOMAIN dataToSave \cap (0 .. dbLast) = {}

\* The answer of the router's /last-block-indexed.
getLatestBlockIndexed == GetCurrBlock - 1

\* The router's /last-block-indexed never names a block that is not in the
\* database: not before the synchronizer goroutine has run, not between the
\* commit and the advance of currBlock, and not after a crash between the two.
\* A range index that has stored nothing yet is the exception: it reports
\* START_BLOCK - 1.
ReportedIsIndexed ==
    orchPc # "down" /\ (dbMode = ModeFull \/ dbLast >= 0) => getLatestBlockIndexed <= dbLast

\* The semaphore's permits are exactly those of the goroutines inside
\* fetchData: no path through fetchWithRetry leaks or returns one twice.
PermitsAccounted ==
    permits = Cardinality({g \in Goroutine : fetch[g].pc = "fetchData"})

\* The keys of the data bucket have no gap, also after a restart: following
\* GetPaginated's nextIndex (startIndex plus the number of results) skips none.
KeysContiguous ==
    \A k \in DOMAIN dbData : \A j \in 0..k : j \in DOMAIN dbData

\* The stored records in key order.
StoredRecords == [i \in 1..Cardinality(DOMAIN dbData) |-> dbData[i - 1]]

Index == INSTANCE BlockIndex WITH
            mode <- dbMode, last <- dbLast, records <- StoredRecords

\* The database is, at every step of the fetchers, the synchronizer and the
\* orchestrator, the index that BlockIndex promises: it grows by runs of
\* blocks, in chain order, with the records of each block once (fetchData
\* makes one of the last matching log of a transaction), and only the last
\* MaxShort blocks of a run can be without their records.
IndexImplemented == Index!Spec

\* A full index is not restarted.  What its restart does to the stored records
\* is the subject of SavedDataKept.
FullKeepsRunning == ~(dbMode = ModeFull /\ crashes' > crashes)

\* What readers get: the database holds the records of the blocks from the
\* first to the last of the index, each once and in chain order, at every step
\* of a save and however ranges were split and reordered.  A full index starts
\* at block 0, a range index at START_BLOCK.  Blocks are without their records,
\* for ever, only if an endpoint may not know the blocks it is asked for
\* (MaxShort > 0), and in a range index only the last ones before END_BLOCK.
StoredExactly ==
    IF dbLast = -1 THEN StoredRecords = <<>>
    ELSE \E first \in 0..dbLast : \E missed \in SUBSET (first..dbLast) :
           /\ StoredRecords = Index!Run(first, dbLast, missed)
           /\ MaxShort = 0 => missed = {}
           /\ dbMode = ModeFull => first = 0
           /\ dbMode = ModeRange /\ syncPc # "off" =>
                first = startBlock /\ \A b \in missed : b > currEndblock - MaxShort

\* "when you restart, it will begin from the block after the last saved one"
\* (fetcher.go:201): the last block of a full index never goes back, whatever
\* the tag says, which ranges are in flight and where the process dies.
FullOnlyAdvances ==
    [][dbMode = ModeFull /\ dbMode' = ModeFull => dbLast <= dbLast']_dbVars

\* In full mode every block the tag reaches is indexed in the end, across
\* restarts: the orchestrator's cycle never stalls.
CatchesUp == \A b \in Blocks : head >= b ~> dbLast >= b

-----------------------------------------------------------------------------
(* The inductive invariant behind the accounting of blocks and of keys. *)

\* The next block the synchronizer saves, also before its goroutine has run.
NextBlock == IF syncPc = "spawned" THEN startBlock ELSE currBlock

\* What is known from where the orchestrator and the synchronizer are.  While
\* the orchestrator waits for the tag, the block it read stays the current one
\* and nothing is on the way.
Phases ==
    /\ orchPc \in {"down", "starting"} <=> syncPc = "off"
    /\ syncPc = "off" =>
         datachan = <<>> /\ \A g \in Goroutine : fetch[g].pc = "none"
    /\ syncPc \in {"off", "spawned"} =>
         currBlock = 0 /\ currIndex = 0 /\ dataToSave = NothingToSave
    /\ orchPc = "ask" =>
         syncPc = "select" /\ orchBlock = currBlock /\ currBlock > currEndblock

\* The database ends just before the next block, except before the first save
\* of a range and between a commit and the advance that follows it.
SavedUpToNext ==
    /\ syncPc # "off" => startBlock <= NextBlock
    /\ syncPc \in {"spawned", "select"} =>
         \/ dbLast = NextBlock - 1
         \/ dbMode = ModeRange /\ dbLast = -1 /\ NextBlock = startBlock
    /\ syncPc = "committed" =>
         /\ dbLast = blockIterator - 1
         /\ blockIterator > currBlock
         /\ currBlock .. (blockIterator - 1) \subseteq DOMAIN dataToSave

\* Nothing is on the way or buffered outside the blocks still to be saved of
\* the range that was requested.
OnlyRequested ==
    OnTheWay \cup DOMAIN dataToSave \subseteq NextBlock .. currEndblock

\* The synchronizer's key counter never runs ahead of the stored keys.
KeysCounted ==
    /\ 0 .. (currIndex - 1) \subseteq DOMAIN dbData
    /\ syncPc = "committed" => 0 .. (keyIterator - 1) \subseteq DOMAIN dbData

\* The inductive invariant: the accounting of the blocks between the RPC and
\* the database, of the permits and of the keys, at every step of the three
\* goroutines, across crashes, restarts and changes of mode.
Accounting ==
    /\ TypeOK
    /\ PermitsAccounted
    /\ Phases
    /\ SavedUpToNext
    /\ OnlyRequested
    /\ NoBlockLost
    /\ NoBlockTwice
    /\ KeysCounted
    /\ KeysContiguous

-----------------------------------------------------------------------------
(* What the repository says of itself and the code does not keep. *)

\* "In full mode, any data saved up until now will not be lost, and when you
\* restart, it will begin from the block after the last saved one."
\* (fetcher.go:201)  A record stored by a full index stays stored as long as
\* the database is not opened for a range.
SavedDataKept ==
    [][dbMode = ModeFull /\ dbMode' = ModeFull =>
        \A k \in DOMAIN dbData : k \in DOMAIN dbData' /\ dbData'[k] = dbData[k]]_dbVars

\* "the block range is split into two halves and the fetch is retried for
\* each half" (fetcher.go:62): what is fetched is a range of blocks.
FetchesRanges ==
    \A g \in Goroutine : fetch[g].pc # "none" => fetch[g].start <= fetch[g].end
=============================================================================
