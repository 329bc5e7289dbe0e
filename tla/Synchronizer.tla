---------------------------- MODULE Synchronizer ----------------------------
(***************************************************************************)
(* The synchronizer (synchronizer/synchronizer.go).  Fetchers send ranges  *)
(* of blocks over datachan, in any order; one goroutine buffers them in    *)
(* dataToSave and, on every tick, saves the contiguous run of blocks that  *)
(* starts at currBlock.  The records of that run get the keys that follow  *)
(* currIndex.                                                              *)
(*                                                                         *)
(* save() is two steps: the database commit, and then the advance of       *)
(* currBlock.  Between them the orchestrator and the router can read       *)
(* currBlock, which is not behind the mutex, and the process can die.      *)
(***************************************************************************)
EXTENDS Persistor, Sequences, SequencesExt

CONSTANT ChanCap   \* capacity of datachan (200 in the code)

ASSUME ChanCapAssumption == ChanCap \in Nat \ {0}

VARIABLES
    datachan,       \* the buffered channel, a sequence of SyncStructs
    dataToSave,     \* block |-> its records; only the buffered blocks
    currBlock,      \* next block to save
    currIndex,      \* next key of the data bucket
    syncPc,         \* where the synchronizer goroutine is
    startBlock,     \* argument of Start, kept for the life of the process
    blockIterator,  \* locals of save() between the commit and
    keyIterator     \* the advance of the counters

syncVars == <<datachan, dataToSave, currBlock, currIndex, syncPc, startBlock,
              blockIterator, keyIterator>>

SyncPcs == {"off", "spawned", "select", "committed"}

NothingToSave == [b \in {} |-> <<>>]

NewSynchronizer ==
    /\ datachan = <<>>
    /\ dataToSave = NothingToSave
    /\ currBlock = 0
    /\ currIndex = 0
    /\ syncPc = "off"
    /\ startBlock = 0
    /\ blockIterator = 0
    /\ keyIterator = 0

-----------------------------------------------------------------------------
(* Called by the fetcher: blocks while the channel is full. *)
Add(item) ==
    /\ Len(datachan) < ChanCap
    /\ datachan' = Append(datachan, item)
    /\ UNCHANGED <<dataToSave, currBlock, currIndex, syncPc, startBlock,
                   blockIterator, keyIterator>>

\* Called by the orchestrator and by the router.
GetCurrBlock == currBlock

\* "go synchronizer.Start(start)": the goroutine exists, and has not run yet.
GoStart(start) ==
    /\ syncPc = "off"
    /\ syncPc' = "spawned"
    /\ startBlock' = start
    /\ UNCHANGED <<datachan, dataToSave, currBlock, currIndex, blockIterator,
                   keyIterator>>

\* The first statements of Start, up to its loop.
Start ==
    /\ syncPc = "spawned"
    /\ syncPc' = "select"
    /\ currBlock' = currBlock + startBlock
    /\ UNCHANGED <<datachan, dataToSave, currIndex, startBlock, blockIterator,
                   keyIterator>>

\* data with the blocks of range as the item has them; a block the item has no
\* data for becomes an entry without records.
AddTo(data, item, range) ==
    [b \in DOMAIN data \cup range |->
        IF b \notin range THEN data[b]
        ELSE IF b \in DOMAIN item.DataToSave THEN item.DataToSave[b]
        ELSE <<>>]

\* Variants of add: its loop runs past the end of the range, or stops short.
addPastEnd(item) == AddTo(dataToSave, item, item.StartBlock .. (item.EndBlock + 1))

addBeforeEnd(item) == AddTo(dataToSave, item, item.StartBlock .. (item.EndBlock - 1))

\* dataToSave with every block of the item's range.
add(item) == AddTo(dataToSave, item, item.StartBlock .. item.EndBlock)

\* The loop of Start takes an item from the channel.
Receive ==
    /\ syncPc = "select"
    /\ datachan # <<>>
    /\ dataToSave' = add(Head(datachan))
    /\ datachan' = Tail(datachan)
    /\ UNCHANGED <<currBlock, currIndex, syncPc, startBlock, blockIterator,
                   keyIterator>>

-----------------------------------------------------------------------------
(* The ticker fires: save(). *)

\* The block at which the loop of save() stops: the first one from currBlock
\* that is not buffered.
StopsAt(next) ==
    /\ next > currBlock
    /\ next \notin DOMAIN dataToSave
    /\ currBlock .. (next - 1) \subseteq DOMAIN dataToSave

\* Variant: the buffer is read from its last block to its first.
ConcatBackwards(data, from, next) ==
    FlattenSeq([j \in 1..(next - from) |-> data[next - j]])

\* The records of blocks from .. next - 1, in block order.
Concat(data, from, next) ==
    FlattenSeq([j \in 1..(next - from) |-> data[from + j - 1]])

\* Variant: the key is incremented before its first use.
RegistersFromNext(records, startKey) ==
    [k \in (startKey + 1) .. (startKey + Len(records)) |-> records[k - startKey]]

\* The registers of save(), as a function from Key to Data.
Registers(records, startKey) ==
    [k \in startKey .. (startKey + Len(records) - 1) |->
        records[k - startKey + 1]]

\* The transaction commits.
SaveCommit ==
    /\ syncPc = "select"
    /\ currBlock \in DOMAIN dataToSave
    /\ \E next \in {b + 1 : b \in DOMAIN dataToSave} :
         LET records == Concat(dataToSave, currBlock, next)
         IN  /\ StopsAt(next)
             /\ SaveData(Registers(records, currIndex), next - 1)
             /\ blockIterator' = next
             /\ keyIterator' = currIndex + Len(records)
    /\ syncPc' = "committed"
    /\ UNCHANGED <<datachan, dataToSave, currBlock, currIndex, startBlock>>

\* Variant: the error of SaveData is ignored.
SaveErrorIgnored ==
    /\ syncPc = "select"
    /\ currBlock \in DOMAIN dataToSave
    /\ \E next \in {b + 1 : b \in DOMAIN dataToSave} :
         /\ StopsAt(next)
         /\ blockIterator' = next
         /\ keyIterator' = currIndex + Len(Concat(dataToSave, currBlock, next))
    /\ syncPc' = "committed"
    /\ UNCHANGED <<dbVars, datachan, dataToSave, currBlock, currIndex, startBlock>>

\* The transaction fails: save() returns the error and keeps everything for
\* the next tick.
SaveError ==
    /\ syncPc = "select"
    /\ currBlock \in DOMAIN dataToSave
    /\ UNCHANGED <<dbVars, syncVars>>

\* The counters advance and the saved blocks leave the buffer.
SaveAdvance ==
    /\ syncPc = "committed"
    /\ currBlock' = currBlock + (blockIterator - currBlock)
    /\ currIndex' = currIndex + (keyIterator - currIndex)
    /\ dataToSave' = [b \in DOMAIN dataToSave \ (currBlock .. (blockIterator - 1))
                        |-> dataToSave[b]]
    /\ syncPc' = "select"
    /\ blockIterator' = 0
    /\ keyIterator' = 0
    /\ UNCHANGED <<datachan, startBlock>>
=============================================================================
