------------------------------ MODULE FetchData ------------------------------
(***************************************************************************)
(* Inside fetchData (fetcher/fetcher.go) and the three requests it and the *)
(* orchestrator make of an endpoint (balancer/rpc.go).  A range up to the  *)
(* tag one endpoint knows is fetched with two calls of the balancer, which *)
(* may be answered by two other endpoints: the logs with TOPIC, and then   *)
(* the headers and transactions they belong to, in one batch.              *)
(*                                                                         *)
(* A block is given by its logs with TOPIC, in log-index order: of each,   *)
(* the number of its transaction in the block and how that transaction     *)
(* relates to ADDRESS.                                                     *)
(***************************************************************************)
EXTENDS Integers, Sequences, SequencesExt, FiniteSetsExt

CONSTANTS
    MaxBlock,    \* bound on the height of the chain
    Chains,      \* block |-> sequence of [tx, how], for each chain considered
    Endpoint,
    MaxLag,      \* blocks an endpoint may be behind another
    Depth        \* BLOCK_TAG |-> blocks it is behind the head of an endpoint

Blocks == 0..MaxBlock

How == {"to", "from", "other", "create"}

ASSUME FetchDataAssumption ==
    /\ MaxBlock \in Nat /\ MaxLag \in Nat
    /\ \A c \in Chains : /\ c \in [Blocks -> Seq([tx : Nat, how : How])]
                          /\ \A b \in Blocks : \A i, j \in DOMAIN c[b] :
                               c[b][i].tx = c[b][j].tx => c[b][i].how = c[b][j].how
    /\ Depth \in [DOMAIN Depth -> Nat]

VARIABLES
    chain,    \* one of Chains, for good
    blockTag, \* BLOCK_TAG, for good
    height,   \* endpoint |-> the last block it knows
    call      \* the call of fetchData: its place, range, logs and result;
              \* knew is the height of the endpoint that answered GetLogs

vars == <<chain, blockTag, height, call>>

Pcs == {"idle", "GetLogs", "GetBlocksAndTxs", "done", "error", "panic"}

NoData == [b \in {} |-> <<>>]

NoCall == [pc |-> "idle", start |-> 0, end |-> 0, logs |-> <<>>, knew |-> 0,
           result |-> NoData]

Init ==
    /\ chain \in Chains
    /\ blockTag \in DOMAIN Depth
    /\ height = [e \in Endpoint |-> 0]
    /\ call = NoCall

\* An endpoint learns of the next block.
Sync(e) ==
    /\ height[e] < MaxBlock
    /\ \A f \in Endpoint : height[e] + 1 <= height[f] + MaxLag
    /\ height' = [height EXCEPT ![e] = @ + 1]
    /\ UNCHANGED <<chain, blockTag, call>>

-----------------------------------------------------------------------------
(* The requests, as endpoint e answers them. *)

\* Variant: the tag is not passed on, and the endpoint answers its head.
getBlockFromTagLatest(e) == height[e]

getBlockFromTag(e) == Max({0, height[e] - Depth[blockTag]})

Log(b, i) == [BlockNumber |-> b, Index |-> i, TxHash |-> <<b, chain[b][i].tx>>]

\* The endpoint answers with what it has of the range.
getLogs(e, start, end) ==
    FlattenSeq([j \in 1..(Min({end, height[e]}) - start + 1) |->
                  [i \in DOMAIN chain[start + j - 1] |-> Log(start + j - 1, i)]])

Nil   == -1
NilTx == <<Nil, Nil>>

\* An entry that the endpoint does not know comes back as a null, without an
\* error, and leaves a nil in the slice.
getBlocksAndTxs(e, bns, txHashes) ==
    [blocks |-> [i \in DOMAIN bns |-> IF bns[i] <= height[e] THEN bns[i] ELSE Nil],
     txs    |-> [i \in DOMAIN txHashes |->
                    IF txHashes[i][1] <= height[e] THEN txHashes[i] ELSE NilTx]]

-----------------------------------------------------------------------------
(* fetchData. *)

\* The numbers of a set in order.
Sorted(S) ==
    CHOOSE s \in [1..Cardinality(S) -> S] : \A i, j \in DOMAIN s : i < j => s[i] < s[j]

\* The block numbers of the logs, each once, in order.
bnsOf(logs) == Sorted({l.BlockNumber : l \in ToSet(logs)})

\* One hash for each log: a transaction with several logs is requested as often.
txHashesOf(logs) == [i \in DOMAIN logs |-> logs[i].TxHash]

\* The map is filled in log order: the last log of the transaction stays.
txHashToLog(logs, tx) == logs[SelectLastInSeq(logs, LAMBDA l : l.TxHash = tx)]

blockToSlice(blocks, bn) == SelectLastInSeq(blocks, LAMBDA b : b = bn)

HowOf(tx) == chain[tx[1]][SelectInSeq(chain[tx[1]], LAMBDA l : l.tx = tx[2])].how

\* The transaction is to or from ADDRESS.
Matches(tx) == HowOf(tx) \in {"to", "from"}

\* Log indexes of the block's matching transactions, in order.
bnToLogIndexes(logs, txs, bn) ==
    Sorted({l.Index : l \in {txHashToLog(logs, tx) :
               tx \in {t \in ToSet(txs) : t[1] = bn /\ Matches(t)}}})

\* A record: the root comes from a log, the time and the parent hash from a
\* header.
IndexedData(bn, lIndex, header) == [root |-> <<bn, lIndex>>, header |-> header]

\* Variant: an index that is met twice is appended twice.
dataToSaveEach(logs, answer) ==
    LET mine(bn) == SelectSeq(answer.txs, LAMBDA t : t[1] = bn /\ Matches(t))
        header(bn) == answer.blocks[blockToSlice(answer.blocks, bn)]
    IN  [bn \in {b \in ToSet(bnsOf(logs)) : mine(b) # <<>>} |->
           [k \in DOMAIN mine(bn) |->
               IndexedData(bn, txHashToLog(logs, mine(bn)[k]).Index, header(bn))]]

dataToSave(logs, answer) ==
    LET indexes(bn) == bnToLogIndexes(logs, answer.txs, bn)
        header(bn)  == answer.blocks[blockToSlice(answer.blocks, bn)]
    IN  [bn \in {b \in ToSet(bnsOf(logs)) : indexes(b) # <<>>} |->
           [k \in DOMAIN indexes(bn) |->
               IndexedData(bn, indexes(bn)[k], header(bn))]]

\* A nil of the batch, or the missing recipient of a transaction that creates
\* a contract, is dereferenced.
Dereferences(answer) ==
    \/ Nil \in ToSet(answer.blocks)
    \/ NilTx \in ToSet(answer.txs)
    \/ \E tx \in ToSet(answer.txs) \ {NilTx} : HowOf(tx) = "create"

\* A range that ends at the tag, as some endpoint knows it, or before: the
\* orchestrator's, or a part of it.
fetchData ==
    /\ call.pc = "idle"
    /\ \E e \in Endpoint : \E end \in 0..getBlockFromTag(e) : \E start \in 0..end :
         call' = [NoCall EXCEPT !.pc = "GetLogs", !.start = start, !.end = end]
    /\ UNCHANGED <<chain, blockTag, height>>

\* Without logs fetchData returns at once.
GetLogs(e) ==
    /\ call.pc = "GetLogs"
    /\ LET logs == getLogs(e, call.start, call.end)
       IN  call' = [call EXCEPT !.pc = IF logs = <<>> THEN "done" ELSE "GetBlocksAndTxs",
                                !.logs = logs, !.knew = height[e]]
    /\ UNCHANGED <<chain, blockTag, height>>

GetBlocksAndTxs(e) ==
    LET answer == getBlocksAndTxs(e, bnsOf(call.logs), txHashesOf(call.logs))
    IN  /\ call.pc = "GetBlocksAndTxs"
        /\ \/ /\ Dereferences(answer)
              /\ call' = [call EXCEPT !.pc = "panic"]
           \/ /\ ~Dereferences(answer)
              /\ call' = [call EXCEPT !.pc = "done",
                                      !.result = dataToSave(call.logs, answer)]
        /\ UNCHANGED <<chain, blockTag, height>>

\* The balancer returns an error, or a sender or the data of a log cannot be
\* recovered: fetchData returns the error.
Fails ==
    /\ call.pc \in {"GetLogs", "GetBlocksAndTxs"}
    /\ call' = [call EXCEPT !.pc = "error"]
    /\ UNCHANGED <<chain, blockTag, height>>

\* The caller goes on: the result is sent, the range split, or the process ends.
Return ==
    /\ call.pc \in {"done", "error", "panic"}
    /\ call' = NoCall
    /\ UNCHANGED <<chain, blockTag, height>>

Next ==
    \/ \E e \in Endpoint : Sync(e) \/ GetLogs(e) \/ GetBlocksAndTxs(e)
    \/ fetchData
    \/ Fails
    \/ Return

Spec == Init /\ [][Next]_vars

-----------------------------------------------------------------------------
\* The records of a block, straight from the chain: one for each transaction
\* to or from ADDRESS that logs TOPIC, taken from its last such log.
Recorded(b) ==
    LET kept(i) == /\ chain[b][i].how \in {"to", "from"}
                   /\ \A j \in DOMAIN chain[b] : chain[b][j].tx = chain[b][i].tx => j <= i
    IN  [k \in 1..Cardinality({i \in DOMAIN chain[b] : kept(i)}) |->
           LET i == CHOOSE i \in DOMAIN chain[b] :
                      kept(i) /\ Cardinality({j \in 1..i : kept(j)}) = k
           IN  IndexedData(b, i, b)]

\* The data that is due for the blocks from .. to: no entry for a block without
\* records.
Due(from, to) == [b \in {x \in from..to : Recorded(x) # <<>>} |-> Recorded(b)]

\* Whatever mix of endpoints answers, a result that is returned has exactly the
\* records of the range, as far as the endpoint that answered GetLogs knew the
\* chain: each transaction once, with its own block's header, in log order,
\* and no entry made from a null.
FetchExact ==
    call.pc = "done" => call.result = Due(call.start, Min({call.end, call.knew}))

\* Blocks by which the lag between endpoints exceeds the depth of the tag.
MaxShort == IF Depth[blockTag] >= MaxLag THEN 0 ELSE MaxLag - Depth[blockTag]

\* A result misses at most the last MaxShort blocks of its range, and misses no
\* block but those: every endpoint that can be asked for the logs knows the
\* others.  Nothing is missing if the tag is behind the head of an endpoint by at
\* least as much as endpoints are behind each other.
FetchComplete ==
    call.pc = "done" =>
        \E missing \in 0..MaxShort : call.result = Due(call.start, call.end - missing)

-----------------------------------------------------------------------------
(* What the repository says of itself and the code does not keep. *)

\* "It indexes until that tag and keeps updating as the service runs."
\* (README.MD:14)  A result has the records of the whole range, for every tag.
FetchesUntilTag == call.pc = "done" => call.result = Due(call.start, call.end)
=============================================================================
