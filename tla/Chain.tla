-------------------------------- MODULE Chain --------------------------------
(***************************************************************************)
(* The Ethereum chain as the indexer sees it through its RPC endpoints.    *)
(* Nothing of it is under src/: it is modelled from how fetcher.fetchData  *)
(* and balancer.GetBlockFromTag use it.  A block is its number; of its     *)
(* content only the records that fetchData makes of it matter: one for     *)
(* each transaction from or to ADDRESS that logs TOPIC (of several such    *)
(* logs of a transaction fetchData keeps the last).  Block b gives         *)
(* Matching[b] records, in log-index order; the j-th one is <<b, j>>.      *)
(***************************************************************************)
EXTENDS Integers, Sequences

CONSTANTS
    MaxBlock,   \* highest block the chain ever reaches: the bound on head
    Matching    \* number of records of each block

Blocks == 0..MaxBlock

Records == Blocks \X (Nat \ {0})

ASSUME ChainAssumption ==
    /\ MaxBlock \in Nat
    /\ Matching \in [Blocks -> Nat]

Events(b) == [j \in 1..Matching[b] |-> <<b, j>>]

VARIABLE head   \* block number of BLOCK_TAG at the most advanced endpoint

ChainInit == head \in Blocks

\* A block is added: the tag moves on.
NewBlock ==
    /\ head < MaxBlock
    /\ head' = head + 1

\* What GetBlockFromTag can return.  Endpoints lag behind each other, so two
\* calls may be answered in any order of heights.
TagAnswers == 0..head
=============================================================================
