------------------------------ MODULE MCIndexer ------------------------------
(***************************************************************************)
(* Small instances of Indexer for TLC.                                     *)
(***************************************************************************)
EXTENDS Indexer, TLC

\* One block without matching logs, and neighbours with one and with two.
MCMatching == [b \in Blocks |-> IF b = 1 THEN 0 ELSE IF b = 2 THEN 2 ELSE 1]

FullEnv == [START_BLOCK |-> Unset, END_BLOCK |-> Unset, BLOCK_TAG |-> ""]

RangeEnv == [START_BLOCK |-> Number(1), END_BLOCK |-> Number(MaxBlock),
             BLOCK_TAG |-> "latest"]

\* Ranges that the code takes for a full index: the start is block 0, or
\* mistyped.
LooksLikeRange ==
    {[RangeEnv EXCEPT !.START_BLOCK = Number(0)],
     [RangeEnv EXCEPT !.START_BLOCK = Unparsable]}

FullOnly == {FullEnv}

RangeOnly == {RangeEnv}

BothModes == {FullEnv, RangeEnv} \cup LooksLikeRange

\* Endpoints that may refuse any range, a reversed one included.
ServesNothing == -(MaxBlock + 1)

\* Fetcher goroutines are interchangeable.
GoroutineSymmetry == Permutations(Goroutine)
=============================================================================
