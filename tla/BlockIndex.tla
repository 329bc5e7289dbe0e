----------------------------- MODULE BlockIndex -----------------------------
(***************************************************************************)
(* What the indexer promises its readers: the stored records are those of  *)
(* a contiguous run of blocks, in chain order, each once.                  *)
(* The run grows at its end and is given up only when the database is      *)
(* opened for, or after, a range index.  A full index starts at block 0, a *)
(* range index where the operator said.  When the index grows, blocks next *)
(* to its new end may stay without their records: those that an endpoint   *)
(* did not know yet.                                                       *)
(***************************************************************************)
EXTENDS Integers, Sequences, SequencesExt

CONSTANTS
    MaxBlock,
    MaxShort,   \* how many of the last blocks may be without their records
    Events(_)   \* the records of a block, in log order

VARIABLES
    mode,     \* "none", "range" or "full"
    last,     \* last block of the index, -1 when it is empty
    records   \* the stored records, in key order

indexVars == <<mode, last, records>>

Init ==
    /\ mode = "none"
    /\ last = -1
    /\ records = <<>>

\* The process starts on the database.
Open(m) ==
    /\ mode' = m
    /\ IF m = "range" \/ mode = "range"
       THEN last' = -1 /\ records' = <<>>
       ELSE UNCHANGED <<last, records>>

\* The records of a block, none if it was missed.
RecordsOf(b, missed) == IF b \in missed THEN <<>> ELSE Events(b)

\* The records of the blocks from .. to, in chain order.
Run(from, to, missed) ==
    FlattenSeq([j \in 1..(to - from + 1) |-> RecordsOf(from + j - 1, missed)])

\* The index grows by the blocks from .. to.
Extend(from, to) ==
    /\ mode # "none"
    /\ from = last + 1 \/ (mode = "range" /\ last = -1)
    /\ last' = to
    /\ \E missed \in SUBSET {b \in from..to : b > to - MaxShort} :
         records' = records \o Run(from, to, missed)
    /\ UNCHANGED mode

Next ==
    \/ \E m \in {"range", "full"} : Open(m)
    \/ \E from \in 0..MaxBlock : \E to \in from..MaxBlock : Extend(from, to)

Spec == Init /\ [][Next]_indexVars
=============================================================================
