------------------------------ MODULE Persistor ------------------------------
(***************************************************************************)
(* The BoltDB store of persistor/persistor.go.  Each operation is one Bolt *)
(* transaction, so it is atomic and survives a crash of the process.       *)
(*                                                                         *)
(* dbMode is the admin bucket's "mode" entry, "none" standing for a file   *)
(* without buckets: the two buckets are only ever created and deleted      *)
(* together, in one transaction.  dbLast is the "last-block" entry, -1     *)
(* when it is absent (what GetLastBlockIndex returns then), and dbData is  *)
(* the data bucket, a function from the keys that are present to records.  *)
(***************************************************************************)
EXTENDS Integers

VARIABLES dbMode, dbLast, dbData

dbVars == <<dbMode, dbLast, dbData>>

ModeRange == "range"
ModeFull  == "full"

EmptyBucket == [k \in {} |-> k]

NewPersistor ==
    /\ dbMode = "none"
    /\ dbLast = -1
    /\ dbData = EmptyBucket

\* Variant: a full index keeps what a range index left behind.
WipesRangeOnly(mode) == mode = ModeRange

\* StartDB deletes the buckets when it opens a range index, or a full index
\* over a file that a range index left behind.
Wipes(mode) ==
    \/ mode = ModeRange
    \/ mode = ModeFull /\ dbMode = ModeRange

StartDB(mode) ==
    /\ dbMode' = mode
    /\ dbLast' = IF Wipes(mode) THEN -1 ELSE dbLast
    /\ dbData' = IF Wipes(mode) THEN EmptyBucket ELSE dbData

GetLastBlockIndex == dbLast

\* The data bucket after every register was put.
Put(bucket, registers) ==
    [k \in DOMAIN bucket \cup DOMAIN registers |->
        IF k \in DOMAIN registers THEN registers[k] ELSE bucket[k]]

\* registers is given as a function from Key to Data: SaveData is only called
\* with distinct keys.
SaveData(registers, lastBlock) ==
    /\ dbData' = Put(dbData, registers)
    /\ dbLast' = lastBlock
    /\ UNCHANGED dbMode
=============================================================================
