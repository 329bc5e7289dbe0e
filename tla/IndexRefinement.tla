--------------------------- MODULE IndexRefinement ---------------------------
(***************************************************************************)
(* The process implements the promise of BlockIndex, and so readers find   *)
(* exactly the records of a run of blocks: for every chain, channel,       *)
(* number of goroutines and permits, set of environments and number of     *)
(* crashes, as long as no full index is restarted.  That hypothesis,       *)
(* FullKeepsRunning, cannot be dropped: the restart of a full index begins *)
(* again at key 0 and overwrites what is stored (run full_key_reuse).      *)
(* What needs no hypothesis is that a full index never goes back.          *)
(*                                                                         *)
(* The blocks whose records are missed are counted from the end of the     *)
(* range that the orchestrator asked for, and whatever the synchronizer    *)
(* commits ends there or before (FetchedInFull).                           *)
(***************************************************************************)
EXTENDS IndexerProofs

USE ChainAssumption, FetcherAssumption

-----------------------------------------------------------------------------
(* What Accounting does not say: that the database is the one the process   *)
(* runs on, and that the key counter does not lag behind the stored keys.   *)

\* A full index has not ended, a database in use has a mode, and one that no
\* process has written to is empty.
ModesAgree ==
    /\ orchPc = "down" => dbMode # ModeFull
    /\ orchPc \in {"starting", "wait", "ask"} => dbMode = ModeFull
    /\ syncPc # "off" => dbMode # "none"
    /\ syncPc = "off" /\ dbMode # ModeRange => dbLast = -1 /\ DOMAIN dbData = {}

\* The key after the last stored one, once the synchronizer exists.
NextKey == IF syncPc = "committed" THEN keyIterator ELSE currIndex

KeysExact == syncPc # "off" => DOMAIN dbData = 0 .. (NextKey - 1)

\* The blocks that every endpoint knows, of the range asked for.
Known(b) == b <= currEndblock - MaxShort

\* The records of a block of an item, as add reads them.
Brings(item, b) == IF b \in DOMAIN item.DataToSave THEN item.DataToSave[b] ELSE <<>>

\* The records of a block that every endpoint knows are complete, from the
\* answer of the endpoint to the synchronizer's buffer.
FlightComplete ==
    \A g \in Goroutine : \A b \in InFlight(g) :
        fetch[g].pc = "add" /\ Known(b) => b <= fetch[g].knew

ChanComplete ==
    \A i \in DOMAIN datachan : \A b \in InChannel(i) :
        Known(b) => Brings(datachan[i], b) = Events(b)

BufferComplete ==
    \A b \in DOMAIN dataToSave : Known(b) => dataToSave[b] = Events(b)

FetchedInFull == FlightComplete /\ ChanComplete /\ BufferComplete

\* The inductive invariant of the index.
IndexInv ==
    /\ Accounting
    /\ FetchedInFull
    /\ ModesAgree
    /\ KeysExact
    /\ StoredExactly

-----------------------------------------------------------------------------
(* The records. *)

\* BlockIndex flattens as the model does.
LEMMA FlattenSame == \A s : Index!FlattenSeq(s) = FlattenSeq(s)
BY DEF FlattenSeq, Index!FlattenSeq

\* The records of block b, none if it was missed.
RecordsOf(b, missed) == IF b \in missed THEN <<>> ELSE Events(b)

LEMMA RunIs ==
    ASSUME NEW f, NEW t, NEW missed
    PROVE  Index!Run(f, t, missed)
             = FlattenSeq([j \in 1..(t - f + 1) |-> RecordsOf(f + j - 1, missed)])
BY FlattenSame DEF Index!Run, Index!RecordsOf, RecordsOf

LEMMA RecordsOfType ==
    ASSUME NEW b \in Blocks, NEW missed
    PROVE  RecordsOf(b, missed) \in Seq(Records)
<1>1. Events(b) \in Seq(Records) /\ <<>> \in Seq(Records)
  BY EventsType
<1> QED BY <1>1 DEF RecordsOf

\* A run is a sequence of records.
LEMMA RunType ==
    ASSUME NEW f \in Blocks, NEW t \in Blocks, f <= t, NEW missed
    PROVE  Index!Run(f, t, missed) \in Seq(Records)
<1> DEFINE s == [j \in 1..(t - f + 1) |-> RecordsOf(f + j - 1, missed)]
<1>1. ASSUME NEW j \in 1..(t - f + 1) PROVE RecordsOf(f + j - 1, missed) \in Seq(Records)
  <2>1. f + j - 1 \in Blocks
    BY DEF Blocks
  <2> QED BY <2>1, RecordsOfType
<1>2. s \in Seq(Seq(Records))
  <2>1. t - f + 1 \in Nat
    BY DEF Blocks
  <2> QED BY <1>1, <2>1
<1> HIDE DEF s
<1>3. FlattenSeq(s) \in Seq(Records)
  BY <1>2, FlattenSeqType
<1> QED BY <1>3, RunIs DEF s

\* The runs f .. m - 1 and m .. t, without the records of the blocks A and B.
RunsMeet(f, m, t, A, B) ==
    /\ f \in Blocks /\ m \in Nat /\ t \in Blocks /\ f <= m /\ m <= t + 1
    /\ A \subseteq f .. (m - 1) /\ B \subseteq m .. t

\* A run of blocks followed by the next run is one run.
LEMMA RunsJoin ==
    ASSUME NEW f, NEW m, NEW t, NEW A, NEW B, RunsMeet(f, m, t, A, B)
    PROVE  Index!Run(f, t, A \cup B) = Index!Run(f, m - 1, A) \o Index!Run(m, t, B)
<1> f \in Blocks /\ m \in Nat /\ t \in Blocks /\ f <= m /\ m <= t + 1
    /\ A \subseteq f .. (m - 1) /\ B \subseteq m .. t
  BY DEF RunsMeet
<1> DEFINE M == A \cup B
<1>0. /\ \A b \in f .. (m - 1) : RecordsOf(b, M) = RecordsOf(b, A)
      /\ \A b \in m .. t : RecordsOf(b, M) = RecordsOf(b, B)
  <2>1. \A b \in f .. (m - 1) : b \notin m .. t
    BY DEF Blocks
  <2>2. \A b \in m .. t : b \notin f .. (m - 1)
    BY DEF Blocks
  <2> QED BY <2>1, <2>2 DEF RecordsOf
<1> HIDE DEF M
<1> DEFINE e == [j \in 1..(t - f + 1) |-> RecordsOf(f + j - 1, M)]
           n == m - f
           k == t - m + 1
<1>1. n \in Nat /\ k \in Nat /\ n + k = t - f + 1 /\ (m - 1) - f + 1 = n
  BY DEF Blocks
<1>2. \A j \in 1..(n + k) : e[j] = RecordsOf(f + j - 1, M) /\ e[j] \in Seq(Records)
  <2> SUFFICES ASSUME NEW j \in 1..(n + k)
               PROVE  e[j] = RecordsOf(f + j - 1, M) /\ e[j] \in Seq(Records)
    OBVIOUS
  <2>1. j \in 1..(t - f + 1) /\ f + j - 1 \in Blocks
    BY <1>1 DEF Blocks
  <2>2. RecordsOf(f + j - 1, M) \in Seq(Records)
    BY <2>1, RecordsOfType
  <2>3. e[j] = RecordsOf(f + j - 1, M)
    BY <2>1
  <2> QED BY <2>2, <2>3
<1>3. [j \in 1..(n + k) |-> e[j]] = [j \in 1..(t - f + 1) |-> RecordsOf(f + j - 1, M)]
  BY <1>1
<1>4. [j \in 1..n |-> e[j]] = [j \in 1..((m - 1) - f + 1) |-> RecordsOf(f + j - 1, A)]
  <2>1. \A j \in 1..n : j \in 1..(n + k) /\ f + j - 1 \in f .. (m - 1)
    BY <1>1 DEF Blocks
  <2>2. \A j \in 1..n : e[j] = RecordsOf(f + j - 1, A)
    <3> HIDE DEF e, n, k
    <3> QED BY <1>0, <1>2, <2>1
  <2> HIDE DEF e
  <2> QED BY <1>1, <2>2
<1>5. [j \in 1..k |-> e[n + j]] = [j \in 1..(t - m + 1) |-> RecordsOf(m + j - 1, B)]
  <2>1. \A j \in 1..k : n + j \in 1..(n + k) /\ f + (n + j) - 1 = m + j - 1
                            /\ m + j - 1 \in m .. t
    BY <1>1 DEF Blocks
  <2>2. \A j \in 1..k : e[n + j] = RecordsOf(m + j - 1, B)
    <3> HIDE DEF e, n, k
    <3> QED BY <1>0, <1>2, <2>1
  <2> HIDE DEF e, n
  <2> QED BY <2>2
<1> HIDE DEF e, n, k
<1> DEFINE whole == [j \in 1..(t - f + 1) |-> RecordsOf(f + j - 1, M)]
           first == [j \in 1..((m - 1) - f + 1) |-> RecordsOf(f + j - 1, A)]
           rest == [j \in 1..(t - m + 1) |-> RecordsOf(m + j - 1, B)]
<1>6. /\ whole \in Seq(Seq(Records)) /\ Len(whole) = n + k
      /\ first \in Seq(Seq(Records)) /\ Len(first) = n
      /\ rest \in Seq(Seq(Records)) /\ Len(rest) = k
      /\ \A j \in 1..n : first[j] = whole[j]
      /\ \A j \in 1..k : rest[j] = whole[n + j]
  <2>1. whole = [j \in 1..(n + k) |-> e[j]]
    BY <1>3
  <2>2. first = [j \in 1..n |-> e[j]]
    BY <1>4
  <2>3. rest = [j \in 1..k |-> e[n + j]]
    BY <1>5
  <2>4. /\ \A j \in 1..(n + k) : e[j] \in Seq(Records)
        /\ \A j \in 1..n : j \in 1..(n + k)
        /\ \A j \in 1..k : n + j \in 1..(n + k)
    BY <1>1, <1>2
  <2> HIDE DEF whole, first, rest
  <2> QED BY ONLY <1>1, <2>1, <2>2, <2>3, <2>4
<1> HIDE DEF whole, first, rest
<1>7. FlattenSeq(whole) = FlattenSeq(first) \o FlattenSeq(rest)
  BY ONLY <1>6, FlattenSplit
<1> QED BY <1>7, RunIs DEF whole, first, rest, M

\* The blocks of a run from .. to that may be without their records.
MayMiss(from, to) == {b \in from..to : b > to - MaxShort}

\* What a save concatenates is the run of its blocks, the last ones perhaps
\* without their records.
LEMMA ConcatIsRun ==
    ASSUME SyncTypeOK, OrchTypeOK, OnlyRequested, BufferComplete, syncPc = "select",
           NEW next \in 1..(MaxBlock + 1), StopsAt(next)
    PROVE  \E missed \in SUBSET MayMiss(currBlock, next - 1) :
             /\ Concat(dataToSave, currBlock, next) = Index!Run(currBlock, next - 1, missed)
             /\ \A b \in missed : ~Known(b)
<1> DEFINE missed == {b \in currBlock .. (next - 1) : dataToSave[b] # Events(b)}
<1>1. /\ currBlock \in Nat /\ (next - 1) - currBlock + 1 = next - currBlock
      /\ next > currBlock /\ currEndblock \in Int /\ MaxShort \in Nat
  BY DEF SyncTypeOK, OrchTypeOK, StopsAt, Blocks
<1>2. next - 1 <= currEndblock
  <2>1. next - 1 \in DOMAIN dataToSave
    BY <1>1 DEF StopsAt
  <2> QED BY <1>1, <2>1 DEF OnlyRequested, NextBlock
<1>3. missed \in SUBSET MayMiss(currBlock, next - 1)
  <2> SUFFICES ASSUME NEW b \in currBlock .. (next - 1), dataToSave[b] # Events(b)
               PROVE  b > next - 1 - MaxShort
    BY DEF MayMiss
  <2>1. b \in DOMAIN dataToSave
    BY DEF StopsAt
  <2>2. ~(b <= currEndblock - MaxShort)
    BY <2>1 DEF BufferComplete, Known
  <2> QED BY <1>1, <1>2, <2>2
<1>7. ASSUME NEW b \in missed PROVE ~Known(b)
  <2>1. b \in DOMAIN dataToSave
    BY DEF StopsAt
  <2> QED BY <2>1 DEF BufferComplete
<1>4. ASSUME NEW j \in 1..(next - currBlock)
      PROVE  dataToSave[currBlock + j - 1] = RecordsOf(currBlock + j - 1, missed)
  <2>1. currBlock + j - 1 \in currBlock .. (next - 1)
    BY <1>1
  <2>2. dataToSave[currBlock + j - 1] \in {Events(currBlock + j - 1), <<>>}
    BY <2>1 DEF StopsAt, SyncTypeOK
  <2> QED BY <2>1, <2>2 DEF RecordsOf
<1> HIDE DEF missed
<1>5. [j \in 1..(next - currBlock) |-> dataToSave[currBlock + j - 1]]
        = [j \in 1..((next - 1) - currBlock + 1) |-> RecordsOf(currBlock + j - 1, missed)]
  BY <1>1, <1>4
<1>6. Concat(dataToSave, currBlock, next) = Index!Run(currBlock, next - 1, missed)
  BY <1>5, RunIs DEF Concat
<1> QED BY <1>3, <1>6, <1>7

-----------------------------------------------------------------------------
(* The stored records. *)

\* With contiguous keys from 0, StoredRecords lists the data bucket.
LEMMA StoredAre ==
    ASSUME NEW n \in Nat, DOMAIN dbData = 0 .. (n - 1)
    PROVE  StoredRecords = [i \in 1..n |-> dbData[i - 1]]
<1>1. Cardinality(0 .. (n - 1)) = n
  BY FS_Interval
<1> QED BY <1>1 DEF StoredRecords

LEMMA StoredNone ==
    ASSUME DOMAIN dbData = {}
    PROVE  StoredRecords = <<>>
BY FS_EmptySet DEF StoredRecords

\* A sequence that begins with s and goes on with t.
LEMMA JoinIs ==
    ASSUME NEW R, NEW s \in Seq(R), NEW t \in Seq(R), NEW w \in Seq(R),
           Len(w) = Len(s) + Len(t),
           \A i \in 1..Len(s) : w[i] = s[i],
           \A i \in 1..Len(t) : w[Len(s) + i] = t[i]
    PROVE  w = s \o t
<1>1. /\ s \o t \in Seq(R) /\ Len(s \o t) = Len(s) + Len(t)
      /\ \A i \in 1..(Len(s) + Len(t)) :
           (s \o t)[i] = IF i <= Len(s) THEN s[i] ELSE t[i - Len(s)]
  BY ConcatProperties
<1>2. ASSUME NEW i \in 1..Len(w) PROVE w[i] = (s \o t)[i]
  <2>1. CASE i <= Len(s)
    BY <1>1, <2>1
  <2>2. CASE i > Len(s)
    <3>1. i - Len(s) \in 1..Len(t) /\ Len(s) + (i - Len(s)) = i
      BY <2>2
    <3>2. w[i] = t[i - Len(s)]
      BY <3>1
    <3> QED BY <1>1, <2>2, <3>2
  <2> QED BY <2>1, <2>2
<1> QED BY <1>1, <1>2, SeqEqual

\* A commit of the blocks currBlock .. next - 1, as the index sees it.
Commits(next) ==
    /\ StopsAt(next) /\ currBlock \in Blocks /\ next - 1 \in currBlock .. MaxBlock
    /\ dbLast' = next - 1 /\ UNCHANGED <<dbMode, startBlock, currBlock, orchPc, currEndblock>>
    /\ syncPc = "select" /\ syncPc' = "committed"
    /\ keyIterator' \in Nat
    /\ DOMAIN dbData' = 0 .. (keyIterator' - 1)
    /\ \A k \in DOMAIN dbData : k \in DOMAIN dbData' /\ dbData'[k] = dbData[k]
    /\ \E missed \in SUBSET MayMiss(currBlock, next - 1) :
         /\ StoredRecords' = StoredRecords \o Index!Run(currBlock, next - 1, missed)
         /\ \A b \in missed : ~Known(b)

\* The synchronizer's commit appends the run of the blocks it takes.
LEMMA CommitAppends ==
    ASSUME Accounting, BufferComplete, KeysExact, SyncCommit
    PROVE  \E next \in 1..(MaxBlock + 1) : Commits(next)
<1>0. TypeOK /\ SyncTypeOK /\ OrchTypeOK /\ OnlyRequested
  BY DEF Accounting, TypeOK
<1>1. PICK next \in {b + 1 : b \in DOMAIN dataToSave} :
        /\ StopsAt(next)
        /\ SaveData(Registers(Concat(dataToSave, currBlock, next), currIndex), next - 1)
        /\ keyIterator' = currIndex + Len(Concat(dataToSave, currBlock, next))
  BY DEF SyncCommit, SaveCommit
<1> DEFINE records == Concat(dataToSave, currBlock, next)
           n == Len(records)
<1>2. next \in 1..(MaxBlock + 1) /\ currIndex \in Nat
  BY <1>0 DEF SyncTypeOK, Blocks
<1>3. records \in Seq(Records) /\ n \in Nat
  <2>1. records \in Seq(Records)
    BY <1>0, <1>1, <1>2, ConcatType
  <2> HIDE DEF records
  <2> QED BY <2>1
<1>4. currBlock \in Blocks /\ next - 1 \in currBlock .. MaxBlock
  BY <1>0, <1>1, <1>2 DEF SyncTypeOK, StopsAt, Blocks
<1>5. /\ dbLast' = next - 1 /\ UNCHANGED <<dbMode, startBlock, currBlock, orchPc, currEndblock>>
      /\ syncPc = "select" /\ syncPc' = "committed" /\ currIndex' = currIndex
  BY <1>1 DEF SyncCommit, SaveCommit, SaveData, orchVars
<1>6. PICK missed \in SUBSET MayMiss(currBlock, next - 1) :
        records = Index!Run(currBlock, next - 1, missed) /\ \A b \in missed : ~Known(b)
  BY <1>0, <1>1, <1>2, <1>5, ConcatIsRun
<1>7. keyIterator' = currIndex + n /\ dbData' = Put(dbData, Registers(records, currIndex))
  BY <1>1 DEF SaveData
<1> HIDE DEF records, n
<1>8. DOMAIN dbData = 0 .. (currIndex - 1)
  BY <1>5 DEF KeysExact, NextKey
<1>9. DOMAIN Registers(records, currIndex) = currIndex .. ((currIndex + n) - 1)
  <2>1. currIndex + n - 1 = (currIndex + n) - 1
    BY <1>2, <1>3
  <2> QED BY <2>1 DEF Registers, n
<1>10. DOMAIN dbData' = 0 .. ((currIndex + n) - 1)
  BY <1>2, <1>3, <1>7, <1>8, <1>9 DEF Put
<1>11. ASSUME NEW k \in 0 .. (currIndex - 1) PROVE dbData'[k] = dbData[k]
  <2>1. k \in DOMAIN dbData /\ k \notin DOMAIN Registers(records, currIndex)
    BY <1>2, <1>8, <1>9
  <2> QED BY <1>7, <2>1 DEF Put
<1>12. ASSUME NEW k \in currIndex .. ((currIndex + n) - 1)
       PROVE  dbData'[k] = records[k - currIndex + 1]
  <2>1. k \in DOMAIN Registers(records, currIndex)
    BY <1>9
  <2>2. dbData'[k] = Registers(records, currIndex)[k]
    BY <1>7, <2>1 DEF Put
  <2>3. k \in currIndex .. (currIndex + n - 1)
    BY <1>2, <1>3
  <2> QED BY <2>2, <2>3 DEF Registers, n
<1>13. StoredRecords' = StoredRecords \o records
  <2>1. StoredRecords = [i \in 1..currIndex |-> dbData[i - 1]]
    BY <1>2, <1>8, StoredAre
  <2>2. StoredRecords' = [i \in 1..(currIndex + n) |-> dbData'[i - 1]]
    <3>1. Cardinality(0 .. ((currIndex + n) - 1)) = currIndex + n
      BY <1>2, <1>3, FS_Interval
    <3>2. Cardinality(DOMAIN dbData') = currIndex + n
      BY ONLY <1>10, <3>1
    <3> QED BY ONLY <3>2 DEF StoredRecords
  <2>3. /\ \A i \in 1..currIndex : i - 1 \in 0 .. (currIndex - 1)
        /\ \A i \in 1..(currIndex + n) : i - 1 \in 0 .. ((currIndex + n) - 1)
        /\ \A i \in 1..n : /\ (currIndex + i) - 1 \in currIndex .. ((currIndex + n) - 1)
                           /\ ((currIndex + i) - 1) - currIndex + 1 = i
    BY <1>2, <1>3
  <2>4. /\ \A k \in DOMAIN dbData : dbData[k] \in Records
        /\ \A k \in DOMAIN dbData' : dbData'[k] \in Records
    <3>1. TypeOK'
      BY NextAccounting DEF Accounting, Next
    <3> QED BY <1>0, <3>1 DEF TypeOK, DbTypeOK
  <2>5. StoredRecords \in Seq(Records) /\ Len(StoredRecords) = currIndex
    BY ONLY <1>2, <1>8, <2>1, <2>3, <2>4
  <2>6. StoredRecords' \in Seq(Records) /\ Len(StoredRecords') = currIndex + n
    <3>1. currIndex + n \in Nat
      BY <1>2, <1>3
    <3>2. ASSUME NEW i \in 1..(currIndex + n) PROVE dbData'[i - 1] \in Records
      BY <1>10, <2>3, <2>4
    <3> QED BY ONLY <2>2, <3>1, <3>2
  <2>7. ASSUME NEW i \in 1..currIndex PROVE StoredRecords'[i] = StoredRecords[i]
    BY ONLY <1>2, <1>3, <1>11, <2>1, <2>2, <2>3, i \in 1..currIndex
  <2>8. ASSUME NEW i \in 1..n PROVE StoredRecords'[currIndex + i] = records[i]
    <3>1. currIndex + i \in 1..(currIndex + n)
      BY <1>2, <1>3
    <3>2. StoredRecords'[currIndex + i] = dbData'[(currIndex + i) - 1]
      BY ONLY <2>2, <3>1
    <3>3. dbData'[(currIndex + i) - 1] = records[((currIndex + i) - 1) - currIndex + 1]
      BY ONLY <1>12, <2>3, i \in 1..n
    <3> QED BY ONLY <2>3, <3>2, <3>3, i \in 1..n
  <2>9. /\ Len(StoredRecords') = Len(StoredRecords) + Len(records)
        /\ \A i \in 1..Len(StoredRecords) : StoredRecords'[i] = StoredRecords[i]
        /\ \A i \in 1..Len(records) :
             StoredRecords'[Len(StoredRecords) + i] = records[i]
    BY <2>5, <2>6, <2>7, <2>8 DEF n
  <2> QED BY ONLY <1>3, <2>5, <2>6, <2>9, JoinIs
<1>14. currIndex + n \in Nat
  BY <1>2, <1>3
<1>15. \A k \in DOMAIN dbData : k \in DOMAIN dbData' /\ dbData'[k] = dbData[k]
  BY <1>2, <1>3, <1>8, <1>10, <1>11
<1>16. DOMAIN dbData' = 0 .. (keyIterator' - 1) /\ keyIterator' \in Nat
  <2>1. keyIterator' = currIndex + n
    BY <1>7
  <2> QED BY ONLY <1>10, <1>14, <2>1
<1>17. Commits(next)
  BY ONLY <1>1, <1>4, <1>5, <1>6, <1>13, <1>15, <1>16 DEF Commits
<1> QED BY <1>2, <1>17

-----------------------------------------------------------------------------
(* What endpoints know arrives complete. *)

\* A step that leaves the items and the range asked for alone, and makes
\* goroutines wait at most.
LEMMA InFullSame ==
    ASSUME FetchedInFull, UNCHANGED <<datachan, dataToSave, currEndblock>>,
           \A g \in Goroutine : fetch'[g] = fetch[g] \/ fetch'[g].pc # "add"
    PROVE  FetchedInFull'
<1>1. FlightComplete'
  <2> SUFFICES ASSUME NEW g \in Goroutine, NEW b \in InFlight(g)', fetch'[g].pc = "add", Known(b)'
               PROVE  b <= fetch'[g].knew
    BY DEF FlightComplete
  <2>1. fetch'[g] = fetch[g]
    OBVIOUS
  <2>2. b \in InFlight(g) /\ Known(b)
    BY <2>1 DEF InFlight, Known
  <2> QED BY <2>1, <2>2 DEF FetchedInFull, FlightComplete
<1>2. ChanComplete'
  BY DEF FetchedInFull, ChanComplete, InChannel, Known, Brings
<1>3. BufferComplete'
  BY DEF FetchedInFull, BufferComplete, Known
<1> QED BY <1>1, <1>2, <1>3 DEF FetchedInFull

\* A first request: nothing else is there.
LEMMA FirstInFull ==
    ASSUME datachan' = <<>>, DOMAIN dataToSave' = {},
           \A g \in Goroutine : fetch'[g].pc # "add"
    PROVE  FetchedInFull'
<1>1. FlightComplete'
  BY DEF FlightComplete
<1>2. ChanComplete'
  BY DEF ChanComplete
<1>3. BufferComplete'
  BY DEF BufferComplete
<1> QED BY <1>1, <1>2, <1>3 DEF FetchedInFull

\* The goroutine that RequestRange starts waits.
LEMMA RequestWaits ==
    ASSUME FetchTypeOK, NEW s, NEW e, RequestRange(s, e)
    PROVE  \A g \in Goroutine : fetch'[g] = fetch[g] \/ fetch'[g].pc = "acquire"
BY DEF FetchTypeOK, RequestRange, Waiting

\* The orchestrator asks for the next range when nothing of the last one is
\* left: no block is on the way or buffered.
LEMMA OrchestrateTagInFull ==
    ASSUME Accounting, FetchedInFull, NEW endBlock \in TagAnswers, OrchestrateTag(endBlock)
    PROVE  FetchedInFull'
<1>0. /\ TypeOK /\ Phases /\ OnlyRequested /\ FetchTypeOK
      /\ UNCHANGED <<datachan, dataToSave>>
  BY DEF Accounting, TypeOK, OrchestrateTag, orchestrateTag, syncVars
<1>1. CASE UNCHANGED <<fetchVars, currEndblock>>
  BY <1>0, <1>1, InFullSame DEF fetchVars
<1>2. CASE RequestRange(orchBlock, endBlock)
  <2>1. /\ syncPc = "select" /\ currBlock > currEndblock
        /\ currBlock \in Int /\ currEndblock \in Int
    BY <1>0 DEF OrchestrateTag, orchestrateTag, Phases, TypeOK, SyncTypeOK, OrchTypeOK, Blocks
  <2>2. currBlock .. currEndblock = {}
    BY <2>1
  <2>3. OnTheWay = {} /\ DOMAIN dataToSave = {}
    BY <1>0, <2>1, <2>2 DEF OnlyRequested, NextBlock
  <2>4. \A g \in Goroutine : InFlight(g) = {}
    BY <2>3 DEF OnTheWay
  <2>5. \A i \in DOMAIN datachan : InChannel(i) = {}
    BY <2>3 DEF OnTheWay
  <2>6. FlightComplete'
    <3> SUFFICES ASSUME NEW g \in Goroutine, NEW b \in InFlight(g)', fetch'[g].pc = "add"
                 PROVE  FALSE
      BY DEF FlightComplete
    <3>1. fetch'[g] = fetch[g]
      BY <1>0, <1>2, RequestWaits
    <3> QED BY <2>4, <3>1 DEF InFlight
  <2>7. ChanComplete'
    BY <1>0, <2>5 DEF ChanComplete, InChannel
  <2>8. BufferComplete'
    BY <1>0, <2>3 DEF BufferComplete
  <2> QED BY <2>6, <2>7, <2>8 DEF FetchedInFull
<1> QED BY <1>1, <1>2 DEF OrchestrateTag, orchestrateTag

\* The answer of an endpoint.
LEMMA FetchOkInFull ==
    ASSUME TypeOK, FetchedInFull, NEW g \in Goroutine, NEW knew \in MayKnow, FetchOk(g, knew),
           UNCHANGED <<datachan, dataToSave, currEndblock>>
    PROVE  FetchedInFull'
<1>0. DOMAIN fetch = Goroutine /\ fetch[g] \in Fetches
  BY DEF TypeOK, FetchTypeOK
<1>1. /\ fetch' = [fetch EXCEPT ![g] = [fetch[g] EXCEPT !.pc = "add", !.knew = knew]]
  BY <1>0 DEF FetchOk
<1>2. [fetch[g] EXCEPT !.pc = "add", !.knew = knew].knew = knew
  BY <1>0 DEF Fetches
<1>3. fetch'[g].knew = knew /\ \A h \in Goroutine : h # g => fetch'[h] = fetch[h]
  BY <1>0, <1>1, <1>2
<1>4. FlightComplete'
  <2> SUFFICES ASSUME NEW h \in Goroutine, NEW b \in InFlight(h)', fetch'[h].pc = "add", Known(b)'
               PROVE  b <= fetch'[h].knew
    BY DEF FlightComplete
  <2>1. CASE h = g
    <3>1. /\ b \in Int /\ knew \in Int /\ currEndblock \in Int /\ MaxShort \in Int
          /\ currEndblock - MaxShort <= knew /\ b <= currEndblock - MaxShort
      <4>1. b \in Int
        BY DEF InFlight
      <4> QED BY <4>1 DEF MayKnow, Known, Blocks, TypeOK, OrchTypeOK
    <3> QED BY <1>3, <2>1, <3>1
  <2>2. CASE h # g
    <3>1. fetch'[h] = fetch[h] /\ b \in InFlight(h) /\ Known(b)
      BY <1>3, <2>2 DEF InFlight, Known
    <3> QED BY <3>1 DEF FetchedInFull, FlightComplete
  <2> QED BY <2>1, <2>2
<1>5. ChanComplete'
  BY DEF FetchedInFull, ChanComplete, InChannel, Known, Brings
<1>6. BufferComplete'
  BY DEF FetchedInFull, BufferComplete, Known
<1> QED BY <1>4, <1>5, <1>6 DEF FetchedInFull

\* What a goroutine sends has the records of the blocks its endpoint knew.
LEMMA FetchAddsInFull ==
    ASSUME TypeOK, FetchedInFull, NEW g \in Goroutine, FetchAdds(g)
    PROVE  FetchedInFull'
<1>0. /\ DOMAIN fetch = Goroutine /\ fetch[g] \in Fetches /\ fetch[g].pc = "add"
      /\ fetch' = [fetch EXCEPT ![g] = NoFetch]
      /\ datachan \in Seq(SyncStructs) /\ datachan' = Append(datachan, SyncStruct(g))
      /\ UNCHANGED <<dataToSave, currEndblock>>
  BY DEF TypeOK, FetchTypeOK, SyncTypeOK, FetchAdds, Added, Add, orchVars
<1>1. FlightComplete'
  <2> SUFFICES ASSUME NEW h \in Goroutine, NEW b \in InFlight(h)', fetch'[h].pc = "add", Known(b)'
               PROVE  b <= fetch'[h].knew
    BY DEF FlightComplete
  <2>1. h # g
    BY <1>0 DEF NoFetch
  <2>2. fetch'[h] = fetch[h]
    BY <1>0, <2>1
  <2>3. b \in InFlight(h) /\ Known(b)
    BY <1>0, <2>2 DEF InFlight, Known
  <2> QED BY <2>2, <2>3 DEF FetchedInFull, FlightComplete
<1>2. ChanComplete'
  <2> SUFFICES ASSUME NEW i \in DOMAIN datachan', NEW b \in InChannel(i)', Known(b)'
               PROVE  Brings(datachan'[i], b) = Events(b)
    BY DEF ChanComplete, Brings
  <2>0. Known(b)
    BY <1>0 DEF Known
  <2>1. CASE i \in DOMAIN datachan
    <3>1. datachan'[i] = datachan[i]
      BY <1>0, <2>1
    <3> QED BY <2>0, <2>1, <3>1 DEF FetchedInFull, ChanComplete, InChannel
  <2>2. CASE i \notin DOMAIN datachan
    <3>1. datachan'[i] = SyncStruct(g)
      BY <1>0, <2>2, SyncStructType DEF TypeOK
    <3> DEFINE s == fetch[g].start
               e == fetch[g].end
               k == fetch[g].knew
    <3>2. /\ s \in 0..(MaxBlock + 1) /\ e \in Blocks /\ k \in Blocks
          /\ b \in s .. e /\ Brings(datachan'[i], b) = Brings(SyncStruct(g), b)
          /\ SyncStruct(g).DataToSave = fetchData(s, e, k)
      BY <1>0, <3>1 DEF Fetches, InChannel, SyncStruct
    <3>3. b <= k
      BY <1>0, <2>0, <3>2 DEF FetchedInFull, FlightComplete, InFlight
    <3> HIDE DEF s, e, k
    <3>4. (IF b \in DOMAIN fetchData(s, e, k) THEN fetchData(s, e, k)[b] ELSE <<>>)
            = IF b <= k THEN Events(b) ELSE <<>>
      BY <3>2, ItemRecords
    <3> QED BY <3>2, <3>3, <3>4 DEF Brings
  <2> QED BY <2>1, <2>2
<1>3. BufferComplete'
  BY <1>0 DEF FetchedInFull, BufferComplete, Known
<1> QED BY <1>1, <1>2, <1>3 DEF FetchedInFull

\* add stores what the item brings.
LEMMA SyncReceiveInFull ==
    ASSUME TypeOK, FetchedInFull, SyncReceive
    PROVE  FetchedInFull'
<1> DEFINE item == Head(datachan)
<1>0. /\ datachan \in Seq(SyncStructs) /\ datachan # <<>> /\ datachan' = Tail(datachan)
      /\ dataToSave' = add(item) /\ UNCHANGED <<fetch, currEndblock>>
  BY DEF TypeOK, SyncTypeOK, SyncReceive, Receive, fetchVars, orchVars
<1>1. /\ 1 \in DOMAIN datachan /\ item = datachan[1]
      /\ \A i \in DOMAIN datachan' : i + 1 \in DOMAIN datachan /\ datachan'[i] = datachan[i + 1]
  BY <1>0
<1>2. FlightComplete'
  BY <1>0 DEF FetchedInFull, FlightComplete, InFlight, Known
<1>3. ChanComplete'
  <2> SUFFICES ASSUME NEW i \in DOMAIN datachan', NEW b \in InChannel(i)', Known(b)'
               PROVE  Brings(datachan'[i], b) = Events(b)
    BY DEF ChanComplete, Brings
  <2>1. i + 1 \in DOMAIN datachan /\ datachan'[i] = datachan[i + 1]
    BY <1>1
  <2>2. b \in InChannel(i + 1) /\ Known(b)
    BY <1>0, <2>1 DEF InChannel, Known
  <2> QED BY <2>1, <2>2 DEF FetchedInFull, ChanComplete
<1>4. BufferComplete'
  <2> SUFFICES ASSUME NEW b \in DOMAIN dataToSave', Known(b)'
               PROVE  dataToSave'[b] = Events(b)
    BY DEF BufferComplete
  <2>0. Known(b)
    BY <1>0 DEF Known
  <2> DEFINE range == item.StartBlock .. item.EndBlock
  <2>1. /\ b \in DOMAIN dataToSave \cup range
        /\ dataToSave'[b] = IF b \notin range THEN dataToSave[b] ELSE Brings(item, b)
    BY <1>0 DEF add, AddTo, Brings
  <2>2. CASE b \in range
    <3>1. b \in InChannel(1)
      BY <1>1, <2>2 DEF InChannel
    <3>2. Brings(item, b) = Events(b)
      BY <1>1, <2>0, <3>1 DEF FetchedInFull, ChanComplete
    <3> HIDE DEF item
    <3> QED BY <2>1, <2>2, <3>2
  <2>3. CASE b \notin range
    BY <2>0, <2>1, <2>3 DEF FetchedInFull, BufferComplete
  <2> QED BY <2>2, <2>3
<1> QED BY <1>2, <1>3, <1>4 DEF FetchedInFull

\* Every step brings what the endpoints know.
LEMMA NextInFull ==
    ASSUME Accounting, FetchedInFull, [Next]_vars
    PROVE  FetchedInFull'
<1>0. TypeOK /\ Phases /\ FetchTypeOK /\ DOMAIN fetch = Goroutine
  BY DEF Accounting, TypeOK, FetchTypeOK
<1>1. CASE UNCHANGED <<datachan, dataToSave, currEndblock, fetch>>
  BY <1>1, InFullSame
<1>2. CASE StartRange \/ StartFullTag
  <2>1. PICK s, e : RequestRange(s, e)
    BY <1>2 DEF StartRange, manageRange, StartFullTag, manageFullTag
  <2>2. /\ syncPc = "off" /\ UNCHANGED <<datachan, dataToSave>>
    BY <1>2 DEF StartRange, manageRange, StartFullTag, manageFullTag, GoStart
  <2>3. datachan' = <<>> /\ DOMAIN dataToSave' = {} /\ \A g \in Goroutine : fetch[g].pc = "none"
    BY <1>0, <2>2 DEF Phases, NothingToSave
  <2>4. \A g \in Goroutine : fetch'[g].pc # "add"
    BY <1>0, <2>1, <2>3, RequestWaits
  <2> QED BY <2>3, <2>4, FirstInFull
<1>3. CASE Die
  BY <1>3, FirstInFull DEF Die, NothingToSave, NoFetch
<1>4. ASSUME NEW g \in Goroutine, FetchAcquire(g) PROVE FetchedInFull'
  <2>1. \A h \in Goroutine : fetch'[h] = fetch[h] \/ fetch'[h].pc # "add"
    <3>1. /\ fetch' = [fetch EXCEPT ![g] = [fetch[g] EXCEPT !.pc = "fetchData"]]
          /\ fetch[g] \in Fetches
      BY <1>0, <1>4 DEF FetchAcquire, Acquire, FetchTypeOK
    <3>2. [fetch[g] EXCEPT !.pc = "fetchData"].pc = "fetchData"
      BY <3>1 DEF Fetches
    <3> QED BY <1>0, <3>1, <3>2
  <2> QED BY <1>4, <2>1, InFullSame DEF FetchAcquire, syncVars, orchVars
<1>5. ASSUME NEW g \in Goroutine, FetchReturns(g) PROVE FetchedInFull'
  <2>0. UNCHANGED <<datachan, dataToSave, currEndblock>>
    BY <1>5 DEF FetchReturns, syncVars, orchVars
  <2>1. CASE FetchTooBig(g)
    <3>1. \A h \in Goroutine : fetch'[h] = fetch[h] \/ fetch'[h].pc # "add"
      BY <1>0, <2>1 DEF FetchTooBig, Waiting
    <3> QED BY <2>0, <3>1, InFullSame
  <2>2. CASE \E knew \in MayKnow : FetchOk(g, knew)
    BY <1>0, <2>0, <2>2, FetchOkInFull
  <2> QED BY <1>5, <2>1, <2>2 DEF FetchReturns
<1>6. CASE SyncAdvance
  <2>1. /\ UNCHANGED <<datachan, fetch, currEndblock>>
        /\ DOMAIN dataToSave' \subseteq DOMAIN dataToSave
        /\ \A b \in DOMAIN dataToSave' : dataToSave'[b] = dataToSave[b]
    BY <1>6 DEF SyncAdvance, SaveAdvance, fetchVars, orchVars
  <2>2. FlightComplete' /\ ChanComplete'
    BY <2>1 DEF FetchedInFull, FlightComplete, ChanComplete, InFlight, InChannel, Known, Brings
  <2>3. BufferComplete'
    BY <2>1 DEF FetchedInFull, BufferComplete, Known
  <2> QED BY <2>2, <2>3 DEF FetchedInFull
<1>7. CASE \/ Grow \/ StartFull \/ OrchestrateTick \/ SyncStart \/ SyncCommit \/ SyncError
           \/ UNCHANGED vars
  BY <1>1, <1>7 DEF Grow, StartFull, manageFull, OrchestrateTick, orchestrate, SyncStart, Start,
     SyncCommit, SaveCommit, SyncError, SaveError, syncVars, fetchVars, orchVars, vars
<1> QED
  BY <1>0, <1>2, <1>3, <1>4, <1>5, <1>6, <1>7, OrchestrateTagInFull, FetchAddsInFull,
     SyncReceiveInFull
  DEF Next, FetchPanics, Crash

-----------------------------------------------------------------------------
(* Every step keeps the invariant of the index. *)

\* What a reader is told of an index that holds blocks.
Holds(first, missed) ==
    /\ first \in 0..dbLast
    /\ missed \in SUBSET (first..dbLast)
    /\ StoredRecords = Index!Run(first, dbLast, missed)
    /\ MaxShort = 0 => missed = {}
    /\ dbMode = ModeFull => first = 0
    /\ dbMode = ModeRange /\ syncPc # "off" =>
         first = startBlock /\ \A b \in missed : b > currEndblock - MaxShort

LEMMA StoredHolds ==
    StoredExactly <=> IF dbLast = -1 THEN StoredRecords = <<>> ELSE \E first, missed : Holds(first, missed)
BY DEF StoredExactly, Holds

\* A step that leaves the database alone keeps what is stored.
LEMMA StoredSame ==
    ASSUME StoredExactly, UNCHANGED dbVars,
           syncPc' # "off" /\ dbLast # -1 =>
             /\ syncPc # "off" /\ startBlock' = startBlock
             /\ dbMode = ModeRange => currEndblock' = currEndblock
    PROVE  StoredExactly'
BY DEF StoredExactly, StoredRecords, dbVars

\* An index without blocks.
LEMMA StoredEmpty ==
    ASSUME dbLast' = -1, DOMAIN dbData' = {}
    PROVE  StoredExactly'
<1>1. StoredRecords' = <<>>
  BY FS_EmptySet DEF StoredRecords
<1> QED BY <1>1 DEF StoredExactly

\* A commit goes on where the stored run ends, or begins it.
LEMMA SyncCommitIndex ==
    ASSUME IndexInv, SyncCommit
    PROVE  ModesAgree' /\ KeysExact' /\ StoredExactly'
<1>1. PICK next \in 1..(MaxBlock + 1) : Commits(next)
  BY CommitAppends DEF IndexInv, FetchedInFull
<1>11. PICK missed \in SUBSET MayMiss(currBlock, next - 1) :
         /\ StoredRecords' = StoredRecords \o Index!Run(currBlock, next - 1, missed)
         /\ \A b \in missed : ~Known(b)
  BY <1>1 DEF Commits
<1>12. missed \in SUBSET (currBlock .. (next - 1)) /\ (MaxShort = 0 => missed = {})
  BY <1>11 DEF MayMiss
<1>13. \A b \in missed : b > currEndblock - MaxShort
  <2>1. missed \subseteq Int /\ currEndblock \in Int /\ MaxShort \in Int
    BY <1>1, <1>12 DEF IndexInv, Accounting, TypeOK, OrchTypeOK, Commits, Blocks
  <2> QED BY <1>11, <2>1 DEF Known
<1>2. ModesAgree'
  BY <1>1 DEF IndexInv, ModesAgree, Commits, Accounting, Phases
<1>3. KeysExact'
  BY <1>1 DEF KeysExact, NextKey, Commits
<1>4. /\ startBlock \in 0..(MaxBlock + 1) /\ startBlock <= currBlock /\ dbLast \in Int
      /\ \/ dbLast = currBlock - 1
         \/ dbMode = ModeRange /\ dbLast = -1 /\ currBlock = startBlock
  BY <1>1 DEF IndexInv, Commits, Accounting, TypeOK, DbTypeOK, SyncTypeOK, SavedUpToNext, NextBlock
<1>5. StoredExactly'
  <2>0. dbLast' = next - 1 /\ next - 1 \in Nat /\ currBlock \in 0..(next - 1) /\ dbLast' # -1
    BY <1>1 DEF Commits, Blocks
  <2>1. CASE dbLast = -1
    <3>1. StoredRecords = <<>>
      BY <2>1 DEF IndexInv, StoredExactly
    <3>2. Index!Run(currBlock, next - 1, missed) \in Seq(Records)
      BY <2>0, RunType DEF Blocks
    <3>3. StoredRecords' = Index!Run(currBlock, next - 1, missed)
      BY <1>11, <3>1, <3>2, ConcatEmptySeq
    <3>4. dbMode = ModeFull => currBlock = 0
      BY <1>1, <1>4, <2>1 DEF ModeFull, ModeRange, Commits, Blocks
    <3>5. dbMode = ModeRange => currBlock = startBlock
      BY <1>1, <1>4, <2>1 DEF Commits, Blocks
    <3>6. missed \in SUBSET (currBlock .. (next - 1)) /\ (MaxShort = 0 => missed = {})
      BY <1>12
    <3> QED BY <1>1, <1>13, <2>0, <3>3, <3>4, <3>5, <3>6 DEF StoredExactly, Commits
  <2>2. CASE dbLast # -1
    <3>0. PICK first, gone : Holds(first, gone)
      BY <2>2, StoredHolds DEF IndexInv
    <3>1. /\ Holds(first, gone) /\ first \in 0..dbLast /\ gone \in SUBSET (first..dbLast)
          /\ MaxShort = 0 => gone = {}
      BY <3>0 DEF Holds
    <3>2. dbLast = currBlock - 1 /\ first \in Blocks /\ first <= currBlock
      <4>1. currBlock \in 0..MaxBlock
        BY <1>1 DEF Commits, Blocks
      <4> QED BY <1>4, <2>2, <3>1, <4>1 DEF Blocks
    <3>3. Index!Run(first, next - 1, gone \cup missed)
            = Index!Run(first, currBlock - 1, gone) \o Index!Run(currBlock, next - 1, missed)
      <4>1. currBlock \in Nat /\ next - 1 \in Blocks /\ currBlock <= (next - 1) + 1
        BY <2>0 DEF Blocks
      <4>2. gone \in SUBSET (first .. (currBlock - 1))
        BY <3>1, <3>2
      <4>3. first \in Blocks /\ first <= currBlock /\ missed \in SUBSET (currBlock .. (next - 1))
        BY <1>12, <3>2
      <4>4. RunsMeet(first, currBlock, next - 1, gone, missed)
        BY <4>1, <4>2, <4>3 DEF RunsMeet
      <4> QED BY ONLY <4>4, RunsJoin
    <3>4. StoredRecords' = Index!Run(first, next - 1, gone \cup missed)
      BY <1>11, <3>1, <3>2, <3>3 DEF Holds
    <3>7. gone \cup missed \in SUBSET (first .. (next - 1))
      <4>1. first .. dbLast \subseteq first .. (next - 1)
        BY <2>0, <3>1, <3>2 DEF Blocks
      <4>2. currBlock .. (next - 1) \subseteq first .. (next - 1)
        BY <2>0, <3>1, <3>2 DEF Blocks
      <4> QED BY <1>12, <3>1, <4>1, <4>2
    <3>8. MaxShort = 0 => gone \cup missed = {}
      BY <1>12, <3>1
    <3>5. first \in 0..(next - 1)
      BY <2>0, <3>1, <3>2
    <3>6. /\ dbMode = ModeFull => first = 0
          /\ dbMode = ModeRange =>
               first = startBlock /\ \A b \in gone \cup missed : b > currEndblock - MaxShort
      BY <1>1, <1>13, <3>1 DEF Holds, Commits
    <3> QED BY <1>1, <2>0, <3>4, <3>5, <3>6, <3>7, <3>8 DEF StoredExactly, Commits
  <2> QED BY <2>1, <2>2
<1> QED BY <1>2, <1>3, <1>5

\* Every step keeps the invariant as long as no full index is restarted.
LEMMA NextIndex ==
    ASSUME IndexInv, [Next]_vars, [FullKeepsRunning]_vars
    PROVE  IndexInv'
<1>0. /\ Accounting /\ ModesAgree /\ KeysExact /\ StoredExactly
      /\ TypeOK /\ Phases
  BY DEF IndexInv, Accounting
<1>00. Accounting'
  BY <1>0, NextAccounting
<1>000. FetchedInFull'
  BY NextInFull DEF IndexInv
<1> SUFFICES ModesAgree' /\ KeysExact' /\ StoredExactly'
  BY <1>00, <1>000 DEF IndexInv
<1>1. ASSUME UNCHANGED dbVars,
             UNCHANGED <<syncPc, startBlock, currIndex, keyIterator>>,
             currEndblock' = currEndblock \/ dbMode # ModeRange,
             orchPc' = orchPc \/ (orchPc \in {"wait", "ask"} /\ orchPc' \in {"wait", "ask"})
      PROVE  ModesAgree' /\ KeysExact' /\ StoredExactly'
  <2>1. StoredExactly'
    BY <1>0, <1>1, StoredSame
  <2> QED BY <1>0, <1>1, <2>1 DEF ModesAgree, KeysExact, NextKey, dbVars
<1>2. CASE StartRange
  <2>1. PICK env \in Envs : manageRange(env)
    BY <1>2 DEF StartRange
  <2>2. /\ dbMode' = ModeRange /\ dbLast' = -1 /\ dbData' = EmptyBucket
        /\ syncPc' = "spawned" /\ orchPc' = "range" /\ syncPc = "off"
        /\ currIndex' = currIndex
    BY <2>1 DEF manageRange, StartDB, Wipes, GoStart
  <2>3. currIndex = 0
    BY <1>0, <2>2 DEF Phases
  <2>4. DOMAIN dbData' = {}
    BY <2>2 DEF EmptyBucket
  <2>5. StoredExactly'
    BY <2>2, <2>4, StoredEmpty
  <2> QED BY <2>2, <2>3, <2>4, <2>5 DEF ModesAgree, KeysExact, NextKey, ModeRange, ModeFull
<1>3. CASE StartFull
  <2>1. PICK env \in Envs : manageFull(env)
    BY <1>3 DEF StartFull
  <2>2. /\ orchPc = "down" /\ orchPc' = "starting" /\ StartDB(ModeFull)
        /\ syncPc = "off" /\ syncPc' = "off"
    BY <1>0, <2>1 DEF manageFull, Phases, syncVars
  <2>3. dbMode' = ModeFull /\ dbLast' = -1 /\ DOMAIN dbData' = {}
    BY <1>0, <2>2 DEF ModesAgree, StartDB, Wipes, EmptyBucket
  <2>4. StoredExactly'
    BY <2>3, StoredEmpty
  <2> QED BY <2>2, <2>3, <2>4 DEF ModesAgree, KeysExact
<1>4. CASE StartFullTag
  <2>1. PICK e \in TagAnswers : manageFullTag(e)
    BY <1>4 DEF StartFullTag
  <2>2. /\ orchPc = "starting" /\ orchPc' = "wait" /\ UNCHANGED dbVars
        /\ syncPc = "off" /\ syncPc' = "spawned" /\ currIndex' = currIndex
    BY <2>1 DEF manageFullTag, GoStart
  <2>3. currIndex = 0 /\ dbMode = ModeFull /\ dbLast = -1 /\ DOMAIN dbData = {}
    BY <1>0, <2>2 DEF Phases, ModesAgree, ModeFull, ModeRange
  <2>4. StoredExactly'
    BY <1>0, <2>2, <2>3, StoredSame
  <2> QED BY <2>2, <2>3, <2>4 DEF ModesAgree, KeysExact, NextKey, ModeFull, dbVars
<1>5. CASE OrchestrateTick \/ \E e \in TagAnswers : OrchestrateTag(e)
  <2>1. /\ UNCHANGED dbVars /\ UNCHANGED <<syncPc, startBlock, currIndex, keyIterator>>
        /\ orchPc \in {"wait", "ask"} /\ orchPc' \in {"wait", "ask"}
    BY <1>5 DEF OrchestrateTick, orchestrate, OrchestrateTag, orchestrateTag, syncVars
  <2>2. dbMode # ModeRange
    BY <1>0, <2>1 DEF ModesAgree, ModeRange, ModeFull
  <2> QED BY <1>1, <2>1, <2>2
<1>6. ASSUME NEW g \in Goroutine, FetchAcquire(g) \/ FetchReturns(g) \/ FetchAdds(g)
      PROVE  ModesAgree' /\ KeysExact' /\ StoredExactly'
  BY <1>1, <1>6 DEF FetchAcquire, FetchReturns, FetchAdds, Add, syncVars, orchVars
<1>7. CASE SyncStart
  <2>1. /\ UNCHANGED dbVars /\ UNCHANGED <<orchPc, startBlock, currIndex, currEndblock>>
        /\ syncPc = "spawned" /\ syncPc' = "select"
    BY <1>7 DEF SyncStart, Start, orchVars
  <2>2. StoredExactly'
    BY <1>0, <2>1, StoredSame
  <2> QED BY <1>0, <2>1, <2>2 DEF ModesAgree, KeysExact, NextKey, Phases, dbVars
<1>8. CASE SyncReceive \/ SyncError \/ Grow \/ UNCHANGED vars
  BY <1>1, <1>8 DEF SyncReceive, Receive, SyncError, SaveError, Grow, syncVars, orchVars, vars
<1>9. CASE SyncCommit
  BY <1>9, SyncCommitIndex
<1>10. CASE SyncAdvance
  <2>1. /\ UNCHANGED dbVars /\ UNCHANGED <<orchPc, startBlock, currEndblock>>
        /\ syncPc = "committed" /\ syncPc' = "select" /\ currIndex' = keyIterator
    BY <1>0, <1>10 DEF SyncAdvance, SaveAdvance, orchVars, TypeOK, SyncTypeOK
  <2>2. StoredExactly'
    BY <1>0, <2>1, StoredSame
  <2> QED BY <1>0, <2>1, <2>2 DEF ModesAgree, KeysExact, NextKey, Phases, dbVars
<1>11. CASE Die
  <2>1. /\ UNCHANGED dbVars /\ orchPc' = "down" /\ syncPc' = "off"
        /\ crashes' = crashes + 1
    BY <1>11 DEF Die
  <2>2. dbMode # ModeFull
    BY <1>0, <2>1 DEF FullKeepsRunning, TypeOK, vars
  <2>3. dbMode # ModeRange => dbLast = -1 /\ DOMAIN dbData = {}
    BY <1>0, <2>2 DEF ModesAgree, TypeOK, DbTypeOK
  <2>4. StoredExactly'
    BY <1>0, <2>1, StoredSame
  <2> QED BY <2>1, <2>2, <2>3, <2>4 DEF ModesAgree, KeysExact, dbVars
<1> QED
  BY <1>2, <1>3, <1>4, <1>5, <1>6, <1>7, <1>8, <1>9, <1>10, <1>11
  DEF Next, FetchPanics, Crash

\* It holds at the start, where the index is empty.
LEMMA InitIndex == Init => IndexInv /\ Index!Init
<1> SUFFICES ASSUME Init PROVE IndexInv /\ Index!Init
  OBVIOUS
<1>1. /\ dbMode = "none" /\ dbLast = -1 /\ DOMAIN dbData = {}
      /\ syncPc = "off" /\ orchPc = "down"
  BY DEF Init, NewPersistor, EmptyBucket, NewSynchronizer, OrchestratorInit
<1>2. StoredRecords = <<>>
  BY <1>1, StoredNone
<1>3. ModesAgree /\ KeysExact /\ StoredExactly
  BY <1>1, <1>2 DEF ModesAgree, KeysExact, StoredExactly, ModeFull
<1>4. FetchedInFull
  BY DEF Init, NewSynchronizer, NewFetcher, NoFetch, NothingToSave, FetchedInFull, FlightComplete,
     ChanComplete, BufferComplete
<1> QED BY <1>1, <1>2, <1>3, <1>4, InitAccounting DEF IndexInv, Index!Init

\* The inductive invariant of the index holds as long as no full index is
\* restarted.
THEOREM IndexInvariant == Spec /\ [][FullKeepsRunning]_vars => []IndexInv
<1>1. IndexInv /\ [Next]_vars /\ [FullKeepsRunning]_vars => IndexInv'
  BY NextIndex
<1> QED BY <1>1, InitIndex, PTL DEF Spec

\* Readers find the records of the blocks from the first to the last of the
\* index, each once and in chain order, through every save, split, reordering,
\* failed commit and restart but that of a full index: of every block, if no
\* endpoint is behind the blocks it is asked for (MaxShort = 0), and of a range
\* index else, but for the last blocks before END_BLOCK.
THEOREM ReadersGetTheRun ==
    Spec /\ [][FullKeepsRunning]_vars => []StoredExactly
<1>1. IndexInv => StoredExactly
  BY DEF IndexInv
<1> QED BY <1>1, IndexInvariant, PTL

-----------------------------------------------------------------------------
(* The refinement. *)

\* Every step of the process is a step of the index or leaves it alone: a
\* start opens it, a commit extends it.
LEMMA NextRefines ==
    ASSUME IndexInv, [Next]_vars
    PROVE  [Index!Next]_Index!indexVars
<1>0. /\ Accounting /\ ModesAgree /\ KeysExact /\ StoredExactly
      /\ TypeOK /\ Phases /\ BufferComplete
  BY DEF IndexInv, Accounting, FetchedInFull
<1>1. ASSUME UNCHANGED dbVars PROVE UNCHANGED Index!indexVars
  BY <1>1 DEF dbVars, Index!indexVars, StoredRecords
<1>2. CASE StartRange
  <2>1. dbMode' = "range" /\ dbLast' = -1 /\ DOMAIN dbData' = {}
    BY <1>2 DEF StartRange, manageRange, StartDB, Wipes, EmptyBucket, ModeRange
  <2>2. StoredRecords' = <<>>
    BY <2>1, FS_EmptySet DEF StoredRecords
  <2>3. Index!Open("range")
    BY <2>1, <2>2 DEF Index!Open
  <2> QED BY <2>3 DEF Index!Next
<1>3. CASE StartFull
  <2>1. /\ orchPc = "down" /\ dbMode' = "full" /\ dbMode # "full"
        /\ StartDB("full")
    BY <1>0, <1>3 DEF StartFull, manageFull, StartDB, ModesAgree, ModeFull
  <2>2. CASE dbMode = "range"
    <3>1. dbLast' = -1 /\ DOMAIN dbData' = {}
      BY <2>1, <2>2 DEF StartDB, Wipes, EmptyBucket, ModeRange, ModeFull
    <3>2. StoredRecords' = <<>>
      BY <3>1, FS_EmptySet DEF StoredRecords
    <3>3. Index!Open("full")
      BY <2>1, <2>2, <3>1, <3>2 DEF Index!Open
    <3> QED BY <3>3 DEF Index!Next
  <2>3. CASE dbMode # "range"
    <3>1. UNCHANGED <<dbLast, dbData>>
      BY <2>1, <2>3 DEF StartDB, Wipes, ModeRange, ModeFull
    <3>2. StoredRecords' = StoredRecords
      BY <3>1 DEF StoredRecords
    <3>3. Index!Open("full")
      BY <2>1, <2>3, <3>1, <3>2 DEF Index!Open
    <3> QED BY <3>3 DEF Index!Next
  <2> QED BY <2>2, <2>3
<1>4. CASE SyncCommit
  <2>1. PICK next \in 1..(MaxBlock + 1) : Commits(next)
    BY <1>0, <1>4, CommitAppends
  <2>2. currBlock = dbLast + 1 \/ (dbMode = "range" /\ dbLast = -1)
    <3>1. syncPc = "select"
      BY <2>1 DEF Commits
    <3>2. dbLast \in Int /\ currBlock \in Nat
      BY <1>0 DEF TypeOK, DbTypeOK, SyncTypeOK
    <3> QED BY <1>0, <3>1, <3>2 DEF Accounting, SavedUpToNext, NextBlock, ModeRange
  <2>3. dbMode # "none"
    BY <1>0, <2>1 DEF ModesAgree, Commits
  <2>4. Index!Extend(currBlock, next - 1)
    BY <2>1, <2>2, <2>3 DEF Index!Extend, Commits, MayMiss
  <2>5. currBlock \in 0..MaxBlock /\ next - 1 \in currBlock .. MaxBlock
    BY <2>1 DEF Commits, Blocks
  <2> QED BY <2>4, <2>5 DEF Index!Next
<1>5. CASE StartFullTag \/ OrchestrateTick \/ \E e \in TagAnswers : OrchestrateTag(e)
  BY <1>1, <1>5 DEF StartFullTag, manageFullTag, OrchestrateTick, orchestrate, OrchestrateTag,
     orchestrateTag
<1>6. ASSUME NEW g \in Goroutine, FetchAcquire(g) \/ FetchReturns(g) \/ FetchAdds(g)
      PROVE  UNCHANGED Index!indexVars
  BY <1>1, <1>6 DEF FetchAcquire, FetchReturns, FetchAdds
<1>7. CASE SyncStart \/ SyncReceive \/ SyncError \/ SyncAdvance \/ Grow \/ Die \/ UNCHANGED vars
  BY <1>1, <1>7 DEF SyncStart, SyncReceive, SyncError, SaveError, SyncAdvance, Grow, Die, dbVars,
     vars
<1> QED
  BY <1>2, <1>3, <1>4, <1>5, <1>6, <1>7 DEF Next, FetchPanics, Crash

\* The process keeps the promise of BlockIndex as long as no full index is
\* restarted: with endpoints that miss up to MaxShort blocks, only the last
\* MaxShort blocks of each extension of the index are without their records.
THEOREM IndexerImplementsIndex ==
    Spec /\ [][FullKeepsRunning]_vars => IndexImplemented
<1>1. IndexInv /\ [Next]_vars => [Index!Next]_Index!indexVars
  BY NextRefines
<1> QED BY <1>1, InitIndex, IndexInvariant, PTL DEF Spec, IndexImplemented, Index!Spec

-----------------------------------------------------------------------------
(* What a full index keeps. *)

\* Without a restart a full index keeps every record: the keys of a commit lie
\* beyond the stored ones.  So the restart is the only cause of what the run
\* full_key_reuse shows.
THEOREM RecordsKeptWhileRunning ==
    Spec /\ [][FullKeepsRunning]_vars => SavedDataKept
<1> DEFINE Kept == dbMode = ModeFull /\ dbMode' = ModeFull =>
                     \A k \in DOMAIN dbData : k \in DOMAIN dbData' /\ dbData'[k] = dbData[k]
<1>1. IndexInv /\ [Next]_vars => [Kept]_dbVars
  <2> SUFFICES ASSUME IndexInv, [Next]_vars, ~(UNCHANGED dbVars), dbMode = ModeFull PROVE Kept
    OBVIOUS
  <2>1. orchPc # "down"
    BY DEF IndexInv, ModesAgree
  <2>2. SyncCommit
    BY <2>1 DEF Next, Grow, StartRange, manageRange, StartFull, manageFull, StartFullTag,
       manageFullTag, OrchestrateTick, orchestrate, OrchestrateTag, orchestrateTag, FetchAcquire,
       FetchReturns, FetchAdds, SyncStart, SyncReceive, SyncError, SaveError, SyncAdvance,
       FetchPanics, Crash, Die, dbVars, vars
  <2>3. PICK next \in 1..(MaxBlock + 1) : Commits(next)
    BY <2>2, CommitAppends DEF IndexInv, FetchedInFull
  <2> QED BY <2>3 DEF Commits
<1> QED BY <1>1, IndexInvariant, PTL DEF Spec, SavedDataKept

\* The last block of a full index never goes back, whatever the tag says and
\* wherever the process dies and is started again.
THEOREM FullNeverGoesBack == Spec => FullOnlyAdvances
<1> DEFINE Advances == dbMode = ModeFull /\ dbMode' = ModeFull => dbLast <= dbLast'
<1>1. Accounting /\ [Next]_vars => [Advances]_dbVars
  <2> SUFFICES ASSUME Accounting, [Next]_vars, ~(UNCHANGED dbVars),
                      dbMode = ModeFull, dbMode' = ModeFull
               PROVE  dbLast <= dbLast'
    OBVIOUS
  <2>0. dbLast \in -1..MaxBlock
    BY DEF Accounting, TypeOK, DbTypeOK
  <2>1. StartFull \/ SyncCommit
    BY DEF Next, Grow, StartRange, manageRange, StartDB, StartFullTag,
       manageFullTag, OrchestrateTick, orchestrate, OrchestrateTag, orchestrateTag, FetchAcquire,
       FetchReturns, FetchAdds, SyncStart, SyncReceive, SyncError, SaveError, SyncAdvance,
       FetchPanics, Crash, Die, dbVars, vars, ModeFull, ModeRange
  <2>2. CASE StartFull
    <3>1. dbLast' = dbLast
      BY <2>2 DEF StartFull, manageFull, StartDB, Wipes, ModeFull, ModeRange
    <3> QED BY <2>0, <3>1
  <2>3. CASE SyncCommit
    <3>1. PICK next \in {b + 1 : b \in DOMAIN dataToSave} : StopsAt(next) /\ dbLast' = next - 1
      BY <2>3 DEF SyncCommit, SaveCommit, SaveData
    <3>2. currBlock \in Nat /\ next \in Nat /\ next > currBlock
      BY <3>1 DEF StopsAt, Accounting, TypeOK, SyncTypeOK, Blocks
    <3>3. syncPc = "select"
      BY <2>3 DEF SyncCommit, SaveCommit
    <3>4. dbLast = currBlock - 1 \/ dbLast = -1
      BY <3>3 DEF Accounting, SavedUpToNext, NextBlock
    <3> QED BY <2>0, <3>1, <3>2, <3>4
  <2> QED BY <2>1, <2>2, <2>3
<1> QED BY <1>1, AccountingInvariant, PTL DEF Spec, FullOnlyAdvances
=============================================================================
