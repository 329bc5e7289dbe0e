---------------------------- MODULE IndexerTypes ----------------------------
(***************************************************************************)
(* Lemmas about the operators of the indexer, and the proof that every     *)
(* step keeps the types.                                                   *)
(***************************************************************************)
EXTENDS Indexer, FlattenFacts, FiniteSetTheorems

USE ChainAssumption, FetcherAssumption

-----------------------------------------------------------------------------
(* The operators. *)

\* The logs of a block are a sequence of records; a block without matching
\* logs has the empty one.
LEMMA EventsType ==
    ASSUME NEW b \in Blocks
    PROVE  /\ Events(b) \in Seq(Records)
           /\ Matching[b] = 0 => Events(b) = <<>>
<1>1. Matching[b] \in Nat
  BY DEF Blocks
<1>2. \A j \in 1..Matching[b] : <<b, j>> \in Records
  BY <1>1 DEF Records
<1>3. Events(b) \in [1..Matching[b] -> Records]
  BY <1>2 DEF Events
<1>4. Events(b) \in Seq(Records)
  BY <1>1, <1>3
<1>5. ASSUME Matching[b] = 0 PROVE Events(b) = <<>>
  BY <1>5 DEF Events
<1> QED BY <1>4, <1>5

\* midBlock cuts a range into two halves that are disjoint and together the
\* range.  A reversed range, which fetchWithRetry also splits, gives two
\* reversed ones.
LEMMA SplitHalves ==
    ASSUME NEW s \in 0..(MaxBlock + 1), NEW e \in Blocks
    PROVE  /\ midBlock(s, e) \in Blocks
           /\ midBlock(s, e) + 1 \in 0..(MaxBlock + 1)
           /\ (s .. midBlock(s, e)) \cup ((midBlock(s, e) + 1) .. e) = s .. e
           /\ (s .. midBlock(s, e)) \cap ((midBlock(s, e) + 1) .. e) = {}
<1> DEFINE mid == midBlock(s, e)
<1>1. mid \in Int /\ 2 * mid <= s + e /\ s + e <= 2 * mid + 1
  BY DEF midBlock, Blocks
<1>2. mid \in Blocks
  BY <1>1 DEF Blocks
<1>3. s <= e => s <= mid /\ mid <= e
  BY <1>1 DEF Blocks
<1>4. s > e => s > mid /\ mid + 1 > e
  BY <1>1 DEF Blocks
<1> HIDE DEF mid
<1>5. (s .. mid) \cup ((mid + 1) .. e) = s .. e
  BY <1>2, <1>3, <1>4 DEF Blocks
<1> QED BY <1>2, <1>5 DEF Blocks, mid

\* The places of a goroutine, as records.
LEMMA FetchesAre ==
    /\ NoFetch \in Fetches
    /\ \A s \in 0..(MaxBlock + 1), e \in Blocks : Waiting(s, e) \in Fetches
    /\ \A r \in Fetches, pc \in FetchPcs : [r EXCEPT !.pc = pc] \in Fetches
    /\ \A r \in Fetches, pc \in FetchPcs, k \in Blocks :
         [r EXCEPT !.pc = pc, !.knew = k] \in Fetches
<1>1. 0 \in Blocks /\ 0 \in 0..(MaxBlock + 1)
  BY DEF Blocks
<1> QED BY <1>1 DEF Fetches, NoFetch, Waiting, FetchPcs

\* What a goroutine sends is one of the SyncStructs.
LEMMA SyncStructType ==
    ASSUME FetchTypeOK, NEW g \in Goroutine
    PROVE  SyncStruct(g) \in SyncStructs
<1>1. /\ fetch[g].start \in 0..(MaxBlock + 1) /\ fetch[g].end \in Blocks
      /\ fetch[g].knew \in Blocks
  BY DEF FetchTypeOK, Fetches
<1> DEFINE s == fetch[g].start
           e == fetch[g].end
           k == fetch[g].knew
<1>2. SyncStruct(g) = [StartBlock |-> s, EndBlock |-> e, DataToSave |-> fetchData(s, e, k)]
  BY DEF SyncStruct
<1> HIDE DEF s, e, k
<1>3. s \in 0..(MaxBlock + 1) /\ e \in Blocks /\ k \in Blocks
  BY <1>1 DEF s, e, k
<1>4. \E a \in 0..(MaxBlock + 1), b \in Blocks, c \in Blocks :
        SyncStruct(g) = [StartBlock |-> a, EndBlock |-> b, DataToSave |-> fetchData(a, b, c)]
  BY <1>2, <1>3, Zenon
<1> QED BY <1>4 DEF SyncStructs

\* What add makes of a block of an item: the records it has on the chain, if
\* the endpoint knew the block, and otherwise none.
LEMMA ItemRecords ==
    ASSUME NEW s \in 0..(MaxBlock + 1), NEW e \in Blocks, NEW k \in Blocks, NEW b \in s .. e
    PROVE  /\ b \in Blocks
           /\ (IF b \in DOMAIN fetchData(s, e, k) THEN fetchData(s, e, k)[b] ELSE <<>>)
                = IF b <= k THEN Events(b) ELSE <<>>
<1>1. b \in Blocks
  BY DEF Blocks
<1>2. Matching[b] \in Nat
  BY <1>1
<1>3. CASE b <= k /\ Matching[b] > 0
  <2>1. b \in {x \in s .. e : x <= k /\ Matching[x] > 0}
    BY <1>3
  <2>2. b \in DOMAIN fetchData(s, e, k) /\ fetchData(s, e, k)[b] = Events(b)
    BY <2>1 DEF fetchData
  <2> QED BY ONLY <1>1, <1>3, <2>2
<1>4. CASE b <= k /\ ~(Matching[b] > 0)
  <2>1. b \notin DOMAIN fetchData(s, e, k)
    BY <1>4 DEF fetchData
  <2>2. Events(b) = <<>>
    BY <1>1, <1>2, <1>4, EventsType
  <2> QED BY <1>1, <1>4, <2>1, <2>2
<1>5. CASE ~(b <= k)
  <2>1. b \notin DOMAIN fetchData(s, e, k)
    BY <1>5 DEF fetchData
  <2> QED BY <1>1, <1>5, <2>1
<1> QED BY <1>1, <1>3, <1>4, <1>5

\* The buffer after add: the blocks of the item join it, each with the records
\* it has on the chain, or with none.
LEMMA AddBuffers ==
    ASSUME SyncTypeOK, NEW item \in SyncStructs
    PROVE  LET D == DOMAIN dataToSave \cup (item.StartBlock .. item.EndBlock)
           IN  /\ D \subseteq Blocks /\ DOMAIN add(item) = D
               /\ \A b \in D : add(item)[b] \in {Events(b), <<>>}
<1>1. PICK s \in 0..(MaxBlock + 1), e \in Blocks, k \in Blocks :
        item = [StartBlock |-> s, EndBlock |-> e, DataToSave |-> fetchData(s, e, k)]
  BY DEF SyncStructs
<1>2. item.StartBlock = s /\ item.EndBlock = e /\ item.DataToSave = fetchData(s, e, k)
  BY <1>1
<1>3. s .. e \subseteq Blocks
  BY DEF Blocks
<1> DEFINE D == DOMAIN dataToSave \cup (s .. e)
<1>4. D \subseteq Blocks
  BY <1>3 DEF SyncTypeOK
<1>5. ASSUME NEW b \in D
      PROVE  (IF b \notin s .. e THEN dataToSave[b]
              ELSE IF b \in DOMAIN fetchData(s, e, k) THEN fetchData(s, e, k)[b]
              ELSE <<>>) \in {Events(b), <<>>}
  <2>1. CASE b \notin s .. e
    BY <2>1, <1>5 DEF SyncTypeOK
  <2>2. CASE b \in s .. e
    BY <2>2, ItemRecords
  <2> QED BY <2>1, <2>2
<1>6. DOMAIN add(item) = D /\ \A b \in D : add(item)[b] \in {Events(b), <<>>}
  BY <1>2, <1>5 DEF add, AddTo
<1> QED BY <1>2, <1>4, <1>6

\* The records that save() writes for a buffered run of blocks.
LEMMA ConcatType ==
    ASSUME SyncTypeOK, NEW next \in 1..(MaxBlock + 1), StopsAt(next)
    PROVE  Concat(dataToSave, currBlock, next) \in Seq(Records)
<1> DEFINE n == next - currBlock
           seqs == [j \in 1..n |-> dataToSave[currBlock + j - 1]]
<1>1. n \in Nat /\ currBlock \in Nat
  BY DEF SyncTypeOK, StopsAt
<1>2. ASSUME NEW j \in 1..n PROVE seqs[j] \in Seq(Records)
  <2>1. currBlock + j - 1 \in currBlock .. (next - 1)
    BY <1>1, <1>2
  <2>2. currBlock + j - 1 \in DOMAIN dataToSave
    BY <2>1 DEF StopsAt
  <2>3. currBlock + j - 1 \in Blocks
    BY <2>2 DEF SyncTypeOK
  <2>4. dataToSave[currBlock + j - 1] \in {Events(currBlock + j - 1), <<>>}
    BY <2>2 DEF SyncTypeOK
  <2>5. <<>> \in Seq(Records)
    OBVIOUS
  <2> QED BY <2>3, <2>4, <2>5, EventsType
<1>3. seqs \in Seq(Seq(Records))
  <2>1. seqs \in [1..n -> Seq(Records)]
    BY <1>2
  <2> HIDE DEF seqs, n
  <2> QED BY <1>1, <2>1
<1>4. FlattenSeq(seqs) \in Seq(Records)
  <2> HIDE DEF seqs
  <2> QED BY <1>3, FlattenSeqType
<1> QED BY <1>4 DEF Concat

-----------------------------------------------------------------------------
(* Components that a step leaves alone keep their types. *)

\* The database, when nothing is stored or opened.
LEMMA DbTypeSame ==
    ASSUME DbTypeOK, UNCHANGED dbVars PROVE DbTypeOK'
BY DEF DbTypeOK, dbVars

\* The synchronizer, when its goroutine does not run.
LEMMA SyncTypeSame ==
    ASSUME SyncTypeOK, UNCHANGED syncVars PROVE SyncTypeOK'
BY DEF SyncTypeOK, syncVars

\* The fetcher, when none of its goroutines runs.
LEMMA FetchTypeSame ==
    ASSUME FetchTypeOK, UNCHANGED fetchVars PROVE FetchTypeOK'
BY DEF FetchTypeOK, fetchVars

\* The orchestrator, when it waits.
LEMMA OrchTypeSame ==
    ASSUME OrchTypeOK, UNCHANGED orchVars PROVE OrchTypeOK'
BY DEF OrchTypeOK, orchVars

-----------------------------------------------------------------------------
(* The operations keep the types of their component. *)

\* StartDB keeps the types of the database.
LEMMA StartDBType ==
    ASSUME DbTypeOK, NEW mode \in {ModeRange, ModeFull}, StartDB(mode)
    PROVE  DbTypeOK'
<1>1. dbMode' \in {"none", ModeRange, ModeFull}
  BY DEF StartDB
<1>2. dbLast' \in -1..MaxBlock
  BY DEF StartDB, DbTypeOK
<1>3. \A k \in DOMAIN dbData' : k \in Nat /\ dbData'[k] \in Records
  BY DEF StartDB, DbTypeOK, EmptyBucket
<1> QED BY <1>1, <1>2, <1>3 DEF DbTypeOK

\* RequestRange keeps the types of the fetcher.
LEMMA RequestRangeType ==
    ASSUME FetchTypeOK, NEW s \in 0..(MaxBlock + 1), NEW e \in Blocks,
           RequestRange(s, e)
    PROVE  FetchTypeOK'
<1>1. PICK g \in Goroutine : fetch' = [fetch EXCEPT ![g] = Waiting(s, e)] /\ permits' = permits
  BY DEF RequestRange
<1> QED BY <1>1, FetchesAre DEF FetchTypeOK

\* GoStart keeps the types of the synchronizer.
LEMMA GoStartType ==
    ASSUME SyncTypeOK, NEW s \in 0..(MaxBlock + 1), GoStart(s)
    PROVE  SyncTypeOK'
BY DEF SyncTypeOK, GoStart, SyncPcs

\* A commit keeps the types of the database and of the synchronizer.
LEMMA SaveCommitType ==
    ASSUME DbTypeOK, SyncTypeOK, SaveCommit
    PROVE  DbTypeOK' /\ SyncTypeOK'
<1>1. PICK next \in {b + 1 : b \in DOMAIN dataToSave} :
        /\ StopsAt(next)
        /\ SaveData(Registers(Concat(dataToSave, currBlock, next), currIndex), next - 1)
        /\ blockIterator' = next
        /\ keyIterator' = currIndex + Len(Concat(dataToSave, currBlock, next))
  BY DEF SaveCommit
<1> DEFINE records == Concat(dataToSave, currBlock, next)
           registers == Registers(records, currIndex)
<1>2. next \in 1..(MaxBlock + 1) /\ currIndex \in Nat
  BY DEF SyncTypeOK, Blocks
<1>3. records \in Seq(Records)
  BY <1>1, <1>2, ConcatType
<1> HIDE DEF records
<1>4. \A k \in DOMAIN registers : k \in Nat /\ registers[k] \in Records
  <2>1. Len(records) \in Nat /\ \A i \in 1..Len(records) : records[i] \in Records
    BY <1>3
  <2>2. \A k \in currIndex .. (currIndex + Len(records) - 1) :
           k \in Nat /\ k - currIndex + 1 \in 1..Len(records)
    BY <1>2, <2>1
  <2> QED BY <2>1, <2>2 DEF Registers
<1>5. dbData' = Put(dbData, registers) /\ dbLast' = next - 1 /\ dbMode' = dbMode
  BY <1>1 DEF SaveData, records
<1> HIDE DEF registers
<1>6. \A k \in DOMAIN dbData' : k \in Nat /\ dbData'[k] \in Records
  BY <1>4, <1>5 DEF Put, DbTypeOK
<1>7. DbTypeOK'
  BY <1>2, <1>5, <1>6 DEF DbTypeOK
<1>8. keyIterator' \in Nat
  BY <1>1, <1>2, <1>3 DEF records
<1>9. SyncTypeOK'
  BY <1>1, <1>2, <1>8 DEF SyncTypeOK, SaveCommit, SyncPcs
<1> QED BY <1>7, <1>9

\* The steps of the synchronizer's goroutine keep its types.  Start adds the
\* start block to currBlock, so currBlock has to be 0 until then.
LEMMA SyncStepsType ==
    ASSUME SyncTypeOK, syncPc = "spawned" => currBlock = 0,
           Start \/ Receive \/ SaveAdvance
    PROVE  SyncTypeOK'
<1>1. CASE Start
  <2>1. currBlock' = startBlock
    BY <1>1 DEF Start, SyncTypeOK
  <2> QED BY <1>1, <2>1 DEF Start, SyncTypeOK, SyncPcs
<1>2. CASE Receive
  <2>1. Head(datachan) \in SyncStructs /\ Tail(datachan) \in Seq(SyncStructs)
    BY <1>2 DEF Receive, SyncTypeOK
  <2>2. /\ DOMAIN dataToSave' \subseteq Blocks
        /\ \A b \in DOMAIN dataToSave' : dataToSave'[b] \in {Events(b), <<>>}
    BY <1>2, <2>1, AddBuffers DEF Receive
  <2> QED BY <1>2, <2>1, <2>2 DEF Receive, SyncTypeOK
<1>3. CASE SaveAdvance
  <2>1. currBlock' = blockIterator /\ currIndex' = keyIterator
    BY <1>3 DEF SaveAdvance, SyncTypeOK
  <2>2. /\ DOMAIN dataToSave' \subseteq Blocks
        /\ \A b \in DOMAIN dataToSave' : dataToSave'[b] \in {Events(b), <<>>}
    BY <1>3 DEF SaveAdvance, SyncTypeOK
  <2> QED BY <1>3, <2>1, <2>2 DEF SaveAdvance, SyncTypeOK, SyncPcs
<1> QED BY <1>1, <1>2, <1>3

\* A goroutine inside fetchData holds a permit.
LEMMA PermitHeld ==
    ASSUME FetchTypeOK, PermitsAccounted,
           NEW g \in Goroutine, fetch[g].pc = "fetchData"
    PROVE  permits - 1 \in 0..Concurrency
<1> DEFINE P == {h \in Goroutine : fetch[h].pc = "fetchData"}
<1>1. IsFiniteSet(P) /\ g \in P
  BY FS_Subset
<1>2. Cardinality(P) # 0 /\ Cardinality(P) \in Nat
  BY <1>1, FS_EmptySet, FS_CardinalityType
<1> QED BY <1>2 DEF PermitsAccounted, FetchTypeOK

\* The steps of a fetcher goroutine keep the types.
LEMMA FetchStepsType ==
    ASSUME FetchTypeOK, PermitsAccounted, NEW g \in Goroutine,
           \/ Acquire(g) \/ FetchTooBig(g) \/ Added(g)
           \/ \E knew \in Blocks : FetchOk(g, knew)
    PROVE  FetchTypeOK'
<1>0. fetch \in [Goroutine -> Fetches] /\ fetch[g] \in Fetches
  BY DEF FetchTypeOK
<1>1. CASE Acquire(g)
  <2>1. fetch' = [fetch EXCEPT ![g] = [fetch[g] EXCEPT !.pc = "fetchData"]]
    BY <1>1 DEF Acquire
  <2>2. [fetch[g] EXCEPT !.pc = "fetchData"] \in Fetches
    BY <1>0, FetchesAre DEF FetchPcs
  <2>3. fetch' \in [Goroutine -> Fetches]
    BY <1>0, <2>1, <2>2
  <2> QED BY <1>1, <2>3 DEF Acquire, FetchTypeOK
<1>2. CASE \E knew \in Blocks : FetchOk(g, knew)
  <2>1. PICK knew \in Blocks : FetchOk(g, knew)
    BY <1>2
  <2>2. permits - 1 \in 0..Concurrency
    BY <2>1, PermitHeld DEF FetchOk
  <2>3. fetch' = [fetch EXCEPT ![g] = [fetch[g] EXCEPT !.pc = "add", !.knew = knew]]
    BY <1>0, <2>1 DEF FetchOk
  <2>4. [fetch[g] EXCEPT !.pc = "add", !.knew = knew] \in Fetches
    BY <1>0, FetchesAre DEF FetchPcs
  <2>5. fetch' \in [Goroutine -> Fetches]
    BY <1>0, <2>3, <2>4
  <2> QED BY <2>1, <2>2, <2>5 DEF FetchOk, Release, FetchTypeOK
<1>3. CASE FetchTooBig(g)
  <2>1. permits - 1 \in 0..Concurrency
    BY <1>3, PermitHeld DEF FetchTooBig
  <2> DEFINE s == fetch[g].start
             e == fetch[g].end
             mid == midBlock(s, e)
  <2>2. s \in 0..(MaxBlock + 1) /\ e \in Blocks
    BY <1>0 DEF Fetches
  <2>3. mid \in Blocks /\ mid + 1 \in 0..(MaxBlock + 1)
    BY <2>2, SplitHalves
  <2>4. PICK h \in Goroutine :
          fetch' = [fetch EXCEPT ![g] = Waiting(s, mid), ![h] = Waiting(mid + 1, e)]
    BY <1>3 DEF FetchTooBig
  <2> HIDE DEF s, e, mid
  <2>5. Waiting(s, mid) \in Fetches /\ Waiting(mid + 1, e) \in Fetches
    BY <2>2, <2>3, FetchesAre
  <2>6. fetch' \in [Goroutine -> Fetches]
    BY <1>0, <2>4, <2>5
  <2> QED BY <1>3, <2>1, <2>6 DEF FetchTooBig, Release, FetchTypeOK
<1>4. CASE Added(g)
  BY <1>0, <1>4, FetchesAre DEF Added, FetchTypeOK
<1> QED BY <1>1, <1>2, <1>3, <1>4

-----------------------------------------------------------------------------
(* The whole process. *)

\* The state of a process that does not exist has the right types.
LEMMA FreshTypes ==
    /\ NewSynchronizer => SyncTypeOK
    /\ NewFetcher => FetchTypeOK
    /\ OrchestratorInit => OrchTypeOK
<1>1. NewSynchronizer => SyncTypeOK
  BY DEF NewSynchronizer, SyncTypeOK, NothingToSave, SyncPcs
<1>2. NewFetcher => FetchTypeOK
  BY DEF NewFetcher, FetchTypeOK, NoFetch, Fetches, FetchPcs, Blocks
<1>3. OrchestratorInit => OrchTypeOK
  BY DEF OrchestratorInit, OrchTypeOK, OrchPcs, Blocks
<1> QED BY <1>1, <1>2, <1>3

\* Every initial state has the right types.
LEMMA InitType == Init => TypeOK
<1> SUFFICES ASSUME Init PROVE TypeOK
  OBVIOUS
<1>1. head \in Blocks /\ crashes \in 0..MaxCrashes
  BY CrashAssumption DEF Init, ChainInit
<1>2. DbTypeOK
  BY DEF Init, NewPersistor, DbTypeOK, EmptyBucket
<1>3. SyncTypeOK /\ FetchTypeOK /\ OrchTypeOK
  BY FreshTypes DEF Init
<1> QED BY <1>1, <1>2, <1>3 DEF TypeOK

\* Death leaves a process that does not exist, and the database as it was.
LEMMA DieFresh ==
    ASSUME Die
    PROVE  /\ NewSynchronizer' /\ NewFetcher' /\ OrchestratorInit'
           /\ UNCHANGED <<head, dbVars>>
BY DEF Die, NewSynchronizer, NewFetcher, OrchestratorInit

\* Every step keeps the types.  This needs more than the types: Start adds to
\* currBlock, and Release takes a permit back.
LEMMA NextType ==
    ASSUME TypeOK, PermitsAccounted, syncPc = "spawned" => currBlock = 0, Next
    PROVE  TypeOK'
<1> USE DEF TypeOK
<1>1. CASE Grow
  <2>1. head' \in Blocks
    BY <1>1 DEF Grow, NewBlock, Blocks
  <2> QED BY <1>1, <2>1, DbTypeSame, SyncTypeSame, FetchTypeSame, OrchTypeSame DEF Grow
<1>2. CASE StartRange
  <2>1. PICK env \in Envs : manageRange(env)
    BY <1>2 DEF StartRange
  <2>2. startBlockEnv(env) \in 0..(MaxBlock + 1) /\ endBlockEnv(env) \in Blocks
    BY EnvAssumption, ChainAssumption DEF Blocks, startBlockEnv, endBlockEnv
  <2>3. DbTypeOK' /\ SyncTypeOK' /\ FetchTypeOK'
    BY <2>1, <2>2, StartDBType, GoStartType, RequestRangeType DEF manageRange
  <2>4. OrchTypeOK'
    BY <2>1, <2>2 DEF manageRange, OrchTypeOK, OrchPcs
  <2> QED BY <1>2, <2>3, <2>4 DEF StartRange
<1>3. CASE StartFull
  <2>1. PICK env \in Envs : manageFull(env)
    BY <1>3 DEF StartFull
  <2>2. DbTypeOK'
    BY <2>1, StartDBType DEF manageFull
  <2>3. SyncTypeOK' /\ FetchTypeOK'
    BY <2>1, SyncTypeSame, FetchTypeSame DEF manageFull
  <2>4. OrchTypeOK'
    BY <2>1 DEF manageFull, OrchTypeOK, OrchPcs
  <2> QED BY <1>3, <2>2, <2>3, <2>4 DEF StartFull
<1>4. CASE StartFullTag
  <2>1. PICK endBlock \in TagAnswers : manageFullTag(endBlock)
    BY <1>4 DEF StartFullTag
  <2>2. dbLast + 1 \in 0..(MaxBlock + 1) /\ endBlock \in Blocks
    BY DEF DbTypeOK, TagAnswers, Blocks
  <2>3. SyncTypeOK' /\ FetchTypeOK' /\ DbTypeOK'
    BY <2>1, <2>2, GoStartType, RequestRangeType, DbTypeSame
    DEF manageFullTag, GetLastBlockIndex
  <2>4. OrchTypeOK'
    BY <2>1, <2>2 DEF manageFullTag, OrchTypeOK, OrchPcs
  <2> QED BY <1>4, <2>3, <2>4 DEF StartFullTag
<1>5. CASE OrchestrateTick
  <2>1. OrchTypeOK'
    BY <1>5 DEF OrchestrateTick, orchestrate, OrchTypeOK, SyncTypeOK, GetCurrBlock, OrchPcs
  <2> QED BY <1>5, <2>1, DbTypeSame, SyncTypeSame, FetchTypeSame
          DEF OrchestrateTick, orchestrate
<1>6. ASSUME NEW endBlock \in TagAnswers, OrchestrateTag(endBlock) PROVE TypeOK'
  <2>1. orchBlock \in 0..(MaxBlock + 1) /\ endBlock \in Blocks
    BY DEF OrchTypeOK, TagAnswers, Blocks
  <2>2. FetchTypeOK'
    BY <1>6, <2>1, FetchTypeSame, RequestRangeType DEF OrchestrateTag, orchestrateTag
  <2>3. OrchTypeOK'
    BY <1>6, <2>1 DEF OrchestrateTag, orchestrateTag, OrchTypeOK, OrchPcs
  <2> QED BY <1>6, <2>2, <2>3, DbTypeSame, SyncTypeSame DEF OrchestrateTag, orchestrateTag
<1>7. ASSUME NEW g \in Goroutine, FetchAcquire(g) PROVE TypeOK'
  BY <1>7, FetchStepsType, DbTypeSame, SyncTypeSame, OrchTypeSame DEF FetchAcquire
<1>8. ASSUME NEW g \in Goroutine, FetchReturns(g) PROVE TypeOK'
  BY <1>8, FetchStepsType, DbTypeSame, SyncTypeSame, OrchTypeSame DEF FetchReturns, MayKnow
<1>9. ASSUME NEW g \in Goroutine, FetchAdds(g) PROVE TypeOK'
  <2>1. SyncTypeOK'
    BY <1>9, SyncStructType DEF FetchAdds, Add, SyncTypeOK
  <2> QED BY <1>9, <2>1, FetchStepsType, DbTypeSame, OrchTypeSame DEF FetchAdds
<1>10. CASE SyncStart
  BY <1>10, SyncStepsType, DbTypeSame, FetchTypeSame, OrchTypeSame DEF SyncStart
<1>11. CASE SyncReceive
  BY <1>11, SyncStepsType, DbTypeSame, FetchTypeSame, OrchTypeSame DEF SyncReceive
<1>12. CASE SyncCommit
  BY <1>12, SaveCommitType, FetchTypeSame, OrchTypeSame DEF SyncCommit
<1>13. CASE SyncError
  BY <1>13, DbTypeSame, SyncTypeSame, FetchTypeSame, OrchTypeSame DEF SyncError, SaveError
<1>14. CASE SyncAdvance
  BY <1>14, SyncStepsType, DbTypeSame, FetchTypeSame, OrchTypeSame DEF SyncAdvance
<1>15. CASE Die
  <2>1. SyncTypeOK' /\ FetchTypeOK' /\ OrchTypeOK'
    <3>1. SyncTypeOK'
      BY <1>15, DieFresh DEF NewSynchronizer, SyncTypeOK, NothingToSave, SyncPcs
    <3>2. FetchTypeOK'
      BY <1>15, DieFresh DEF NewFetcher, FetchTypeOK, NoFetch, Fetches, FetchPcs, Blocks
    <3>3. OrchTypeOK'
      BY <1>15, DieFresh DEF OrchestratorInit, OrchTypeOK, OrchPcs, Blocks
    <3> QED BY <3>1, <3>2, <3>3
  <2>2. crashes' \in 0..MaxCrashes
    BY <1>15, CrashAssumption DEF Die
  <2> QED BY <1>15, <2>1, <2>2, DieFresh, DbTypeSame
<1> QED
  BY <1>1, <1>2, <1>3, <1>4, <1>5, <1>6, <1>7, <1>8, <1>9, <1>10, <1>11, <1>12, <1>13,
     <1>14, <1>15 DEF Next, FetchPanics, Crash

\* Stuttering keeps the types.
LEMMA StutterType == ASSUME TypeOK, UNCHANGED vars PROVE TypeOK'
BY DbTypeSame, SyncTypeSame, FetchTypeSame, OrchTypeSame DEF TypeOK, vars
=============================================================================
