---------------------------- MODULE IndexerCounts ----------------------------
(***************************************************************************)
(* Every step keeps the account of the semaphore's permits and of the keys *)
(* of the data bucket.                                                     *)
(***************************************************************************)
EXTENDS IndexerTypes

USE ChainAssumption, FetcherAssumption

-----------------------------------------------------------------------------
(* The permits. *)

Inside == {g \in Goroutine : fetch[g].pc = "fetchData"}

\* A step that leaves the permits and the goroutines inside fetchData alone
\* keeps the account.
LEMMA PermitsSame ==
    ASSUME PermitsAccounted, permits' = permits, Inside' = Inside
    PROVE  PermitsAccounted'
BY DEF PermitsAccounted, Inside

\* A new goroutine waits for its permit.
LEMMA RequestRangePermits ==
    ASSUME FetchTypeOK, PermitsAccounted, NEW s, NEW e, RequestRange(s, e)
    PROVE  PermitsAccounted'
<1>1. Inside' = Inside
  BY DEF Inside, RequestRange, Waiting, FetchTypeOK
<1> QED BY <1>1, PermitsSame DEF RequestRange

\* The steps of a goroutine keep the account of the permits.
LEMMA FetchStepsPermits ==
    ASSUME FetchTypeOK, PermitsAccounted, NEW g \in Goroutine,
           Acquire(g) \/ (\E knew : FetchOk(g, knew)) \/ FetchTooBig(g) \/ Added(g)
    PROVE  PermitsAccounted'
<1>1. IsFiniteSet(Inside) /\ Cardinality(Inside) \in Nat /\ permits = Cardinality(Inside)
  BY FS_Subset, FS_CardinalityType DEF Inside, PermitsAccounted
<1>2. CASE Acquire(g)
  <2>1. g \notin Inside /\ Inside' = Inside \cup {g}
    BY <1>2 DEF Inside, Acquire, FetchTypeOK
  <2>2. Cardinality(Inside') = Cardinality(Inside) + 1
    BY <1>1, <2>1, FS_AddElement
  <2> QED BY <1>1, <1>2, <2>2 DEF Acquire, PermitsAccounted, Inside
<1>3. CASE (\E knew : FetchOk(g, knew)) \/ FetchTooBig(g)
  <2>1. g \in Inside /\ permits' = permits - 1
    BY <1>3 DEF Inside, FetchOk, FetchTooBig, Release
  <2>2. Inside' = Inside \ {g}
    <3>1. DOMAIN fetch = Goroutine /\ fetch[g] \in Fetches
      BY DEF FetchTypeOK
    <3>2. CASE \E knew : FetchOk(g, knew)
      <4>1. PICK knew : fetch' = [fetch EXCEPT ![g] = [fetch[g] EXCEPT !.pc = "add", !.knew = knew]]
        BY <3>1, <3>2 DEF FetchOk
      <4>2. [fetch[g] EXCEPT !.pc = "add", !.knew = knew].pc = "add"
        BY <3>1 DEF Fetches
      <4>3. /\ fetch'[g].pc = "add"
            /\ \A h \in Goroutine : h # g => fetch'[h] = fetch[h]
        BY <3>1, <4>1, <4>2
      <4> QED BY <4>3 DEF Inside
    <3>3. CASE FetchTooBig(g)
      BY <3>1, <3>3 DEF Inside, FetchTooBig, Waiting
    <3> QED BY <1>3, <3>2, <3>3
  <2>3. Cardinality(Inside') = Cardinality(Inside) - 1
    BY <1>1, <2>1, <2>2, FS_RemoveElement
  <2> QED BY <1>1, <2>1, <2>3 DEF PermitsAccounted, Inside
<1>4. CASE Added(g)
  <2>1. Inside' = Inside
    BY <1>4 DEF Inside, Added, NoFetch, FetchTypeOK
  <2> QED BY <1>4, <2>1, PermitsSame DEF Added
<1> QED BY <1>2, <1>3, <1>4

\* Every step keeps the account of the permits.
LEMMA NextPermits ==
    ASSUME TypeOK, PermitsAccounted, [Next]_vars
    PROVE  PermitsAccounted'
<1> USE DEF TypeOK
<1>1. ASSUME UNCHANGED fetchVars PROVE PermitsAccounted'
  BY <1>1, PermitsSame DEF fetchVars, Inside
<1>2. CASE StartRange
  BY <1>2, RequestRangePermits DEF StartRange, manageRange
<1>3. CASE StartFullTag
  BY <1>3, RequestRangePermits DEF StartFullTag, manageFullTag
<1>4. ASSUME NEW endBlock \in TagAnswers, OrchestrateTag(endBlock) PROVE PermitsAccounted'
  BY <1>1, <1>4, RequestRangePermits DEF OrchestrateTag, orchestrateTag
<1>5. ASSUME NEW g \in Goroutine, FetchAcquire(g) \/ FetchReturns(g) \/ FetchAdds(g)
      PROVE  PermitsAccounted'
  BY <1>5, FetchStepsPermits DEF FetchAcquire, FetchReturns, FetchAdds
<1>6. CASE Die
  <2>1. Inside' = {} /\ permits' = 0
    BY <1>6 DEF Die, Inside, NoFetch
  <2> QED BY <2>1, FS_EmptySet DEF PermitsAccounted, Inside
<1>7. CASE \/ Grow \/ StartFull \/ OrchestrateTick \/ SyncStart \/ SyncReceive
           \/ SyncCommit \/ SyncError \/ SyncAdvance \/ UNCHANGED vars
  BY <1>1, <1>7 DEF Grow, StartFull, manageFull, OrchestrateTick, orchestrate, SyncStart,
     SyncReceive, SyncCommit, SyncError, SyncAdvance, vars
<1> QED
  BY <1>2, <1>3, <1>4, <1>5, <1>6, <1>7 DEF Next, FetchPanics, Crash

-----------------------------------------------------------------------------
(* The keys. *)

\* A step that leaves the stored keys and the key counters alone keeps both
\* invariants of the keys.
LEMMA KeysSame ==
    ASSUME KeysCounted, KeysContiguous, UNCHANGED <<dbData, currIndex, keyIterator>>,
           syncPc' = "committed" => syncPc = "committed"
    PROVE  KeysCounted' /\ KeysContiguous'
BY DEF KeysCounted, KeysContiguous

\* Opening the database leaves all of its keys or none.
LEMMA StartDBKeys ==
    ASSUME KeysContiguous, NEW mode, StartDB(mode), currIndex' = 0,
           syncPc' # "committed"
    PROVE  KeysCounted' /\ KeysContiguous'
<1>1. dbData' = dbData \/ dbData' = EmptyBucket
  BY DEF StartDB
<1>2. KeysContiguous'
  BY <1>1 DEF KeysContiguous, EmptyBucket
<1> QED BY <1>2 DEF KeysCounted

\* A commit writes the keys that follow the counter, without a gap.
LEMMA SaveCommitKeys ==
    ASSUME TypeOK, KeysCounted, KeysContiguous, SaveCommit
    PROVE  KeysCounted' /\ KeysContiguous'
<1>1. PICK next \in {b + 1 : b \in DOMAIN dataToSave} :
        /\ StopsAt(next)
        /\ SaveData(Registers(Concat(dataToSave, currBlock, next), currIndex), next - 1)
        /\ keyIterator' = currIndex + Len(Concat(dataToSave, currBlock, next))
  BY DEF SaveCommit
<1> DEFINE records == Concat(dataToSave, currBlock, next)
           n == Len(records)
<1>2. next \in 1..(MaxBlock + 1) /\ currIndex \in Nat
  BY DEF TypeOK, SyncTypeOK, Blocks
<1>3. n \in Nat
  <2>1. records \in Seq(Records)
    BY <1>1, <1>2, ConcatType DEF TypeOK
  <2> HIDE DEF records
  <2> QED BY <2>1
<1> HIDE DEF n
<1>4. DOMAIN dbData' = DOMAIN dbData \cup (currIndex .. (currIndex + n - 1))
  BY <1>1 DEF SaveData, Put, Registers, n
<1>5. currIndex' = currIndex /\ keyIterator' = currIndex + n
  BY <1>1 DEF SaveCommit, n
<1>6. 0 .. (currIndex - 1) \subseteq DOMAIN dbData
  BY DEF KeysCounted
<1>7. KeysCounted'
  BY <1>2, <1>3, <1>4, <1>5, <1>6 DEF KeysCounted
<1>8. KeysContiguous'
  <2> SUFFICES ASSUME NEW k \in DOMAIN dbData', NEW j \in 0..k PROVE j \in DOMAIN dbData'
    BY DEF KeysContiguous
  <2>1. CASE k \in DOMAIN dbData
    BY <1>4, <2>1 DEF KeysContiguous
  <2>2. CASE k \in currIndex .. (currIndex + n - 1)
    BY <1>2, <1>3, <1>4, <1>6, <2>2
  <2> QED BY <1>4, <2>1, <2>2
<1> QED BY <1>7, <1>8

\* Every step keeps the invariants of the keys.
LEMMA NextKeys ==
    ASSUME TypeOK, Phases, KeysCounted, KeysContiguous, [Next]_vars
    PROVE  KeysCounted' /\ KeysContiguous'
<1>1. CASE StartRange
  BY <1>1, StartDBKeys DEF StartRange, manageRange, GoStart, Phases
<1>2. CASE StartFull
  BY <1>2, StartDBKeys DEF StartFull, manageFull, syncVars, Phases
<1>3. CASE SyncCommit
  BY <1>3, SaveCommitKeys DEF SyncCommit
<1>4. CASE SyncAdvance
  <2>1. currIndex' = keyIterator /\ dbData' = dbData /\ syncPc = "committed"
        /\ syncPc' = "select"
    BY <1>4 DEF SyncAdvance, SaveAdvance, TypeOK, SyncTypeOK, dbVars
  <2> QED BY <2>1 DEF KeysCounted, KeysContiguous
<1>5. CASE Die
  <2>1. currIndex' = 0 /\ dbData' = dbData /\ syncPc' = "off"
    BY <1>5 DEF Die, dbVars
  <2> QED BY <2>1 DEF KeysCounted, KeysContiguous
<1>6. CASE SyncStart \/ SyncReceive
  BY <1>6, KeysSame DEF SyncStart, SyncReceive, Start, Receive, dbVars
<1>7. ASSUME NEW g \in Goroutine, FetchAcquire(g) \/ FetchReturns(g) \/ FetchAdds(g)
      PROVE  KeysCounted' /\ KeysContiguous'
  BY <1>7, KeysSame DEF FetchAcquire, FetchReturns, FetchAdds, Add, dbVars, syncVars
<1>8. CASE StartFullTag
  BY <1>8, KeysSame DEF StartFullTag, manageFullTag, GoStart, dbVars
<1>9. CASE \/ Grow \/ OrchestrateTick \/ SyncError \/ UNCHANGED vars
           \/ \E endBlock \in TagAnswers : OrchestrateTag(endBlock)
  BY <1>9, KeysSame DEF Grow, OrchestrateTick, orchestrate, OrchestrateTag, orchestrateTag,
     SyncError, SaveError, dbVars, syncVars, vars
<1> QED
  BY <1>1, <1>2, <1>3, <1>4, <1>5, <1>6, <1>7, <1>8, <1>9 DEF Next, FetchPanics, Crash
=============================================================================
