---------------------------- MODULE IndexerProofs ----------------------------
(***************************************************************************)
(* Accounting is an inductive invariant of the indexer, for every chain,   *)
(* channel capacity, number of goroutines and permits, set of environments *)
(* and number of crashes; with it its parts: the types, the permits, the   *)
(* keys, and that no block is lost or handled twice.                       *)
(***************************************************************************)
EXTENDS IndexerCounts

USE ChainAssumption, FetcherAssumption

-----------------------------------------------------------------------------
(* Where the blocks are. *)

BlockInv ==
    /\ Phases
    /\ SavedUpToNext
    /\ OnlyRequested
    /\ NoBlockLost
    /\ NoBlockTwice

\* OnTheWay, block by block.
LEMMA OnTheWayMember ==
    \A b : b \in OnTheWay <=>
        \/ \E g \in Goroutine : b \in InFlight(g)
        \/ \E i \in DOMAIN datachan : b \in InChannel(i)
BY DEF OnTheWay

\* A new goroutine puts its range on the way, and nothing else.
LEMMA RequestRangeFlight ==
    ASSUME FetchTypeOK, NEW s \in 0..(MaxBlock + 1), NEW e \in Blocks,
           RequestRange(s, e)
    PROVE  \E g \in Goroutine :
              /\ InFlight(g) = {}
              /\ InFlight(g)' = s .. e
              /\ \A h \in Goroutine : h # g => InFlight(h)' = InFlight(h)
<1>1. PICK g \in Goroutine :
        fetch[g].pc = "none" /\ fetch' = [fetch EXCEPT ![g] = Waiting(s, e)]
  BY DEF RequestRange
<1>2. InFlight(g) = {}
  BY <1>1 DEF InFlight
<1>3. InFlight(g)' = s .. e
  BY <1>1 DEF InFlight, Waiting, FetchTypeOK
<1>4. \A h \in Goroutine : h # g => InFlight(h)' = InFlight(h)
  BY <1>1 DEF InFlight, FetchTypeOK
<1> QED BY <1>2, <1>3, <1>4

\* A request for blocks beyond everything that is stored, buffered or on the
\* way is handled once, whoever makes it.
LEMMA RequestRangeBlocks ==
    ASSUME TypeOK, NoBlockTwice, NEW s \in 0..(MaxBlock + 1), NEW e \in Blocks,
           RequestRange(s, e), UNCHANGED datachan,
           DOMAIN dataToSave' = DOMAIN dataToSave,
           OnTheWay \cap (s .. e) = {},
           DOMAIN dataToSave \cap (s .. e) = {},
           OnTheWay \cap (0 .. dbLast') = {},
           (s .. e) \cap (0 .. dbLast') = {},
           syncPc' = "select" => DOMAIN dataToSave \cap (0 .. dbLast') = {}
    PROVE  NoBlockTwice' /\ OnTheWay' = OnTheWay \cup (s .. e)
<1>1. PICK g \in Goroutine :
        /\ InFlight(g) = {}
        /\ InFlight(g)' = s .. e
        /\ \A h \in Goroutine : h # g => InFlight(h)' = InFlight(h)
  BY RequestRangeFlight DEF TypeOK
<1>2. \A i \in DOMAIN datachan : InChannel(i)' = InChannel(i)
  BY DEF InChannel
<1>3. ASSUME NEW b
      PROVE  b \in OnTheWay' <=> b \in OnTheWay \/ b \in s .. e
  <2>1. b \in OnTheWay' <=>
          \/ \E h \in Goroutine : b \in InFlight(h)'
          \/ \E i \in DOMAIN datachan : b \in InChannel(i)'
    BY DEF OnTheWay
  <2>2. b \in OnTheWay <=>
          \/ \E h \in Goroutine : b \in InFlight(h)
          \/ \E i \in DOMAIN datachan : b \in InChannel(i)
    BY OnTheWayMember
  <2>3. (\E h \in Goroutine : b \in InFlight(h)') <=>
          (\E h \in Goroutine : b \in InFlight(h)) \/ b \in s .. e
    BY <1>1
  <2>4. (\E i \in DOMAIN datachan : b \in InChannel(i)') <=>
          (\E i \in DOMAIN datachan : b \in InChannel(i))
    BY <1>2
  <2> QED BY <2>1, <2>2, <2>3, <2>4
<1>4. OnTheWay' = OnTheWay \cup (s .. e)
  BY <1>3
<1>5. \A h \in Goroutine : InFlight(h) \cap (s .. e) = {}
  BY OnTheWayMember
<1>6. \A i \in DOMAIN datachan : InChannel(i) \cap (s .. e) = {}
  BY OnTheWayMember
<1>7. \A h, k \in Goroutine : h # k => InFlight(h)' \cap InFlight(k)' = {}
  BY <1>1, <1>5 DEF NoBlockTwice
<1>8. \A h \in Goroutine, i \in DOMAIN datachan : InFlight(h)' \cap InChannel(i)' = {}
  BY <1>1, <1>2, <1>6 DEF NoBlockTwice
<1>9. \A i, j \in DOMAIN datachan : i # j => InChannel(i)' \cap InChannel(j)' = {}
  BY <1>2 DEF NoBlockTwice
<1>10. OnTheWay' \cap ((0 .. dbLast') \cup DOMAIN dataToSave') = {}
  BY <1>4 DEF NoBlockTwice
<1> QED BY <1>4, <1>7, <1>8, <1>9, <1>10 DEF NoBlockTwice

\* manageRange starts with nothing stored, buffered or on the way.
LEMMA StartRangeBlocks ==
    ASSUME TypeOK, BlockInv, StartRange
    PROVE  BlockInv'
<1>1. PICK env \in Envs : manageRange(env)
  BY DEF StartRange
<1> DEFINE s == startBlockEnv(env)
           e == endBlockEnv(env)
<1>2. s \in 1..(MaxBlock + 1) /\ e \in Blocks
  BY <1>1, EnvAssumption DEF Blocks, manageRange, InRangeMode, startBlockEnv, endBlockEnv
<1> HIDE DEF s, e
<1>3. /\ orchPc = "down" /\ syncPc = "off" /\ dataToSave = NothingToSave /\ datachan = <<>>
      /\ currBlock = 0 /\ currIndex = 0 /\ \A g \in Goroutine : fetch[g].pc = "none"
  BY <1>1 DEF manageRange, GoStart, BlockInv, Phases
<1>4. /\ RequestRange(s, e) /\ dbLast' = -1 /\ dbMode' = ModeRange /\ orchPc' = "range"
      /\ currEndblock' = e /\ syncPc' = "spawned" /\ startBlock' = s
      /\ UNCHANGED <<datachan, dataToSave, currBlock, currIndex>>
  BY <1>1 DEF manageRange, StartDB, Wipes, GoStart, s, e
<1>5. OnTheWay = {} /\ DOMAIN dataToSave = {}
  BY <1>3 DEF OnTheWay, InFlight, NothingToSave
<1>6. NoBlockTwice' /\ OnTheWay' = s .. e
  BY <1>2, <1>4, <1>5, RequestRangeBlocks DEF BlockInv
<1>7. NextBlock' = s
  BY <1>4 DEF NextBlock
<1>8. Phases'
  BY <1>3, <1>4 DEF Phases
<1>9. SavedUpToNext'
  BY <1>2, <1>4, <1>7 DEF SavedUpToNext
<1>10. OnlyRequested'
  BY <1>4, <1>5, <1>6, <1>7 DEF OnlyRequested
<1>11. NoBlockLost'
  BY <1>4, <1>6 DEF NoBlockLost
<1> QED BY <1>6, <1>8, <1>9, <1>10, <1>11 DEF BlockInv

\* manageFull starts after the last stored block.
LEMMA StartFullTagBlocks ==
    ASSUME TypeOK, BlockInv, StartFullTag
    PROVE  BlockInv'
<1>1. PICK e \in TagAnswers : manageFullTag(e)
  BY DEF StartFullTag
<1> DEFINE s == dbLast + 1
<1>2. s \in 0..(MaxBlock + 1) /\ e \in Blocks /\ dbLast = s - 1 /\ dbLast \in Int
  BY DEF TypeOK, DbTypeOK, TagAnswers, Blocks
<1>3. /\ orchPc = "starting" /\ syncPc = "off" /\ dataToSave = NothingToSave
      /\ datachan = <<>> /\ currBlock = 0 /\ currIndex = 0
      /\ \A g \in Goroutine : fetch[g].pc = "none"
  BY <1>1 DEF manageFullTag, GoStart, BlockInv, Phases
<1>4. /\ RequestRange(s, e) /\ dbLast' = dbLast /\ orchPc' = "wait"
      /\ currEndblock' = e /\ syncPc' = "spawned" /\ startBlock' = s
      /\ UNCHANGED <<datachan, dataToSave, currBlock, currIndex>>
  BY <1>1 DEF manageFullTag, GoStart, GetLastBlockIndex, dbVars
<1> HIDE DEF s
<1>5. OnTheWay = {} /\ DOMAIN dataToSave = {}
  BY <1>3 DEF OnTheWay, InFlight, NothingToSave
<1>6. NoBlockTwice' /\ OnTheWay' = s .. e
  <2>1. (s .. e) \cap (0 .. dbLast') = {}
    BY <1>2, <1>4 DEF Blocks
  <2> QED BY <1>2, <1>4, <1>5, <2>1, RequestRangeBlocks DEF BlockInv
<1>7. NextBlock' = s
  BY <1>4 DEF NextBlock
<1>8. Phases'
  BY <1>3, <1>4 DEF Phases
<1>9. SavedUpToNext'
  BY <1>2, <1>4, <1>7 DEF SavedUpToNext
<1>10. OnlyRequested'
  BY <1>4, <1>5, <1>6, <1>7 DEF OnlyRequested
<1>11. NoBlockLost'
  BY <1>4, <1>6 DEF NoBlockLost
<1> QED BY <1>6, <1>8, <1>9, <1>10, <1>11 DEF BlockInv

\* The next cycle starts at the block that was read before the RPC, which is
\* still the current one, and everything below it is stored.
LEMMA OrchestrateTagBlocks ==
    ASSUME TypeOK, BlockInv, NEW e \in TagAnswers, OrchestrateTag(e)
    PROVE  BlockInv'
<1>1. /\ orchPc = "ask" /\ orchPc' = "wait" /\ syncPc = "select" /\ orchBlock = currBlock
      /\ currBlock > currEndblock
      /\ UNCHANGED <<dbMode, dbLast, dbData, datachan, dataToSave, currBlock, currIndex, syncPc,
                     startBlock, blockIterator, keyIterator>>
  BY DEF OrchestrateTag, orchestrateTag, BlockInv, Phases, dbVars, syncVars
<1>2. /\ currBlock \in 0..(MaxBlock + 1) /\ e \in Blocks /\ currEndblock \in Blocks
      /\ startBlock \in 0..(MaxBlock + 1) /\ dbLast \in Int
  BY DEF TypeOK, DbTypeOK, SyncTypeOK, OrchTypeOK, TagAnswers, Blocks
<1>3. NextBlock = currBlock /\ NextBlock' = currBlock
  BY <1>1 DEF NextBlock
<1>4. OnTheWay = {} /\ DOMAIN dataToSave = {}
  BY <1>1, <1>2, <1>3 DEF BlockInv, OnlyRequested, Blocks
<1>5. SavedUpToNext'
  BY <1>1, <1>3 DEF BlockInv, SavedUpToNext
<1>6. CASE UNCHANGED <<fetchVars, currEndblock>>
  <2>1. \A g \in Goroutine : InFlight(g)' = InFlight(g)
    BY <1>6 DEF InFlight, fetchVars
  <2>2. \A i \in DOMAIN datachan : InChannel(i)' = InChannel(i)
    BY <1>1 DEF InChannel
  <2>3. OnTheWay' = OnTheWay
    BY <1>1, <1>6 DEF OnTheWay, InFlight, InChannel, fetchVars
  <2>4. Phases'
    BY <1>1, <1>6 DEF BlockInv, Phases, fetchVars
  <2>5. OnlyRequested' /\ NoBlockLost'
    BY <1>1, <1>3, <1>6, <2>3 DEF BlockInv, OnlyRequested, NoBlockLost
  <2>6. NoBlockTwice'
    BY <1>1, <2>1, <2>2, <2>3 DEF BlockInv, NoBlockTwice
  <2> QED BY <1>5, <2>4, <2>5, <2>6 DEF BlockInv
<1>7. CASE currEndblock' = e /\ RequestRange(currBlock, e)
  <2>1. dbLast < currBlock
    BY <1>1, <1>2, <1>3 DEF BlockInv, SavedUpToNext
  <2>2. NoBlockTwice' /\ OnTheWay' = currBlock .. e
    <3>1. (currBlock .. e) \cap (0 .. dbLast') = {}
      BY <1>1, <1>2, <2>1 DEF Blocks
    <3> QED BY <1>1, <1>2, <1>4, <1>7, <3>1, RequestRangeBlocks DEF BlockInv
  <2>3. Phases'
    BY <1>1 DEF BlockInv, Phases
  <2>4. OnlyRequested'
    BY <1>1, <1>3, <1>4, <1>7, <2>2 DEF OnlyRequested
  <2>5. startBlock .. (currBlock - 1) \subseteq 0 .. dbLast
    BY <1>1, <1>2, <1>3 DEF BlockInv, SavedUpToNext
  <2>6. startBlock .. e \subseteq (startBlock .. (currBlock - 1)) \cup (currBlock .. e)
    BY <1>2 DEF Blocks
  <2>7. NoBlockLost'
    BY <1>1, <1>7, <2>2, <2>5, <2>6 DEF NoBlockLost
  <2> QED BY <1>5, <2>2, <2>3, <2>4, <2>7 DEF BlockInv
<1> QED BY <1>1, <1>6, <1>7 DEF OrchestrateTag, orchestrateTag

-----------------------------------------------------------------------------
(* The fetchers. *)

\* A step that leaves the ranges alone leaves the blocks where they are.
LEMMA FlightSameBlocks ==
    ASSUME TypeOK, BlockInv, UNCHANGED <<dbVars, syncVars, orchVars>>,
           \A g \in Goroutine : InFlight(g)' = InFlight(g),
           \A g \in Goroutine : fetch[g].pc = "none" => fetch'[g].pc = "none"
    PROVE  BlockInv'
<1>1. UNCHANGED <<dbMode, dbLast, datachan, dataToSave, currBlock, currIndex, syncPc,
                  startBlock, blockIterator, orchPc, currEndblock, orchBlock>>
  BY DEF dbVars, syncVars, orchVars
<1>2. \A i \in DOMAIN datachan : InChannel(i)' = InChannel(i)
  BY <1>1 DEF InChannel
<1>3. OnTheWay' = OnTheWay
  <2>1. {InFlight(g)' : g \in Goroutine} = {InFlight(g) : g \in Goroutine}
    OBVIOUS
  <2>2. {InChannel(i)' : i \in DOMAIN datachan} = {InChannel(i) : i \in DOMAIN datachan}
    BY <1>2
  <2> QED BY <1>1, <2>1, <2>2 DEF OnTheWay
<1>4. Phases'
  BY <1>1 DEF BlockInv, Phases
<1>5. NextBlock' = NextBlock
  BY <1>1 DEF NextBlock
<1>6. SavedUpToNext' /\ OnlyRequested' /\ NoBlockLost'
  BY <1>1, <1>3, <1>5 DEF BlockInv, SavedUpToNext, OnlyRequested, NoBlockLost
<1>7. NoBlockTwice'
  BY <1>1, <1>2, <1>3 DEF BlockInv, NoBlockTwice
<1> QED BY <1>4, <1>6, <1>7 DEF BlockInv

\* The two halves of a range that is too big carry exactly its blocks.
LEMMA FetchTooBigBlocks ==
    ASSUME TypeOK, BlockInv, NEW g \in Goroutine, FetchTooBig(g),
           UNCHANGED <<dbVars, syncVars, orchVars>>
    PROVE  BlockInv'
<1> DEFINE s == fetch[g].start
           e == fetch[g].end
           mid == midBlock(s, e)
<1>0. UNCHANGED <<dbMode, dbLast, datachan, dataToSave, currBlock, currIndex, syncPc,
                  startBlock, blockIterator, orchPc, currEndblock, orchBlock>>
  BY DEF dbVars, syncVars, orchVars
<1>1. s \in 0..(MaxBlock + 1) /\ e \in Blocks
  BY DEF TypeOK, FetchTypeOK, Fetches
<1>2. PICK h \in Goroutine :
        /\ fetch[h].pc = "none"
        /\ fetch' = [fetch EXCEPT ![g] = Waiting(s, mid), ![h] = Waiting(mid + 1, e)]
  BY DEF FetchTooBig
<1>3. fetch[g].pc = "fetchData" /\ h # g
  BY <1>2 DEF FetchTooBig
<1>4. InFlight(g) = s .. e /\ InFlight(h) = {}
  BY <1>2, <1>3 DEF InFlight
<1>5. /\ InFlight(g)' = s .. mid
      /\ InFlight(h)' = (mid + 1) .. e
      /\ \A k \in Goroutine \ {g, h} : InFlight(k)' = InFlight(k)
  BY <1>2, <1>3 DEF InFlight, Waiting, TypeOK, FetchTypeOK
<1>6. /\ (s .. mid) \cup ((mid + 1) .. e) = s .. e
      /\ (s .. mid) \cap ((mid + 1) .. e) = {}
  BY <1>1, SplitHalves
<1> HIDE DEF s, e, mid
<1>7. \A i \in DOMAIN datachan : InChannel(i)' = InChannel(i)
  BY <1>0 DEF InChannel
<1>8. OnTheWay' = OnTheWay
  <2>1. ASSUME NEW b
        PROVE  (\E k \in Goroutine : b \in InFlight(k)') <=>
               (\E k \in Goroutine : b \in InFlight(k))
    <3>1. b \in InFlight(g) <=> b \in InFlight(g)' \/ b \in InFlight(h)'
      BY <1>4, <1>5, <1>6
    <3>2. b \notin InFlight(h)
      BY <1>4
    <3> QED BY <1>5, <3>1, <3>2
  <2>2. ASSUME NEW b PROVE b \in OnTheWay' <=> b \in OnTheWay
    <3>1. b \in OnTheWay' <=>
            \/ \E k \in Goroutine : b \in InFlight(k)'
            \/ \E i \in DOMAIN datachan : b \in InChannel(i)'
      BY <1>0 DEF OnTheWay
    <3>2. b \in OnTheWay <=>
            \/ \E k \in Goroutine : b \in InFlight(k)
            \/ \E i \in DOMAIN datachan : b \in InChannel(i)
      BY OnTheWayMember
    <3> QED BY <1>7, <2>1, <3>1, <3>2
  <2> QED BY <2>2
<1>9. Phases'
  <2>1. syncPc # "off"
    BY <1>3 DEF BlockInv, Phases
  <2> QED BY <1>0, <2>1 DEF BlockInv, Phases
<1>10. NextBlock' = NextBlock
  BY <1>0 DEF NextBlock
<1>11. SavedUpToNext' /\ OnlyRequested' /\ NoBlockLost'
  BY <1>0, <1>8, <1>10 DEF BlockInv, SavedUpToNext, OnlyRequested, NoBlockLost
<1>12. \A k \in Goroutine : k = h \/ InFlight(k)' \subseteq InFlight(k)
  BY <1>4, <1>5, <1>6
<1>13. InFlight(h)' \subseteq InFlight(g)
  BY <1>4, <1>5, <1>6
<1>14. \A k, l \in Goroutine : k # l => InFlight(k)' \cap InFlight(l)' = {}
  <2> SUFFICES ASSUME NEW k \in Goroutine, NEW l \in Goroutine, k # l
               PROVE  InFlight(k)' \cap InFlight(l)' = {}
    OBVIOUS
  <2>0. \A x, y \in Goroutine : x # y => InFlight(x) \cap InFlight(y) = {}
    BY DEF BlockInv, NoBlockTwice
  <2>1. CASE k # h /\ l # h
    BY <1>12, <2>0, <2>1
  <2>2. CASE (k = h /\ l = g) \/ (k = g /\ l = h)
    BY <1>5, <1>6, <2>2
  <2>3. CASE k = h /\ l # g
    <3>1. InFlight(l)' \subseteq InFlight(l) /\ InFlight(g) \cap InFlight(l) = {}
      BY <1>12, <2>0, <2>3
    <3> QED BY <1>13, <2>3, <3>1
  <2>4. CASE l = h /\ k # g
    <3>1. InFlight(k)' \subseteq InFlight(k) /\ InFlight(g) \cap InFlight(k) = {}
      BY <1>12, <2>0, <2>4
    <3> QED BY <1>13, <2>4, <3>1
  <2> QED BY <2>1, <2>2, <2>3, <2>4
<1>15. \A k \in Goroutine, i \in DOMAIN datachan : InFlight(k)' \cap InChannel(i)' = {}
  <2>1. \A k \in Goroutine, i \in DOMAIN datachan : InFlight(k) \cap InChannel(i) = {}
    BY DEF BlockInv, NoBlockTwice
  <2> QED BY <1>7, <1>12, <1>13, <2>1
<1>16. NoBlockTwice'
  BY <1>0, <1>7, <1>8, <1>14, <1>15 DEF BlockInv, NoBlockTwice
<1> QED BY <1>9, <1>11, <1>16 DEF BlockInv

\* The range of a goroutine that sends its data moves to the end of the channel.
LEMMA FetchAddsBlocks ==
    ASSUME TypeOK, BlockInv, NEW g \in Goroutine, FetchAdds(g)
    PROVE  BlockInv'
<1>1. /\ fetch[g].pc = "add"
      /\ fetch' = [fetch EXCEPT ![g] = NoFetch]
      /\ datachan' = Append(datachan, SyncStruct(g))
      /\ UNCHANGED <<dbMode, dbLast, dataToSave, currBlock, currIndex, syncPc,
                     startBlock, blockIterator, orchPc, currEndblock, orchBlock>>
  BY DEF FetchAdds, Added, Add, dbVars, orchVars
<1>2. datachan \in Seq(SyncStructs) /\ SyncStruct(g) \in SyncStructs
  BY SyncStructType DEF TypeOK, SyncTypeOK
<1>0. PICK n \in Nat : n = Len(datachan) + 1
  BY <1>2
<1>3. /\ n \in Nat /\ n \notin DOMAIN datachan
      /\ DOMAIN datachan' = DOMAIN datachan \cup {n}
      /\ datachan'[n] = SyncStruct(g)
      /\ \A i \in DOMAIN datachan : datachan'[i] = datachan[i]
  BY <1>0, <1>1, <1>2
<1>4. /\ InFlight(g)' = {}
      /\ \A h \in Goroutine : h # g => InFlight(h)' = InFlight(h)
  BY <1>1 DEF InFlight, NoFetch, TypeOK, FetchTypeOK
<1>5. /\ InChannel(n)' = InFlight(g)
      /\ \A i \in DOMAIN datachan : InChannel(i)' = InChannel(i)
  BY <1>1, <1>3 DEF InChannel, InFlight, SyncStruct
<1>6. OnTheWay' = OnTheWay
  <2> SUFFICES ASSUME NEW b PROVE b \in OnTheWay' <=> b \in OnTheWay
    OBVIOUS
  <2>1. b \in OnTheWay' <=>
          \/ \E h \in Goroutine : b \in InFlight(h)'
          \/ \E i \in DOMAIN datachan' : b \in InChannel(i)'
    BY DEF OnTheWay
  <2>2. b \in OnTheWay <=>
          \/ \E h \in Goroutine : b \in InFlight(h)
          \/ \E i \in DOMAIN datachan : b \in InChannel(i)
    BY OnTheWayMember
  <2>3. (\E i \in DOMAIN datachan' : b \in InChannel(i)') <=>
          (\E i \in DOMAIN datachan : b \in InChannel(i)) \/ b \in InFlight(g)
    BY <1>3, <1>5
  <2>4. (\E h \in Goroutine : b \in InFlight(h)) <=>
          (\E h \in Goroutine : b \in InFlight(h)') \/ b \in InFlight(g)
    BY <1>4
  <2> QED BY <2>1, <2>2, <2>3, <2>4
<1>7. Phases'
  <2>1. syncPc # "off"
    BY <1>1 DEF BlockInv, Phases
  <2> QED BY <1>1, <2>1 DEF BlockInv, Phases
<1>8. NextBlock' = NextBlock
  BY <1>1 DEF NextBlock
<1>9. SavedUpToNext' /\ OnlyRequested' /\ NoBlockLost'
  BY <1>1, <1>6, <1>8 DEF BlockInv, SavedUpToNext, OnlyRequested, NoBlockLost
<1>10. /\ \A h, k \in Goroutine : h # k => InFlight(h) \cap InFlight(k) = {}
       /\ \A i, j \in DOMAIN datachan : i # j => InChannel(i) \cap InChannel(j) = {}
       /\ \A h \in Goroutine, i \in DOMAIN datachan : InFlight(h) \cap InChannel(i) = {}
  BY DEF BlockInv, NoBlockTwice
<1>11. \A h, k \in Goroutine : h # k => InFlight(h)' \cap InFlight(k)' = {}
  BY <1>4, <1>10
<1>12. \A i, j \in DOMAIN datachan' : i # j => InChannel(i)' \cap InChannel(j)' = {}
  BY <1>3, <1>5, <1>10
<1>13. \A h \in Goroutine, i \in DOMAIN datachan' : InFlight(h)' \cap InChannel(i)' = {}
  BY <1>3, <1>4, <1>5, <1>10
<1>14. NoBlockTwice'
  BY <1>1, <1>6, <1>11, <1>12, <1>13 DEF BlockInv, NoBlockTwice
<1> QED BY <1>7, <1>9, <1>14 DEF BlockInv

-----------------------------------------------------------------------------
(* The synchronizer. *)

\* The first item of the channel moves to the buffer.
LEMMA SyncReceiveBlocks ==
    ASSUME TypeOK, BlockInv, SyncReceive
    PROVE  BlockInv'
<1>1. /\ syncPc = "select" /\ datachan # <<>>
      /\ dataToSave' = add(Head(datachan)) /\ datachan' = Tail(datachan)
      /\ UNCHANGED <<dbMode, dbLast, currBlock, currIndex, syncPc, startBlock, blockIterator,
                     fetch, orchPc, currEndblock, orchBlock>>
  BY DEF SyncReceive, Receive, dbVars, fetchVars, orchVars
<1>2. datachan \in Seq(SyncStructs)
  BY DEF TypeOK, SyncTypeOK
<1>3. /\ 1 \in DOMAIN datachan /\ Head(datachan) = datachan[1]
      /\ datachan[1] \in SyncStructs
  BY <1>1, <1>2
<1>4. /\ \A i \in DOMAIN datachan' : i + 1 \in DOMAIN datachan /\ i + 1 # 1
                                    /\ datachan'[i] = datachan[i + 1]
      /\ \A i \in DOMAIN datachan : i # 1 => i - 1 \in DOMAIN datachan' /\ (i - 1) + 1 = i
      /\ \A i, j \in DOMAIN datachan' : i # j => i + 1 # j + 1
  BY <1>1, <1>2
<1>5. DOMAIN dataToSave' = DOMAIN dataToSave \cup InChannel(1)
  BY <1>1, <1>3, AddBuffers DEF InChannel, TypeOK
<1>6. \A i \in DOMAIN datachan' : InChannel(i)' = InChannel(i + 1)
  BY <1>4 DEF InChannel
<1>7. \A g \in Goroutine : InFlight(g)' = InFlight(g)
  BY <1>1 DEF InFlight
<1>8. /\ \A h, k \in Goroutine : h # k => InFlight(h) \cap InFlight(k) = {}
      /\ \A i, j \in DOMAIN datachan : i # j => InChannel(i) \cap InChannel(j) = {}
      /\ \A h \in Goroutine, i \in DOMAIN datachan : InFlight(h) \cap InChannel(i) = {}
      /\ OnTheWay \cap ((0 .. dbLast) \cup DOMAIN dataToSave) = {}
      /\ DOMAIN dataToSave \cap (0 .. dbLast) = {}
  BY <1>1 DEF BlockInv, NoBlockTwice
<1>9. ASSUME NEW b
      PROVE  /\ b \in OnTheWay <=> b \in OnTheWay' \/ b \in InChannel(1)
             /\ ~(b \in OnTheWay' /\ b \in InChannel(1))
  <2>1. b \in OnTheWay' <=>
          \/ \E h \in Goroutine : b \in InFlight(h)'
          \/ \E i \in DOMAIN datachan' : b \in InChannel(i)'
    BY DEF OnTheWay
  <2>2. b \in OnTheWay <=>
          \/ \E h \in Goroutine : b \in InFlight(h)
          \/ \E i \in DOMAIN datachan : b \in InChannel(i)
    BY OnTheWayMember
  <2>3. (\E i \in DOMAIN datachan' : b \in InChannel(i)') <=>
          (\E i \in DOMAIN datachan : i # 1 /\ b \in InChannel(i))
    BY <1>4, <1>6
  <2>4. (\E h \in Goroutine : b \in InFlight(h)') <=>
          (\E h \in Goroutine : b \in InFlight(h))
    BY <1>7
  <2>5. ASSUME b \in OnTheWay', b \in InChannel(1) PROVE FALSE
    BY <1>3, <1>8, <2>1, <2>3, <2>4, <2>5
  <2> QED BY <1>3, <2>1, <2>2, <2>3, <2>4, <2>5
<1>10. OnTheWay = OnTheWay' \cup InChannel(1) /\ OnTheWay' \cap InChannel(1) = {}
  BY <1>9
<1>11. Phases'
  BY <1>1 DEF BlockInv, Phases
<1>12. NextBlock' = NextBlock
  BY <1>1 DEF NextBlock
<1>13. SavedUpToNext'
  BY <1>1, <1>12 DEF BlockInv, SavedUpToNext
<1>14. OnlyRequested' /\ NoBlockLost'
  BY <1>1, <1>5, <1>10, <1>12 DEF BlockInv, OnlyRequested, NoBlockLost
<1>15. \A h, k \in Goroutine : h # k => InFlight(h)' \cap InFlight(k)' = {}
  BY <1>7, <1>8
<1>16. \A i, j \in DOMAIN datachan' : i # j => InChannel(i)' \cap InChannel(j)' = {}
  BY <1>4, <1>6, <1>8
<1>17. \A h \in Goroutine, i \in DOMAIN datachan' : InFlight(h)' \cap InChannel(i)' = {}
  BY <1>4, <1>6, <1>7, <1>8
<1>18. /\ OnTheWay' \cap ((0 .. dbLast') \cup DOMAIN dataToSave') = {}
       /\ DOMAIN dataToSave' \cap (0 .. dbLast') = {}
  BY <1>1, <1>5, <1>8, <1>10
<1>19. NoBlockTwice'
  BY <1>15, <1>16, <1>17, <1>18 DEF NoBlockTwice
<1> QED BY <1>11, <1>13, <1>14, <1>19 DEF BlockInv

\* A step of one of the others leaves the ranges alone.
LEMMA OnTheWaySame ==
    ASSUME UNCHANGED <<fetch, datachan>>
    PROVE  /\ \A g \in Goroutine : InFlight(g)' = InFlight(g)
           /\ \A i \in DOMAIN datachan : InChannel(i)' = InChannel(i)
           /\ OnTheWay' = OnTheWay
<1>1. /\ \A g \in Goroutine : InFlight(g)' = InFlight(g)
      /\ \A i \in DOMAIN datachan : InChannel(i)' = InChannel(i)
  BY DEF InFlight, InChannel
<1>2. OnTheWay' = OnTheWay
  BY DEF OnTheWay, InFlight, InChannel
<1> QED BY <1>1, <1>2

\* The goroutine of the synchronizer starts at the first block.
LEMMA SyncStartBlocks ==
    ASSUME TypeOK, BlockInv, SyncStart
    PROVE  BlockInv'
<1>1. /\ syncPc = "spawned" /\ syncPc' = "select" /\ currBlock' = currBlock + startBlock
      /\ UNCHANGED <<dbMode, dbLast, datachan, dataToSave, currIndex, startBlock, blockIterator,
                     fetch, orchPc, currEndblock, orchBlock>>
  BY DEF SyncStart, Start, dbVars, fetchVars, orchVars
<1>2. /\ dataToSave = NothingToSave /\ orchPc \notin {"down", "starting", "ask"}
      /\ currBlock = 0 /\ startBlock \in Int
  BY <1>1 DEF BlockInv, Phases, TypeOK, SyncTypeOK
<1>3. NextBlock = startBlock /\ NextBlock' = startBlock
  BY <1>1, <1>2 DEF NextBlock
<1>4. Phases'
  BY <1>1, <1>2 DEF Phases
<1>5. SavedUpToNext'
  BY <1>1, <1>3 DEF BlockInv, SavedUpToNext
<1>6. OnlyRequested' /\ NoBlockLost'
  BY <1>1, <1>3, OnTheWaySame DEF BlockInv, OnlyRequested, NoBlockLost
<1>7. NoBlockTwice'
  BY <1>1, <1>2, OnTheWaySame DEF BlockInv, NoBlockTwice, NothingToSave
<1> QED BY <1>4, <1>5, <1>6, <1>7 DEF BlockInv

\* The commit takes a run of buffered blocks, beyond which everything else is.
LEMMA SyncCommitBlocks ==
    ASSUME TypeOK, BlockInv, SyncCommit
    PROVE  BlockInv'
<1>1. PICK next \in {b + 1 : b \in DOMAIN dataToSave} :
        /\ StopsAt(next) /\ dbLast' = next - 1 /\ dbMode' = dbMode /\ blockIterator' = next
  BY DEF SyncCommit, SaveCommit, SaveData
<1>2. /\ syncPc = "select" /\ syncPc' = "committed" /\ currBlock \in DOMAIN dataToSave
      /\ UNCHANGED <<datachan, dataToSave, currBlock, currIndex, startBlock, fetch, orchPc,
                     currEndblock, orchBlock>>
  BY DEF SyncCommit, SaveCommit, fetchVars, orchVars
<1>3. /\ currBlock \in Nat /\ next \in Nat /\ next > currBlock /\ dbLast \in Int
      /\ currEndblock \in Int
      /\ currBlock .. (next - 1) \subseteq DOMAIN dataToSave
  <2>1. next \in Nat
    BY DEF TypeOK, SyncTypeOK, Blocks
  <2>2. currBlock \in Nat /\ dbLast \in Int /\ currEndblock \in Int
    BY DEF TypeOK, SyncTypeOK, DbTypeOK, OrchTypeOK, Blocks
  <2> QED BY <1>1, <2>1, <2>2 DEF StopsAt
<1>4. NextBlock = currBlock /\ NextBlock' = currBlock
  BY <1>2 DEF NextBlock
<1>5. dbLast < currBlock
  BY <1>2, <1>3, <1>4 DEF BlockInv, SavedUpToNext, TypeOK, DbTypeOK
<1>6. currBlock <= currEndblock
  BY <1>2, <1>3, <1>4 DEF BlockInv, OnlyRequested
<1>7. Phases'
  <2>1. orchPc # "ask"
    BY <1>3, <1>6 DEF BlockInv, Phases
  <2> QED BY <1>2, <2>1 DEF BlockInv, Phases
<1>8. SavedUpToNext'
  BY <1>1, <1>2, <1>3, <1>4 DEF BlockInv, SavedUpToNext
<1>9. OnlyRequested'
  BY <1>2, <1>4, OnTheWaySame DEF BlockInv, OnlyRequested
<1>10. 0 .. dbLast \subseteq 0 .. dbLast'
  BY <1>1, <1>3, <1>5
<1>11. NoBlockLost'
  BY <1>2, <1>10, OnTheWaySame DEF BlockInv, NoBlockLost
<1>12. OnTheWay' \cap ((0 .. dbLast') \cup DOMAIN dataToSave') = {}
  <2>1. OnTheWay \cap DOMAIN dataToSave = {}
    BY DEF BlockInv, NoBlockTwice
  <2>2. OnTheWay \subseteq currBlock .. currEndblock
    BY <1>4 DEF BlockInv, OnlyRequested
  <2>3. ASSUME NEW b \in OnTheWay, b \in 0 .. (next - 1) PROVE FALSE
    <3>1. b \in currBlock .. (next - 1)
      BY <1>3, <2>2, <2>3
    <3> QED BY <1>3, <2>1, <3>1
  <2> QED BY <1>1, <1>2, <2>1, <2>3, OnTheWaySame
<1>13. NoBlockTwice'
  BY <1>2, <1>12, OnTheWaySame DEF BlockInv, NoBlockTwice
<1> QED BY <1>7, <1>8, <1>9, <1>11, <1>13 DEF BlockInv

\* The blocks that leave the buffer are stored.
LEMMA SyncAdvanceBlocks ==
    ASSUME TypeOK, BlockInv, SyncAdvance
    PROVE  BlockInv'
<1>1. /\ syncPc = "committed" /\ syncPc' = "select"
      /\ currBlock' = currBlock + (blockIterator - currBlock)
      /\ DOMAIN dataToSave' = DOMAIN dataToSave \ (currBlock .. (blockIterator - 1))
      /\ UNCHANGED <<dbMode, dbLast, datachan, startBlock, fetch, orchPc, currEndblock, orchBlock>>
  BY DEF SyncAdvance, SaveAdvance, dbVars, fetchVars, orchVars
<1>2. /\ currBlock \in Nat /\ blockIterator \in Nat /\ currEndblock \in Int
      /\ startBlock \in Int
      /\ dbLast = blockIterator - 1 /\ blockIterator > currBlock
      /\ currBlock .. (blockIterator - 1) \subseteq DOMAIN dataToSave
  BY <1>1 DEF TypeOK, SyncTypeOK, OrchTypeOK, Blocks, BlockInv, SavedUpToNext
<1>3. currBlock' = blockIterator
  BY <1>1, <1>2
<1>4. NextBlock = currBlock /\ NextBlock' = blockIterator
  BY <1>1, <1>3 DEF NextBlock
<1>5. Phases'
  BY <1>1 DEF BlockInv, Phases
<1>6. SavedUpToNext'
  <2>1. startBlock <= currBlock
    BY <1>1, <1>4 DEF BlockInv, SavedUpToNext
  <2> QED BY <1>1, <1>2, <1>4, <2>1 DEF SavedUpToNext
<1>7. /\ OnTheWay \cap ((0 .. dbLast) \cup DOMAIN dataToSave) = {}
      /\ OnTheWay \cup DOMAIN dataToSave \subseteq currBlock .. currEndblock
  BY <1>4 DEF BlockInv, NoBlockTwice, OnlyRequested
<1>8. ASSUME NEW b \in OnTheWay \cup DOMAIN dataToSave' PROVE b \in blockIterator .. currEndblock
  BY <1>1, <1>2, <1>7, <1>8
<1>9. OnlyRequested'
  BY <1>1, <1>4, <1>8, OnTheWaySame DEF OnlyRequested
<1>10. NoBlockLost'
  <2>1. DOMAIN dataToSave \subseteq (0 .. dbLast) \cup DOMAIN dataToSave'
    BY <1>1, <1>2
  <2>2. startBlock .. currEndblock \subseteq (0 .. dbLast) \cup DOMAIN dataToSave \cup OnTheWay
    BY <1>1 DEF BlockInv, NoBlockLost
  <2> QED BY <1>1, <2>1, <2>2, OnTheWaySame DEF NoBlockLost
<1>11. DOMAIN dataToSave' \cap (0 .. dbLast) = {}
  BY <1>2, <1>8
<1>12. NoBlockTwice'
  BY <1>1, <1>7, <1>11, OnTheWaySame DEF BlockInv, NoBlockTwice
<1> QED BY <1>5, <1>6, <1>9, <1>10, <1>12 DEF BlockInv

-----------------------------------------------------------------------------
(* The rest of the process. *)

\* A process that does not exist has nothing to account for.
LEMMA FreshBlocks ==
    ASSUME NewSynchronizer, NewFetcher, OrchestratorInit
    PROVE  BlockInv
<1>1. /\ syncPc = "off" /\ orchPc = "down" /\ datachan = <<>> /\ dataToSave = NothingToSave
      /\ currBlock = 0 /\ currIndex = 0 /\ \A g \in Goroutine : fetch[g].pc = "none"
  BY DEF NewSynchronizer, NewFetcher, OrchestratorInit, NoFetch
<1>2. OnTheWay = {} /\ DOMAIN dataToSave = {} /\ DOMAIN datachan = {}
  BY <1>1 DEF OnTheWay, InFlight, NothingToSave
<1>3. Phases
  BY <1>1 DEF Phases
<1>4. SavedUpToNext /\ OnlyRequested /\ NoBlockLost
  BY <1>1, <1>2 DEF SavedUpToNext, OnlyRequested, NoBlockLost
<1>5. NoBlockTwice
  BY <1>1, <1>2 DEF NoBlockTwice, InFlight
<1> QED BY <1>3, <1>4, <1>5 DEF BlockInv

\* So has a process that died.
LEMMA DieBlocks ==
    ASSUME Die
    PROVE  BlockInv'
<1>1. /\ syncPc' = "off" /\ orchPc' = "down" /\ datachan' = <<>>
      /\ dataToSave' = NothingToSave /\ currBlock' = 0 /\ currIndex' = 0
      /\ \A g \in Goroutine : fetch'[g].pc = "none"
  BY DEF Die, NoFetch
<1>2. OnTheWay' = {} /\ DOMAIN dataToSave' = {} /\ DOMAIN datachan' = {}
  BY <1>1 DEF OnTheWay, InFlight, NothingToSave
<1>3. Phases'
  BY <1>1 DEF Phases
<1>4. SavedUpToNext' /\ OnlyRequested' /\ NoBlockLost'
  BY <1>1, <1>2 DEF SavedUpToNext, OnlyRequested, NoBlockLost
<1>5. NoBlockTwice'
  BY <1>1, <1>2 DEF NoBlockTwice, InFlight
<1> QED BY <1>3, <1>4, <1>5 DEF BlockInv

\* Full mode opens the database before anything else exists.
LEMMA StartFullBlocks ==
    ASSUME TypeOK, BlockInv, StartFull
    PROVE  BlockInv'
<1>1. /\ orchPc = "down" /\ orchPc' = "starting"
      /\ UNCHANGED <<datachan, dataToSave, currBlock, currIndex, syncPc, startBlock,
                     blockIterator, fetch, currEndblock, orchBlock>>
  BY DEF StartFull, manageFull, syncVars, fetchVars
<1>2. /\ syncPc = "off" /\ dataToSave = NothingToSave /\ datachan = <<>>
      /\ currBlock = 0 /\ currIndex = 0 /\ \A g \in Goroutine : fetch[g].pc = "none"
  BY <1>1 DEF BlockInv, Phases
<1>3. OnTheWay' = {} /\ DOMAIN dataToSave' = {} /\ DOMAIN datachan' = {}
  BY <1>1, <1>2 DEF OnTheWay, InFlight, NothingToSave
<1>4. Phases'
  BY <1>1, <1>2 DEF Phases
<1>5. SavedUpToNext' /\ OnlyRequested' /\ NoBlockLost'
  BY <1>1, <1>2, <1>3 DEF SavedUpToNext, OnlyRequested, NoBlockLost
<1>6. NoBlockTwice'
  BY <1>1, <1>2, <1>3 DEF NoBlockTwice, InFlight
<1> QED BY <1>4, <1>5, <1>6 DEF BlockInv

\* The orchestrator reads the current block when nothing is left to save.
LEMMA OrchestrateTickBlocks ==
    ASSUME TypeOK, BlockInv, OrchestrateTick
    PROVE  BlockInv'
<1>1. /\ orchPc = "wait" /\ orchPc' = "ask" /\ orchBlock' = currBlock
      /\ currBlock > currEndblock
      /\ UNCHANGED <<dbMode, dbLast, datachan, dataToSave, currBlock, currIndex, syncPc,
                     startBlock, blockIterator, fetch, currEndblock>>
  BY DEF OrchestrateTick, orchestrate, GetCurrBlock, dbVars, syncVars, fetchVars
<1>2. /\ currBlock \in Nat /\ currEndblock \in Nat /\ blockIterator \in Int
      /\ syncPc \in {"off", "spawned", "select", "committed"}
  BY DEF TypeOK, SyncTypeOK, OrchTypeOK, Blocks, SyncPcs
<1>3. syncPc = "select"
  <2>1. syncPc \notin {"off", "spawned"}
    BY <1>1, <1>2 DEF BlockInv, Phases
  <2>2. ASSUME syncPc = "committed" PROVE FALSE
    <3>1. currBlock \in DOMAIN dataToSave
      BY <1>2, <2>2 DEF BlockInv, SavedUpToNext
    <3>2. currBlock \in currBlock .. currEndblock
      BY <2>2, <3>1 DEF BlockInv, OnlyRequested, NextBlock
    <3> QED BY <1>1, <1>2, <3>2
  <2> QED BY <1>2, <2>1, <2>2
<1>4. NextBlock' = NextBlock
  BY <1>1 DEF NextBlock
<1>5. Phases'
  BY <1>1, <1>3 DEF BlockInv, Phases
<1>6. SavedUpToNext' /\ OnlyRequested' /\ NoBlockLost'
  BY <1>1, <1>4, OnTheWaySame DEF BlockInv, SavedUpToNext, OnlyRequested, NoBlockLost
<1>7. NoBlockTwice'
  BY <1>1, OnTheWaySame DEF BlockInv, NoBlockTwice
<1> QED BY <1>5, <1>6, <1>7 DEF BlockInv

\* Every step keeps the account of the blocks.
LEMMA NextBlocks ==
    ASSUME TypeOK, BlockInv, [Next]_vars
    PROVE  BlockInv'
<1>1. CASE Grow \/ SyncError \/ UNCHANGED vars
  <2>1. UNCHANGED <<dbVars, syncVars, orchVars, fetchVars>>
    BY <1>1 DEF Grow, SyncError, SaveError, vars
  <2>2. /\ \A g \in Goroutine : InFlight(g)' = InFlight(g)
        /\ \A g \in Goroutine : fetch[g].pc = "none" => fetch'[g].pc = "none"
    BY <2>1 DEF InFlight, fetchVars
  <2> QED BY <2>1, <2>2, FlightSameBlocks
<1>2. ASSUME NEW g \in Goroutine, FetchAcquire(g) PROVE BlockInv'
  <2>1. /\ \A h \in Goroutine : InFlight(h)' = InFlight(h)
        /\ \A h \in Goroutine : fetch[h].pc = "none" => fetch'[h].pc = "none"
    BY <1>2 DEF FetchAcquire, Acquire, InFlight, TypeOK, FetchTypeOK
  <2> QED BY <1>2, <2>1, FlightSameBlocks DEF FetchAcquire
<1>3. ASSUME NEW g \in Goroutine, FetchReturns(g) PROVE BlockInv'
  <2>1. CASE \E knew \in MayKnow : FetchOk(g, knew)
    <3>1. /\ \A h \in Goroutine : InFlight(h)' = InFlight(h)
          /\ \A h \in Goroutine : fetch[h].pc = "none" => fetch'[h].pc = "none"
      BY <2>1 DEF FetchOk, InFlight, TypeOK, FetchTypeOK
    <3> QED BY <1>3, <3>1, FlightSameBlocks DEF FetchReturns
  <2>2. CASE FetchTooBig(g)
    BY <1>3, <2>2, FetchTooBigBlocks DEF FetchReturns
  <2> QED BY <1>3, <2>1, <2>2 DEF FetchReturns
<1> QED
  BY <1>1, <1>2, <1>3, StartRangeBlocks, StartFullBlocks, StartFullTagBlocks,
     OrchestrateTickBlocks, OrchestrateTagBlocks, FetchAddsBlocks, SyncStartBlocks,
     SyncReceiveBlocks, SyncCommitBlocks, SyncAdvanceBlocks, DieBlocks
  DEF Next, FetchPanics, Crash

-----------------------------------------------------------------------------
(* The theorems. *)

\* Accounting holds initially.
LEMMA InitAccounting == Init => Accounting
<1> SUFFICES ASSUME Init PROVE Accounting
  OBVIOUS
<1>1. TypeOK
  BY InitType
<1>2. PermitsAccounted
  <2>1. Inside = {} /\ permits = 0
    BY DEF Init, NewFetcher, NoFetch, Inside
  <2> QED BY <2>1, FS_EmptySet DEF PermitsAccounted, Inside
<1>3. BlockInv
  BY FreshBlocks DEF Init
<1>4. KeysCounted /\ KeysContiguous
  BY DEF Init, NewPersistor, NewSynchronizer, EmptyBucket, KeysCounted, KeysContiguous
<1> QED BY <1>1, <1>2, <1>3, <1>4 DEF Accounting, BlockInv

\* Every step keeps Accounting.
LEMMA NextAccounting == Accounting /\ [Next]_vars => Accounting'
<1> SUFFICES ASSUME Accounting, [Next]_vars PROVE Accounting'
  OBVIOUS
<1>1. BlockInv /\ TypeOK /\ PermitsAccounted
  BY DEF Accounting, BlockInv
<1>2. TypeOK'
  <2>1. CASE Next
    <3>1. syncPc = "spawned" => currBlock = 0
      BY DEF Accounting, Phases
    <3> QED BY <1>1, <2>1, <3>1, NextType
  <2>2. CASE UNCHANGED vars
    BY <1>1, <2>2, StutterType
  <2> QED BY <2>1, <2>2
<1>3. PermitsAccounted'
  BY <1>1, NextPermits
<1>4. BlockInv'
  BY <1>1, NextBlocks
<1>5. KeysCounted' /\ KeysContiguous'
  BY <1>1, NextKeys DEF Accounting
<1> QED BY <1>2, <1>3, <1>4, <1>5 DEF Accounting, BlockInv

\* The inductive invariant holds in every reachable state, whatever the
\* process is started with and however often it dies.
THEOREM AccountingInvariant == Spec => []Accounting
BY InitAccounting, NextAccounting, PTL DEF Spec

\* The state of the process and of the database keeps its types: in
\* particular every record in the database is a record of the chain, every
\* buffered block has the records of that block, and no counter leaves the
\* chain.
THEOREM TypeCorrect == Spec => []TypeOK
<1>1. Accounting => TypeOK
  BY DEF Accounting
<1> QED BY <1>1, AccountingInvariant, PTL

\* No block that was requested is lost between the RPC and the database.
THEOREM NothingLost == Spec => []NoBlockLost
<1>1. Accounting => NoBlockLost
  BY DEF Accounting
<1> QED BY <1>1, AccountingInvariant, PTL

\* No block is fetched or saved twice, however ranges are split, reordered
\* and retried.
THEOREM NothingTwice == Spec => []NoBlockTwice
<1>1. Accounting => NoBlockTwice
  BY DEF Accounting
<1> QED BY <1>1, AccountingInvariant, PTL

\* The semaphore never leaks a permit.
THEOREM PermitsNeverLeak == Spec => []PermitsAccounted
<1>1. Accounting => PermitsAccounted
  BY DEF Accounting
<1> QED BY <1>1, AccountingInvariant, PTL

\* The keys of the data bucket never have a gap.
THEOREM KeysNeverGap == Spec => []KeysContiguous
<1>1. Accounting => KeysContiguous
  BY DEF Accounting
<1> QED BY <1>1, AccountingInvariant, PTL

-----------------------------------------------------------------------------
(* What the router reports. *)

\* The reported block is stored, in full mode always and in range mode once
\* anything is: the accounting leaves the database behind currBlock only before
\* the first save of a range, and ahead of it between a commit and the advance.
THEOREM ReportedIsStored == Spec => []ReportedIsIndexed
<1>1. Accounting => ReportedIsIndexed
  <2> SUFFICES ASSUME Accounting, dbMode = ModeFull \/ dbLast >= 0
               PROVE  GetCurrBlock - 1 <= dbLast
    BY DEF ReportedIsIndexed, getLatestBlockIndexed
  <2>1. /\ currBlock \in Nat /\ dbLast \in -1..MaxBlock /\ blockIterator \in Nat
        /\ syncPc \in {"off", "spawned", "select", "committed"}
    BY DEF Accounting, TypeOK, SyncTypeOK, DbTypeOK, SyncPcs
  <2>2. CASE syncPc \in {"off", "spawned"}
    BY <2>1, <2>2 DEF Accounting, Phases, GetCurrBlock
  <2>3. CASE syncPc = "select"
    BY <2>1, <2>3 DEF Accounting, SavedUpToNext, NextBlock, GetCurrBlock, ModeFull, ModeRange
  <2>4. CASE syncPc = "committed"
    BY <2>1, <2>4 DEF Accounting, SavedUpToNext, GetCurrBlock
  <2> QED BY <2>1, <2>2, <2>3, <2>4
<1> QED BY <1>1, AccountingInvariant, PTL
=============================================================================
