--------------------------- MODULE FetchDataProofs ---------------------------
(***************************************************************************)
(* What fetchData returns, for any number of endpoints, any lag and any    *)
(* chain.  The answer to GetLogs lists the logs of the range in chain order *)
(* (Listed), and a batch without nulls joins them into exactly the records *)
(* of the chain (JoinIsExact).  What a result misses is bounded: the tag   *)
(* of one endpoint is a block that all of them know, but for the lag that  *)
(* exceeds its depth (InReach), so whichever answers GetLogs knows the     *)
(* range up to there.                                                      *)
(***************************************************************************)
EXTENDS FetchData, FlattenFacts, FiniteSetTheorems

LEMMA MaxWithZero ==
    ASSUME NEW x \in Int
    PROVE  Max({0, x}) = IF x > 0 THEN x ELSE 0
<1>1. (IF x > 0 THEN x ELSE 0) \in {0, x}
  OBVIOUS
<1>2. \A y \in {0, x} : (IF x > 0 THEN x ELSE 0) >= y
  OBVIOUS
<1>3. \A z \in {0, x} : (\A y \in {0, x} : z >= y) => z = IF x > 0 THEN x ELSE 0
  OBVIOUS
<1> QED BY <1>1, <1>2, <1>3 DEF Max

LEMMA MinIsOf ==
    ASSUME NEW x \in Int, NEW y \in Int
    PROVE  Min({x, y}) = IF x <= y THEN x ELSE y
<1>1. (IF x <= y THEN x ELSE y) \in {x, y}
  OBVIOUS
<1>2. \A v \in {x, y} : (IF x <= y THEN x ELSE y) <= v
  OBVIOUS
<1>3. \A z \in {x, y} : (\A v \in {x, y} : z <= v) => z = IF x <= y THEN x ELSE y
  OBVIOUS
<1> QED BY <1>1, <1>2, <1>3 DEF Min

Type ==
    /\ height \in [Endpoint -> Nat]
    /\ blockTag \in DOMAIN Depth
    /\ DOMAIN call = {"pc", "start", "end", "logs", "knew", "result"}

\* Endpoints are at most MaxLag blocks apart.
Close == \A e, f \in Endpoint : height[e] <= height[f] + MaxLag

\* Every endpoint knows the range in hand but for its last MaxShort blocks, and
\* so did the one that answered GetLogs.
InReach ==
    call.pc # "idle" =>
        /\ call.end \in Nat
        /\ \A f \in Endpoint : call.end <= height[f] + MaxShort
        /\ call.pc \in {"GetBlocksAndTxs", "done"} =>
             call.knew \in Nat /\ call.end <= call.knew + MaxShort

IndInv == Type /\ Close /\ InReach

LEMMA InitHolds == Init => IndInv
BY FetchDataAssumption DEF Init, IndInv, Type, Close, InReach, NoCall

\* The end of a range that begins is at most MaxShort blocks ahead of any endpoint.
LEMMA fetchDataKeeps ==
    ASSUME IndInv, fetchData
    PROVE  IndInv'
<1>1. /\ height' = height /\ blockTag' = blockTag
      /\ height \in [Endpoint -> Nat] /\ Depth[blockTag] \in Nat /\ MaxLag \in Nat
  BY FetchDataAssumption DEF fetchData, IndInv, Type
<1>20. PICK e \in Endpoint : \E end \in 0..getBlockFromTag(e) : \E start \in 0..end :
         call' = [NoCall EXCEPT !.pc = "GetLogs", !.start = start, !.end = end]
  BY DEF fetchData
<1>21. PICK end \in 0..getBlockFromTag(e) : \E start \in 0..end :
         call' = [NoCall EXCEPT !.pc = "GetLogs", !.start = start, !.end = end]
  BY <1>20
<1>2. PICK start \in 0..end :
        call' = [NoCall EXCEPT !.pc = "GetLogs", !.start = start, !.end = end]
  BY <1>21
<1>3. /\ DOMAIN call' = {"pc", "start", "end", "logs", "knew", "result"}
      /\ call'.pc = "GetLogs" /\ call'.end = end
  BY <1>2 DEF NoCall
<1>4. getBlockFromTag(e) = IF height[e] - Depth[blockTag] > 0
                           THEN height[e] - Depth[blockTag] ELSE 0
  BY <1>1, MaxWithZero DEF getBlockFromTag
<1>5. \A f \in Endpoint : height[e] <= height[f] + MaxLag /\ height[f] \in Nat
  BY <1>1 DEF IndInv, Close
<1>6. end \in Nat /\ end <= getBlockFromTag(e)
  BY <1>1, <1>4
<1>7. \A f \in Endpoint : end <= height[f] + MaxShort
  BY <1>1, <1>4, <1>5, <1>6 DEF MaxShort
<1>8. InReach'
  BY <1>1, <1>3, <1>6, <1>7 DEF InReach, MaxShort
<1> QED BY <1>1, <1>3, <1>8 DEF IndInv, Type, Close

\* An endpoint that learns of a block only adds to what is known.
LEMMA SyncKeeps ==
    ASSUME IndInv, NEW e \in Endpoint, Sync(e)
    PROVE  IndInv'
<1>1. /\ height \in [Endpoint -> Nat] /\ height' = [height EXCEPT ![e] = height[e] + 1]
      /\ blockTag' = blockTag /\ call' = call /\ MaxLag \in Nat
      /\ \A f \in Endpoint : height[e] + 1 <= height[f] + MaxLag
  BY FetchDataAssumption DEF Sync, IndInv, Type
<1>2. \A f \in Endpoint : height'[f] \in Nat /\ height[f] <= height'[f]
  BY <1>1
<1>3. Type'
  BY <1>1 DEF IndInv, Type
<1>4. Close'
  BY <1>1 DEF IndInv, Close
<1>5. InReach'
  <2>1. MaxShort' = MaxShort /\ MaxShort \in Nat
    BY <1>1, FetchDataAssumption DEF IndInv, Type, MaxShort
  <2> QED BY <1>1, <1>2, <2>1 DEF IndInv, InReach
<1> QED BY <1>3, <1>4, <1>5 DEF IndInv

\* The endpoint that answers GetLogs knows the range as far as each of them does.
LEMMA GetLogsKeeps ==
    ASSUME IndInv, NEW e \in Endpoint, GetLogs(e)
    PROVE  IndInv'
<1>1. /\ height' = height /\ blockTag' = blockTag
      /\ height \in [Endpoint -> Nat]
      /\ DOMAIN call = {"pc", "start", "end", "logs", "knew", "result"}
  BY DEF GetLogs, IndInv, Type
<1> DEFINE logs == getLogs(e, call.start, call.end)
<1>2. /\ call.pc = "GetLogs"
      /\ call' = [call EXCEPT !.pc = IF logs = <<>> THEN "done" ELSE "GetBlocksAndTxs",
                              !.logs = logs, !.knew = height[e]]
  BY DEF GetLogs
<1> HIDE DEF logs
<1>3. /\ DOMAIN call' = DOMAIN call /\ call'.end = call.end /\ call'.knew = height[e]
  BY <1>1, <1>2
<1>4. InReach'
  BY <1>1, <1>2, <1>3 DEF IndInv, InReach, MaxShort
<1> QED BY <1>1, <1>3, <1>4 DEF IndInv, Type, Close

\* The other steps of a call change neither its end nor what was known.
LEMMA RestKeeps ==
    ASSUME IndInv, UNCHANGED <<height, blockTag>>, DOMAIN call' = DOMAIN call,
           call'.end = call.end, call'.knew = call.knew, call.pc # "idle",
           call'.pc \in {"GetBlocksAndTxs", "done"} => call.pc = "GetBlocksAndTxs"
    PROVE  IndInv'
BY DEF IndInv, Type, Close, InReach, MaxShort

LEMMA NextKeeps ==
    ASSUME IndInv, [Next]_vars
    PROVE  IndInv'
<1>1. DOMAIN call = {"pc", "start", "end", "logs", "knew", "result"}
  BY DEF IndInv, Type
<1>2. ASSUME NEW e \in Endpoint, GetBlocksAndTxs(e)
      PROVE  IndInv'
  <2> DEFINE answer == getBlocksAndTxs(e, bnsOf(call.logs), txHashesOf(call.logs))
             data   == dataToSave(call.logs, answer)
  <2>1. /\ call.pc = "GetBlocksAndTxs" /\ UNCHANGED <<height, blockTag>>
        /\ \/ call' = [call EXCEPT !.pc = "panic"]
           \/ call' = [call EXCEPT !.pc = "done", !.result = data]
    BY <1>2 DEF GetBlocksAndTxs
  <2> HIDE DEF data
  <2>2. DOMAIN call' = DOMAIN call /\ call'.end = call.end /\ call'.knew = call.knew
    BY <1>1, <2>1
  <2> QED BY <2>1, <2>2, RestKeeps
<1>3. CASE Fails
  <2>1. /\ call.pc # "idle" /\ UNCHANGED <<height, blockTag>>
        /\ call' = [call EXCEPT !.pc = "error"]
    BY <1>3 DEF Fails
  <2>2. /\ DOMAIN call' = DOMAIN call /\ call'.end = call.end /\ call'.knew = call.knew
        /\ call'.pc = "error"
    BY <1>1, <2>1
  <2> QED BY <2>1, <2>2, RestKeeps
<1>4. CASE Return
  BY <1>4 DEF Return, NoCall, IndInv, Type, Close, InReach
<1>5. CASE UNCHANGED vars
  BY <1>5 DEF vars, IndInv, Type, Close, InReach, MaxShort
<1> QED BY <1>2, <1>3, <1>4, <1>5, fetchDataKeeps, SyncKeeps, GetLogsKeeps DEF Next

-----------------------------------------------------------------------------
(* Numbers in order. *)

\* A finite set of numbers that is not empty has a greatest and a least member.
LEMMA GreatestIs ==
    ASSUME NEW n \in Nat, NEW I \in SUBSET (1..n), I # {}
    PROVE  /\ Max(I) \in I /\ \A y \in I : y <= Max(I)
           /\ Min(I) \in I /\ \A y \in I : Min(I) <= y
<1> DEFINE D == {n - x : x \in I}
<1>0. \A x \in I : x \in 1..n
  OBVIOUS
<1>1. PICK d \in D : \A y \in D : d <= y
  <2>1. D # {}
    OBVIOUS
  <2>2. D \subseteq Nat
    <3>1. \A x \in I : n - x \in Nat
      BY <1>0
    <3> QED BY <3>1
  <2> HIDE DEF D
  <2> QED BY <2>1, <2>2, LeastNumber
<1>2. PICK m \in I : \A y \in I : y <= m
  <2>1. PICK m \in I : d = n - m
    OBVIOUS
  <2>2. \A y \in I : d <= n - y
    BY <1>1
  <2> QED BY <1>0, <2>1, <2>2
<1>3. PICK l \in I : \A y \in I : l <= y
  <2>1. I \subseteq Nat
    BY <1>0
  <2> QED BY <2>1, LeastNumber
<1>4. Max(I) \in I /\ \A y \in I : Max(I) >= y
  BY <1>2 DEF Max
<1>5. Min(I) \in I /\ \A y \in I : Min(I) <= y
  BY <1>3 DEF Min
<1> QED BY <1>4, <1>5

\* Members of S up to x: the place of x when S is put in order.
Rank(S, x) == Cardinality({y \in S : y <= x})

LEMMA RankGrows ==
    ASSUME NEW S \in SUBSET Nat, IsFiniteSet(S)
    PROVE  /\ \A x \in S : Rank(S, x) \in 1..Cardinality(S)
           /\ \A x, y \in S : x < y => Rank(S, x) < Rank(S, y)
<1>0. \A x \in S : x \in Nat
  OBVIOUS
<1>1. ASSUME NEW x \in S PROVE Rank(S, x) \in 1..Cardinality(S)
  <2> DEFINE T == {y \in S : y <= x}
  <2>1. T \subseteq S /\ x \in T
    BY <1>0
  <2>2. IsFiniteSet(T) /\ Cardinality(T) <= Cardinality(S)
    BY <2>1, FS_Subset
  <2>3. Cardinality(T) \in Nat /\ Cardinality(S) \in Nat /\ Cardinality(T) # 0
    BY <2>1, <2>2, FS_CardinalityType, FS_EmptySet
  <2> HIDE DEF T
  <2>4. Cardinality(T) \in 1..Cardinality(S)
    BY <2>2, <2>3
  <2> QED BY <2>4 DEF Rank, T
<1>2. ASSUME NEW x \in S, NEW y \in S, x < y PROVE Rank(S, x) < Rank(S, y)
  <2> DEFINE T == {z \in S : z <= x}
             U == {z \in S : z <= y}
  <2>1. T \subseteq U /\ U \subseteq S /\ y \in U /\ y \notin T
    <3>1. x \in Nat /\ y \in Nat /\ \A z \in S : z \in Nat
      BY <1>0
    <3>2. y <= y /\ ~(y <= x) /\ \A z \in S : z <= x => z <= y
      BY <1>2, <3>1
    <3> QED BY <3>2
  <2>2. IsFiniteSet(U) /\ IsFiniteSet(T)
    BY <2>1, FS_Subset
  <2>3. Cardinality(T) <= Cardinality(U) /\ Cardinality(T) # Cardinality(U)
    BY <2>1, <2>2, FS_Subset
  <2>4. Cardinality(T) \in Nat /\ Cardinality(U) \in Nat
    BY <2>2, FS_CardinalityType
  <2> HIDE DEF T, U
  <2>5. Cardinality(T) < Cardinality(U)
    BY <2>3, <2>4
  <2> QED BY <2>5 DEF Rank, T, U
<1> QED BY <1>1, <1>2

\* Each place is taken: the ranks are a one-to-one map of S into as many numbers.
LEMMA RankIsOnto ==
    ASSUME NEW S \in SUBSET Nat, IsFiniteSet(S), NEW k \in 1..Cardinality(S)
    PROVE  \E x \in S : Rank(S, x) = k
<1> DEFINE n == Cardinality(S)
           f == [x \in S |-> Rank(S, x)]
<1>1. n \in Nat
  BY FS_CardinalityType
<1>2. \A x \in S : Rank(S, x) \in 1..n
  BY RankGrows
<1>3. \A x, y \in S : x # y => Rank(S, x) # Rank(S, y)
  <2> SUFFICES ASSUME NEW x \in S, NEW y \in S, x # y PROVE Rank(S, x) # Rank(S, y)
    OBVIOUS
  <2>1. x < y \/ y < x
    OBVIOUS
  <2>2. Rank(S, x) \in Int /\ Rank(S, y) \in Int
    BY <1>2
  <2>3. Rank(S, x) < Rank(S, y) \/ Rank(S, y) < Rank(S, x)
    BY <2>1, RankGrows
  <2> QED BY <2>2, <2>3
<1>4. f \in Injection(S, 1..n)
  BY <1>2, <1>3 DEF Injection, IsInjective
<1>5. IsFiniteSet(1..n) /\ Cardinality(1..n) = n
  BY <1>1, FS_Interval
<1>6. f \in Surjection(S, 1..n)
  BY <1>4, <1>5, FS_Injection
<1>7. \E x \in S : f[x] = k
  BY <1>6 DEF Surjection
<1> QED BY <1>7

\* What sort.Ints leaves: the members of S, each at its rank.
LEMMA SortedIs ==
    ASSUME NEW S \in SUBSET Nat, IsFiniteSet(S)
    PROVE  /\ Cardinality(S) \in Nat
           /\ Sorted(S) \in [1..Cardinality(S) -> S]
           /\ \A k \in 1..Cardinality(S) : Rank(S, Sorted(S)[k]) = k
           /\ ToSet(Sorted(S)) = S
<1> DEFINE n == Cardinality(S)
           Increases(s) == \A i, j \in DOMAIN s : i < j => s[i] < s[j]
           t == [k \in 1..n |-> CHOOSE x \in S : Rank(S, x) = k]
<1>0. \A x \in S : x \in Nat
  OBVIOUS
<1>1. n \in Nat /\ \A x \in S : Rank(S, x) \in 1..n
  BY FS_CardinalityType, RankGrows
<1>2. \A k \in 1..n : t[k] \in S /\ Rank(S, t[k]) = k
  BY RankIsOnto
<1>3. t \in [1..n -> S]
  BY <1>2
<1>4. Increases(t)
  <2> SUFFICES ASSUME NEW i \in 1..n, NEW j \in 1..n, i < j PROVE t[i] < t[j]
    BY <1>3
  <2> HIDE DEF t
  <2>1. t[i] \in S /\ t[j] \in S /\ Rank(S, t[i]) = i /\ Rank(S, t[j]) = j
    BY <1>2
  <2>2. ~(t[j] < t[i]) /\ t[i] # t[j]
    <3>1. t[j] < t[i] => Rank(S, t[j]) < Rank(S, t[i])
      BY <2>1, RankGrows
    <3> QED BY <2>1, <3>1, <1>1
  <2>3. t[i] \in Nat /\ t[j] \in Nat
    BY <1>0, <2>1
  <2> QED BY <2>2, <2>3
<1> DEFINE s == Sorted(S)
<1>5. s \in [1..n -> S] /\ Increases(s)
  <2>1. \E r \in [1..n -> S] : Increases(r)
    BY <1>3, <1>4
  <2> QED BY <2>1 DEF Sorted
<1> HIDE DEF s, t
<1>6. s \in Injection(1..n, S)
  <2>1. \A i, j \in 1..n : s[i] \in Nat /\ (i < j => s[i] < s[j])
    BY <1>5, <1>0
  <2>2. \A i, j \in 1..n : s[i] = s[j] => i = j
    BY <1>1, <2>1
  <2> QED BY <1>5, <2>2 DEF Injection, IsInjective
<1>7. s \in Surjection(1..n, S)
  <2>1. Cardinality(1..n) = n
    BY <1>1, FS_Interval
  <2> QED BY <1>6, <2>1, FS_Injection
<1>8. ASSUME NEW k \in 1..n PROVE Rank(S, s[k]) = k
  <2> DEFINE U == {y \in S : y <= s[k]}
             g == [i \in 1..k |-> s[i]]
  <2>1. \A i \in 1..n : s[i] \in S /\ (i <= k <=> s[i] <= s[k])
    <3>1. \A i, j \in 1..n : s[i] \in S /\ s[i] \in Nat /\ (i < j => s[i] < s[j])
      BY <1>5, <1>0
    <3>2. \A i \in 1..n : (i < k \/ i = k \/ k < i) /\ i \in Nat /\ k \in Nat
      BY <1>1
    <3> QED BY <3>1, <3>2
  <2>2. g \in [1..k -> U]
    BY <2>1, <1>1
  <2>3. \A i, j \in 1..k : i # j => g[i] # g[j]
    BY <1>6, <1>1 DEF Injection, IsInjective
  <2>4. \A y \in U : \E i \in 1..k : g[i] = y
    BY <1>7, <2>1, <1>1 DEF Surjection
  <2>5. g \in Bijection(1..k, U)
    <3> HIDE DEF g, U
    <3> QED BY <2>2, <2>3, <2>4 DEF Bijection, Injection, Surjection, IsInjective
  <2>6. IsFiniteSet(1..k) /\ Cardinality(1..k) = k
    BY <1>1, FS_Interval
  <2>7. Cardinality(U) = k
    BY <2>5, <2>6, FS_Bijection DEF ExistsBijection
  <2> QED BY <2>7 DEF Rank
<1>9. ToSet(s) = S
  BY <1>5, <1>7 DEF ToSet, Surjection
<1> QED BY <1>1, <1>5, <1>8, <1>9 DEF s

-----------------------------------------------------------------------------
(* The logs of a range. *)

ChainOK == \A b \in Blocks : chain[b] \in Seq([tx : Nat, how : How])

LogType == [BlockNumber : Nat, Index : Nat, TxHash : Nat \X Nat]

LogsOf(b) == [i \in DOMAIN chain[b] |-> Log(b, i)]

\* One log comes after another in the chain.
Before(l, m) ==
    \/ l.BlockNumber < m.BlockNumber
    \/ l.BlockNumber = m.BlockNumber /\ l.Index < m.Index

\* logs has the logs of the blocks from .. to and no others, in chain order.
Listed(logs, from, to) ==
    /\ logs \in Seq(LogType)
    /\ \A k \in DOMAIN logs : \E b \in from..to : \E i \in DOMAIN chain[b] :
         logs[k] = Log(b, i)
    /\ \A b \in from..to : \A i \in DOMAIN chain[b] : \E k \in DOMAIN logs :
         logs[k] = Log(b, i)
    /\ \A k, l \in DOMAIN logs : k < l => Before(logs[k], logs[l])

LEMMA ChainIsOK == chain \in Chains => ChainOK
BY FetchDataAssumption DEF ChainOK

LEMMA LogsOfBlock ==
    ASSUME ChainOK, NEW b \in Blocks
    PROVE  /\ LogsOf(b) \in Seq(LogType)
           /\ DOMAIN LogsOf(b) = DOMAIN chain[b]
           /\ \A i \in DOMAIN chain[b] : i \in Nat /\ LogsOf(b)[i] = Log(b, i)
<1>0. MaxBlock \in Nat
  BY FetchDataAssumption
<1>1. chain[b] \in Seq([tx : Nat, how : How]) /\ b \in Nat
  <2>1. chain[b] \in Seq([tx : Nat, how : How])
    BY DEF ChainOK
  <2>2. b \in Nat
    BY <1>0 DEF Blocks
  <2> QED BY <2>1, <2>2
<1>2. DOMAIN chain[b] = 1..Len(chain[b]) /\ Len(chain[b]) \in Nat
  BY <1>1
<1>3. ASSUME NEW i \in 1..Len(chain[b]) PROVE Log(b, i) \in LogType
  <2>1. chain[b][i] \in [tx : Nat, how : How]
    BY <1>1, <1>2, <1>3, ElementOfSeq
  <2>2. chain[b][i].tx \in Nat /\ i \in Nat
    BY <1>2, <1>3, <2>1
  <2> QED BY <1>1, <2>2 DEF Log, LogType
<1> QED BY <1>2, <1>3 DEF LogsOf

LEMMA NothingListed ==
    ASSUME NEW from, NEW to, from..to = {}
    PROVE  Listed(<<>>, from, to)
<1>1. <<>> \in Seq(LogType) /\ DOMAIN <<>> = {}
  OBVIOUS
<1> DEFINE none == <<>>
<1> HIDE DEF none
<1>2. Listed(none, from, to)
  BY <1>1 DEF Listed, none
<1> QED BY <1>2 DEF none

\* The logs of one block more follow those of the blocks before it.
LEMMA ListedExtends ==
    ASSUME ChainOK, NEW from \in Nat, NEW b \in Blocks, from <= b,
           NEW logs, Listed(logs, from, b - 1)
    PROVE  Listed(logs \o LogsOf(b), from, b)
<1> DEFINE L == LogsOf(b)
           n == Len(logs)
           m == Len(L)
           all == logs \o L
<1>1. /\ logs \in Seq(LogType) /\ L \in Seq(LogType) /\ n \in Nat /\ m \in Nat
      /\ DOMAIN logs = 1..n /\ DOMAIN L = 1..m /\ DOMAIN chain[b] = 1..m
      /\ b \in Nat
  BY LogsOfBlock DEF Listed, Blocks
<1>2. \A i \in 1..m : L[i] = Log(b, i)
  BY <1>1, LogsOfBlock
<1>3. /\ all \in Seq(LogType) /\ DOMAIN all = 1..(n + m)
      /\ \A k \in 1..n : all[k] = logs[k]
      /\ \A i \in 1..m : all[n + i] = L[i]
  <2> HIDE DEF L
  <2> QED BY <1>1
<1>4. \A k \in 1..(n + m) : k \in 1..n \/ (k - n \in 1..m /\ k = n + (k - n))
  BY <1>1
<1> HIDE DEF L, all
<1>5. ASSUME NEW k \in DOMAIN all
      PROVE  \E c \in from..b : \E i \in DOMAIN chain[c] : all[k] = Log(c, i)
  <2>1. CASE k \in 1..n
    <3>1. PICK c \in from..(b - 1) : \E i \in DOMAIN chain[c] : logs[k] = Log(c, i)
      BY <1>1, <2>1 DEF Listed
    <3>2. c \in from..b
      BY <1>1
    <3> QED BY <3>1, <3>2, <2>1, <1>3
  <2>2. CASE k - n \in 1..m /\ k = n + (k - n)
    <3>1. all[k] = Log(b, k - n)
      BY <1>2, <1>3, <2>2
    <3>2. b \in from..b /\ k - n \in DOMAIN chain[b]
      BY <1>1, <2>2
    <3> QED BY <3>1, <3>2
  <2> QED BY <1>3, <1>4, <2>1, <2>2
<1>6. ASSUME NEW c \in from..b, NEW i \in DOMAIN chain[c]
      PROVE  \E k \in DOMAIN all : all[k] = Log(c, i)
  <2>1. CASE c = b
    <3>1. i \in 1..m /\ n + i \in 1..(n + m)
      BY <1>1, <2>1
    <3>2. all[n + i] = Log(c, i)
      BY <1>2, <1>3, <2>1, <3>1
    <3> QED BY <1>3, <3>1, <3>2
  <2>2. CASE c # b
    <3>1. c \in from..(b - 1)
      BY <1>1, <2>2
    <3>2. PICK k \in DOMAIN logs : logs[k] = Log(c, i)
      BY <3>1 DEF Listed
    <3>3. k \in 1..(n + m)
      BY <1>1, <3>2
    <3> QED BY <1>1, <1>3, <3>2, <3>3
  <2> QED BY <2>1, <2>2
<1>7. ASSUME NEW k \in DOMAIN all, NEW l \in DOMAIN all, k < l
      PROVE  Before(all[k], all[l])
  <2>1. k \in 1..(n + m) /\ l \in 1..(n + m)
    BY <1>3
  <2>2. CASE l \in 1..n
    <3>1. k \in 1..n
      BY <1>1, <1>7, <2>1, <2>2
    <3> QED BY <1>1, <1>3, <1>7, <2>2, <3>1 DEF Listed
  <2>3. CASE k \in 1..n /\ l - n \in 1..m /\ l = n + (l - n)
    <3>1. PICK c \in from..(b - 1) : \E i \in DOMAIN chain[c] : logs[k] = Log(c, i)
      BY <1>1, <2>3 DEF Listed
    <3>2. logs[k].BlockNumber = c /\ all[k] = logs[k]
      BY <1>3, <2>3, <3>1 DEF Log
    <3>3. all[l].BlockNumber = b
      <4>1. all[l] = Log(b, l - n)
        BY <1>2, <1>3, <2>3
      <4> QED BY <4>1 DEF Log
    <3>4. c < b
      BY <1>1
    <3> QED BY <3>2, <3>3, <3>4 DEF Before
  <2>4. CASE k - n \in 1..m /\ k = n + (k - n) /\ l - n \in 1..m /\ l = n + (l - n)
    <3>1. all[k] = Log(b, k - n) /\ all[l] = Log(b, l - n)
      BY <1>2, <1>3, <2>4
    <3>2. k - n < l - n
      BY <1>1, <1>7, <2>1
    <3> QED BY <3>1, <3>2 DEF Log, Before
  <2>5. \/ l \in 1..n
        \/ k \in 1..n /\ l - n \in 1..m /\ l = n + (l - n)
        \/ k - n \in 1..m /\ k = n + (k - n) /\ l - n \in 1..m /\ l = n + (l - n)
    BY <1>1, <1>7, <2>1
  <2> QED BY <2>2, <2>3, <2>4, <2>5
<1>8. all \in Seq(LogType)
  BY <1>3
<1>9. Listed(all, from, b)
  BY <1>5, <1>6, <1>7, <1>8 DEF Listed
<1> QED BY <1>9 DEF all, L

\* The blocks of a range, one after the other.
LEMMA ListedUpTo ==
    ASSUME ChainOK, NEW from \in Nat, NEW k \in Nat, from + k - 1 <= MaxBlock
    PROVE  Listed(FlattenSeq([j \in 1..k |-> LogsOf(from + j - 1)]), from, from + k - 1)
<1> DEFINE F(n) == FlattenSeq([j \in 1..n |-> LogsOf(from + j - 1)])
           S == {n \in Nat : from + n - 1 <= MaxBlock => Listed(F(n), from, from + n - 1)}
<1>0. MaxBlock \in Nat
  BY FetchDataAssumption
<1>1. 0 \in S
  <2>1. F(0) = <<>>
    <3>1. [j \in 1..0 |-> LogsOf(from + j - 1)] = <<>>
      OBVIOUS
    <3> QED BY <3>1 DEF FlattenSeq
  <2>2. from..(from + 0 - 1) = {}
    OBVIOUS
  <2> HIDE DEF F
  <2>3. Listed(F(0), from, from + 0 - 1)
    BY <2>1, <2>2, NothingListed
  <2> QED BY <2>3
<1>2. ASSUME NEW n \in Nat, n \in S PROVE n + 1 \in S
  <2> SUFFICES ASSUME from + (n + 1) - 1 <= MaxBlock
               PROVE  Listed(F(n + 1), from, from + (n + 1) - 1)
    OBVIOUS
  <2> DEFINE t == [j \in 1..(n + 1) |-> LogsOf(from + j - 1)]
             b == from + n
  <2>1. /\ b \in Blocks /\ from <= b /\ b - 1 = from + n - 1 /\ b = from + (n + 1) - 1
        /\ from + n - 1 <= MaxBlock
    BY <1>0 DEF Blocks
  <2>2. Listed(F(n), from, b - 1)
    BY <1>2, <2>1
  <2>3. \A j \in 1..(n + 1) : t[j] \in Seq(LogType)
    <3> SUFFICES ASSUME NEW j \in 1..(n + 1) PROVE LogsOf(from + j - 1) \in Seq(LogType)
      OBVIOUS
    <3>1. from + j - 1 \in Blocks
      BY <1>0, <2>1 DEF Blocks
    <3> QED BY <3>1, LogsOfBlock
  <2>4. F(n + 1) = F(n) \o LogsOf(b)
    <3>1. /\ [j \in 1..(n + 1) |-> t[j]] = [j \in 1..(n + 1) |-> LogsOf(from + j - 1)]
          /\ [j \in 1..n |-> t[j]] = [j \in 1..n |-> LogsOf(from + j - 1)]
      OBVIOUS
    <3>2. t[n + 1] = LogsOf(b)
      BY <2>1
    <3> HIDE DEF t
    <3>3. FlattenSeq([j \in 1..(n + 1) |-> t[j]])
            = FlattenSeq([j \in 1..n |-> t[j]]) \o t[n + 1]
      BY <2>3, FlattenStep
    <3> QED BY <3>1, <3>2, <3>3
  <2> HIDE DEF F
  <2>5. Listed(F(n) \o LogsOf(b), from, b)
    BY <2>1, <2>2, ListedExtends
  <2> QED BY <2>1, <2>4, <2>5
<1> HIDE DEF S
<1>3. Nat \subseteq S
  BY <1>1, <1>2, SetInduction
<1>4. k \in S
  BY <1>3
<1> QED BY <1>4 DEF S

\* What the endpoint answers: the logs of the range, as far as it knows it.
LEMMA GetLogsLists ==
    ASSUME ChainOK, NEW e \in Endpoint, height[e] \in Blocks, NEW from \in Nat, NEW end \in Nat
    PROVE  /\ Min({end, height[e]}) \in 0..MaxBlock
           /\ Listed(getLogs(e, from, end), from, Min({end, height[e]}))
<1> DEFINE to == Min({end, height[e]})
<1>0. MaxBlock \in Nat /\ height[e] \in 0..MaxBlock
  BY FetchDataAssumption DEF Blocks
<1>1. to \in 0..MaxBlock
  BY <1>0, MinIsOf
<1> HIDE DEF to
<1>2. getLogs(e, from, end) = FlattenSeq([j \in 1..(to - from + 1) |-> LogsOf(from + j - 1)])
  BY DEF getLogs, LogsOf, to
<1>3. CASE from <= to
  <2>1. to - from + 1 \in Nat /\ from + (to - from + 1) - 1 = to /\ to <= MaxBlock
    BY <1>0, <1>1, <1>3
  <2> DEFINE k == to - from + 1
  <2> HIDE DEF k
  <2>2. k \in Nat /\ from + k - 1 = to /\ from + k - 1 <= MaxBlock
    BY <2>1 DEF k
  <2>3. Listed(FlattenSeq([j \in 1..k |-> LogsOf(from + j - 1)]), from, from + k - 1)
    BY <2>2, ListedUpTo
  <2> QED BY <1>1, <1>2, <2>2, <2>3 DEF k, to
<1>4. CASE ~(from <= to)
  <2>1. 1..(to - from + 1) = {} /\ from..to = {}
    BY <1>1, <1>4
  <2>2. [j \in 1..(to - from + 1) |-> LogsOf(from + j - 1)] = <<>>
    BY <2>1
  <2>3. getLogs(e, from, end) = <<>>
    BY <1>2, <2>2 DEF FlattenSeq
  <2>4. Listed(<<>>, from, to)
    BY <2>1, NothingListed
  <2> QED BY <1>1, <2>3, <2>4 DEF to
<1> QED BY <1>3, <1>4

-----------------------------------------------------------------------------
(* The join. *)

\* The logs of block b that give a record: the last of each transaction that is
\* to or from ADDRESS.
Kept(b) ==
    {i \in DOMAIN chain[b] :
        /\ chain[b][i].how \in {"to", "from"}
        /\ \A j \in DOMAIN chain[b] : chain[b][j].tx = chain[b][i].tx => j <= i}

LEMMA KeptIs ==
    ASSUME ChainOK, NEW b \in Blocks
    PROVE  Kept(b) \in SUBSET Nat /\ IsFiniteSet(Kept(b))
<1>1. chain[b] \in Seq([tx : Nat, how : How])
  BY DEF ChainOK
<1>2. DOMAIN chain[b] = 1..Len(chain[b]) /\ Len(chain[b]) \in Nat
  BY <1>1
<1>3. IsFiniteSet(DOMAIN chain[b])
  BY <1>2, FS_Interval
<1>4. Kept(b) \subseteq DOMAIN chain[b]
  BY DEF Kept
<1>5. IsFiniteSet(Kept(b))
  BY <1>3, <1>4, FS_Subset
<1>6. Kept(b) \subseteq Nat
  BY <1>2, <1>4
<1> QED BY <1>5, <1>6

\* The reference lists the kept logs in order.
LEMMA RecordedIs ==
    ASSUME ChainOK, NEW b \in Blocks
    PROVE  Recorded(b) = [k \in 1..Cardinality(Kept(b)) |->
                            IndexedData(b, Sorted(Kept(b))[k], b)]
<1> DEFINE K == Kept(b)
           kept(i) == /\ chain[b][i].how \in {"to", "from"}
                      /\ \A j \in DOMAIN chain[b] : chain[b][j].tx = chain[b][i].tx => j <= i
           Is(i, k) == kept(i) /\ Cardinality({j \in 1..i : kept(j)}) = k
<1>1. DOMAIN chain[b] = 1..Len(chain[b]) /\ Len(chain[b]) \in Nat
  BY DEF ChainOK
<1>2. \A i \in DOMAIN chain[b] : {j \in 1..i : kept(j)} = {y \in K : y <= i}
  BY <1>1 DEF Kept
<1>3. \A i \in DOMAIN chain[b] : i \in K <=> kept(i)
  BY DEF Kept
<1>30. K \subseteq DOMAIN chain[b] /\ K = {i \in DOMAIN chain[b] : kept(i)}
  BY DEF Kept
<1> HIDE DEF kept, K
<1>4. \A i \in DOMAIN chain[b] : \A k : Is(i, k) <=> i \in K /\ Rank(K, i) = k
  BY <1>2, <1>3 DEF Rank
<1>5. K \in SUBSET Nat /\ IsFiniteSet(K)
  BY KeptIs DEF K
<1> HIDE DEF Is
<1>6. ASSUME NEW k \in 1..Cardinality(K)
      PROVE  (CHOOSE i \in DOMAIN chain[b] : Is(i, k)) = Sorted(K)[k]
  <2> DEFINE c == CHOOSE i \in DOMAIN chain[b] : Is(i, k)
             s == Sorted(K)[k]
  <2>1. s \in K /\ Rank(K, s) = k
    BY <1>5, SortedIs
  <2>2. c \in DOMAIN chain[b] /\ Is(c, k)
    BY <2>1, <1>4, <1>30
  <2> HIDE DEF c, s
  <2>3. c \in K /\ Rank(K, c) = k
    BY <2>2, <1>4
  <2>4. c \in Nat /\ s \in Nat /\ (c = s \/ c < s \/ s < c)
    BY <2>1, <2>3, <1>5
  <2>5. \A x, y \in K : x < y => Rank(K, x) < Rank(K, y)
    BY <1>5, RankGrows
  <2>6. c = s
    BY <2>1, <2>3, <2>4, <2>5
  <2> QED BY <2>6 DEF c, s
<1>7. Recorded(b) = [k \in 1..Cardinality(K) |->
                       IndexedData(b, CHOOSE i \in DOMAIN chain[b] : Is(i, k), b)]
  BY <1>30 DEF Recorded, Is, kept
<1> QED BY <1>6, <1>7 DEF K

\* A transaction of the chain relates to ADDRESS as each of its logs says.
LEMMA HowIs ==
    ASSUME chain \in Chains, ChainOK, NEW b \in Blocks, NEW i \in DOMAIN chain[b]
    PROVE  HowOf(<<b, chain[b][i].tx>>) = chain[b][i].how
<1> DEFINE n == Len(chain[b])
           I == {j \in 1..n : chain[b][j].tx = chain[b][i].tx}
<1>1. DOMAIN chain[b] = 1..n /\ n \in Nat
  BY DEF ChainOK
<1>2. I \in SUBSET (1..n) /\ I # {}
  BY <1>1
<1>3. Min(I) \in I
  BY <1>1, <1>2, GreatestIs
<1>4. \A j \in DOMAIN chain[b] :
        chain[b][j].tx = chain[b][i].tx => chain[b][j].how = chain[b][i].how
  BY FetchDataAssumption
<1>5. HowOf(<<b, chain[b][i].tx>>) = chain[b][Min(I)].how
  BY <1>2 DEF HowOf, SelectInSeq
<1> QED BY <1>1, <1>3, <1>4, <1>5

\* The log that the map keeps of a transaction is its last one.
LEMMA LastLog ==
    ASSUME ChainOK, NEW from \in Nat, NEW to \in 0..MaxBlock, NEW logs,
           Listed(logs, from, to), NEW b \in from..to, NEW i \in DOMAIN chain[b]
    PROVE  \E last \in DOMAIN chain[b] :
             /\ txHashToLog(logs, <<b, chain[b][i].tx>>) = Log(b, last)
             /\ chain[b][last].tx = chain[b][i].tx
             /\ \A j \in DOMAIN chain[b] : chain[b][j].tx = chain[b][i].tx => j <= last
<1> DEFINE tx == <<b, chain[b][i].tx>>
           n == Len(logs)
           I == {k \in 1..n : logs[k].TxHash = tx}
<1>0. /\ b \in Nat /\ b \in Blocks
      /\ \A j \in DOMAIN chain[b] : j \in Nat
  <2>1. b \in Blocks /\ b \in Nat
    BY FetchDataAssumption DEF Blocks
  <2> QED BY <2>1 DEF ChainOK
<1>1. DOMAIN logs = 1..n /\ n \in Nat
  BY DEF Listed
<1>2. \A j \in DOMAIN chain[b] : \E k \in 1..n : logs[k] = Log(b, j)
  BY <1>1 DEF Listed
<1>3. \A c, j : /\ Log(c, j).BlockNumber = c /\ Log(c, j).Index = j
                /\ Log(c, j).TxHash = <<c, chain[c][j].tx>>
  BY DEF Log
<1>4. I \in SUBSET (1..n) /\ I # {}
  BY <1>2, <1>3
<1>5. txHashToLog(logs, tx) = logs[Max(I)]
  BY <1>4 DEF txHashToLog, SelectLastInSeq
<1>6. Max(I) \in I /\ \A k \in I : k <= Max(I)
  BY <1>1, <1>4, GreatestIs
<1> DEFINE m == Max(I)
<1> HIDE DEF m
<1>7. m \in 1..n /\ logs[m].TxHash = tx /\ \A k \in 1..n : logs[k].TxHash = tx => k <= m
  BY <1>6 DEF m
<1>8. PICK c \in from..to : \E j \in DOMAIN chain[c] : logs[m] = Log(c, j)
  BY <1>1, <1>7 DEF Listed
<1>9. PICK last \in DOMAIN chain[c] : logs[m] = Log(c, last)
  BY <1>8
<1>10. c = b /\ chain[b][last].tx = chain[b][i].tx
  BY <1>3, <1>7, <1>9
<1>11. ASSUME NEW j \in DOMAIN chain[b], chain[b][j].tx = chain[b][i].tx
       PROVE  j <= last
  <2>1. PICK k \in 1..n : logs[k] = Log(b, j)
    BY <1>2
  <2>2. k <= m
    BY <1>3, <1>7, <1>11, <2>1
  <2>3. CASE k = m
    <3>1. j = last
      BY <1>3, <1>9, <1>10, <2>1, <2>3
    <3> QED BY <1>0, <3>1
  <2>4. CASE k < m
    <3>1. Before(logs[k], logs[m])
      BY <1>1, <1>7, <2>4 DEF Listed
    <3>2. Before(Log(b, j), Log(b, last))
      BY <2>1, <1>9, <1>10, <3>1
    <3>3. b < b \/ j < last
      BY <1>3, <3>2 DEF Before
    <3> QED BY <1>0, <1>10, <3>3
  <2> QED BY <1>1, <1>7, <2>2, <2>3, <2>4
<1>12. txHashToLog(logs, tx) = Log(b, last) /\ last \in DOMAIN chain[b]
  BY <1>5, <1>9, <1>10 DEF m
<1> QED BY <1>10, <1>11, <1>12

\* The log indexes of a block's matching transactions are its kept logs.
LEMMA IndexesAreKept ==
    ASSUME chain \in Chains, ChainOK, NEW from \in Nat, NEW to \in 0..MaxBlock, NEW logs,
           Listed(logs, from, to), NEW txs, ToSet(txs) = {l.TxHash : l \in ToSet(logs)},
           NEW b \in from..to
    PROVE  bnToLogIndexes(logs, txs, b) = Sorted(Kept(b))
<1> DEFINE M == {t \in ToSet(txs) : t[1] = b /\ Matches(t)}
           last(tx) == txHashToLog(logs, tx)
           J == {l.Index : l \in {last(tx) : tx \in M}}
<1>0. b \in Blocks /\ \A j \in DOMAIN chain[b] : j \in Nat
  <2>1. b \in Blocks
    BY FetchDataAssumption DEF Blocks
  <2> QED BY <2>1 DEF ChainOK
<1>1. \A c, j : /\ Log(c, j).BlockNumber = c /\ Log(c, j).Index = j
                /\ Log(c, j).TxHash = <<c, chain[c][j].tx>>
  BY DEF Log
<1>2. ASSUME NEW x \in J PROVE x \in Kept(b)
  <2>1. PICK tx \in M : x = last(tx).Index
    OBVIOUS
  <2>2. tx \in ToSet(txs) /\ tx[1] = b /\ Matches(tx)
    BY <2>1
  <2>3. PICK k \in DOMAIN logs : tx = logs[k].TxHash
    BY <2>2 DEF ToSet
  <2>4. PICK c \in from..to : \E j \in DOMAIN chain[c] : logs[k] = Log(c, j)
    BY DEF Listed
  <2>5. PICK j \in DOMAIN chain[c] : logs[k] = Log(c, j)
    BY <2>4
  <2>6. tx = <<c, chain[c][j].tx>> /\ c = b
    BY <1>1, <2>2, <2>3, <2>5
  <2>7. j \in DOMAIN chain[b] /\ tx = <<b, chain[b][j].tx>>
    BY <2>6
  <2>8. PICK i \in DOMAIN chain[b] :
          /\ last(tx) = Log(b, i)
          /\ chain[b][i].tx = chain[b][j].tx
          /\ \A h \in DOMAIN chain[b] : chain[b][h].tx = chain[b][j].tx => h <= i
    <3> HIDE DEF M
    <3> QED BY <2>7, LastLog
  <2>9. x = i /\ HowOf(tx) = chain[b][i].how
    <3>1. x = Log(b, i).Index
      BY <2>1, <2>8
    <3>2. HowOf(<<b, chain[b][i].tx>>) = chain[b][i].how
      BY <1>0, HowIs
    <3> QED BY <1>1, <2>7, <2>8, <3>1, <3>2
  <2> QED BY <2>2, <2>8, <2>9 DEF Kept, Matches
<1>3. ASSUME NEW i \in Kept(b) PROVE i \in J
  <2> DEFINE tx == <<b, chain[b][i].tx>>
  <2>1. i \in DOMAIN chain[b] /\ chain[b][i].how \in {"to", "from"}
        /\ \A j \in DOMAIN chain[b] : chain[b][j].tx = chain[b][i].tx => j <= i
    BY DEF Kept
  <2>2. PICK k \in DOMAIN logs : logs[k] = Log(b, i)
    BY <2>1 DEF Listed
  <2>3. tx \in ToSet(txs)
    <3>1. logs[k] \in ToSet(logs) /\ logs[k].TxHash = tx
      BY <1>1, <2>2 DEF ToSet
    <3> QED BY <3>1
  <2>4. tx[1] = b /\ Matches(tx)
    <3>1. HowOf(tx) = chain[b][i].how
      BY <1>0, <2>1, HowIs
    <3> QED BY <2>1, <3>1 DEF Matches
  <2>5. PICK j \in DOMAIN chain[b] :
          /\ last(tx) = Log(b, j)
          /\ chain[b][j].tx = chain[b][i].tx
          /\ \A h \in DOMAIN chain[b] : chain[b][h].tx = chain[b][i].tx => h <= j
    BY <2>1, LastLog
  <2>6. j = i
    <3>1. j <= i /\ i <= j /\ i \in Nat /\ j \in Nat
      BY <1>0, <2>1, <2>5
    <3> QED BY <3>1
  <2>7. last(tx).Index = i /\ tx \in M
    BY <1>1, <2>3, <2>4, <2>5, <2>6
  <2> HIDE DEF tx, last, M
  <2> QED BY <2>7
<1>4. J = Kept(b)
  BY <1>2, <1>3
<1>5. bnToLogIndexes(logs, txs, b) = Sorted(J)
  BY DEF bnToLogIndexes
<1> QED BY <1>4, <1>5

\* The blocks that are requested are those with logs.
LEMMA BnsAre ==
    ASSUME ChainOK, NEW from \in Nat, NEW to \in 0..MaxBlock, NEW logs, Listed(logs, from, to)
    PROVE  /\ ToSet(bnsOf(logs)) = {b \in from..to : DOMAIN chain[b] # {}}
           /\ \E n \in Nat : DOMAIN bnsOf(logs) = 1..n
<1> DEFINE B == {l.BlockNumber : l \in ToSet(logs)}
<1>1. \A c, j : Log(c, j).BlockNumber = c
  BY DEF Log
<1>2. B = {b \in from..to : DOMAIN chain[b] # {}}
  <2>1. ASSUME NEW b \in B PROVE b \in from..to /\ DOMAIN chain[b] # {}
    <3>1. PICK k \in DOMAIN logs : b = logs[k].BlockNumber
      BY DEF ToSet
    <3>2. PICK c \in from..to : \E j \in DOMAIN chain[c] : logs[k] = Log(c, j)
      BY DEF Listed
    <3> QED BY <1>1, <3>1, <3>2
  <2>2. ASSUME NEW b \in from..to, NEW i \in DOMAIN chain[b] PROVE b \in B
    <3>1. PICK k \in DOMAIN logs : logs[k] = Log(b, i)
      BY DEF Listed
    <3> QED BY <1>1, <3>1 DEF ToSet
  <2> QED BY <2>1, <2>2
<1>3. B \in SUBSET Nat /\ IsFiniteSet(B)
  <2>1. B \subseteq from..to
    BY <1>2
  <2>2. IsFiniteSet(from..to) /\ from..to \subseteq Nat
    BY FS_Interval
  <2> HIDE DEF B
  <2> QED BY <2>1, <2>2, FS_Subset
<1>4. ToSet(Sorted(B)) = B /\ DOMAIN Sorted(B) = 1..Cardinality(B) /\ Cardinality(B) \in Nat
  <2> HIDE DEF B
  <2> QED BY <1>3, SortedIs
<1>5. bnsOf(logs) = Sorted(B)
  BY DEF bnsOf
<1> QED BY <1>2, <1>4, <1>5

\* An answer without nulls has what was requested.
LEMMA AnswerIs ==
    ASSUME ChainOK, NEW from \in Nat, NEW to \in 0..MaxBlock, NEW logs, Listed(logs, from, to),
           NEW e, NEW answer, answer = getBlocksAndTxs(e, bnsOf(logs), txHashesOf(logs)),
           ~Dereferences(answer)
    PROVE  /\ ToSet(answer.txs) = {l.TxHash : l \in ToSet(logs)}
           /\ \A b \in ToSet(bnsOf(logs)) : answer.blocks[blockToSlice(answer.blocks, b)] = b
<1> DEFINE bns == bnsOf(logs)
           hashes == txHashesOf(logs)
<1>1. /\ DOMAIN answer.blocks = DOMAIN bns /\ DOMAIN answer.txs = DOMAIN logs
      /\ \A i \in DOMAIN bns : answer.blocks[i] = IF bns[i] <= height[e] THEN bns[i] ELSE Nil
      /\ \A i \in DOMAIN logs : answer.txs[i] = IF hashes[i][1] <= height[e]
                                                THEN hashes[i] ELSE NilTx
      /\ \A i \in DOMAIN logs : hashes[i] = logs[i].TxHash
  BY DEF getBlocksAndTxs, txHashesOf
<1>2. /\ \A i \in DOMAIN answer.blocks : answer.blocks[i] # Nil
      /\ \A i \in DOMAIN answer.txs : answer.txs[i] # NilTx
  BY DEF Dereferences, ToSet
<1> HIDE DEF bns, hashes
<1>3. /\ \A i \in DOMAIN bns : answer.blocks[i] = bns[i]
      /\ \A i \in DOMAIN logs : answer.txs[i] = logs[i].TxHash
  BY <1>1, <1>2
<1>4. ToSet(answer.txs) = {l.TxHash : l \in ToSet(logs)}
  BY <1>1, <1>3 DEF ToSet
<1>5. ASSUME NEW b \in ToSet(bns) PROVE answer.blocks[blockToSlice(answer.blocks, b)] = b
  <2> DEFINE bs == answer.blocks
             I == {i \in 1..Len(bs) : bs[i] = b}
  <2>1. PICK n \in Nat : DOMAIN bns = 1..n
    BY BnsAre DEF bns
  <2>2. DOMAIN bs = 1..n /\ Len(bs) = n
    BY <1>1, <2>1
  <2>3. PICK i \in 1..n : bs[i] = b
    BY <1>3, <2>1 DEF ToSet
  <2>4. I \in SUBSET (1..n) /\ I # {}
    BY <2>2, <2>3
  <2>5. Max(I) \in I
    BY <2>4, GreatestIs
  <2>6. blockToSlice(bs, b) = Max(I)
    BY <2>4 DEF blockToSlice, SelectLastInSeq
  <2> QED BY <2>5, <2>6
<1> QED BY <1>4, <1>5 DEF bns

\* The result of a batch without nulls is what the chain has.
LEMMA JoinIsExact ==
    ASSUME chain \in Chains, ChainOK, NEW from \in Nat, NEW to \in 0..MaxBlock, NEW logs,
           Listed(logs, from, to), NEW e, NEW answer,
           answer = getBlocksAndTxs(e, bnsOf(logs), txHashesOf(logs)), ~Dereferences(answer)
    PROVE  dataToSave(logs, answer) = Due(from, to)
<1> DEFINE indexes(b) == bnToLogIndexes(logs, answer.txs, b)
           header(b)  == answer.blocks[blockToSlice(answer.blocks, b)]
           data(b)    == [k \in DOMAIN indexes(b) |-> IndexedData(b, indexes(b)[k], header(b))]
           B          == ToSet(bnsOf(logs))
<1>0. \A b \in from..to : b \in Blocks
  BY FetchDataAssumption DEF Blocks
<1>1. B = {b \in from..to : DOMAIN chain[b] # {}} /\ \A b \in B : header(b) = b
  BY BnsAre, AnswerIs
<1>2. \A b \in from..to : indexes(b) = Sorted(Kept(b))
  BY AnswerIs, IndexesAreKept
<1>3. \A b \in from..to : Kept(b) \in SUBSET Nat /\ IsFiniteSet(Kept(b))
  BY <1>0, KeptIs
<1>4. \A b \in from..to : DOMAIN Sorted(Kept(b)) = 1..Cardinality(Kept(b))
  BY <1>3, SortedIs
<1>5. \A b \in from..to : Recorded(b) = [k \in 1..Cardinality(Kept(b)) |->
                            IndexedData(b, Sorted(Kept(b))[k], b)]
  BY <1>0, RecordedIs
<1>6. dataToSave(logs, answer) = [b \in {x \in B : indexes(x) # <<>>} |-> data(b)]
  BY DEF dataToSave
<1>7. \A b \in B : b \in from..to
  BY <1>1
<1>8. ASSUME NEW b \in B PROVE data(b) = Recorded(b)
  <2>1. header(b) = b /\ indexes(b) = Sorted(Kept(b)) /\ b \in from..to
    BY <1>1, <1>2, <1>7
  <2> HIDE DEF header, indexes
  <2> QED BY <1>4, <1>5, <2>1
<1>9. \A b \in from..to : indexes(b) # <<>> <=> Recorded(b) # <<>>
  <2> SUFFICES ASSUME NEW b \in from..to PROVE indexes(b) # <<>> <=> Recorded(b) # <<>>
    OBVIOUS
  <2> DEFINE n == Cardinality(Kept(b))
  <2>1. n \in Nat /\ Sorted(Kept(b)) \in [1..n -> Kept(b)]
    BY <1>3, SortedIs
  <2>2. indexes(b) = <<>> <=> n = 0
    BY <1>2, <2>1
  <2>3. Recorded(b) = <<>> <=> n = 0
    BY <1>5, <2>1
  <2> QED BY <2>2, <2>3
<1>10. \A b \in from..to : Recorded(b) # <<>> => b \in B
  <2> SUFFICES ASSUME NEW b \in from..to, DOMAIN chain[b] = {} PROVE Recorded(b) = <<>>
    BY <1>1
  <2>1. Kept(b) = {}
    BY DEF Kept
  <2>2. Cardinality(Kept(b)) = 0
    BY <2>1, FS_EmptySet
  <2> QED BY <1>5, <2>2
<1> HIDE DEF indexes, data, B
<1>11. {x \in B : indexes(x) # <<>>} = {x \in from..to : Recorded(x) # <<>>}
  BY <1>7, <1>9, <1>10
<1>12. [b \in {x \in B : indexes(x) # <<>>} |-> data(b)]
         = [b \in {x \in from..to : Recorded(x) # <<>>} |-> Recorded(b)]
  BY <1>8, <1>11
<1> QED BY <1>6, <1>12 DEF Due

-----------------------------------------------------------------------------
(* The call. *)

\* The logs in hand are those of the range, as far as the endpoint that answered
\* knew it.
LogsInHand ==
    /\ chain \in Chains
    /\ \A e \in Endpoint : height[e] \in Blocks
    /\ call.pc \in {"GetLogs", "GetBlocksAndTxs"} => call.start \in Nat /\ call.end \in Nat
    /\ call.pc = "GetLogs" => call.result = NoData
    /\ call.pc = "GetBlocksAndTxs" =>
         /\ Min({call.end, call.knew}) \in 0..MaxBlock
         /\ Listed(call.logs, call.start, Min({call.end, call.knew}))

JoinInv == IndInv /\ LogsInHand /\ FetchExact

LEMMA InitJoins == Init => JoinInv
<1> SUFFICES ASSUME Init PROVE JoinInv
  OBVIOUS
<1>1. IndInv
  BY InitHolds
<1>2. call.pc = "idle" /\ chain \in Chains /\ \A e \in Endpoint : height[e] = 0
  BY DEF Init, NoCall
<1>3. 0 \in Blocks
  BY FetchDataAssumption DEF Blocks
<1> QED BY <1>1, <1>2, <1>3 DEF JoinInv, LogsInHand, FetchExact

\* Nothing is listed, and nothing is due.
LEMMA NothingDue ==
    ASSUME ChainOK, NEW from \in Nat, NEW to \in 0..MaxBlock, Listed(<<>>, from, to)
    PROVE  NoData = Due(from, to)
<1>1. \A b \in from..to : DOMAIN chain[b] = {}
  BY DEF Listed
<1>2. \A b \in from..to : Recorded(b) = <<>>
  <2> SUFFICES ASSUME NEW b \in from..to PROVE Recorded(b) = <<>>
    OBVIOUS
  <2>1. b \in Blocks
    BY FetchDataAssumption DEF Blocks
  <2>2. Kept(b) = {}
    BY <1>1 DEF Kept
  <2>3. Cardinality(Kept(b)) = 0
    BY <2>2, FS_EmptySet
  <2> QED BY <2>1, <2>3, RecordedIs
<1>3. {x \in from..to : Recorded(x) # <<>>} = {}
  BY <1>2
<1> QED BY <1>3 DEF NoData, Due

\* What the chain has stays as it is.
LEMMA RecordedStays ==
    ASSUME chain' = chain
    PROVE  \A b : Recorded(b)' = Recorded(b)
BY DEF Recorded

LEMMA GetLogsJoins ==
    ASSUME JoinInv, NEW e \in Endpoint, GetLogs(e)
    PROVE  LogsInHand' /\ FetchExact'
<1> DEFINE logs == getLogs(e, call.start, call.end)
           to   == Min({call.end, height[e]})
<1>1. /\ call.pc = "GetLogs" /\ UNCHANGED <<chain, blockTag, height>>
      /\ call' = [call EXCEPT !.pc = IF logs = <<>> THEN "done" ELSE "GetBlocksAndTxs",
                              !.logs = logs, !.knew = height[e]]
  BY DEF GetLogs
<1>2. /\ ChainOK /\ height[e] \in Blocks /\ call.start \in Nat /\ call.end \in Nat
      /\ chain \in Chains /\ \A f \in Endpoint : height[f] \in Blocks
      /\ DOMAIN call = {"pc", "start", "end", "logs", "knew", "result"}
  BY <1>1, ChainIsOK DEF JoinInv, LogsInHand, IndInv, Type
<1>3. to \in 0..MaxBlock /\ Listed(logs, call.start, to)
  BY <1>2, GetLogsLists
<1> HIDE DEF logs
<1>4. /\ call'.pc = (IF logs = <<>> THEN "done" ELSE "GetBlocksAndTxs")
      /\ call'.logs = logs /\ call'.knew = height[e] /\ call'.start = call.start
      /\ call'.end = call.end /\ call'.result = call.result
  BY <1>1, <1>2
<1>5. Min({call'.end, call'.knew}) = to
  BY <1>4
<1> HIDE DEF to
<1>6. CASE logs = <<>>
  <2>1. call'.result = Due(call.start, to)
    BY <1>1, <1>2, <1>3, <1>4, <1>6, NothingDue DEF JoinInv, LogsInHand
  <2>2. Due(call.start, Min({call.end, call.knew}))' = Due(call.start, to)
    BY <1>1, <1>4, <1>5, RecordedStays DEF Due
  <2>3. call'.pc = "done"
    BY <1>4, <1>6
  <2> QED BY <1>1, <1>2, <2>1, <2>2, <2>3 DEF LogsInHand, FetchExact
<1>7. CASE logs # <<>>
  <2>1. Listed(call.logs, call.start, Min({call.end, call.knew}))'
    <3> DEFINE range == call.start
               upto == Min({call.end, call.knew})
    <3>1. call'.logs = logs /\ range' = call.start /\ upto' = to /\ chain' = chain
      BY <1>1, <1>4, <1>5
    <3> HIDE DEF range, upto
    <3>2. Listed(call.logs, range, upto)'
      BY <1>3, <3>1 DEF Listed, Log
    <3> QED BY <3>2 DEF range, upto
  <2>2. call'.pc = "GetBlocksAndTxs"
    BY <1>4, <1>7
  <2> QED BY <1>1, <1>2, <1>3, <1>4, <1>5, <2>1, <2>2 DEF LogsInHand, FetchExact
<1> QED BY <1>6, <1>7

LEMMA GetBlocksAndTxsJoins ==
    ASSUME JoinInv, NEW e \in Endpoint, GetBlocksAndTxs(e)
    PROVE  LogsInHand' /\ FetchExact'
<1> DEFINE answer == getBlocksAndTxs(e, bnsOf(call.logs), txHashesOf(call.logs))
           data   == dataToSave(call.logs, answer)
           to     == Min({call.end, call.knew})
<1>1. /\ call.pc = "GetBlocksAndTxs" /\ UNCHANGED <<chain, blockTag, height>>
      /\ \/ call' = [call EXCEPT !.pc = "panic"]
         \/ ~Dereferences(answer) /\ call' = [call EXCEPT !.pc = "done", !.result = data]
  BY DEF GetBlocksAndTxs
<1>2. /\ ChainOK /\ chain \in Chains /\ \A f \in Endpoint : height[f] \in Blocks
      /\ call.start \in Nat /\ to \in 0..MaxBlock /\ Listed(call.logs, call.start, to)
      /\ DOMAIN call = {"pc", "start", "end", "logs", "knew", "result"}
  BY <1>1, ChainIsOK DEF JoinInv, LogsInHand, IndInv, Type
<1>3. ~Dereferences(answer) => data = Due(call.start, to)
  <2>1. answer = getBlocksAndTxs(e, bnsOf(call.logs), txHashesOf(call.logs))
    OBVIOUS
  <2> HIDE DEF answer, to
  <2> QED BY <1>2, <2>1, JoinIsExact
<1> HIDE DEF data, answer
<1>4. /\ call'.start = call.start /\ call'.end = call.end /\ call'.knew = call.knew
      /\ call'.pc = "panic" \/ (call'.pc = "done" /\ call'.result = Due(call.start, to))
  BY <1>1, <1>2, <1>3
<1>5. Due(call.start, Min({call.end, call.knew}))' = Due(call.start, to)
  BY <1>1, <1>4, RecordedStays DEF Due
<1> QED BY <1>1, <1>2, <1>4, <1>5 DEF LogsInHand, FetchExact

\* The other steps leave the chain, and a call in progress, alone.
LEMMA RestJoins ==
    ASSUME JoinInv, Next, \A e \in Endpoint : ~GetLogs(e) /\ ~GetBlocksAndTxs(e)
    PROVE  LogsInHand' /\ FetchExact'
<1>1. DOMAIN call = {"pc", "start", "end", "logs", "knew", "result"} /\ MaxBlock \in Nat
  BY FetchDataAssumption DEF JoinInv, IndInv, Type
<1>2. ASSUME NEW e \in Endpoint, Sync(e)
      PROVE  LogsInHand' /\ FetchExact'
  <2>1. /\ height[e] < MaxBlock /\ height' = [height EXCEPT ![e] = height[e] + 1]
        /\ UNCHANGED <<chain, blockTag, call>> /\ height \in [Endpoint -> Nat]
    BY <1>2 DEF Sync, JoinInv, IndInv, Type
  <2>2. \A f \in Endpoint : height'[f] \in Blocks
    BY <1>1, <2>1 DEF JoinInv, LogsInHand, Blocks
  <2>3. LogsInHand'
    BY <2>1, <2>2 DEF JoinInv, LogsInHand, Listed, Log
  <2>4. FetchExact'
    BY <2>1, RecordedStays DEF JoinInv, FetchExact, Due
  <2> QED BY <2>3, <2>4
<1>3. CASE fetchData
  <2>0. PICK e \in Endpoint : \E end \in 0..getBlockFromTag(e) : \E start \in 0..end :
          call' = [NoCall EXCEPT !.pc = "GetLogs", !.start = start, !.end = end]
    BY <1>3 DEF fetchData
  <2>1. PICK end \in 0..getBlockFromTag(e) : \E start \in 0..end :
          call' = [NoCall EXCEPT !.pc = "GetLogs", !.start = start, !.end = end]
    BY <2>0
  <2>2. PICK start \in 0..end :
          call' = [NoCall EXCEPT !.pc = "GetLogs", !.start = start, !.end = end]
    BY <2>1
  <2>3. getBlockFromTag(e) \in Int
    <3>1. height[e] \in Int /\ Depth[blockTag] \in Int
      BY FetchDataAssumption DEF JoinInv, IndInv, Type
    <3> QED BY <3>1, MaxWithZero DEF getBlockFromTag
  <2>4. end \in Nat /\ start \in Nat
    BY <2>3
  <2>5. /\ call'.pc = "GetLogs" /\ call'.start = start /\ call'.end = end
        /\ call'.result = NoData
    BY <2>2 DEF NoCall
  <2> QED BY <1>3, <2>4, <2>5 DEF fetchData, JoinInv, LogsInHand, FetchExact
<1>4. CASE Fails
  <2>1. call'.pc = "error"
    BY <1>1, <1>4 DEF Fails
  <2> QED BY <1>4, <2>1 DEF Fails, JoinInv, LogsInHand, FetchExact
<1>5. CASE Return
  <2>1. call'.pc = "idle"
    BY <1>5 DEF Return, NoCall
  <2> QED BY <1>5, <2>1 DEF Return, JoinInv, LogsInHand, FetchExact
<1> QED BY <1>2, <1>3, <1>4, <1>5 DEF Next

\* Whatever mix of endpoints answers the two calls, a result that is returned has
\* exactly the records of the range, as far as the endpoint that answered
\* GetLogs knew the chain: fetcher.go:67-155.
THEOREM FetchIsExact == Spec => []FetchExact
<1>1. JoinInv /\ [Next]_vars => JoinInv'
  <2> SUFFICES ASSUME JoinInv, [Next]_vars PROVE JoinInv'
    OBVIOUS
  <2>1. IndInv'
    BY NextKeeps DEF JoinInv
  <2>2. CASE UNCHANGED vars
    <3>1. LogsInHand'
      BY <2>2 DEF vars, JoinInv, LogsInHand, Listed, Log
    <3>2. FetchExact'
      BY <2>2, RecordedStays DEF vars, JoinInv, FetchExact, Due
    <3> QED BY <2>1, <3>1, <3>2 DEF JoinInv
  <2>3. CASE \E e \in Endpoint : GetLogs(e)
    BY <2>1, <2>3, GetLogsJoins DEF JoinInv
  <2>4. CASE \E e \in Endpoint : GetBlocksAndTxs(e)
    BY <2>1, <2>4, GetBlocksAndTxsJoins DEF JoinInv
  <2>5. CASE Next /\ \A e \in Endpoint : ~GetLogs(e) /\ ~GetBlocksAndTxs(e)
    BY <2>1, <2>5, RestJoins DEF JoinInv
  <2> QED BY <2>2, <2>3, <2>4, <2>5
<1>2. JoinInv => FetchExact
  BY DEF JoinInv
<1> QED BY <1>1, <1>2, InitJoins, PTL DEF Spec

\* A result misses at most the last blocks of its range, as many as the lag
\* between endpoints exceeds the depth of the tag, and none if the tag is as
\* deep as they lag: getBlockFromTag of any of them (rpc.go:73) is a block that
\* all of them know but for those.
THEOREM DeepTagCompletes == Spec => []FetchComplete
<1>1. IndInv => (FetchExact => FetchComplete)
  <2> SUFFICES ASSUME IndInv, FetchExact, call.pc = "done"
               PROVE  \E missing \in 0..MaxShort :
                        call.result = Due(call.start, call.end - missing)
    BY DEF FetchComplete
  <2> DEFINE upTo == Min({call.end, call.knew})
  <2>1. call.end \in Nat /\ call.knew \in Nat /\ call.end <= call.knew + MaxShort
    BY DEF IndInv, InReach
  <2>2. MaxShort \in Nat
    BY FetchDataAssumption DEF IndInv, Type, MaxShort
  <2>3. upTo = IF call.end <= call.knew THEN call.end ELSE call.knew
    BY <2>1, MinIsOf
  <2>4. call.end - upTo \in 0..MaxShort /\ call.end - (call.end - upTo) = upTo
    BY <2>1, <2>2, <2>3
  <2>5. call.result = Due(call.start, upTo)
    BY DEF FetchExact
  <2> QED BY <2>4, <2>5
<1> QED BY <1>1, InitHolds, NextKeeps, FetchIsExact, PTL DEF Spec
=============================================================================
