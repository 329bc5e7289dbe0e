---------------------------- MODULE RouterProofs ----------------------------
(***************************************************************************)
(* Proofs about module Router: for any chain, word size, number of         *)
(* clients, restarts and changes of mode, following the pages of /data     *)
(* skips, repeats and misplaces no entry.                                  *)
(*                                                                         *)
(* The argument: the keys of the bucket are an interval from 0, since the  *)
(* key counter never runs ahead of them (KeysInv).  Hence the n-th key a   *)
(* cursor visits from startIndex is startIndex + n - 1 (PageIs), and a     *)
(* client's next index is its first index plus the number of entries it    *)
(* has received (ClientInv).                                               *)
(***************************************************************************)
EXTENDS Router, FlattenFacts, FiniteSetTheorems

Entries == [Index : Int, Data : Records]

\* The keys are 0 .. n - 1, as far as ints go, and the counter is among them.
KeysUpTo(n) ==
    /\ n \in Nat /\ n \in Ints
    /\ DOMAIN dbData = 0..(n - 1)
    /\ \A k \in DOMAIN dbData : dbData[k] \in Records
    /\ currIndex \in 0..n

KeysInv == \E n \in Nat : KeysUpTo(n)

BlocksInv == dbLast \in -1..MaxBlock /\ currBlock \in 0..(MaxBlock + 1)

Requests == [pc : {"idle", "next", "sent", "end"}, first : Ints, startIndex : Int,
             limit : Int, seen : Seq(Entries),
             since : {"same", "overwritten", "emptied"}]

\* What a client has received are the entries from its first index on.
Received(r) ==
    r.since # "emptied" =>
        \A i \in 1..Len(r.seen) :
            /\ r.first + i - 1 \in DOMAIN dbData
            /\ r.seen[i].Index = r.first + i - 1
            /\ r.since = "same" => r.seen[i].Data = dbData[r.first + i - 1]

RequestInv(r) ==
    /\ r \in Requests
    /\ r.startIndex = r.first + Len(r.seen)
    /\ Received(r)

ClientInv == DOMAIN client = Client /\ \A c \in Client : RequestInv(client[c])

IndInv == KeysInv /\ BlocksInv /\ ClientInv

-----------------------------------------------------------------------------
(* A page. *)

\* The n-th key of an interval.
LEMMA NthKeyIs ==
    ASSUME NEW s \in Int, NEW e \in Int, NEW n \in 1..(e - s + 1)
    PROVE  NthKey(s..e, n) = s + n - 1
<1>1. ASSUME NEW k \in s..e
      PROVE  Cardinality({j \in s..e : j < k}) = k - s
  <2>1. {j \in s..e : j < k} = s..(k - 1)
    OBVIOUS
  <2>2. Cardinality(s..(k - 1)) = IF s > k - 1 THEN 0 ELSE (k - 1) - s + 1
    BY FS_Interval
  <2>3. Cardinality(s..(k - 1)) = k - s
    BY <2>2
  <2> QED BY <2>1, <2>3, Zenon
<1>3. \A k \in s..e : Cardinality({j \in s..e : j < k}) = n - 1 <=> k = s + n - 1
  BY <1>1
<1>4. s + n - 1 \in s..e
  OBVIOUS
<1> QED BY <1>3, <1>4 DEF NthKey

\* The keys from startIndex on: none if it is negative, since then it encodes
\* to a word beyond the largest key.
LEMMA SeekIs ==
    ASSUME NEW n \in Nat, KeysUpTo(n), NEW s \in Int, -Word <= 2 * s
    PROVE  Seek(IntToBytes(s)) = IF s >= 0 THEN s..(n - 1) ELSE {}
<1>1. Word \in Nat
  BY RouterAssumption
<1>2. n \in Int /\ 2 * n < Word
  BY DEF KeysUpTo, Ints
<1>3. DOMAIN dbData = 0..(n - 1)
  BY DEF KeysUpTo
<1> QED BY <1>1, <1>2, <1>3 DEF Seek, IntToBytes

\* What GetPaginated returns: the entries from startIndex on, and fewer than
\* the limit only if there are no more.
LEMMA PageIs ==
    ASSUME NEW n \in Nat, KeysUpTo(n), NEW s \in Int, -Word <= 2 * s,
           NEW limit \in Nat \ {0}
    PROVE  /\ GetPaginated(s, limit) \in Seq(Entries)
           /\ Len(GetPaginated(s, limit)) > 0 =>
                s >= 0 /\ s + Len(GetPaginated(s, limit)) <= n
           /\ \A i \in 1..Len(GetPaginated(s, limit)) :
                GetPaginated(s, limit)[i] = [Index |-> s + i - 1, Data |-> dbData[s + i - 1]]
           /\ s >= 0 /\ Len(GetPaginated(s, limit)) # limit =>
                s + Len(GetPaginated(s, limit)) >= n
<1> DEFINE keys == Seek(IntToBytes(s))
           m    == Least(limit, Cardinality(keys))
           page == GetPaginated(s, limit)
<1>1. Cardinality(keys) = IF s >= 0 /\ s < n THEN n - s ELSE 0
  <2>1. CASE s >= 0
    <3>1. keys = s..(n - 1)
      BY <2>1, SeekIs
    <3>2. Cardinality(s..(n - 1)) = IF s > n - 1 THEN 0 ELSE (n - 1) - s + 1
      BY FS_Interval
    <3> QED BY <2>1, <3>1, <3>2
  <2>2. CASE s < 0
    <3>1. keys = {}
      BY <2>2, SeekIs
    <3> QED BY <2>2, <3>1, FS_EmptySet
  <2> QED BY <2>1, <2>2
<1>2. /\ m \in Nat /\ m <= limit
      /\ m > 0 => s >= 0 /\ s + m <= n
      /\ s >= 0 /\ m # limit => s + m >= n
  BY <1>1 DEF Least
<1>3. page = [i \in 1..m |-> ToJSON(NthKey(keys, i))]
  BY DEF GetPaginated
<1>4. ASSUME NEW i \in 1..m
      PROVE  /\ ToJSON(NthKey(keys, i)) = [Index |-> s + i - 1, Data |-> dbData[s + i - 1]]
             /\ ToJSON(NthKey(keys, i)) \in Entries
  <2>1. s >= 0 /\ s + m <= n
    BY <1>2
  <2>2. keys = s..(n - 1)
    BY <2>1, SeekIs
  <2>3. i \in 1..((n - 1) - s + 1)
    BY <1>2, <2>1
  <2>4. NthKey(keys, i) = s + i - 1
    BY <2>2, <2>3, NthKeyIs
  <2>5. s + i - 1 \in DOMAIN dbData
    BY <1>2, <2>1 DEF KeysUpTo
  <2>6. BytesToInt(s + i - 1) = s + i - 1
    BY <1>2, <2>1, RouterAssumption DEF BytesToInt, KeysUpTo, Ints
  <2>7. dbData[s + i - 1] \in Records
    BY <2>5 DEF KeysUpTo
  <2> QED BY <2>4, <2>6, <2>7 DEF ToJSON, Entries
<1> HIDE DEF m, keys
<1>5. page \in Seq(Entries) /\ Len(page) = m
  BY <1>2, <1>3, <1>4
<1>6. \A i \in 1..m : page[i] = [Index |-> s + i - 1, Data |-> dbData[s + i - 1]]
  BY <1>3, <1>4
<1> QED BY <1>2, <1>5, <1>6

-----------------------------------------------------------------------------
(* The steps. *)

\* An index that is emptied, or not.
LEMMA StartOrchestratorKeeps ==
    ASSUME IndInv, NEW mode \in {ModeRange, ModeFull}, NEW start \in 1..MaxBlock,
           StartOrchestrator(mode, start)
    PROVE  IndInv'
<1>1. BlocksInv'
  BY RouterAssumption DEF IndInv, BlocksInv, StartOrchestrator, StartDB
<1>2. CASE Wipes(mode)
  <2>1. DOMAIN dbData' = {} /\ currIndex' = 0
    BY <1>2 DEF StartOrchestrator, StartDB, EmptyBucket
  <2>2. 0 \in Ints
    BY RouterAssumption DEF Ints
  <2>3. KeysUpTo(0)'
    BY <2>1, <2>2 DEF KeysUpTo
  <2>4. KeysInv'
    BY <2>3 DEF KeysInv
  <2>5. client' = Note("emptied")
    BY <1>2 DEF StartOrchestrator
  <2>6. ASSUME NEW c \in Client PROVE RequestInv(client[c])'
    <3>1. client'[c] = [client[c] EXCEPT !.since = "emptied"]
      BY <2>5 DEF Note
    <3>2. client[c] \in Requests /\ client[c].startIndex = client[c].first + Len(client[c].seen)
      BY DEF IndInv, ClientInv, RequestInv
    <3> QED BY <3>1, <3>2 DEF RequestInv, Requests, Received
  <2> QED BY <1>1, <2>4, <2>5, <2>6 DEF IndInv, ClientInv, Note
<1>3. CASE ~Wipes(mode)
  <2>1. dbData' = dbData /\ currIndex' = 0 /\ client' = client
    BY <1>3 DEF StartOrchestrator, StartDB
  <2>2. PICK n \in Nat : KeysUpTo(n)
    BY DEF IndInv, KeysInv
  <2>3. KeysUpTo(n)'
    BY <2>1, <2>2 DEF KeysUpTo
  <2>4. KeysInv'
    BY <2>3 DEF KeysInv
  <2>5. ClientInv'
    BY <2>1 DEF IndInv, ClientInv, RequestInv, Received
  <2> QED BY <1>1, <2>4, <2>5 DEF IndInv
<1> QED BY <1>2, <1>3

\* A save: the new keys join the interval, and a client that has received a
\* record that is written over is marked.
LEMMA SaveKeeps ==
    ASSUME IndInv, NEW lastBlock \in Blocks, Save(lastBlock)
    PROVE  IndInv'
<1> DEFINE seqs == [j \in 1..(lastBlock - currBlock + 1) |-> Events(currBlock + j - 1)]
           saved == FlattenSeq(seqs)
           registers == [k \in currIndex..(currIndex + Len(saved) - 1) |->
                           saved[k - currIndex + 1]]
<1>1. lastBlock \in 0..MaxBlock /\ currBlock \in 0..(MaxBlock + 1) /\ MaxBlock \in Nat
      /\ currBlock <= lastBlock
  BY RouterAssumption DEF IndInv, BlocksInv, Blocks, Save
<1>2. saved \in Seq(Records)
  <2>1. \A j \in 1..(lastBlock - currBlock + 1) : Events(currBlock + j - 1) \in Seq(Records)
    BY <1>1, RouterAssumption DEF Blocks
  <2>2. lastBlock - currBlock + 1 \in Nat
    BY <1>1
  <2>3. seqs \in Seq(Seq(Records))
    BY <2>1, <2>2
  <2> QED BY <2>3, FlattenSeqType
<1>3. /\ dbData' = Put(dbData, registers) /\ dbLast' = lastBlock
      /\ currBlock' = lastBlock + 1 /\ currIndex' = currIndex + Len(saved)
      /\ currIndex + Len(saved) \in Ints
      /\ client' = IF DOMAIN registers \cap DOMAIN dbData = {}
                   THEN client ELSE Note("overwritten")
  BY DEF Save, SaveData
<1> HIDE DEF seqs, saved
<1>4. BlocksInv'
  BY <1>1, <1>3 DEF BlocksInv
<1>5. PICK n \in Nat : KeysUpTo(n)
  BY DEF IndInv, KeysInv
<1>6. /\ Len(saved) \in Nat /\ currIndex \in 0..n
      /\ \A i \in 1..Len(saved) : saved[i] \in Records
  BY <1>2, <1>5 DEF KeysUpTo
<1>7. /\ DOMAIN registers = currIndex..(currIndex + Len(saved) - 1)
      /\ \A k \in DOMAIN registers : registers[k] \in Records
  BY <1>6
<1> HIDE DEF registers
<1>8. /\ DOMAIN dbData' = DOMAIN dbData \cup DOMAIN registers
      /\ \A k \in DOMAIN dbData' :
           dbData'[k] = IF k \in DOMAIN registers THEN registers[k] ELSE dbData[k]
  BY <1>3 DEF Put
<1>9. KeysInv'
  <2>0. PICK m \in Nat :
             m = IF currIndex + Len(saved) > n THEN currIndex + Len(saved) ELSE n
    BY <1>6
  <2>1. m \in Ints
    BY <2>0, <1>3, <1>5, <1>6 DEF KeysUpTo
  <2>2. DOMAIN dbData' = 0..(m - 1)
    BY <2>0, <1>5, <1>6, <1>7, <1>8 DEF KeysUpTo
  <2>3. \A k \in DOMAIN dbData' : dbData'[k] \in Records
    BY <1>5, <1>7, <1>8 DEF KeysUpTo
  <2>4. currIndex' \in 0..m
    BY <2>0, <1>3, <1>6
  <2>5. KeysUpTo(m)'
    BY <2>1, <2>2, <2>3, <2>4 DEF KeysUpTo
  <2> QED BY <2>1, <2>5 DEF KeysInv
<1>10. ASSUME NEW c \in Client PROVE RequestInv(client[c])'
  <2>1. RequestInv(client[c])
    BY DEF IndInv, ClientInv
  <2>2. CASE DOMAIN registers \cap DOMAIN dbData = {}
    <3>1. client'[c] = client[c]
      BY <1>3, <2>2
    <3>2. \A k \in DOMAIN dbData : k \in DOMAIN dbData' /\ dbData'[k] = dbData[k]
      BY <1>8, <2>2
    <3> QED BY <2>1, <3>1, <3>2 DEF RequestInv, Received
  <2>3. CASE DOMAIN registers \cap DOMAIN dbData # {}
    <3>1. client'[c] = [client[c] EXCEPT !.since =
                          IF @ = "emptied" THEN @ ELSE "overwritten"]
      BY <1>3, <2>3 DEF Note
    <3>2. \A k \in DOMAIN dbData : k \in DOMAIN dbData'
      BY <1>8
    <3>3. client[c] \in Requests /\ client[c].startIndex = client[c].first + Len(client[c].seen)
      BY <2>1 DEF RequestInv
    <3>4. /\ client'[c] \in Requests
          /\ client'[c].startIndex = client'[c].first + Len(client'[c].seen)
          /\ client'[c].first = client[c].first /\ client'[c].seen = client[c].seen
          /\ client'[c].since # "same"
          /\ client'[c].since # "emptied" => client[c].since # "emptied"
      BY <3>1, <3>3 DEF Requests
    <3>5. Received(client[c])'
      BY <2>1, <3>2, <3>4 DEF RequestInv, Received
    <3> QED BY <3>4, <3>5 DEF RequestInv
  <2> QED BY <2>2, <2>3
<1>11. DOMAIN client' = Client
  BY <1>3 DEF IndInv, ClientInv, Note
<1> QED BY <1>4, <1>9, <1>10, <1>11 DEF IndInv, ClientInv

\* A step that leaves the database alone keeps what is known of the other
\* clients.
LEMMA OthersKeep ==
    ASSUME IndInv, UNCHANGED processVars, NEW c \in Client, NEW r,
           client' = [client EXCEPT ![c] = r], RequestInv(r)
    PROVE  IndInv'
<1>1. KeysInv' /\ BlocksInv'
  BY DEF IndInv, KeysInv, KeysUpTo, BlocksInv, processVars, dbVars
<1>2. dbData' = dbData
  BY DEF processVars, dbVars
<1>3. DOMAIN client = Client
  BY DEF IndInv, ClientInv
<1>4. ASSUME NEW d \in Client PROVE RequestInv(client[d])'
  <2>1. RequestInv(client'[d])
    BY <1>3 DEF IndInv, ClientInv
  <2> QED BY <1>2, <2>1 DEF RequestInv, Received
<1> QED BY <1>1, <1>3, <1>4 DEF IndInv, ClientInv

\* The fields of a client after its answer.
LEMMA WithPageIs ==
    ASSUME NEW r \in Requests, NEW page \in Seq(Entries), NEW limit \in Int
    PROVE  /\ WithPage(r, page, limit) \in Requests
           /\ WithPage(r, page, limit).pc = IF Len(page) = limit THEN "next" ELSE "end"
           /\ WithPage(r, page, limit).first = r.first
           /\ WithPage(r, page, limit).since = r.since
           /\ WithPage(r, page, limit).startIndex = r.startIndex + Len(page)
           /\ WithPage(r, page, limit).seen = r.seen \o page
<1>1. r.startIndex + Len(page) \in Int /\ r.seen \o page \in Seq(Entries)
  BY DEF Requests
<1> QED BY <1>1 DEF WithPage, Requests, nextIndex, hasNextPage

\* The handler appends a page to what the client has received.
LEMMA getPaginatedKeeps ==
    ASSUME IndInv, NEW c \in Client, getPaginated(c)
    PROVE  IndInv'
<1> DEFINE r == client[c]
           limit == EffectiveLimit(r.limit)
           page == GetPaginated(r.startIndex, limit)
           q == WithPage(r, page, limit)
<1>1. RequestInv(r) /\ client' = [client EXCEPT ![c] = q] /\ UNCHANGED processVars
  BY DEF IndInv, ClientInv, getPaginated
<1>2. /\ r \in Requests /\ r.first \in Int /\ r.startIndex \in Int /\ r.limit \in Int
      /\ r.seen \in Seq(Entries) /\ Len(r.seen) \in Nat
      /\ r.startIndex = r.first + Len(r.seen) /\ -Word <= 2 * r.first /\ Word \in Nat
  BY <1>1, RouterAssumption DEF RequestInv, Requests, Ints
<1>3. limit \in Nat \ {0}
  BY <1>2, RouterAssumption DEF EffectiveLimit
<1>4. PICK n \in Nat : KeysUpTo(n)
  BY DEF IndInv, KeysInv
<1>5. -Word <= 2 * r.startIndex
  BY <1>2
<1>6. /\ page \in Seq(Entries)
      /\ Len(page) > 0 => r.startIndex >= 0 /\ r.startIndex + Len(page) <= n
      /\ \A i \in 1..Len(page) :
           page[i] = [Index |-> r.startIndex + i - 1, Data |-> dbData[r.startIndex + i - 1]]
  BY <1>2, <1>3, <1>4, <1>5, PageIs
<1> HIDE DEF r, page, limit
<1>61. r \in Requests /\ page \in Seq(Entries) /\ limit \in Int
  BY <1>2, <1>3, <1>6
<1>62. Len(page) \in Nat
  BY <1>6
<1>7. /\ q \in Requests /\ q.first = r.first /\ q.since = r.since
      /\ q.seen = r.seen \o page /\ q.startIndex = r.startIndex + Len(page)
  <2>1. /\ q \in Requests /\ q.first = r.first /\ q.since = r.since
    BY <1>61, WithPageIs
  <2>2. q.seen = r.seen \o page
    BY <1>61, WithPageIs
  <2>3. q.startIndex = r.startIndex + Len(page)
    BY <1>61, WithPageIs
  <2> QED BY <2>1, <2>2, <2>3
<1> HIDE DEF q
<1>8. /\ Len(q.seen) = Len(r.seen) + Len(page) /\ Len(page) \in Nat
      /\ \A i \in 1..Len(q.seen) :
           q.seen[i] = IF i <= Len(r.seen) THEN r.seen[i] ELSE page[i - Len(r.seen)]
  BY <1>2, <1>6, <1>7
<1>81. Len(r.seen) \in Nat /\ Len(page) \in Nat /\ Len(q.seen) = Len(r.seen) + Len(page)
  BY <1>2, <1>62, <1>8
<1>82. \A i \in 1..Len(q.seen) :
         q.seen[i] = IF i <= Len(r.seen) THEN r.seen[i] ELSE page[i - Len(r.seen)]
  BY <1>8
<1>9. Received(q)
  <2> SUFFICES ASSUME q.since # "emptied", NEW i \in 1..Len(q.seen)
               PROVE  /\ q.first + i - 1 \in DOMAIN dbData
                      /\ q.seen[i].Index = q.first + i - 1
                      /\ q.since = "same" => q.seen[i].Data = dbData[q.first + i - 1]
    BY DEF Received
  <2>1. CASE i <= Len(r.seen)
    <3>1. i \in 1..Len(r.seen) /\ q.seen[i] = r.seen[i]
      BY <1>81, <1>82, <2>1
    <3> QED BY <1>1, <1>7, <3>1 DEF RequestInv, Received
  <2>2. CASE i > Len(r.seen)
    <3>1. i - Len(r.seen) \in 1..Len(page) /\ q.seen[i] = page[i - Len(r.seen)]
      <4>1. q.seen[i] = page[i - Len(r.seen)]
        BY <1>82, <1>81, <2>2
      <4>2. i - Len(r.seen) \in 1..Len(page)
        BY <1>81, <2>2
      <4> QED BY <4>1, <4>2
    <3>2. r.startIndex + (i - Len(r.seen)) - 1 = q.first + i - 1
      BY <1>2, <1>7
    <3>3. q.seen[i] = [Index |-> q.first + i - 1, Data |-> dbData[q.first + i - 1]]
      BY <1>6, <3>1, <3>2
    <3>4. q.first + i - 1 \in 0..(n - 1)
      <4>1. i \in Int /\ Len(page) > 0 /\ i <= Len(r.seen) + Len(page)
        BY <1>2, <1>62, <1>8, <2>2
      <4>2. r.first + Len(r.seen) >= 0 /\ r.first + Len(r.seen) + Len(page) <= n
        BY <1>2, <1>6, <4>1
      <4>3. r.first + i - 1 \in 0..(n - 1)
        <5>1. r.first \in Int /\ Len(r.seen) \in Nat /\ Len(page) \in Nat /\ i \in Int
          BY <1>2, <1>62, <4>1
        <5> QED BY <5>1, <4>1, <4>2, <2>2
      <4> QED BY <1>7, <4>3
    <3> QED BY <1>4, <3>3, <3>4 DEF KeysUpTo
  <2> QED BY <1>2, <2>1, <2>2
<1>10. RequestInv(q)
  BY <1>2, <1>7, <1>8, <1>9 DEF RequestInv
<1> QED BY <1>1, <1>10, OthersKeep

\* A client's first request.
LEMMA FirstKeeps ==
    ASSUME IndInv, NEW c \in Client, First(c)
    PROVE  IndInv'
<1>1. PICK startIndex \in StartIndexes, limit \in Limits :
        client' = [client EXCEPT ![c] =
                     [NoRequest EXCEPT !.pc = "next", !.first = startIndex,
                                       !.startIndex = startIndex, !.limit = limit]]
  BY DEF First
<1> DEFINE r == [NoRequest EXCEPT !.pc = "next", !.first = startIndex,
                                  !.startIndex = startIndex, !.limit = limit]
<1>2. startIndex \in Ints /\ startIndex \in Int /\ limit \in Int
  BY RouterAssumption DEF Ints
<1>3. NoRequest \in Requests /\ NoRequest.seen = <<>>
  BY RouterAssumption DEF NoRequest, Requests, Ints
<1>4. r \in Requests /\ r.startIndex = r.first /\ r.seen = NoRequest.seen
  BY <1>2, <1>3 DEF Requests
<1>5. RequestInv(r)
  <2> HIDE DEF r
  <2>1. r.first \in Int
    BY <1>4 DEF Requests, Ints
  <2> QED BY <1>3, <1>4, <2>1 DEF RequestInv, Received
<1>6. client' = [client EXCEPT ![c] = r] /\ UNCHANGED processVars
  BY <1>1 DEF First
<1> HIDE DEF r
<1> QED BY <1>5, <1>6, OthersKeep

\* A request changes its place only.
LEMMA PlaceKeeps ==
    ASSUME NEW r, RequestInv(r), NEW pc \in {"idle", "next", "sent", "end"}
    PROVE  RequestInv([r EXCEPT !.pc = pc])
<1>1. r \in Requests /\ r.startIndex = r.first + Len(r.seen) /\ Received(r)
  BY DEF RequestInv
<1> DEFINE q == [r EXCEPT !.pc = pc]
<1>2. /\ q \in Requests /\ q.first = r.first /\ q.seen = r.seen /\ q.since = r.since
      /\ q.startIndex = r.startIndex
  BY <1>1 DEF Requests
<1> HIDE DEF q
<1>3. RequestInv(q)
  BY <1>1, <1>2 DEF RequestInv, Received
<1> QED BY <1>3 DEF q

\* Every step keeps the invariant.
LEMMA NextKeeps ==
    ASSUME IndInv, [Next]_vars
    PROVE  IndInv'
<1>1. ASSUME NEW mode \in {ModeRange, ModeFull}, NEW start \in 1..MaxBlock,
             StartOrchestrator(mode, start)
      PROVE  IndInv'
  BY <1>1, StartOrchestratorKeeps
<1>2. ASSUME NEW lastBlock \in Blocks, Save(lastBlock)
      PROVE  IndInv'
  BY <1>2, SaveKeeps
<1>3. ASSUME UNCHANGED <<processVars, client>>
      PROVE  IndInv'
  <2>1. dbData' = dbData /\ dbLast' = dbLast /\ currBlock' = currBlock
        /\ currIndex' = currIndex /\ client' = client
    BY <1>3 DEF processVars, dbVars
  <2> QED BY <2>1 DEF IndInv, KeysInv, KeysUpTo, BlocksInv, ClientInv, RequestInv, Received
<1>4. CASE ProcessEnds
  <2>1. dbData' = dbData /\ dbLast' = dbLast /\ currBlock' = currBlock
        /\ currIndex' = currIndex /\ DOMAIN client' = Client
    BY <1>4 DEF ProcessEnds, processVars, dbVars
  <2>2. KeysInv' /\ BlocksInv'
    BY <2>1 DEF IndInv, KeysInv, KeysUpTo, BlocksInv
  <2>3. ASSUME NEW c \in Client PROVE RequestInv(client[c])'
    <3>1. RequestInv(client[c])
      BY DEF IndInv, ClientInv
    <3>2. client'[c] = client[c] \/ client'[c] = [client[c] EXCEPT !.pc = "next"]
      BY <1>4 DEF ProcessEnds
    <3>3. RequestInv([client[c] EXCEPT !.pc = "next"])
      BY <3>1, PlaceKeeps
    <3>4. RequestInv(client'[c])
      BY <3>1, <3>2, <3>3
    <3> QED BY <2>1, <3>4 DEF RequestInv, Received
  <2> QED BY <2>1, <2>2, <2>3 DEF IndInv, ClientInv
<1>5. ASSUME NEW c \in Client, Send(c)
      PROVE  IndInv'
  <2>1. /\ client' = [client EXCEPT ![c] = [client[c] EXCEPT !.pc = "sent"]]
        /\ UNCHANGED processVars
    BY <1>5 DEF Send
  <2>2. RequestInv(client[c])
    BY DEF IndInv, ClientInv
  <2>3. RequestInv([client[c] EXCEPT !.pc = "sent"])
    BY <2>2, PlaceKeeps
  <2> QED BY <2>1, <2>3, OthersKeep
<1>6. CASE UNCHANGED vars
  BY <1>3, <1>6 DEF vars, processVars
<1> QED
  BY <1>1, <1>2, <1>3, <1>4, <1>5, <1>6, FirstKeeps, getPaginatedKeeps DEF Next, Serve

LEMMA InitHolds == Init => IndInv
<1> SUFFICES ASSUME Init PROVE IndInv
  OBVIOUS
<1>1. KeysUpTo(0)
  BY RouterAssumption DEF Init, NewPersistor, EmptyBucket, KeysUpTo, Ints
<1>2. BlocksInv
  BY RouterAssumption DEF Init, NewPersistor, BlocksInv
<1>3. 0 \in Ints
  BY RouterAssumption DEF Ints
<1>4. RequestInv(NoRequest)
  BY <1>3 DEF RequestInv, NoRequest, Requests, Received
<1>5. ClientInv
  BY <1>4 DEF Init, ClientInv
<1> QED BY <1>1, <1>2, <1>5 DEF IndInv, KeysInv

-----------------------------------------------------------------------------
(* The theorems. *)

LEMMA Invariance == Spec => []IndInv
<1> QED BY InitHolds, NextKeeps, PTL DEF Spec

\* Following the pages of /data from any index leaves nothing out, repeats
\* nothing and keeps the order, across saves, restarts and changes of mode, as
\* long as the database is not emptied.
THEOREM PagesAreExact == Spec => []PagesExact
<1>1. IndInv => PagesExact
  <2> SUFFICES ASSUME IndInv, NEW c \in Client, client[c].since # "emptied",
                      NEW n \in DOMAIN client[c].seen
               PROVE  /\ client[c].first + n - 1 \in DOMAIN dbData
                      /\ client[c].seen[n].Index = client[c].first + n - 1
                      /\ client[c].since = "same" =>
                           client[c].seen[n].Data = dbData[client[c].first + n - 1]
    BY DEF PagesExact
  <2>1. client[c] \in Requests /\ Received(client[c])
    BY DEF IndInv, ClientInv, RequestInv
  <2>2. client[c].seen \in Seq(Entries)
    BY <2>1 DEF Requests
  <2>3. n \in 1..Len(client[c].seen)
    BY <2>2
  <2> QED BY <2>1, <2>3 DEF Received
<1> QED BY <1>1, Invariance, PTL

\* A client that is not given a next page has all that was stored, from its
\* first index on, when its last page was read.
THEOREM LastPageIsLast == Spec => ReadToTheEnd
<1> DEFINE A == \A c \in Client :
                  /\ client[c].pc = "sent" /\ client'[c].pc = "end"
                  /\ client[c].since # "emptied" /\ client[c].first >= 0
                  => Len(client'[c].seen) >= Cardinality(DOMAIN dbData) - client[c].first
<1>1. IndInv /\ [Next]_vars => [A]_vars
  <2> SUFFICES ASSUME IndInv, Next, NEW c \in Client,
                      client[c].pc = "sent", client'[c].pc = "end",
                      client[c].since # "emptied", client[c].first >= 0
               PROVE  Len(client'[c].seen) >= Cardinality(DOMAIN dbData) - client[c].first
    OBVIOUS
  <2> DEFINE r == client[c]
             limit == EffectiveLimit(r.limit)
             page == GetPaginated(r.startIndex, limit)
  <2>1. /\ DOMAIN client = Client /\ r \in Requests /\ Received(r)
        /\ r.startIndex = r.first + Len(r.seen)
    BY DEF IndInv, ClientInv, RequestInv
  <2>2. getPaginated(c)
    <3>1. ASSUME NEW d \in Client, NEW q, client' = [client EXCEPT ![d] = q], d # c
          PROVE  FALSE
      BY <2>1, <3>1
    <3>2. ASSUME client' = client PROVE FALSE
      BY <3>2
    <3>3. ASSUME NEW event, client' = Note(event) PROVE FALSE
      <4>1. client'[c].pc = client[c].pc
        BY <2>1, <3>3 DEF Note, Requests
      <4> QED BY <4>1
    <3>4. ~(\E mode \in {ModeRange, ModeFull}, start \in 1..MaxBlock :
               StartOrchestrator(mode, start))
      BY <3>2, <3>3 DEF StartOrchestrator
    <3>5. ~(\E lastBlock \in Blocks : Save(lastBlock))
      BY <3>2, <3>3 DEF Save
    <3>7. ~ProcessEnds
      <4>1. ProcessEnds => client'[c] = [client[c] EXCEPT !.pc = "next"]
        BY DEF ProcessEnds
      <4>2. [client[c] EXCEPT !.pc = "next"].pc = "next"
        BY <2>1 DEF Requests
      <4> QED BY <4>1, <4>2
    <3>8. ASSUME NEW d \in Client PROVE ~Send(d)
      <4>1. Send(d) => client[d].pc = "next"
        BY DEF Send
      <4>2. Send(d) => client' = [client EXCEPT ![d] = [client[d] EXCEPT !.pc = "sent"]]
        BY DEF Send
      <4> QED BY <3>1, <4>1, <4>2
    <3>9. ASSUME NEW d \in Client PROVE ~First(d)
      <4>1. First(d) => client[d].pc \in {"idle", "end"}
        BY DEF First
      <4>2. First(d) => \E q : client' = [client EXCEPT ![d] = q]
        BY DEF First
      <4> QED BY <3>1, <4>1, <4>2
    <3>10. ASSUME NEW d \in Client, getPaginated(d) PROVE d = c
      <4>1. \E q : client' = [client EXCEPT ![d] = q]
        BY <3>10 DEF getPaginated
      <4> QED BY <3>1, <4>1
    <3> QED BY <3>2, <3>4, <3>5, <3>7, <3>8, <3>9, <3>10 DEF Next, Serve
  <2>3. client'[c] = WithPage(r, page, limit)
    BY <2>1, <2>2 DEF getPaginated
  <2>4. PICK n \in Nat : KeysUpTo(n)
    BY DEF IndInv, KeysInv
  <2>5. r.first \in Int /\ Len(r.seen) \in Nat /\ Word \in Nat
        /\ r.seen \in Seq(Entries) /\ r.limit \in Int
    BY <2>1, RouterAssumption DEF Requests, Ints
  <2>6. limit \in Nat \ {0} /\ r.startIndex \in Int /\ r.startIndex >= 0
        /\ -Word <= 2 * r.startIndex
    BY <2>1, <2>5, RouterAssumption DEF EffectiveLimit
  <2>7. /\ page \in Seq(Entries)
        /\ Len(page) # limit => r.startIndex + Len(page) >= n
    BY <2>4, <2>6, PageIs
  <2> HIDE DEF r, limit, page
  <2>8. limit \in Int /\ Len(page) \in Nat
    BY <2>6, <2>7
  <2>9. /\ client'[c].pc = IF Len(page) = limit THEN "next" ELSE "end"
        /\ client'[c].seen = r.seen \o page
    <3>1. r \in Requests /\ page \in Seq(Entries) /\ limit \in Int
      BY <2>1, <2>7, <2>8
    <3>2. client'[c].pc = IF Len(page) = limit THEN "next" ELSE "end"
      BY <2>3, <3>1, WithPageIs
    <3>3. client'[c].seen = r.seen \o page
      <4>1. WithPage(r, page, limit).seen = r.seen \o page
        BY <3>1, WithPageIs
      <4> QED BY <2>3, <4>1, Zenon
    <3> QED BY <3>2, <3>3
  <2>10. Len(page) # limit
    BY <2>9
  <2>11. Len(client'[c].seen) = Len(r.seen) + Len(page)
    BY <2>5, <2>7, <2>9
  <2>12. Cardinality(DOMAIN dbData) = n
    <3>1. DOMAIN dbData = 0..(n - 1)
      BY <2>4 DEF KeysUpTo
    <3>2. Cardinality(0..(n - 1)) = IF 0 > n - 1 THEN 0 ELSE (n - 1) - 0 + 1
      BY FS_Interval
    <3> QED BY <3>1, <3>2
  <2>13. Len(client'[c].seen) >= Cardinality(DOMAIN dbData) - r.first
    <3>1. r.first + Len(r.seen) + Len(page) >= n
      BY <2>1, <2>7, <2>10
    <3> QED BY <2>5, <2>8, <2>11, <2>12, <3>1
  <2> QED BY <2>13 DEF r
<1> QED BY <1>1, Invariance, PTL DEF Spec, ReadToTheEnd

-----------------------------------------------------------------------------
(* The shutdown. *)

\* Where Shutdown has returned no request is active, and none is accepted any
\* more; main is past g.Wait only then.
ShutdownInv ==
    /\ mainPc \in {"down", "starting"} => shutdown = "none"
    /\ mainPc \in {"returned", "closed"} => shutdown = "returned"
    /\ shutdown = "returned" => Active = {}

\* Requests that are not accepted anew are among those that were active.
LEMMA ActiveKept ==
    ASSUME ShutdownInv, UNCHANGED <<mainPc, shutdown>>, Active' \subseteq Active
    PROVE  ShutdownInv'
BY DEF ShutdownInv

\* The steps of main and RunServer.
LEMMA ServeKeepsShutdown ==
    ASSUME ShutdownInv, UNCHANGED client,
           \/ RunServer \/ Signal \/ Listen \/ ListenFails \/ ServerClosed
           \/ BeginShutdown \/ EndShutdown(Active) \/ WaitReturns \/ Close
    PROVE  ShutdownInv'
<1>0. Active' = Active
  BY DEF Active
<1>1. CASE Signal \/ Listen \/ ListenFails \/ ServerClosed
  BY <1>0, <1>1, ActiveKept DEF Signal, Listen, ListenFails, ServerClosed
<1>2. CASE RunServer
  BY <1>2 DEF RunServer, ShutdownInv
<1>3. CASE BeginShutdown
  BY <1>3 DEF BeginShutdown, ShutdownInv
<1>4. CASE EndShutdown(Active)
  BY <1>0, <1>4 DEF EndShutdown, ShutdownInv
<1>5. CASE WaitReturns \/ Close
  BY <1>0, <1>5 DEF WaitReturns, Close, ShutdownInv
<1> QED BY <1>1, <1>2, <1>3, <1>4, <1>5

\* Every step keeps the order of the shutdown.
LEMMA NextKeepsShutdown ==
    ASSUME ShutdownInv, ClientInv, [Next]_vars
    PROVE  ShutdownInv'
<1>0. DOMAIN client = Client /\ \A c \in Client : client[c] \in Requests
  BY DEF ClientInv, RequestInv
<1>1. ASSUME NEW mode \in {ModeRange, ModeFull}, NEW start \in 1..MaxBlock,
             StartOrchestrator(mode, start)
      PROVE  ShutdownInv'
  BY <1>1 DEF StartOrchestrator, StartMain, ShutdownInv
<1>2. ASSUME NEW lastBlock \in Blocks, Save(lastBlock)
      PROVE  ShutdownInv'
  <2>1. client' = client \/ client' = Note("overwritten")
    BY <1>2 DEF Save
  <2>2. \A c \in Client : client'[c].pc = "sent" => client[c].pc = "sent"
    <3>1. ASSUME NEW c \in Client, client' = Note("overwritten"), client'[c].pc = "sent"
          PROVE  client[c].pc = "sent"
      <4>1. client[c] \in Requests
        BY <1>0
      <4>2. client'[c].pc = client[c].pc
        BY <3>1, <4>1 DEF Note, Requests
      <4> QED BY <3>1, <4>2
    <3> QED BY <2>1, <3>1
  <2>3. Active' \subseteq Active
    BY <2>2 DEF Active
  <2> QED BY <1>2, <2>3, ActiveKept DEF Save, serverVars
<1>3. CASE ProcessEnds
  BY <1>3 DEF ProcessEnds, Exit, ShutdownInv
<1>4. ASSUME NEW c \in Client, First(c) PROVE ShutdownInv'
  <2>1. /\ client'[c].pc = "next"
        /\ \A d \in Client : d # c => client'[d] = client[d]
    BY <1>0, <1>4 DEF First, NoRequest
  <2>2. Active' \subseteq Active
    BY <2>1 DEF Active
  <2> QED BY <1>4, <2>2, ActiveKept DEF First, serverVars
<1>5. ASSUME NEW c \in Client, Send(c) PROVE ShutdownInv'
  <2>1. shutdown # "returned" /\ UNCHANGED <<mainPc, shutdown>>
    BY <1>5 DEF Send, Accepting, ShuttingDown, serverVars
  <2> QED BY <2>1 DEF ShutdownInv
<1>6. ASSUME NEW c \in Client, getPaginated(c) PROVE ShutdownInv'
  <2>1. PICK r : client' = [client EXCEPT ![c] = r]
    BY <1>6 DEF getPaginated
  <2>2. c \in Active
    BY <1>6 DEF getPaginated, Active
  <2>3. Active' \subseteq Active
    BY <1>0, <2>1, <2>2 DEF Active
  <2> QED BY <1>6, <2>3, ActiveKept DEF getPaginated, serverVars
<1>7. CASE UNCHANGED vars
  <2>1. Active' = Active
    BY <1>7 DEF Active, vars
  <2> QED BY <1>7, <2>1, ActiveKept DEF vars, serverVars
<1> QED
  BY <1>1, <1>2, <1>3, <1>4, <1>5, <1>6, <1>7, ServeKeepsShutdown DEF Next, Serve

\* No accepted request finds the database closed: main is past g.Wait only after
\* Shutdown has returned, which is after the last answer, and no request is
\* accepted once Shutdown was called.
THEOREM RequestsFindIt == Spec => []RequestsFindDatabase
<1>1. Init => ShutdownInv
  BY DEF Init, NoServer, ShutdownInv
<1>2. IndInv /\ ShutdownInv /\ [Next]_vars => ShutdownInv'
  BY NextKeepsShutdown DEF IndInv
<1>3. ShutdownInv => RequestsFindDatabase
  BY DEF ShutdownInv, RequestsFindDatabase
<1> QED BY <1>1, <1>2, <1>3, Invariance, PTL DEF Spec
=============================================================================
