------------------------------- MODULE Router -------------------------------
(***************************************************************************)
(* The HTTP side: clients that follow the pages of /data (router/router.go *)
(* and GetPaginated of persistor/persistor.go) while the synchronizer      *)
(* saves, the server is shut down (module Server) and the process dies and *)
(* starts again.                                                           *)
(*                                                                         *)
(* What happens between two saves is not seen here, so a save is one step  *)
(* that takes any run of blocks; module Indexer is about why it takes      *)
(* exactly those.  GetPaginated reads in one Bolt transaction, so a        *)
(* request sees one state of the bucket.                                   *)
(***************************************************************************)
EXTENDS Persistor, Server, Sequences, SequencesExt, FiniteSets

CONSTANTS
    MaxBlock,      \* bound on the chain
    Events(_),     \* the records the fetcher brings of a block, in log order
    Client,
    StartIndexes,  \* values of the startIndex parameter of a first request
    Limits,        \* values of the limit parameter; 0 also stands for one that
                   \* is missing or not a number
    DefaultLimit,  \* 10 in the code
    Word           \* 2^64: keys are unsigned words of 8 bytes, big endian, so
                   \* that their order is the order of the numbers

Blocks == 0..MaxBlock

Records == UNION {{Events(b)[i] : i \in DOMAIN Events(b)} : b \in Blocks}

\* An int is a signed word.
Ints == {n \in Int : -Word <= 2 * n /\ 2 * n < Word}

ASSUME RouterAssumption ==
    /\ MaxBlock \in Nat
    /\ \A b \in Blocks : Events(b) \in Seq(Records)
    /\ Word \in Nat \ {0}
    /\ \A n \in StartIndexes : n \in Ints
    /\ \A n \in Limits : n \in Ints
    /\ DefaultLimit \in Nat \ {0}

VARIABLES
    currBlock, currIndex,  \* of the synchronizer
    client    \* client |-> its request, what it has received, and what became
              \* of the database since its first request

vars == <<dbVars, currBlock, currIndex, serverVars, client>>

NoRequest == [pc |-> "idle", first |-> 0, startIndex |-> 0, limit |-> 1,
              seen |-> <<>>, since |-> "same"]

Init ==
    /\ NewPersistor
    /\ currBlock = 0 /\ currIndex = 0
    /\ NoServer
    /\ client = [c \in Client |-> NoRequest]

-----------------------------------------------------------------------------
(* The process. *)

\* The clients, with what became of the database: it was emptied, or a stored
\* record was written over.
Note(event) == [c \in Client |-> [client[c] EXCEPT !.since =
                  IF @ = "emptied" THEN @ ELSE event]]

\* StartOrchestrator opens the database and starts the synchronizer, whose key
\* counter begins at 0 in either mode.
StartOrchestrator(mode, start) ==
    /\ StartMain
    /\ StartDB(mode)
    /\ currBlock' = IF mode = ModeRange THEN start ELSE dbLast' + 1
    /\ currIndex' = 0
    /\ client' = IF Wipes(mode) THEN Note("emptied") ELSE client

\* The synchronizer saves the next blocks, until main closes the database: it is
\* not stopped before.  The keys stay below the largest int.
Save(lastBlock) ==
    LET saved == FlattenSeq([j \in 1..(lastBlock - currBlock + 1) |->
                               Events(currBlock + j - 1)])
        registers == [k \in currIndex..(currIndex + Len(saved) - 1) |->
                        saved[k - currIndex + 1]]
    IN  /\ mainPc \notin {"down", "closed"}
        /\ currBlock <= lastBlock
        /\ currIndex + Len(saved) \in Ints
        /\ SaveData(registers, lastBlock)
        /\ currBlock' = lastBlock + 1
        /\ currIndex' = currIndex + Len(saved)
        /\ client' = IF DOMAIN registers \cap DOMAIN dbData = {}
                     THEN client ELSE Note("overwritten")
        /\ UNCHANGED serverVars

processVars == <<dbVars, currBlock, currIndex>>

\* The accepted requests that are not answered.
Active == {c \in Client : client[c].pc = "sent"}

\* A step of main or RunServer leaves the rest alone.
Serve(step) == step /\ UNCHANGED <<processVars, client>>

\* The process ends.  Its connections are gone: a client asks for the same page
\* again.
ProcessEnds ==
    /\ Exit
    /\ client' = [c \in Client |->
         IF client[c].pc = "sent" THEN [client[c] EXCEPT !.pc = "next"] ELSE client[c]]
    /\ UNCHANGED processVars

-----------------------------------------------------------------------------
(* The requests. *)

\* uint64(n), in the order of the bytes.
IntToBytes(n) == IF n >= 0 THEN n ELSE n + Word

\* int(b)
BytesToInt(b) == IF 2 * b < Word THEN b ELSE b - Word

\* Seek and Next of a cursor: the keys it visits from startKey on.
Seek(startKey) == {k \in DOMAIN dbData : k >= startKey}

NthKey(keys, n) == CHOOSE k \in keys : Cardinality({j \in keys : j < k}) = n - 1

ToJSON(k) == [Index |-> BytesToInt(k), Data |-> dbData[k]]

Least(m, n) == IF m <= n THEN m ELSE n

\* Results of GetPaginated.
GetPaginated(startIndex, limit) ==
    LET keys == Seek(IntToBytes(startIndex))
    IN  [n \in 1..Least(limit, Cardinality(keys)) |-> ToJSON(NthKey(keys, n))]

\* Variant: nextIndex is the index of the last result.
nextIndexAtLast(startIndex, page) == startIndex + Len(page) - 1

nextIndex(startIndex, page) == startIndex + Len(page)

EffectiveLimit(limit) == IF limit <= 0 THEN DefaultLimit ELSE limit

\* Variant: a page that is exactly full is taken for the last one.
hasNextPageFull(page, limit) == Len(page) > limit

hasNextPage(page, limit) == Len(page) = limit

\* A client asks for its first page.
First(c) ==
    /\ client[c].pc \in {"idle", "end"}
    /\ \E startIndex \in StartIndexes, limit \in Limits :
         client' = [client EXCEPT ![c] =
                      [NoRequest EXCEPT !.pc = "next", !.first = startIndex,
                                        !.startIndex = startIndex, !.limit = limit]]
    /\ UNCHANGED <<processVars, serverVars>>

\* The server accepts the request for the next page.
Send(c) ==
    /\ client[c].pc = "next"
    /\ Accepting
    /\ client' = [client EXCEPT ![c].pc = "sent"]
    /\ UNCHANGED <<processVars, serverVars>>

\* The client after its answer.
WithPage(r, page, limit) ==
    [r EXCEPT !.pc = IF hasNextPage(page, limit) THEN "next" ELSE "end",
              !.startIndex = nextIndex(r.startIndex, page),
              !.limit = limit,
              !.seen = r.seen \o page]

\* The handler reads the page and answers; the URL of the next page carries
\* the limit that was used.  Its error answer needs a database that is closed,
\* which RequestsFindDatabase excludes, or a value that Serialize did not write.
getPaginated(c) ==
    LET limit == EffectiveLimit(client[c].limit)
        page  == GetPaginated(client[c].startIndex, limit)
    IN  /\ client[c].pc = "sent"
        /\ mainPc # "closed"
        /\ client' = [client EXCEPT ![c] = WithPage(client[c], page, limit)]
        /\ UNCHANGED <<processVars, serverVars>>

Next ==
    \/ \E mode \in {ModeRange, ModeFull}, start \in 1..MaxBlock :
         StartOrchestrator(mode, start)
    \/ \E lastBlock \in Blocks : Save(lastBlock)
    \/ Serve(RunServer) \/ Serve(Signal)
    \/ Serve(Listen) \/ Serve(ListenFails) \/ Serve(ServerClosed)
    \/ Serve(BeginShutdown) \/ Serve(EndShutdown(Active))
    \/ Serve(WaitReturns) \/ Serve(Close)
    \/ ProcessEnds
    \/ \E c \in Client : First(c) \/ Send(c) \/ getPaginated(c)

Spec == Init /\ [][Next]_vars

(***************************************************************************)
(* Fairness.  main and the goroutines of RunServer run when they can (the  *)
(* Go scheduler; StartOrchestrator returns, because the balancer's rounds  *)
(* are bounded), and a handler returns, because it makes one read of the   *)
(* database and one write to a client that reads.                          *)
(***************************************************************************)
Fairness ==
    /\ WF_vars(Serve(RunServer)) /\ WF_vars(Serve(ServerClosed))
    /\ WF_vars(Serve(BeginShutdown)) /\ WF_vars(Serve(EndShutdown(Active)))
    /\ WF_vars(Serve(WaitReturns)) /\ WF_vars(Serve(Close))
    /\ \A c \in Client : WF_vars(getPaginated(c))

FairSpec == Spec /\ Fairness

-----------------------------------------------------------------------------
\* What a client has received, page by page, is the run of entries from its
\* first index on: none skipped, repeated or out of order, whatever was saved
\* between two pages, and however often the process was restarted, unless a
\* restart emptied the database.  The records are the stored ones, unless they
\* were written over since, as a full index does that was restarted.
PagesExact ==
    \A c \in Client : client[c].since # "emptied" =>
        \A n \in DOMAIN client[c].seen :
            LET k == client[c].first + n - 1
            IN  /\ k \in DOMAIN dbData
                /\ client[c].seen[n].Index = k
                /\ client[c].since = "same" => client[c].seen[n].Data = dbData[k]

\* A client that is given no next page has everything that was stored when the
\* last page was read, from its first index on.
ReadToTheEnd ==
    [][\A c \in Client :
         /\ client[c].pc = "sent" /\ client'[c].pc = "end"
         /\ client[c].since # "emptied" /\ client[c].first >= 0
         => Len(client'[c].seen) >= Cardinality(DOMAIN dbData) - client[c].first]_vars

\* A request that was accepted never finds the database closed, which would
\* answer it with an error: wherever the signal, the listener's error, the two
\* goroutines of RunServer and main are, the database is closed after the last
\* answer.
RequestsFindDatabase == mainPc = "closed" => Active = {}

\* "It gracefully shuts down when the provided context is canceled"
\* (router.go:88): after a signal, also one that comes while the indexer is
\* starting, and after an error of ListenAndServe, main gets to the end, and
\* closes the database.
ServerStops == gCtxDone ~> mainPc \in {"closed", "down"}
=============================================================================
