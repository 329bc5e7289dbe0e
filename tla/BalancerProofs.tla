--------------------------- MODULE BalancerProofs ---------------------------
(***************************************************************************)
(* Proofs about module Balancer, for any number of clients, rounds and     *)
(* ticks and whatever the endpoints answer: the types, for any number of   *)
(* callers, and for one caller, that the sleep between rounds outlasts     *)
(* every temporary block and that an endpoint that answers everything is   *)
(* reached.  With two callers neither holds: the other one may renew a     *)
(* block while the first sleeps, and moves the counter.                    *)
(***************************************************************************)
EXTENDS Balancer, TLAPS

Results == {"none", "output", "ErrReqTooBig", "ErrMaxRounds"}

Calls == [pc : Pcs, index : Client, retry : Client, rounds : 0..maxRounds,
          sleep : 0..blockTime, result : Results]

\* A call in a round has rounds left; only a call that sleeps has to wait.
Progress(r) ==
    /\ r.pc \notin {"idle", "done"} => r.rounds < maxRounds
    /\ r.pc # "sleep" => r.sleep = 0

CallInv(r) == r \in Calls /\ Progress(r)

IndInv ==
    /\ counter \in Client
    /\ blocked \in [Client -> -1..blockTime]
    /\ answers \in Answers
    /\ call \in [Caller -> Calls]
    /\ \A p \in Caller : Progress(call[p])

LEMMA Constants ==
    lenClients \in Nat \ {0} /\ maxRounds \in Nat /\ blockTime \in Nat \ {0} /\ 0 \in Client
BY BalancerAssumption DEF Client

\* A new round, or the end of the last.
LEMMA RoundKeeps ==
    ASSUME NEW r \in Calls, r.sleep = 0
    PROVE  CallInv(Round(r)) /\ Round(r).pc # "sleep"
<1>1. r.rounds \in 0..maxRounds
  BY DEF Calls
<1>2. CASE r.rounds = maxRounds
  <2>1. Round(r) = [r EXCEPT !.pc = "done", !.result = "ErrMaxRounds"]
    BY <1>2 DEF Round
  <2> QED BY <2>1 DEF CallInv, Calls, Progress, Pcs, Results
<1>3. CASE r.rounds # maxRounds
  <2>1. Round(r) = [r EXCEPT !.pc = "load", !.retry = 0]
    BY <1>3 DEF Round
  <2>2. r.rounds < maxRounds
    BY <1>1, <1>3, Constants
  <2> QED BY <2>1, <2>2, Constants DEF CallInv, Calls, Progress, Pcs
<1> QED BY <1>2, <1>3

\* The next retry, or the sleep, which is as long as a temporary block.
LEMMA ContinueKeeps ==
    ASSUME NEW r \in Calls, r.sleep = 0, r.rounds < maxRounds
    PROVE  /\ CallInv(Continue(r))
           /\ Continue(r).pc = "sleep" => Continue(r).sleep = blockTime
<1>1. r.retry \in Client
  BY DEF Calls
<1>2. CASE r.retry + 1 < lenClients
  <2>1. Continue(r) = [r EXCEPT !.pc = "load", !.retry = r.retry + 1]
    BY <1>2 DEF Continue
  <2>2. r.retry + 1 \in Client
    BY <1>1, <1>2, Constants DEF Client
  <2> QED BY <2>1, <2>2 DEF CallInv, Calls, Progress, Pcs
<1>3. CASE ~(r.retry + 1 < lenClients)
  <2>1. Continue(r) = [r EXCEPT !.pc = "sleep", !.sleep = blockTime]
    BY <1>3 DEF Continue
  <2>2. blockTime \in 0..blockTime
    BY Constants
  <2> QED BY <2>1, <2>2 DEF CallInv, Calls, Progress, Pcs
<1> QED BY <1>2, <1>3

\* An answer returns, or blocks the client.
LEMMA AnsweredKeeps ==
    ASSUME NEW r \in Calls, r.sleep = 0, r.rounds < maxRounds, NEW a
    PROVE  CallInv(Answered(r, a)) /\ Answered(r, a).pc # "sleep"
<1>1. handleRPCError(a) \in {"ErrReqTooBig", "errRateLimit", "unexpected"}
  BY DEF handleRPCError
<1>2. \/ \E res \in Results : Answered(r, a) = [r EXCEPT !.pc = "done", !.result = res]
      \/ \E how \in {"temporaryBlock", "indefiniteBlock"} : Answered(r, a) = [r EXCEPT !.pc = how]
  BY <1>1 DEF Answered, Results
<1>3. ASSUME NEW res \in Results
      PROVE  LET q == [r EXCEPT !.pc = "done", !.result = res]
             IN  CallInv(q) /\ q.pc # "sleep"
  BY DEF CallInv, Calls, Progress, Pcs
<1>4. ASSUME NEW how \in {"temporaryBlock", "indefiniteBlock"}
      PROVE  LET q == [r EXCEPT !.pc = how]
             IN  CallInv(q) /\ q.pc # "sleep"
  BY DEF CallInv, Calls, Progress, Pcs
<1> QED BY <1>2, <1>3, <1>4

\* A step of one caller that leaves its call in order.
LEMMA GoesKeeps ==
    ASSUME IndInv, NEW p \in Caller, NEW r, CallInv(r), Goes(p, r),
           counter' \in Client, blocked' \in [Client -> -1..blockTime], answers' = answers
    PROVE  IndInv'
<1>1. call' \in [Caller -> Calls]
  BY DEF IndInv, Goes, CallInv
<1>2. \A q \in Caller : Progress(call'[q])
  BY DEF IndInv, Goes, CallInv
<1> QED BY <1>1, <1>2 DEF IndInv, Progress

\* What is known of a caller from its place.
LEMMA AtPlace ==
    ASSUME IndInv, NEW p \in Caller
    PROVE  /\ call[p] \in Calls /\ call[p].index \in Client /\ call[p].rounds \in 0..maxRounds
           /\ call[p].pc \notin {"idle", "done"} => call[p].rounds < maxRounds
           /\ call[p].pc # "sleep" => call[p].sleep = 0
BY DEF IndInv, Progress, Calls

LEMMA CounterKeeps ==
    ASSUME counter \in Client, counterAdd
    PROVE  counter' \in Client
BY Constants DEF counterAdd, Client

\* A step of a caller.
LEMMA RunsKeeps ==
    ASSUME IndInv, NEW p \in Caller, handleRounds(p) \/ Runs(p)
    PROVE  IndInv'
<1>1. /\ call[p] \in Calls /\ call[p].index \in Client /\ call[p].rounds \in 0..maxRounds
      /\ call[p].pc \notin {"idle", "done"} => call[p].rounds < maxRounds
      /\ call[p].pc # "sleep" => call[p].sleep = 0
  BY AtPlace
<1>2. counter \in Client /\ blocked \in [Client -> -1..blockTime]
  BY DEF IndInv
<1>3. CASE handleRounds(p)
  <2>1. CallInv(Round(call[p]))
    BY <1>1, <1>3, RoundKeeps DEF handleRounds
  <2> QED BY <1>2, <1>3, <2>1, GoesKeeps DEF handleRounds
<1>4. CASE handleRetries(p)
  <2>1. CallInv([call[p] EXCEPT !.pc = "doRetry", !.index = counter])
    BY <1>1, <1>2, <1>4 DEF handleRetries, CallInv, Calls, Progress, Pcs
  <2> QED BY <1>2, <1>4, <2>1, GoesKeeps DEF handleRetries
<1>5. CASE doRetryBlocked(p)
  <2>1. CallInv(Continue(call[p]))
    BY <1>1, <1>5, ContinueKeeps DEF doRetryBlocked
  <2>2. counter' \in Client
    BY <1>2, <1>5, CounterKeeps DEF doRetryBlocked
  <2> QED BY <1>2, <1>5, <2>1, <2>2, GoesKeeps DEF doRetryBlocked
<1>6. CASE doRetry(p)
  <2>1. CallInv([call[p] EXCEPT !.pc = "request"])
    BY <1>1, <1>6 DEF doRetry, CallInv, Calls, Progress, Pcs
  <2> QED BY <1>2, <1>6, <2>1, GoesKeeps DEF doRetry
<1>7. CASE requestEnds(p)
  <2>1. PICK a \in answers[call[p].index] : Goes(p, Answered(call[p], a))
    BY <1>7 DEF requestEnds
  <2>2. CallInv(Answered(call[p], a))
    BY <1>1, <1>7, AnsweredKeeps DEF requestEnds
  <2>3. counter' \in Client
    BY <1>2, <1>7, CounterKeeps DEF requestEnds
  <2> QED BY <1>2, <1>7, <2>1, <2>2, <2>3, GoesKeeps DEF requestEnds
<1>8. CASE temporaryBlock(p)
  <2>1. CallInv(Continue(call[p]))
    BY <1>1, <1>8, ContinueKeeps DEF temporaryBlock
  <2>2. blocked' \in [Client -> -1..blockTime]
    BY <1>1, <1>2, <1>8, Constants DEF temporaryBlock
  <2> QED BY <1>2, <1>8, <2>1, <2>2, GoesKeeps DEF temporaryBlock
<1>9. CASE indefiniteBlock(p)
  <2>1. CallInv(Continue(call[p]))
    BY <1>1, <1>9, ContinueKeeps DEF indefiniteBlock
  <2>2. blocked' \in [Client -> -1..blockTime]
    BY <1>1, <1>2, <1>9, Constants DEF indefiniteBlock, Indefinite
  <2> QED BY <1>2, <1>9, <2>1, <2>2, GoesKeeps DEF indefiniteBlock
<1>10. CASE wake(p)
  <2> DEFINE r == [call[p] EXCEPT !.rounds = call[p].rounds + 1]
  <2>1. call[p].sleep = 0 /\ call[p].rounds + 1 \in 0..maxRounds
    BY <1>1, <1>10, Constants DEF wake
  <2>2. r \in Calls /\ r.sleep = 0
    BY <1>1, <2>1 DEF Calls
  <2>3. CallInv(Round(r))
    BY <2>2, RoundKeeps
  <2>4. Goes(p, Round(r)) /\ UNCHANGED <<counter, blocked, answers>>
    BY <1>10 DEF wake
  <2> HIDE DEF r
  <2> QED BY <1>2, <2>3, <2>4, GoesKeeps
<1>11. CASE return(p)
  <2>1. CallInv(NoCall)
    BY Constants DEF NoCall, CallInv, Calls, Progress, Pcs, Results
  <2> QED BY <1>2, <1>11, <2>1, GoesKeeps DEF return
<1> QED BY <1>3, <1>4, <1>5, <1>6, <1>7, <1>8, <1>9, <1>10, <1>11 DEF Runs

\* A tick brings every block and every sleep nearer to its end.
LEMMA TickKeeps ==
    ASSUME IndInv, Tick
    PROVE  IndInv'
<1>1. blocked' \in [Client -> -1..blockTime]
  BY Constants DEF IndInv, Tick, Elapse
<1>2. ASSUME NEW p \in Caller
      PROVE  call'[p] \in Calls /\ Progress(call'[p])
  <2>1. call'[p] = [call[p] EXCEPT !.sleep = Elapse(call[p].sleep)]
    BY DEF Tick
  <2>2. call[p] \in Calls /\ Progress(call[p]) /\ call[p].sleep \in 0..blockTime
    BY DEF IndInv, Calls
  <2>3. /\ Elapse(call[p].sleep) \in 0..blockTime
        /\ call[p].sleep = 0 => Elapse(call[p].sleep) = 0
    BY <2>2, Constants DEF Elapse
  <2> QED BY <2>1, <2>2, <2>3 DEF Calls, Progress
<1>3. counter' \in Client /\ answers' \in Answers
  BY DEF IndInv, Tick
<1>4. call' \in [Caller -> Calls]
  BY <1>2 DEF Tick
<1> QED BY <1>1, <1>2, <1>3, <1>4 DEF IndInv, Progress

LEMMA InitHolds == Init => IndInv
<1> SUFFICES ASSUME Init PROVE IndInv
  OBVIOUS
<1>1. NoCall \in Calls /\ Progress(NoCall)
  BY Constants DEF NoCall, Calls, Progress, Pcs, Results
<1> QED BY <1>1, Constants DEF Init, IndInv

LEMMA NextKeeps ==
    ASSUME IndInv, [Next]_vars
    PROVE  IndInv'
<1>1. CASE UNCHANGED vars
  BY <1>1 DEF vars, IndInv, Progress
<1> QED BY <1>1, RunsKeeps, TickKeeps DEF Next

LEMMA Invariance == Spec => []IndInv
<1> QED BY InitHolds, NextKeeps, PTL DEF Spec

-----------------------------------------------------------------------------
(* The theorems. *)

\* The types of the balancer, among them that neither the retries of a round
\* nor the rounds of a call exceed their bounds.
THEOREM BalancerTypeCorrect == Spec => []TypeOK
<1>1. IndInv => TypeOK
  BY DEF IndInv, TypeOK, Calls, Results
<1> QED BY <1>1, Invariance, PTL

\* A caller that has the balancer for itself never wakes up to a client that is
\* still blocked for a while.
THEOREM SleepsLongEnough ==
    ASSUME \A p, q \in Caller : p = q
    PROVE  Spec => []SleepOutlastsBlocks
<1>1. Init => SleepOutlastsBlocks
  BY DEF Init, SleepOutlastsBlocks, NoCall
<1>2. ASSUME IndInv, SleepOutlastsBlocks, [Next]_vars
      PROVE  SleepOutlastsBlocks'
  <2> SUFFICES ASSUME NEW p \in Caller, call'[p].pc = "sleep", NEW c \in Client
               PROVE  blocked'[c] <= call'[p].sleep
    BY DEF SleepOutlastsBlocks
  <2>1. IndInv'
    BY <1>2, NextKeeps
  <2>2. /\ blocked'[c] \in -1..blockTime /\ blockTime \in Nat
        /\ blocked[c] \in -1..blockTime
        /\ call[p] \in Calls /\ DOMAIN call = Caller
    BY <1>2, <2>1, Constants DEF IndInv
  <2>3. CASE UNCHANGED vars
    BY <1>2, <2>3 DEF vars, SleepOutlastsBlocks
  <2>4. CASE Tick
    <3>1. /\ call'[p] = [call[p] EXCEPT !.sleep = Elapse(call[p].sleep)]
          /\ blocked'[c] = Elapse(blocked[c])
      BY <2>4 DEF Tick
    <3>2. call'[p].pc = call[p].pc /\ call'[p].sleep = Elapse(call[p].sleep)
          /\ call[p].sleep \in 0..blockTime
      BY <2>2, <3>1 DEF Calls
    <3>3. blocked[c] <= call[p].sleep
      BY <1>2, <3>2 DEF SleepOutlastsBlocks
    <3> QED BY <2>2, <3>1, <3>2, <3>3 DEF Elapse
  <2>5. ASSUME NEW q \in Caller, handleRounds(q) \/ Runs(q)
        PROVE  call'[p].sleep = blockTime
    <3>1. q = p
      OBVIOUS
    <3>2. /\ call[p].pc \notin {"idle", "done"} => call[p].rounds < maxRounds
          /\ call[p].pc # "sleep" => call[p].sleep = 0
      BY <1>2, AtPlace
    <3>3. \A r : Goes(p, r) => call'[p] = r
      BY <2>2 DEF Goes
    <3>4. ~handleRounds(p)
      <4>1. handleRounds(p) => call'[p] = Round(call[p]) /\ call[p].sleep = 0
        BY <3>2, <3>3 DEF handleRounds
      <4> QED BY <2>2, <4>1, RoundKeeps
    <3>5. ~(handleRetries(p) \/ doRetry(p) \/ return(p))
      <4>1. handleRetries(p) => call'[p].pc = "doRetry"
        BY <2>2, <3>3 DEF handleRetries, Calls
      <4>2. doRetry(p) => call'[p].pc = "request"
        BY <2>2, <3>3 DEF doRetry, Calls
      <4>3. return(p) => call'[p] = NoCall
        BY <3>3 DEF return
      <4>4. NoCall.pc = "idle"
        BY DEF NoCall
      <4> QED BY <4>1, <4>2, <4>3, <4>4
    <3>6. ~requestEnds(p)
      <4>1. requestEnds(p) => \E a : call'[p] = Answered(call[p], a)
        BY <3>3 DEF requestEnds
      <4>2. requestEnds(p) => call[p].sleep = 0 /\ call[p].rounds < maxRounds
        BY <3>2 DEF requestEnds
      <4> QED BY <2>2, <4>1, <4>2, AnsweredKeeps
    <3>7. ~wake(p)
      <4> DEFINE r == [call[p] EXCEPT !.rounds = call[p].rounds + 1]
      <4> SUFFICES ASSUME wake(p) PROVE FALSE
        OBVIOUS
      <4>1. call'[p] = Round(r) /\ call[p].sleep = 0 /\ call[p].rounds < maxRounds
        BY <3>2, <3>3 DEF wake
      <4>2. r \in Calls /\ r.sleep = 0
        BY <2>2, <4>1, Constants DEF Calls
      <4> HIDE DEF r
      <4> QED BY <4>1, <4>2, RoundKeeps
    <3>8. doRetryBlocked(p) \/ temporaryBlock(p) \/ indefiniteBlock(p)
      BY <2>5, <3>1, <3>4, <3>5, <3>6, <3>7 DEF Runs
    <3>9. call'[p] = Continue(call[p]) /\ call[p].sleep = 0 /\ call[p].rounds < maxRounds
      BY <3>2, <3>3, <3>8 DEF doRetryBlocked, temporaryBlock, indefiniteBlock
    <3> QED BY <2>2, <3>9, ContinueKeeps
  <2> QED BY <1>2, <2>2, <2>3, <2>4, <2>5 DEF Next
<1> QED BY <1>1, <1>2, Invariance, PTL DEF Spec
-----------------------------------------------------------------------------
(* One endpoint that answers everything is reached in the first round. *)

\* Retries until the shared counter is at client h.
Distance(h) == IF counter <= h THEN h - counter ELSE h - counter + lenClients

\* The retries that are left reach client h, which nobody ever blocks: so the
\* first round ends there at the latest, and nobody sleeps.
OnTheWayTo(h) ==
    /\ blocked[h] = 0
    /\ \A p \in Caller :
         /\ call[p].rounds = 0 /\ call[p].pc # "sleep" /\ call[p].result # "ErrMaxRounds"
         /\ call[p].pc \in {"load", "doRetry", "request"} =>
              call[p].retry + Distance(h) < lenClients
         /\ call[p].pc \in {"doRetry", "request"} => call[p].index = counter
         /\ call[p].pc \in {"temporaryBlock", "indefiniteBlock"} =>
              call[p].index # h /\ call[p].retry + 1 + Distance(h) < lenClients

LEMMA DistanceType ==
    ASSUME counter \in Client, NEW h \in Client
    PROVE  Distance(h) \in 0..(lenClients - 1) /\ (Distance(h) = 0 => counter = h)
BY Constants DEF Distance, Client

\* A retry at another client brings the counter nearer to h.
LEMMA DistanceShrinks ==
    ASSUME counter \in Client, NEW h \in Client, counter # h, counterAdd
    PROVE  Distance(h)' = Distance(h) - 1
<1>1. counter + 1 \in 1..lenClients /\ lenClients \in Nat \ {0} /\ h \in 0..(lenClients - 1)
  BY Constants DEF Client
<1>2. counter' = IF counter + 1 = lenClients THEN 0 ELSE counter + 1
  BY <1>1 DEF counterAdd
<1> QED BY <1>1, <1>2 DEF Distance, Client

\* A caller alone is on the way to h with each of its steps.
LEMMA RunsReach ==
    ASSUME IndInv, NEW p \in Caller, \A q \in Caller : p = q, maxRounds > 0,
           NEW h \in Client, Healthy(h), OnTheWayTo(h), handleRounds(p) \/ Runs(p)
    PROVE  OnTheWayTo(h)'
<1>1. /\ call[p] \in Calls /\ call[p].index \in Client /\ call[p].retry \in Client
      /\ DOMAIN call = Caller /\ counter \in Client /\ blocked \in [Client -> -1..blockTime]
  BY AtPlace DEF IndInv, Calls
<1>2. /\ blocked[h] = 0 /\ call[p].rounds = 0 /\ call[p].pc # "sleep"
      /\ call[p].result # "ErrMaxRounds"
  BY DEF OnTheWayTo
<1>3. Distance(h) \in 0..(lenClients - 1) /\ (Distance(h) = 0 => counter = h)
      /\ lenClients \in Nat \ {0} /\ call[p].retry \in 0..(lenClients - 1)
  BY <1>1, DistanceType, Constants DEF Client
<1>4. \A r : Goes(p, r) => call'[p] = r
  BY <1>1 DEF Goes
<1>5. \* What has to be shown of the caller.
      ASSUME NEW r, Goes(p, r), blocked'[h] = 0,
             r.rounds = 0, r.pc # "sleep", r.result # "ErrMaxRounds",
             r.pc \in {"load", "doRetry", "request"} => r.retry + Distance(h)' < lenClients,
             r.pc \in {"doRetry", "request"} => r.index = counter',
             r.pc \in {"temporaryBlock", "indefiniteBlock"} =>
               r.index # h /\ r.retry + 1 + Distance(h)' < lenClients
      PROVE  OnTheWayTo(h)'
  BY <1>4, <1>5 DEF OnTheWayTo
<1>6. UNCHANGED counter => Distance(h)' = Distance(h)
  BY DEF Distance
<1>7. CASE handleRounds(p)
  <2> DEFINE r == [call[p] EXCEPT !.pc = "load", !.retry = 0]
  <2>1. Goes(p, r) /\ blocked'[h] = 0 /\ UNCHANGED counter
    BY <1>2, <1>7, Constants DEF handleRounds, Round
  <2>2. /\ r.rounds = call[p].rounds /\ r.result = call[p].result
        /\ r.pc = "load" /\ r.retry = 0
    BY <1>1 DEF Calls
  <2> HIDE DEF r
  <2>3. r.retry + Distance(h)' < lenClients
    BY <1>3, <1>6, <2>1, <2>2
  <2> QED BY <1>2, <1>5, <2>1, <2>2, <2>3
<1>8. CASE handleRetries(p)
  <2>1. call[p].retry + Distance(h) < lenClients
    BY <1>8 DEF handleRetries, OnTheWayTo
  <2> QED BY <1>1, <1>2, <1>5, <1>6, <1>8, <2>1 DEF handleRetries, Calls
<1>9. CASE doRetryBlocked(p)
  <2>1. call[p].retry + Distance(h) < lenClients /\ call[p].index = counter
    BY <1>9 DEF doRetryBlocked, OnTheWayTo
  <2>2. counter # h
    BY <1>2, <1>9, <2>1 DEF doRetryBlocked, isBlocked, Indefinite
  <2>3. Distance(h)' = Distance(h) - 1 /\ Distance(h) > 0
    BY <1>1, <1>3, <1>9, <2>2, DistanceShrinks DEF doRetryBlocked
  <2>4. call[p].retry + 1 < lenClients
    BY <1>3, <2>1, <2>3
  <2> DEFINE r == [call[p] EXCEPT !.pc = "load", !.retry = call[p].retry + 1]
  <2>5. Goes(p, r) /\ blocked'[h] = 0
    BY <1>2, <1>9, <2>4 DEF doRetryBlocked, Continue
  <2>6. /\ r.rounds = call[p].rounds /\ r.result = call[p].result
        /\ r.pc = "load" /\ r.retry = call[p].retry + 1
    BY <1>1 DEF Calls
  <2> HIDE DEF r
  <2>7. r.retry + Distance(h)' < lenClients
    BY <1>3, <2>1, <2>3, <2>6
  <2> QED BY <1>2, <1>5, <2>5, <2>6, <2>7
<1>10. CASE doRetry(p)
  <2>1. call[p].retry + Distance(h) < lenClients /\ call[p].index = counter
    BY <1>10 DEF doRetry, OnTheWayTo
  <2> QED BY <1>1, <1>2, <1>5, <1>6, <1>10, <2>1 DEF doRetry, Calls
<1>11. CASE requestEnds(p)
  <2>1. call[p].retry + Distance(h) < lenClients /\ call[p].index = counter
    BY <1>11 DEF requestEnds, OnTheWayTo
  <2>2. PICK a \in answers[call[p].index] : Goes(p, Answered(call[p], a))
    BY <1>11 DEF requestEnds
  <2>3. CASE counter = h
    <3>1. a = Output
      BY <2>1, <2>2, <2>3 DEF Healthy
    <3> DEFINE r == [call[p] EXCEPT !.pc = "done", !.result = "output"]
    <3>2. Goes(p, r) /\ blocked'[h] = 0
      <4>1. Answered(call[p], a) = r
        <5>1. Output # Timeout
          BY DEF Output, Timeout
        <5> QED BY <3>1, <5>1 DEF Answered
      <4> HIDE DEF r
      <4> QED BY <1>2, <1>11, <2>2, <4>1 DEF requestEnds
    <3>3. r.rounds = call[p].rounds /\ r.pc = "done" /\ r.result = "output"
      BY <1>1 DEF Calls
    <3> HIDE DEF r
    <3> QED BY <1>2, <1>5, <3>2, <3>3
  <2>4. CASE counter # h
    <3>1. Distance(h)' = Distance(h) - 1
      BY <1>1, <1>11, <2>4, DistanceShrinks DEF requestEnds
    <3>2. handleRPCError(a) \in {"ErrReqTooBig", "errRateLimit", "unexpected"}
      BY DEF handleRPCError
    <3>3. \/ \E res \in {"output", "ErrReqTooBig"} :
               Goes(p, [call[p] EXCEPT !.pc = "done", !.result = res])
          \/ \E how \in {"temporaryBlock", "indefiniteBlock"} :
               Goes(p, [call[p] EXCEPT !.pc = how])
      BY <2>2, <3>2 DEF Answered
    <3>4. ASSUME NEW res \in {"output", "ErrReqTooBig"},
                 Goes(p, [call[p] EXCEPT !.pc = "done", !.result = res])
          PROVE  OnTheWayTo(h)'
      BY <1>1, <1>2, <1>5, <1>11, <3>4 DEF requestEnds, Calls
    <3>5. ASSUME NEW how \in {"temporaryBlock", "indefiniteBlock"},
                 Goes(p, [call[p] EXCEPT !.pc = how])
          PROVE  OnTheWayTo(h)'
      BY <1>1, <1>2, <1>3, <1>5, <1>11, <2>1, <2>4, <3>1, <3>5 DEF requestEnds, Calls
    <3> QED BY <3>3, <3>4, <3>5
  <2> QED BY <2>3, <2>4
<1>12. CASE temporaryBlock(p) \/ indefiniteBlock(p)
  <2>1. call[p].index # h /\ call[p].retry + 1 + Distance(h) < lenClients
    BY <1>12 DEF temporaryBlock, indefiniteBlock, OnTheWayTo
  <2>2. blocked'[h] = 0 /\ UNCHANGED counter
    BY <1>1, <1>2, <1>12, <2>1 DEF temporaryBlock, indefiniteBlock
  <2>3. Goes(p, [call[p] EXCEPT !.pc = "load", !.retry = call[p].retry + 1])
    <3>1. call[p].retry + 1 < lenClients
      BY <1>3, <2>1
    <3> QED BY <1>12, <3>1 DEF temporaryBlock, indefiniteBlock, Continue
  <2> QED BY <1>1, <1>2, <1>5, <1>6, <2>1, <2>2, <2>3 DEF Calls
<1>13. CASE wake(p)
  BY <1>2, <1>13 DEF wake
<1>14. CASE return(p)
  BY <1>2, <1>5, <1>14 DEF return, NoCall
<1> QED
  BY <1>7, <1>8, <1>9, <1>10, <1>11, <1>12, <1>13, <1>14 DEF Runs

\* Time does not matter to a caller that never sleeps.
LEMMA TickReaches ==
    ASSUME IndInv, NEW h \in Client, OnTheWayTo(h), Tick
    PROVE  OnTheWayTo(h)'
<1>1. blocked'[h] = 0 /\ Distance(h)' = Distance(h)
  BY DEF Tick, Elapse, Distance, OnTheWayTo
<1>2. ASSUME NEW p \in Caller
      PROVE  /\ call'[p].rounds = call[p].rounds /\ call'[p].pc = call[p].pc
             /\ call'[p].result = call[p].result /\ call'[p].retry = call[p].retry
             /\ call'[p].index = call[p].index
  <2>1. call'[p] = [call[p] EXCEPT !.sleep = Elapse(call[p].sleep)]
    BY DEF Tick
  <2> QED BY <2>1 DEF IndInv, Calls
<1> QED BY <1>1, <1>2 DEF OnTheWayTo, Tick

\* As long as one endpoint answers every request, a caller that has the
\* balancer for itself never gives up, whatever the others do: balancer.go:107.
\* MAX_ROUNDS has to allow a round at all.
THEOREM OneHealthyServes ==
    ASSUME \A p, q \in Caller : p = q, maxRounds > 0
    PROVE  Spec => []HealthyServes
<1> DEFINE Reaches == \A h \in Client : Healthy(h) => OnTheWayTo(h)
<1>1. Init => Reaches
  BY DEF Init, OnTheWayTo, NoCall
<1>2. ASSUME IndInv, Reaches, [Next]_vars
      PROVE  Reaches'
  <2> SUFFICES ASSUME NEW h \in Client, Healthy(h)'
               PROVE  OnTheWayTo(h)'
    OBVIOUS
  <2>1. Healthy(h)
    BY <1>2 DEF Next, Runs, Tick, handleRounds, handleRetries, doRetryBlocked, doRetry,
       requestEnds, temporaryBlock, indefiniteBlock, wake, return, vars, Healthy
  <2>2. OnTheWayTo(h)
    BY <1>2, <2>1
  <2>3. CASE UNCHANGED vars
    BY <2>2, <2>3 DEF vars, OnTheWayTo, Distance
  <2> QED BY <1>2, <2>1, <2>2, <2>3, RunsReach, TickReaches DEF Next
<1>3. Reaches /\ IndInv => HealthyServes
  BY DEF HealthyServes, OnTheWayTo
<1> QED BY <1>1, <1>2, <1>3, Invariance, PTL DEF Spec
=============================================================================
