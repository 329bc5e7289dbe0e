------------------------------ MODULE Balancer ------------------------------
(***************************************************************************)
(* The balancer (balancer/balancer.go): callers, the fetcher goroutines    *)
(* and the orchestrator, send requests to the clients in turn, guided by   *)
(* one counter that all callers share.  GetLogs, GetBlockFromTag and       *)
(* GetBlocksAndTxs differ in their payload only, so a call is one run of   *)
(* handleRounds.                                                           *)
(*                                                                         *)
(* Time is counted in ticks.  blocked[c] is what is left until             *)
(* blockedUntil, and call[p].sleep what is left of time.Sleep.  The time a *)
(* request takes is not measured: it ends with an answer, an error or      *)
(* errClientTimeout, whichever comes first.                                *)
(***************************************************************************)
EXTENDS ErrorCode

CONSTANTS
    lenClients,  \* number of endpoints
    Caller,      \* goroutines that use the balancer
    maxRounds,
    blockTime,   \* in ticks
    Answers      \* the endpoints to consider: client |-> what a request can end with

Client == 0..(lenClients - 1)

Output  == [shape |-> "output", codes |-> <<>>]
Timeout == [shape |-> "errClientTimeout", codes |-> <<>>]

ASSUME BalancerAssumption ==
    /\ lenClients \in Nat \ {0}
    /\ maxRounds \in Nat
    /\ blockTime \in Nat \ {0}
    /\ \A e \in Answers : \A c \in Client : \A a \in e[c] :
         a.shape \in Shapes \cup {"output", "errClientTimeout"}

VARIABLES
    counter,  \* the shared counter, modulo lenClients
    blocked,  \* client |-> ticks until blockedUntil, or Indefinite
    call,     \* caller |-> its place in handleRounds and its locals
    answers   \* the endpoints behind the clients: one of Answers, for good

vars == <<counter, blocked, call, answers>>

Indefinite == -1   \* the zero time

Pcs == {"idle", "load", "doRetry", "request", "temporaryBlock", "indefiniteBlock",
        "sleep", "done"}

NoCall == [pc |-> "idle", index |-> 0, retry |-> 0, rounds |-> 0, sleep |-> 0,
           result |-> "none"]

\* NewBalancer: blockedUntil is in the past.
Init ==
    /\ counter = 0
    /\ blocked = [c \in Client |-> 0]
    /\ call = [p \in Caller |-> NoCall]
    /\ answers \in Answers

-----------------------------------------------------------------------------
Goes(p, r) == call' = [call EXCEPT ![p] = r]

\* The top of the loop of handleRounds.
Round(r) ==
    IF r.rounds = maxRounds
    THEN [r EXCEPT !.pc = "done", !.result = "ErrMaxRounds"]
    ELSE [r EXCEPT !.pc = "load", !.retry = 0]

\* Variants of Continue: one retry too many, and a sleep that is too short.
ContinueOnceMore(r) ==
    IF r.retry < lenClients
    THEN [r EXCEPT !.pc = "load", !.retry = @ + 1]
    ELSE [r EXCEPT !.pc = "sleep", !.sleep = blockTime]

ContinueTooSoon(r) ==
    IF r.retry + 1 < lenClients
    THEN [r EXCEPT !.pc = "load", !.retry = @ + 1]
    ELSE [r EXCEPT !.pc = "sleep", !.sleep = blockTime - 1]

\* "continue" in the loop of handleRetries, and the sleep between rounds.
Continue(r) ==
    IF r.retry + 1 < lenClients
    THEN [r EXCEPT !.pc = "load", !.retry = @ + 1]
    ELSE [r EXCEPT !.pc = "sleep", !.sleep = blockTime]

\* A caller enters handleRounds.
handleRounds(p) ==
    /\ call[p].pc = "idle"
    /\ Goes(p, Round(call[p]))
    /\ UNCHANGED <<counter, blocked, answers>>

\* handleRetries reads the counter.
handleRetries(p) ==
    /\ call[p].pc = "load"
    /\ Goes(p, [call[p] EXCEPT !.pc = "doRetry", !.index = counter])
    /\ UNCHANGED <<counter, blocked, answers>>

\* The deferred Add of doRetry.
counterAdd == counter' = (counter + 1) % lenClients

isBlocked(c) == blocked[c] = Indefinite \/ blocked[c] > 0

\* Variant: the counter is only advanced after a request.
doRetryBlockedStays(p) ==
    /\ call[p].pc = "doRetry"
    /\ isBlocked(call[p].index)
    /\ Goes(p, Continue(call[p]))
    /\ UNCHANGED <<counter, blocked, answers>>

\* doRetry finds the client blocked, and handleRetries goes on.
doRetryBlocked(p) ==
    /\ call[p].pc = "doRetry"
    /\ isBlocked(call[p].index)
    /\ counterAdd
    /\ Goes(p, Continue(call[p]))
    /\ UNCHANGED <<blocked, answers>>

\* doRetry finds the client free and sends the request.
doRetry(p) ==
    /\ call[p].pc = "doRetry"
    /\ ~isBlocked(call[p].index)
    /\ Goes(p, [call[p] EXCEPT !.pc = "request"])
    /\ UNCHANGED <<counter, blocked, answers>>

\* Where handleRetries goes with what doRetry returned.
Answered(r, a) ==
    LET returns(res) == [r EXCEPT !.pc = "done", !.result = res]
        blocks(how)  == [r EXCEPT !.pc = how]
    IN  CASE a = Output -> returns("output")
          [] a = Timeout -> blocks("temporaryBlock")
          [] OTHER ->
               CASE handleRPCError(a) = "ErrReqTooBig" -> returns("ErrReqTooBig")
                 [] handleRPCError(a) = "errRateLimit" -> blocks("temporaryBlock")
                 [] handleRPCError(a) = "unexpected"   -> blocks("indefiniteBlock")

\* The request ends, and doRetry returns.
requestEnds(p) ==
    /\ call[p].pc = "request"
    /\ \E a \in answers[call[p].index] : Goes(p, Answered(call[p], a))
    /\ counterAdd
    /\ UNCHANGED <<blocked, answers>>

temporaryBlock(p) ==
    /\ call[p].pc = "temporaryBlock"
    /\ blocked' = [blocked EXCEPT ![call[p].index] = blockTime]
    /\ Goes(p, Continue(call[p]))
    /\ UNCHANGED <<counter, answers>>

indefiniteBlock(p) ==
    /\ call[p].pc = "indefiniteBlock"
    /\ blocked' = [blocked EXCEPT ![call[p].index] = Indefinite]
    /\ Goes(p, Continue(call[p]))
    /\ UNCHANGED <<counter, answers>>

\* Variant: the round is not counted.
wakeUncounted(p) ==
    /\ call[p].pc = "sleep"
    /\ call[p].sleep = 0
    /\ Goes(p, Round(call[p]))
    /\ UNCHANGED <<counter, blocked, answers>>

\* The sleep of handleRounds is over.
wake(p) ==
    /\ call[p].pc = "sleep"
    /\ call[p].sleep = 0
    /\ Goes(p, Round([call[p] EXCEPT !.rounds = @ + 1]))
    /\ UNCHANGED <<counter, blocked, answers>>

\* The call returns to its caller.
return(p) ==
    /\ call[p].pc = "done"
    /\ Goes(p, NoCall)
    /\ UNCHANGED <<counter, blocked, answers>>

Elapse(t) == IF t > 0 THEN t - 1 ELSE t

\* A tick of time, while it makes a difference.
Tick ==
    /\ \/ \E c \in Client : blocked[c] > 0
       \/ \E p \in Caller : call[p].sleep > 0
    /\ blocked' = [c \in Client |-> Elapse(blocked[c])]
    /\ call' = [p \in Caller |-> [call[p] EXCEPT !.sleep = Elapse(@)]]
    /\ UNCHANGED <<counter, answers>>

Runs(p) ==
    \/ handleRetries(p)
    \/ doRetryBlocked(p)
    \/ doRetry(p)
    \/ requestEnds(p)
    \/ temporaryBlock(p)
    \/ indefiniteBlock(p)
    \/ wake(p)
    \/ return(p)

Next ==
    \/ \E p \in Caller : handleRounds(p) \/ Runs(p)
    \/ Tick

Spec == Init /\ [][Next]_vars

(***************************************************************************)
(* Time passes, every caller that can run runs, and every request ends,    *)
(* since doRetry selects on time.After.  Nobody has to call.               *)
(***************************************************************************)
FairSpec == Spec /\ WF_vars(Tick) /\ \A p \in Caller : WF_vars(Runs(p))

-----------------------------------------------------------------------------
\* Type invariant.
TypeOK ==
    /\ counter \in Client
    /\ blocked \in [Client -> -1..blockTime]
    /\ answers \in Answers
    /\ DOMAIN call = Caller
    /\ \A p \in Caller :
         /\ call[p].pc \in Pcs
         /\ call[p].index \in Client
         /\ call[p].retry \in Client
         /\ call[p].rounds \in 0..maxRounds
         /\ call[p].sleep \in 0..blockTime
         /\ call[p].result \in {"none", "output", "ErrReqTooBig", "ErrMaxRounds"}

\* A caller that has the balancer for itself wakes up to clients that are all
\* free, or blocked indefinitely: the sleep between rounds outlasts every
\* block of the round, at the boundary where the two durations are equal too.
SleepOutlastsBlocks ==
    \A p \in Caller : call[p].pc = "sleep" =>
        \A c \in Client : blocked[c] <= call[p].sleep

\* An endpoint that answers every request.
Healthy(c) == answers[c] = {Output}

\* A call is answered "from available RPC clients" (balancer.go:107): as long
\* as one endpoint answers every request, no call gives up with ErrMaxRounds,
\* which would panic the fetcher.  A caller that has the balancer for itself
\* visits every endpoint in a round, whether the others are blocked, slow or
\* wrong.
HealthyServes ==
    (\E c \in Client : Healthy(c)) =>
        \A p \in Caller : call[p].result # "ErrMaxRounds"

\* Every call returns: neither a blocked endpoint nor another caller that moves
\* the counter or renews a block can hold a caller for ever.
CallsReturn ==
    \A p \in Caller : call[p].pc # "idle" ~> call[p].pc = "idle"

-----------------------------------------------------------------------------
(* What the repository says of itself and the code does not keep. *)

\* "It internally handles rate limits and blocks indefinitely clients that
\* return errors other than these." (balancer.go:111)  A client that is
\* blocked indefinitely stays blocked.
IndefiniteIsForever ==
    [][\A c \in Client : blocked[c] = Indefinite => blocked'[c] = Indefinite]_vars
=============================================================================
