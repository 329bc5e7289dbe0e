----------------------------- MODULE MCBalancer -----------------------------
(***************************************************************************)
(* Small instances of Balancer for TLC.                                    *)
(***************************************************************************)
EXTENDS Balancer, TLC

Single(code) == [shape |-> "single", codes |-> <<code>>]
Slice(codes) == [shape |-> "slice", codes |-> codes]
TooMany      == [shape |-> "429", codes |-> <<>>]

\* Errors that block a client for a while, and for ever.
Transient == {Timeout, TooMany, Single(429)}
Permanent == {Opaque, Single(-32000), Slice(<<-32602, -32600>>), Slice(<<-32602, 0>>)}
TooBig    == {Single(-32602), Slice(<<-32600, -32600>>), Slice(<<0, -32602>>)}

Everything == {Output} \cup Transient \cup Permanent \cup TooBig

\* Endpoints that do everything, requests that are too big included.
Unreliable == {[c \in Client |-> Everything]}

\* The same, and one endpoint, in each place, that answers every request.
AtMostOneHealthy ==
    Unreliable \cup
    {[c \in Client |-> IF c = h THEN {Output} ELSE Everything] : h \in Client}

\* The first endpoint limits the rate; the second one answers everything.
LimitedAndHealthy == {[c \in Client |-> IF c = 1 THEN {Output} ELSE {TooMany}]}

\* Endpoints whose error is once a rate limit and once something else.
LimitedOrBroken == {[c \in Client |-> {Output, TooMany, Opaque}]}

CallerSymmetry == Permutations(Caller)
=============================================================================
