----------------------------- MODULE MCFetchData -----------------------------
(***************************************************************************)
(* Small instances of FetchData for TLC.                                   *)
(***************************************************************************)
EXTENDS FetchData, TLC

L(tx, how) == [tx |-> tx, how |-> how]

\* Blocks without logs, with one, with logs of others first, last or only,
\* with several logs of one transaction, and with a contract creation.
Shapes == {
    <<>>,
    <<L(1, "other")>>,
    <<L(1, "from"), L(2, "other")>>,
    <<L(1, "to"), L(1, "to"), L(2, "from")>>,
    <<L(1, "other"), L(2, "to"), L(2, "to")>>,
    <<L(1, "create")>>}

AllChains == [Blocks -> Shapes]

TwoTags == [latest |-> 0, safe |-> 1]

Latest == [latest |-> 0]

EndpointSymmetry == Permutations(Endpoint)
=============================================================================
