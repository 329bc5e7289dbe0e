------------------------------ MODULE MCRouter ------------------------------
(***************************************************************************)
(* A small instance of Router for TLC.                                     *)
(***************************************************************************)
EXTENDS Router

\* One block without records, and neighbours with two and with one.
MCEvents(b) == [i \in 1..(IF b = 1 THEN 0 ELSE IF b = 0 THEN 2 ELSE 1) |-> <<b, i>>]

\* A negative index, and one that is inside the records or past them.
MCStartIndexes == {-1, 1}

\* Two entries, the default, and one.
MCLimits == {0, 1}
=============================================================================
