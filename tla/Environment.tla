---------------------------- MODULE Environment ----------------------------
(***************************************************************************)
(* Settings of the operator (environment/environment.go).  The value of a  *)
(* variable is what its reader tells apart: whether it is a number, which  *)
(* one, or the text.  A required variable that is missing panics before    *)
(* main runs, so here the required ones are there.                         *)
(***************************************************************************)
EXTENDS Integers

\* LookupEnv finds nothing, or a text that ParseInt refuses.
Unset      == [kind |-> "unset", int |-> 0]
Unparsable == [kind |-> "unparsable", int |-> 0]
Number(n)  == [kind |-> "number", int |-> n]

GetInt64(val, defaultValue) ==
    IF val.kind = "number" THEN val.int ELSE defaultValue

\* An unset variable reads as the empty text.
GetString(val, defaultValue) == IF val = "" THEN defaultValue ELSE val
============================================================================
