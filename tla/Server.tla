------------------------------- MODULE Server -------------------------------
(***************************************************************************)
(* The life of the process as main (main.go) and RunServer                 *)
(* (router/router.go) lead it.  RunServer runs two goroutines in an error  *)
(* group: one inside ListenAndServe, and one that waits until the group's  *)
(* context is done and then calls Shutdown.  main waits for both, and its  *)
(* deferred call closes the database.                                      *)
(*                                                                         *)
(* Of net/http (external): Shutdown closes the listeners, waits until      *)
(* ListenAndServe serves no more and every accepted request is answered,   *)
(* and then returns; ListenAndServe returns an error always, at once if    *)
(* Shutdown was called before it.                                          *)
(***************************************************************************)

VARIABLES
    mainPc,     \* main: starting the indexer, inside g.Wait, past it, or past
                \* the deferred persistor.Close; "down": there is no process
    signalled,  \* the context of signal.NotifyContext is done
    listener,   \* the goroutine of ListenAndServe
    shutdown    \* the goroutine that calls Shutdown

serverVars == <<mainPc, signalled, listener, shutdown>>

NoServer ==
    /\ mainPc = "down"
    /\ signalled = FALSE
    /\ listener = "none"
    /\ shutdown = "none"

\* The process starts.
StartMain ==
    /\ mainPc = "down"
    /\ mainPc' = "starting"
    /\ UNCHANGED <<signalled, listener, shutdown>>

\* SIGINT or SIGTERM, at any time: StartOrchestrator does not look at it.
Signal ==
    /\ mainPc # "down"
    /\ ~signalled
    /\ signalled' = TRUE
    /\ UNCHANGED <<mainPc, listener, shutdown>>

RunServer ==
    /\ mainPc = "starting"
    /\ mainPc' = "wait"
    /\ listener' = "spawned"
    /\ shutdown' = "spawned"
    /\ UNCHANGED signalled

\* The error of ListenAndServe cancels the group's context, as the signal does.
gCtxDone == signalled \/ listener = "returned"

\* Shutdown was called.
ShuttingDown == shutdown \in {"draining", "returned"}

\* A request can be accepted.
Accepting == listener = "serving" /\ ~ShuttingDown

Listen ==
    /\ listener = "spawned"
    /\ ~ShuttingDown
    /\ listener' = "serving"
    /\ UNCHANGED <<mainPc, signalled, shutdown>>

\* The port is taken, or the listener fails later.
ListenFails ==
    /\ listener \in {"spawned", "serving"}
    /\ ~ShuttingDown
    /\ listener' = "returned"
    /\ UNCHANGED <<mainPc, signalled, shutdown>>

\* ListenAndServe returns ErrServerClosed.
ServerClosed ==
    /\ listener \in {"spawned", "serving"}
    /\ ShuttingDown
    /\ listener' = "returned"
    /\ UNCHANGED <<mainPc, signalled, shutdown>>

\* Variant: the second goroutine waits for the signal only.
BeginShutdownOnSignal ==
    /\ shutdown = "spawned"
    /\ signalled
    /\ shutdown' = "draining"
    /\ UNCHANGED <<mainPc, signalled, listener>>

BeginShutdown ==
    /\ shutdown = "spawned"
    /\ gCtxDone
    /\ shutdown' = "draining"
    /\ UNCHANGED <<mainPc, signalled, listener>>

\* Shutdown returns: nothing listens, and no accepted request is active.
EndShutdown(active) ==
    /\ shutdown = "draining"
    /\ listener # "serving"
    /\ active = {}
    /\ shutdown' = "returned"
    /\ UNCHANGED <<mainPc, signalled, listener>>

\* Variant: main waits for ListenAndServe alone.
WaitForListener ==
    /\ mainPc = "wait"
    /\ listener = "returned"
    /\ mainPc' = "returned"
    /\ UNCHANGED <<signalled, listener, shutdown>>

\* g.Wait returns when both goroutines have.
WaitReturns ==
    /\ mainPc = "wait"
    /\ listener = "returned"
    /\ shutdown = "returned"
    /\ mainPc' = "returned"
    /\ UNCHANGED <<signalled, listener, shutdown>>

\* The deferred persistor.Close.
Close ==
    /\ mainPc = "returned"
    /\ mainPc' = "closed"
    /\ UNCHANGED <<signalled, listener, shutdown>>

\* main returns, or a goroutine panics, or the process is killed.
Exit ==
    /\ mainPc # "down"
    /\ mainPc' = "down"
    /\ signalled' = FALSE
    /\ listener' = "none"
    /\ shutdown' = "none"
=============================================================================
