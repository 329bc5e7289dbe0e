---------------------------- MODULE Orchestrator ----------------------------
(***************************************************************************)
(* The orchestrator (orchestrator/orchestrator.go): it chooses the mode    *)
(* from the environment, opens the database, starts the synchronizer and   *)
(* the first fetch, and in full mode keeps requesting the blocks between   *)
(* the synchronizer's current block and the tag.                           *)
(*                                                                         *)
(* Each iteration of the orchestrate loop is two steps, since the loop     *)
(* reads the synchronizer's block, waits for an RPC, and then uses the     *)
(* block it read.                                                          *)
(***************************************************************************)
EXTENDS Synchronizer, Fetcher, Environment

CONSTANT Envs   \* the environments the process can be started with

ASSUME EnvAssumption ==
    \A env \in Envs : GetInt64(env.START_BLOCK, 0) \in Blocks
                      /\ GetInt64(env.END_BLOCK, 0) \in Blocks

VARIABLES
    orchPc,        \* where the orchestrator is; "down": there is no process
    currEndblock,  \* end of the last range requested
    orchBlock      \* local currBlock of the orchestrate loop

orchVars == <<orchPc, currEndblock, orchBlock>>

OrchPcs == {"down", "starting", "range", "wait", "ask"}

OrchestratorInit ==
    /\ orchPc = "down"
    /\ currEndblock = 0
    /\ orchBlock = 0

validTags == {"latest", "safe", "finalized"}

startBlockEnv(env) == GetInt64(env.START_BLOCK, 0)

endBlockEnv(env) == GetInt64(env.END_BLOCK, 0)

blockTag(env) == GetString(env.BLOCK_TAG, "latest")

InRangeMode(env) == startBlockEnv(env) # 0 /\ endBlockEnv(env) # 0

manageRange(env) ==
    /\ orchPc = "down"
    /\ InRangeMode(env)
    /\ StartDB(ModeRange)
    /\ GoStart(startBlockEnv(env))
    /\ RequestRange(startBlockEnv(env), endBlockEnv(env))
    /\ orchPc' = "range"
    /\ currEndblock' = endBlockEnv(env)
    /\ UNCHANGED orchBlock

\* manageFull up to the call of GetBlockFromTag.
manageFull(env) ==
    /\ orchPc = "down"
    /\ ~InRangeMode(env)
    /\ blockTag(env) \in validTags
    /\ StartDB(ModeFull)
    /\ orchPc' = "starting"
    /\ UNCHANGED <<syncVars, fetchVars, currEndblock, orchBlock>>

\* Variant: the index is resumed at the last block saved, not after it.
manageFullTagAtLast(endBlock) ==
    /\ orchPc = "starting"
    /\ GoStart(GetLastBlockIndex)
    /\ RequestRange(GetLastBlockIndex, endBlock)
    /\ orchPc' = "wait"
    /\ currEndblock' = endBlock
    /\ UNCHANGED <<dbVars, orchBlock>>

\* Variant: the index is started again at block 0.
manageFullTagAtZero(endBlock) ==
    /\ orchPc = "starting"
    /\ GoStart(0)
    /\ RequestRange(0, endBlock)
    /\ orchPc' = "wait"
    /\ currEndblock' = endBlock
    /\ UNCHANGED <<dbVars, orchBlock>>

\* The rest of manageFull, when the tag is at endBlock.  An error instead
\* ends the process (module Indexer).
manageFullTag(endBlock) ==
    LET start == GetLastBlockIndex + 1
    IN  /\ orchPc = "starting"
        /\ GoStart(start)
        /\ RequestRange(start, endBlock)
        /\ orchPc' = "wait"
        /\ currEndblock' = endBlock
        /\ UNCHANGED <<dbVars, orchBlock>>

\* Variants of the tick below: the next cycle starts while the last block of
\* the range is not saved yet, or waits for a block that was never requested.
TickFrom(first) ==
    /\ orchPc = "wait"
    /\ GetCurrBlock >= first
    /\ orchBlock' = GetCurrBlock
    /\ orchPc' = "ask"
    /\ UNCHANGED <<dbVars, syncVars, fetchVars, currEndblock>>

orchestrateAtEnd == TickFrom(currEndblock)

orchestrateLate == TickFrom(currEndblock + 2)

\* A tick of the orchestrate loop that finds the requested range saved.  (A
\* tick that does not changes nothing.)
orchestrate ==
    /\ orchPc = "wait"
    /\ GetCurrBlock > currEndblock
    /\ orchBlock' = GetCurrBlock
    /\ orchPc' = "ask"
    /\ UNCHANGED <<dbVars, syncVars, fetchVars, currEndblock>>

\* GetBlockFromTag returned endBlock.  An error is printed and the loop goes
\* on with the endBlock the call returned beside it, which is 0.
orchestrateTag(endBlock) ==
    /\ orchPc = "ask"
    /\ orchPc' = "wait"
    /\ orchBlock' = 0
    /\ \/ /\ orchBlock > endBlock
          /\ UNCHANGED <<fetchVars, currEndblock>>
       \/ /\ orchBlock <= endBlock
          /\ currEndblock' = endBlock
          /\ RequestRange(orchBlock, endBlock)
    /\ UNCHANGED <<dbVars, syncVars>>
=============================================================================
