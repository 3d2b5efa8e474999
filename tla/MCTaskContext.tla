---------------------------- MODULE MCTaskContext ----------------------------
(***************************************************************************)
(* What the store keeps for the agents of a workspace, on seven instances: *)
(* the task graph, a task that waits for another one and is worked on once *)
(* that is completed, the claims of one task, its claim beside a work      *)
(* lease, the context ledger between two connections and under one that    *)
(* listens, and the challenges of one connection.  The first state picks   *)
(* the instance.  The module extends McpDelivery and ContextLedger, so     *)
(* that their own properties are checked, with all that its instances use; *)
(* their variables keep their first value where they have no part, those   *)
(* of TaskLedger the value Unused.                                         *)
(***************************************************************************)
EXTENDS McpDelivery, ContextLedger, TLC

CONSTANTS r1, r2, id1, id2, id3, prompt, work, Claim, Unused

VARIABLES instance,
    task, alias, lease, row, quota, taskLife, closed, taskActive, taskCall

Graph == INSTANCE TaskLedger WITH
    Ids <- {id1, id2, id3}, Prompts <- {prompt}, Recipients <- {r1}, WorkKeys <- {work},
    MaxTasks <- 2, MaxAliases <- 3, MaxDepth <- 2, MaxActive <- 2, MaxRows <- 9,
    MaxLeases <- 1, MaxGen <- 3, MaxLife <- 1, MaxRelations <- 1,
    life <- taskLife, active <- taskActive, call <- taskCall

Chain == INSTANCE TaskLedger WITH
    Ids <- {id1, id2}, Prompts <- {prompt}, Recipients <- {r1}, WorkKeys <- {},
    MaxTasks <- 2, MaxAliases <- 2, MaxDepth <- 2, MaxActive <- 2, MaxRows <- 12,
    MaxLeases <- 2, MaxGen <- 3, MaxLife <- 1, MaxRelations <- 1,
    life <- taskLife, active <- taskActive, call <- taskCall

Leases == INSTANCE TaskLedger WITH
    Ids <- {id1}, Prompts <- {prompt}, Recipients <- {r1, r2}, WorkKeys <- {},
    MaxTasks <- 1, MaxAliases <- 1, MaxDepth <- 2, MaxActive <- 2, MaxRows <- 6,
    MaxLeases <- 2, MaxGen <- 3, MaxLife <- 2, MaxRelations <- 0,
    life <- taskLife, active <- taskActive, call <- taskCall

Work == INSTANCE TaskLedger WITH
    Ids <- {id1}, Prompts <- {prompt}, Recipients <- {r1, r2}, WorkKeys <- {work},
    MaxTasks <- 1, MaxAliases <- 1, MaxDepth <- 2, MaxActive <- 2, MaxRows <- 6,
    MaxLeases <- 2, MaxGen <- 2, MaxLife <- 1, MaxRelations <- 0,
    life <- taskLife, active <- taskActive, call <- taskCall

\* What each instance allows of the context ledger
Shared == INSTANCE ContextLedger WITH Listeners <- {}, Cited <- {}, MaxGeneration <- 1
Heard == INSTANCE ContextLedger WITH
    Recipients <- {r1}, DeltaLimit <- 4, MaxEvents <- 3, MaxSeq <- 4, MaxWrites <- 1

ASSUME Graph!TaskLedgerAssumption /\ Leases!TaskLedgerAssumption
ASSUME Chain!TaskLedgerAssumption /\ Work!TaskLedgerAssumption
ASSUME ContextLedgerAssumption
ASSUME Shared!ContextLedgerAssumption /\ Heard!ContextLedgerAssumption

taskVars == <<task, alias, lease, row, quota, closed, taskLife, taskActive, taskCall>>
allVars == <<instance, taskVars, contextVars, vars>>

NoTasks ==
    /\ task = Unused /\ alias = Unused /\ lease = Unused
    /\ row = Unused /\ quota = Unused /\ closed = Unused
    /\ taskLife = Unused /\ taskActive = Unused /\ taskCall = Unused

MCInit ==
    /\ Init
    /\ ContextInit
    /\ \/ instance = "graph" /\ Graph!Init
       \/ instance = "chain" /\ Chain!Init
       \/ instance = "leases" /\ Leases!Init
       \/ instance = "work" /\ Work!Init
       \/ instance \in {"shared", "heard", "delivery"} /\ NoTasks

MCNext ==
    /\ UNCHANGED instance
    /\ \/ instance = "graph" /\ Graph!Next /\ UNCHANGED <<contextVars, vars>>
       \/ instance = "chain" /\ Chain!Next /\ UNCHANGED <<contextVars, vars>>
       \/ instance = "leases" /\ Leases!Next /\ UNCHANGED <<contextVars, vars>>
       \/ instance = "work" /\ Work!Next /\ UNCHANGED <<contextVars, vars>>
       \/ instance = "shared" /\ Shared!ContextNext /\ UNCHANGED <<taskVars, vars>>
       \/ instance = "heard" /\ Heard!ContextNext /\ UNCHANGED <<taskVars, vars>>
       \/ instance = "delivery" /\ Next /\ UNCHANGED <<taskVars, contextVars>>

MCSpec == MCInit /\ [][MCNext]_allVars

\* Connections and calls are interchangeable
Symmetry == Permutations({r1, r2}) \cup Permutations(Call)

-----------------------------------------------------------------------------
\* The task tables are sound: no work starts on a task before what it depends
\* on is completed, one definition is one task with at most one leader, the
\* quota counter is what the rows cost, and Store::open would accept them.  A
\* task moves only along its lifecycle, one generation at a time, and a
\* retired recipient is not revived by a late call of its old lifecycle, which
\* read the task before it was retired.
TasksAreSound ==
    /\ [](/\ instance = "graph" => Graph!TasksAreSound
          /\ instance = "chain" => Chain!TasksAreSound
          /\ instance = "leases" => Leases!TasksAreSound
          /\ instance = "work" => Work!TasksAreSound)
    /\ [][/\ instance = "graph" => Graph!TaskStep
          /\ instance = "chain" => Chain!TaskStep
          /\ instance = "leases" => Leases!TaskStep
          /\ instance = "work" => Work!TaskStep]_allVars
=============================================================================
