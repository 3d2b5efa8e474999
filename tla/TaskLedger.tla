----------------------------- MODULE TaskLedger -----------------------------
(***************************************************************************)
(* Durable tasks of one repository, workspace and authorization scope: the *)
(* task operations of store.rs, the work leases they share a table with,   *)
(* and the coordinator calls of context_coordinator.rs that drive them.    *)
(* A store operation is one SQLite transaction and one action; a tool call *)
(* is up to three of them (start or resolve, activate, operate), and other *)
(* sessions, the disconnect of its own session and `again task delete` run *)
(* between them.                                                           *)
(*                                                                         *)
(* A lease is named by its index in `lease` (a UUID in the code).  Time is *)
(* the flag `lapsed`: expires_ms or deadline_ms has passed, although the   *)
(* row still says active until some committed transaction sweeps it.       *)
(***************************************************************************)
EXTENDS Naturals, Sequences, FiniteSetsExt

CONSTANTS
  Ids,            \* requested task ids
  Prompts,        \* prompt texts with their acceptance criteria
  Recipients,     \* authenticated connections (agent and session)
  WorkKeys,       \* keys of context.publish work_start
  Claim,          \* the definition digest: the work key of a task claim
  None,           \* NULL
  MaxTasks,       \* MAX_CONTEXT_TASKS_PER_WORKSPACE_V1
  MaxAliases,     \* MAX_CONTEXT_TASK_ALIASES_PER_WORKSPACE_V1
  MaxDepth,       \* MAX_TASK_GRAPH_DEPTH_V1
  MaxActive,      \* MAX_ACTIVE_CONTEXT_TASKS_V1
  MaxRows,        \* MAX_TASK_CONTEXT_LOGICAL_BYTES_V1, a row being one unit
  MaxLeases,      \* bound: lease rows
  MaxGen,         \* bound: state generation of a task
  MaxLife,        \* bound: lifecycle generations of a connection
  MaxRelations    \* bound: relations of one supplied definition

\* What the ledger is defined for
TaskLedgerAssumption ==
  /\ {MaxTasks, MaxAliases, MaxDepth, MaxActive, MaxRows} \subseteq Nat \ {0}
  /\ {MaxLeases, MaxGen, MaxLife, MaxRelations} \subseteq Nat
  /\ Claim \notin WorkKeys
  /\ None \notin Ids

VARIABLES
  task,     \* context_tasks_v1 with its relations and transitions, by canonical id
  alias,    \* context_task_aliases_v1
  lease,    \* context_ledger_leases_v1
  row,      \* context_ledger_recipients_v1
  quota,    \* context_workspace_quota_v1.task_context_bytes
  life,     \* lifecycle generation of each connection
  closed,   \* the connections that have closed
  active,   \* LocalContextCoordinatorV1.active
  call      \* the tool call each connection has in progress

vars == <<task, alias, lease, row, quota, life, closed, active, call>>

Terminal == {"completed", "failed", "cancelled"}
States == Terminal \cup {"waiting", "active", "blocked"}
Definitions == [prompt : Prompts, deps : SUBSET Ids, refs : SUBSET Ids]
Idle == [step |-> "idle", task |-> None, life |-> 0, gen |-> 0]

Exists(t) == t \in Ids /\ task[t] # None
TaskIds == {t \in Ids : task[t] # None}
Related(d) == d.deps \cup d.refs
LeaseIds == DOMAIN lease
Held(t, work) == {l \in LeaseIds : /\ lease[l].task = t
                                   /\ lease[l].work = work
                                   /\ lease[l].status = "active"}

\* The rows a quota reconciliation counts: tasks, aliases, relations,
\* transitions (one per state generation) and events (one per lease issued).
RowsOf(t) ==
  (IF Exists(t) THEN 1 + task[t].gen + Cardinality(task[t].def.deps)
                       + Cardinality(task[t].def.refs) ELSE 0)
  + Cardinality({a \in Ids : alias[a] = t})
  + Cardinality({l \in LeaseIds : lease[l].task = t})

RowsOver(S) == MapThenSumSet(RowsOf, S)

\* reserve_task_context_bytes_v1: refuse past the limit, else count the rows.
Reserve(n) == quota + n <= MaxRows /\ quota' = quota + n

\* A lease leaves the active state; its time no longer matters.
Close(x, status) == [x EXCEPT !.status = status, !.lapsed = FALSE]

\* expire_context_leases_v1, over every task of the store.
Swept == [l \in LeaseIds |->
            IF lease[l].status = "active" /\ lease[l].lapsed
              THEN Close(lease[l], "expired") ELSE lease[l]]
Live(l) == lease[l].status = "active" /\ ~lease[l].lapsed

\* ensure_current_context_recipient_v1.
CurrentRecipient(c, r) == row[c.task, r] = [life |-> c.life, active |-> TRUE]

\* context_owned_lease_deadline_v1: any lease on the task, whatever its work key.
Owns(c, r, l) == /\ lease[l].task = c.task
                 /\ lease[l].owner = r
                 /\ lease[l].life = c.life

\* Slip: a dependency that has ended, however it did, blocks no more.
BlockersEnded(deps) == {d \in deps : task[d].state \notin Terminal}

\* dependency_blockers_tx_v1.
Blockers(deps) == {d \in deps : task[d].state # "completed"}

\* ensure_task_graph_edge_v1: the depth of what a target already reaches.
Depth == LET d[t \in TaskIds] == IF Related(task[t].def) = {} THEN 1
                                 ELSE 1 + Max({d[u] : u \in Related(task[t].def)})
         IN  d
EdgesFit(targets) == \A t \in targets : Depth[t] < MaxDepth

----------------------------------------------------------------------------
Init ==
  /\ task = [t \in Ids |-> None]
  /\ alias = [a \in Ids |-> None]
  /\ lease = <<>>
  /\ row = [p \in Ids \X Recipients |-> None]
  /\ quota = 0
  /\ life = [r \in Recipients |-> 1]
  /\ closed = {}
  /\ active = {}
  /\ call = [r \in Recipients |-> Idle]

CanCall(r) == call[r] = Idle /\ r \notin closed
Resolved(r, t, g) ==
  call' = [call EXCEPT ![r] = [step |-> "resolved", task |-> t, life |-> life[r], gen |-> g]]
Return(r) == call' = [call EXCEPT ![r] = Idle]

\* resolve_relation: the supplied names become canonical ids; a name given
\* twice among the dependencies, or two names of one task, is refused.
Canonical(d) == [prompt |-> d.prompt,
                 deps   |-> {alias[x] : x \in d.deps},
                 refs   |-> {alias[x] : x \in d.refs}]
Resolvable(id, d) ==
  /\ id \notin Related(d)
  /\ \A x \in Related(d) : alias[x] # None
  /\ \A x, y \in d.deps : alias[x] = alias[y] => x = y

\* The task a start joins: by its requested id, or by its definition.
ByDefinition(d) == {t \in TaskIds : task[t].def = d}

\* start_task_v1 joining by requested id; a different definition is refused.
JoinById(r, id, d) ==
  /\ alias[id] # None
  /\ task[alias[id]].def = Canonical(d)
  /\ Resolved(r, alias[id], task[alias[id]].gen)
  /\ UNCHANGED <<task, alias, quota>>

\* start_task_v1 adding an alias to the task with the same definition.
JoinByDefinition(r, id, d) ==
  /\ alias[id] = None
  /\ Cardinality({a \in Ids : alias[a] # None}) < MaxAliases
  /\ \E t \in ByDefinition(Canonical(d)) :
       /\ alias' = [alias EXCEPT ![id] = t]
       /\ Resolved(r, t, task[t].gen)
  /\ Reserve(1)
  /\ UNCHANGED task

\* start_task_v1 creating the task, its alias, relations and first transition.
Create(r, id, d) ==
  LET def == Canonical(d)
  IN  /\ alias[id] = None
      /\ ByDefinition(def) = {}
      /\ Cardinality(TaskIds) < MaxTasks
      /\ Cardinality({a \in Ids : alias[a] # None}) < MaxAliases
      /\ EdgesFit(Related(def))
      /\ task' = [task EXCEPT ![id] =
           [def   |-> def,
            state |-> IF Blockers(def.deps) = {} THEN "active" ELSE "waiting",
            gen   |-> 1]]
      /\ alias' = [alias EXCEPT ![id] = id]
      /\ Reserve(3 + Cardinality(def.deps) + Cardinality(def.refs))
      /\ Resolved(r, id, 1)

\* task.start: the start transaction; activation and claim follow.
StartTask(r, id, d) ==
  /\ CanCall(r)
  /\ Resolvable(id, d)
  /\ JoinById(r, id, d) \/ JoinByDefinition(r, id, d) \/ Create(r, id, d)
  /\ UNCHANGED <<lease, row, life, closed, active>>

\* context_task_by_alias_v1: the first step of every other tool.
ResolveTask(r, id) ==
  /\ CanCall(r)
  /\ alias[id] # None
  /\ Resolved(r, alias[id], 0)
  /\ UNCHANGED <<task, alias, lease, row, quota, life, closed, active>>

\* activate_canonical and activate_context_recipient_v1.
Accepts(old, c) ==
  IF old = None THEN TRUE ELSE old.life < c.life \/ (old.life = c.life /\ old.active)
Activate(r) ==
  LET c == call[r]
  IN  /\ c.step = "resolved"
      /\ <<r, c.life, c.task>> \in active \/ Cardinality(active) < MaxActive
      /\ Accepts(row[c.task, r], c)
      /\ row' = [row EXCEPT ![c.task, r] = [life |-> c.life, active |-> TRUE]]
      /\ active' = active \cup {<<r, c.life, c.task>>}
      /\ call' = [call EXCEPT ![r].step = "activated"]
      /\ UNCHANGED <<task, alias, lease, quota, life, closed>>

\* A refused step, and the tools that change none of this state: inspect,
\* list, delta, retrieve and the publication of suggestions and unknowns.
Refuse(r) ==
  /\ call[r].step \in {"resolved", "activated"}
  /\ Return(r)
  /\ UNCHANGED <<task, alias, lease, row, quota, life, closed, active>>

Activated(r) == call[r].step = "activated" /\ CurrentRecipient(call[r], r)

NewLease(r, c, work) ==
  [task |-> c.task, work |-> work, owner |-> r, life |-> c.life,
   status |-> "active", lapsed |-> FALSE]

\* claim_task_v1 from the load of the task to its return: terminal and
\* waiting tasks are reported, a waiting or blocked one that is ready becomes
\* active, and the claim joins the task's live lease or issues a new one.
ClaimReports(c) ==
  /\ \/ task[c.task].state \in Terminal
     \/ task[c.task].state = "waiting" /\ Blockers(task[c.task].def.deps) # {}
  /\ lease' = Swept
  /\ UNCHANGED <<task, quota>>

ClaimReady(r, c) ==
  LET t      == c.task
      wakes  == task[t].state \in {"waiting", "blocked"}
      joined == \E l \in Held(t, Claim) : Live(l)
  IN  /\ \/ task[t].state \in {"active", "blocked"}
         \/ task[t].state = "waiting" /\ Blockers(task[t].def.deps) = {}
      /\ wakes => task[t].gen < MaxGen
      /\ task' = IF wakes THEN [task EXCEPT ![t].state = "active", ![t].gen = @ + 1] ELSE task
      /\ joined \/ Len(lease) < MaxLeases
      /\ lease' = IF joined THEN Swept ELSE Append(Swept, NewLease(r, c, Claim))
      /\ Reserve((IF wakes THEN 1 ELSE 0) + (IF joined THEN 0 ELSE 1))

ClaimTask(r) ==
  LET c == call[r]
  IN  /\ Activated(r)
      /\ Exists(c.task)
      /\ c.gen # 0 => c.gen = task[c.task].gen     \* task_state_cas_mismatch
      /\ ClaimReports(c) \/ ClaimReady(r, c)
      /\ Return(r)
      /\ UNCHANGED <<alias, row, life, closed, active>>

\* transition_task_v1: an active task, by a live lease its caller owns.
CloseLeases(t, l, target) ==
  [k \in LeaseIds |->
     CASE k = l -> Close(lease[k], IF target \in {"completed", "failed"} THEN target
                                             ELSE "cancelled")
       [] k # l /\ target \in Terminal /\ lease[k].task = t /\ Live(k)
            -> Close(lease[k], "cancelled")
       [] OTHER -> Swept[k]]

TransitionTask(r, l, target) ==
  LET c == call[r]
  IN  /\ Activated(r)
      /\ c.gen = 0
      /\ Exists(c.task)
      /\ task[c.task].state = "active"
      /\ Owns(c, r, l) /\ Live(l)
      /\ task[c.task].gen < MaxGen
      /\ task' = [task EXCEPT ![c.task].state = target, ![c.task].gen = @ + 1]
      /\ Reserve(1)
      /\ lease' = CloseLeases(c.task, l, target)
      /\ Return(r)
      /\ UNCHANGED <<alias, row, life, closed, active>>

\* acquire_context_lease_v1: neither the task nor its state is looked at.
AcquireLease(r, work) ==
  LET c      == call[r]
      joined == \E l \in Held(c.task, work) : Live(l)
  IN  /\ Activated(r)
      /\ c.gen = 0
      /\ joined \/ Len(lease) < MaxLeases
      /\ lease' = IF joined THEN Swept ELSE Append(Swept, NewLease(r, c, work))
      /\ Reserve(IF joined THEN 0 ELSE 1)
      /\ Return(r)
      /\ UNCHANGED <<task, alias, row, life, closed, active>>

\* heartbeat_context_lease_v1 renews a lease that has not lapsed.
HeartbeatLease(r, l) ==
  /\ Activated(r)
  /\ call[r].gen = 0
  /\ Owns(call[r], r, l) /\ Live(l)
  /\ lease' = Swept
  /\ Return(r)
  /\ UNCHANGED <<task, alias, row, quota, life, closed, active>>

\* finish_context_lease_v1: work_finish, of a claim or of other work.
FinishLease(r, l) ==
  /\ Activated(r)
  /\ call[r].gen = 0
  /\ Owns(call[r], r, l) /\ Live(l)
  /\ \E status \in {"completed", "failed"} :
       lease' = [Swept EXCEPT ![l] = Close(@, status)]
  /\ Return(r)
  /\ UNCHANGED <<task, alias, row, quota, life, closed, active>>

\* cancel_context_lease_v1: work_cancel; it does not sweep.
CancelLease(r, l) ==
  /\ Activated(r)
  /\ call[r].gen = 0
  /\ Owns(call[r], r, l) /\ lease[l].status = "active"
  /\ lease' = [lease EXCEPT ![l] = Close(@, "cancelled")]
  /\ Return(r)
  /\ UNCHANGED <<task, alias, row, quota, life, closed, active>>

\* retire_context_recipient_v1 for the entries of the coordinator's map.
RetireRows(entries) ==
  /\ row' = [p \in DOMAIN row |->
       IF row[p] # None /\ row[p].active /\ <<p[2], row[p].life, p[1]>> \in entries
         THEN [row[p] EXCEPT !.active = FALSE] ELSE row[p]]
  /\ lease' = [l \in LeaseIds |->
       IF /\ lease[l].status = "active"
          /\ <<lease[l].owner, lease[l].life, lease[l].task>> \in entries
         THEN Close(lease[l], "cancelled") ELSE lease[l]]
  /\ active' = active \ entries

\* context.cancel: retire this recipient from this task.
CancelContext(r) ==
  LET c == call[r]
  IN  /\ Activated(r)
      /\ c.gen = 0
      /\ RetireRows({<<r, c.life, c.task>>})
      /\ Return(r)
      /\ UNCHANGED <<task, alias, quota, life, closed>>

\* retire_recipient and invalidate_reasoning_session_v1, on the reader thread:
\* the connection closed, or its context was compacted or a request cancelled.
\* Calls of its workers that are in progress go on.
Retire(r) == RetireRows({e \in active : e[1] = r /\ e[2] = life[r]})
Disconnect(r) ==
  /\ r \notin closed
  /\ Retire(r)
  /\ closed' = closed \cup {r}
  /\ UNCHANGED <<task, alias, quota, life, call>>
Invalidate(r) ==
  /\ r \notin closed
  /\ life[r] < MaxLife
  /\ Retire(r)
  /\ life' = [life EXCEPT ![r] = @ + 1]
  /\ UNCHANGED <<task, alias, quota, closed, call>>

\* delete_task_v1, from `again task delete` and `again task prune`.
Deletable(t) ==
  /\ task[t].state \in Terminal
  /\ \A u \in TaskIds : t \notin Related(task[u].def)
  /\ \A l \in LeaseIds : ~(lease[l].task = t /\ lease[l].status = "active")

DeleteTask(id) ==
  LET t == alias[id]
  IN  /\ t # None
      /\ Deletable(t)
      /\ task' = [task EXCEPT ![t] = None]
      /\ alias' = [a \in Ids |-> IF alias[a] = t THEN None ELSE alias[a]]
      /\ row' = [p \in DOMAIN row |-> IF p[1] = t THEN None ELSE row[p]]
      /\ lease' = SelectSeq(lease, LAMBDA x : x.task # t)
      /\ quota' = RowsOver(Ids \ {t})               \* reconcile_task_quota_scope_v1_tx
      /\ UNCHANGED <<life, closed, active, call>>

\* A lease's time is up.
Lapse(l) ==
  /\ Live(l)
  /\ lease' = [lease EXCEPT ![l].lapsed = TRUE]
  /\ UNCHANGED <<task, alias, row, quota, life, closed, active, call>>

Supplied == {d \in Definitions : Cardinality(d.deps) + Cardinality(d.refs) <= MaxRelations}

Next ==
  \/ \E r \in Recipients :
       \/ \E id \in Ids, d \in Supplied : StartTask(r, id, d)
       \/ \E id \in Ids : ResolveTask(r, id)
       \/ Activate(r)
       \/ Refuse(r)
       \/ ClaimTask(r)
       \/ \E l \in LeaseIds, s \in Terminal \cup {"blocked"} : TransitionTask(r, l, s)
       \/ \E w \in WorkKeys : AcquireLease(r, w)
       \/ \E l \in LeaseIds : HeartbeatLease(r, l) \/ FinishLease(r, l) \/ CancelLease(r, l)
       \/ CancelContext(r)
       \/ Disconnect(r)
       \/ Invalidate(r)
  \/ \E id \in Ids : DeleteTask(id)
  \/ \E l \in LeaseIds : Lapse(l)

Spec == Init /\ [][Next]_vars

----------------------------------------------------------------------------
TaskTypeOK ==
  /\ \A t \in TaskIds : task[t] \in [def : Definitions, state : States, gen : 1..MaxGen]
  /\ alias \in [Ids -> Ids \cup {None}]
  /\ lease \in Seq([task : Ids, work : WorkKeys \cup {Claim}, owner : Recipients,
                    life : 1..MaxLife,
                    status : {"active", "completed", "failed", "cancelled", "expired"},
                    lapsed : BOOLEAN])
  /\ \A p \in DOMAIN row : row[p] = None \/ row[p] \in [life : 1..MaxLife, active : BOOLEAN]
  /\ quota \in 0..MaxRows
  /\ life \in [Recipients -> 1..MaxLife]
  /\ closed \subseteq Recipients
  /\ active \subseteq Recipients \X (1..MaxLife) \X Ids
  /\ call \in [Recipients -> [step : {"idle", "resolved", "activated"},
                              task : Ids \cup {None}, life : 0..MaxLife, gen : 0..MaxGen]]

\* No work starts on a task before what it depends on is completed, and what
\* it depends on stays there and completed: claim_task_v1 wakes a waiting task
\* only without blockers, terminal states are immutable, and delete_task_v1
\* refuses a referenced task.
DependenciesDone ==
  \A t \in TaskIds : task[t].state # "waiting" =>
    \A d \in task[t].def.deps : Exists(d) /\ task[d].state = "completed"

\* What Store::open checks of the task tables before it opens them again:
\* canonical aliases, foreign keys, capacities, the depth of the task graph.
\* If an operation could break one of these, the store would never reopen.
OpenValid ==
  /\ \A t \in TaskIds : alias[t] = t
  /\ \A a \in Ids : alias[a] # None => Exists(alias[a])
  /\ \A t \in TaskIds : \A u \in Related(task[t].def) : Exists(u) /\ u # t
  /\ Cardinality(TaskIds) <= MaxTasks
  /\ Cardinality({a \in Ids : alias[a] # None}) <= MaxAliases
  /\ \A t \in TaskIds : EdgesFit(Related(task[t].def))
StoreReopens == OpenValid

\* The quota counter that every write adds to is what a reconciliation of the
\* tables would compute: no operation writes rows it does not reserve, and
\* deletion gives back all of them.
QuotaIsExact == quota = RowsOver(Ids)

\* Two requested ids with one definition name one task, also when their
\* dependencies were given through different aliases.
Converged == \A t, u \in TaskIds : task[t].def = task[u].def => t = u

\* One leader at a time: a task has at most one active claim, and none once
\* it is terminal, whatever lease the transition was made with.
OneLeader ==
  \A t \in Ids :
    /\ Cardinality(Held(t, Claim)) <= 1
    /\ Exists(t) /\ task[t].state \in Terminal => Held(t, Claim) = {}

\* Retirement is final: a recipient retired from a task holds no lease there
\* and no late call of that lifecycle revives it; only a later lifecycle, or
\* the deletion of the task, ends the retirement.
RetiredStep ==
  \A p \in DOMAIN row : row[p] # None /\ ~row[p].active =>
    IF row'[p] # row[p]
      THEN row'[p] # None => row'[p].life > row[p].life
      ELSE \A l \in DOMAIN lease' : lease'[l].task = p[1] /\ lease'[l].owner = p[2]
             /\ lease'[l].life = row[p].life => lease'[l].status # "active"

\* A task moves only along the lifecycle, one generation at a time, and a
\* terminal task only by being deleted: nobody's update is lost, whatever
\* the calls read before they wrote.
Follows(old, new) ==
  \/ new = old
  \/ /\ new.def = old.def
     /\ new.gen = old.gen + 1
     /\ \/ old.state \in {"waiting", "blocked"} /\ new.state = "active"
        \/ old.state = "active" /\ new.state \in Terminal \cup {"blocked"}
LifecycleStep ==
  \A t \in Ids : task[t] # None =>
    IF task'[t] = None THEN task[t].state \in Terminal ELSE Follows(task[t], task'[t])

\* The task tables are sound: every task has its dependencies done before work
\* starts, one leader and one canonical row, the quota counter agrees with the
\* rows, and the store would open again.
TasksAreSound ==
  /\ TaskTypeOK
  /\ DependenciesDone
  /\ StoreReopens
  /\ QuotaIsExact
  /\ Converged
  /\ OneLeader

\* What no call may do to the tasks, however late it writes what it read.
TaskStep == LifecycleStep /\ RetiredStep
=============================================================================
