# Formal models of Again

Again answers a tool call or a command from an earlier execution when it can
prove that the earlier result is still exact. This directory holds TLA+ models
of the parts of it where that promise depends on order, time and failure, the
TLC runs that check them on small instances, and TLAPS proofs for every value of
the constants: the invariants of the two stores, the refinement of the abstract
store, and the soundness of the gateway runtime, the local engine, an MCP
session and its deliveries, the daemon, an upstream attempt, a team run, an
immutable capture and the trust of the team service. `PROJECT.json`
lists components, runs, mutants, hazards, theorems and, in `map`, the source
lines behind every definition.

    tlc -workers 2 -config MCGatewayRuntime.cfg MCGatewayRuntime
    tlapm GatewayProofs.tla

## 1. Inventory

| Component | State | Operations | Hard part | Correct when |
|---|---|---|---|---|
| Gateway coordinator (`src/store.rs`) | `inflight_leases`, `gateway_requests`, `gateway_results` in SQLite | acquire, start, heartbeat, complete, fail, observe, cancel a follower, record a serve | many processes; leases judged with a clock read before the write lock; clocks that step back | one leader and one result per binding, no request waits for nobody |
| Gateway runtime (`src/agent_gateway_runtime.rs`) | threads in `execute`, active and candidate maps, heartbeat thread | lead, follow, serve, cancel | the workspace changes at any moment; cancellation; crash | what is published is true, what is reused is current, every call returns |
| Workspace authority (`src/workspace_authority.rs`) | a manifest of observed identities | observe, revalidate | races with edits; undone edits | equal digests mean nothing changed |
| Result store (`src/store.rs`) | `results`, `artifacts`, blob files | put_blob, insert_result, get_result, quarantine, cleanup | three transactions and a file system; crash between them; quota | rows are complete, write-once, within the quota |
| Local engine (`src/engine.rs`, `src/fingerprint.rs`) | digest cache, rows of `results` | fingerprint, look up, execute twice, store | edits during and between the fingerprints and executions | a hit is what the command would print |
| MCP gateway (`src/mcp_gateway.rs`) | job and response queues, in-flight counter, active map | admit, activate, work, cancel, write, close | cancellation and close race every step; full queues | cancellation reaches its call, places are returned, the session ends |
| Upstream provider (`src/mcp_gateway.rs`) | attempt, child, pipe, stdin lock | start, call, cancel, terminate | a child that hangs, floods or dies | no child without an owner, every call returns |
| Deliveries and grants (`src/mcp_gateway.rs`, `src/store.rs`) | challenges, receipts, grants, generations | issue, flush, acknowledge, retrieve, invalidate | workers against the reader's invalidation | nothing of an earlier generation is used |
| Context ledger (`src/store.rs`, `src/agent_gateway_runtime/context_coordinator.rs`) | events, facts, references, deliveries, cursors | observe, admit, deliver, acknowledge, collect | admission races changes; collection at the quota | what is current was admitted after the last change |
| Task lifecycle (`src/store.rs`, `context_coordinator.rs`) | tasks, aliases, leases, recipients, quota | start, activate, claim, transition, work, retire, delete | three transactions per call | dependencies first, one leader, the store reopens |
| Gateway daemon (`src/agent_gateway_service.rs`) | instance and start locks, locator and socket files, connections | start, find, serve, stop | processes that die anywhere | a serving daemon can be found, one that ends leaves nothing |
| Linux tracer (`src/linux_pytest/tracer_*.rs`) | planner and recorder over ptrace stops | observe, correlate, resume, complete | stops of a fork family in any order; reused thread ids | births are true, no stop is forgotten |
| Team client (`src/team_cli.rs`, `team_pull.rs`, `team_publish.rs`, `team_config.rs`, `trust_bundle.rs`) | trust checkpoint on disk, its flock, what a process holds | look up, release, authorise, publish | a service that replays; two processes; clocks; edits | what leaves or is shown was never known to be revoked |
| Immutable capture (`src/team_manifest_v2/immutable_capture.rs`) | signal flags, published process group, two runs | install, run, terminate, reap, restore | signals between any two steps; descendants | no signal is lost, the command never runs beside what an earlier run left, and a group is left only where the code gives up on it |
| Team service (`service/src`) | D1 rows, R2 objects, leases, trust heads, manifests | put, get, delete, promote, collect, sweep, erase | no transaction spans D1 and R2; late PUTs; overlapping crons | served blobs exist, generations are apart, releases are trusted |
| Linux snapshots, execute-only runtime, profile store | staged trees, namespaces, pipes | publish, materialise, run | kernel behaviour | not modelled (section 7) |
| Setup, hook, CLI, wire formats, cryptography, code intelligence | files, bytes | parse, format, edit, sign | sequential | not modelled (section 7) |

How they interact: an MCP session admits calls to its workers; a worker calls
the gateway runtime, which observes the workspace through the authority,
coordinates through the store's gateway tables (one mutex inside a process,
SQLite's write lock between processes), runs a provider and publishes by
inserting a row of `results` and completing its lease. Responses carry
challenges of the delivery ledger and context of the task's ledger. The daemon
hosts the sessions of several clients. The local engine and the team client are
commands of their own: the engine uses the same rows and blobs without leases,
the team client looks up and publishes in the team service and captures with
the immutable capture. Every process that opens the store may run cleanup.

## 2. Modules

| Module | Models |
|---|---|
| `GatewayCoordinator` | the gateway tables and every operation on them; `insert_result` and `quarantine` as the tables see them |
| `ExactReuse` | abstract: a binding is a write-once cell that quarantine closes |
| `GatewayRefinement` | the mapping under which the coordinator implements `ExactReuse` |
| `GatewayRuntime` | EXTENDS the coordinator: the threads of `execute`, heartbeat, cancel, edits, the clock, a crash |
| `ResultStore` | `results`, `artifacts` and blob files with the transactions of `insert_result`, cleanup, the hit path, crashes, damage |
| `LocalEngine` | `run_admitted`: three fingerprints with the digest cache, two executions, hit, insert, while files are written one by one |
| `McpStdio` | reader, workers, writer and queues of a stdio session; cancellation and close |
| `UpstreamProvider` | one attempt of the stdio provider: executor, canceller, reader thread, child and pipe |
| `McpDelivery` | challenges, receipts, briefs and retrieval grants of one connection under compaction, cancellation and disconnect |
| `ContextLedger` | events, facts, references, deliveries, acknowledgement and collection of one task's context |
| `TaskLedger` | tasks, aliases, dependencies, leases, recipients and the quota counter, with the coordinator calls split at their transactions |
| `GatewayDaemon` | locks, files, accept loop, connections and clients of the workspace daemon |
| `TracerTasks`, `TracerSupervisor` | the recorder as a value; the planner, the loop that drives it and an external kernel |
| `TeamBlobs` | one digest in D1 and R2: uploads, DELETE, reconciler, collector, sweeper, late PUTs |
| `TeamRepository` | generations of one repository name: leases, tombstone, erasure by overlapping crons, receipts, graveyard |
| `TeamTrust` | roots, bundles, producer keys, manifests, admission and release |
| `TeamClient` | `again team run` of several processes: pull by both protocols, the trust checkpoint, publication |
| `ImmutableCapture` | signals, the two runs, termination and reaping, the routing of the outcome |
| `GatewayProofs` | the theorems about `GatewayCoordinator`, `GatewayRefinement` and `GatewayRuntime` (section 5) |
| `LocalEngineProofs`, `UpstreamProviderProofs`, `ImmutableCaptureProofs` | the theorems about the module of that name |
| `CommandPathProofs` | the theorems about `ResultStore` and `TeamClient` |
| `McpGatewayProofs` | the theorems about `McpStdio` and `GatewayDaemon` |
| `TaskContextProofs` | the theorems about `McpDelivery` and `ContextLedger` |
| `TeamServiceProofs` | the theorems about `TeamTrust`, `TeamRepository` and `TeamBlobs` |
| `MC*` | the instances of the runs |

One action is one transaction, one system call that others can see, or one
await; what a thread does between two of them is part of the action. Operators
whose comment starts with *Slip:* are plausible errors; no specification uses
them, they are the mutants of `PROJECT.json`.

**Gateway.** In `GatewayCoordinator` a lease is named after the call that
created it, because `acquire_gateway_call` makes both ids in one transaction; a
result id is the pair of binding and source row, of which the real id is the
digest. `lease[c]`, `request[c]`, `gresult[r]` and `source[k]` are the rows of
the four tables. The `now` of an action is any member of `Time`: the code
samples it before it waits for the lock, and the wall clock may step back.
`AcquireReady`, `AcquireInvalid`, `AcquireFollower` and `AcquireLeader` are the
outcomes of `acquire_gateway_call`; `Observe` stands for both observing
operations; `Complete` publishes, finds the lease overdue, or quarantines a
divergence. In `GatewayRuntime` there is one tool request, so a binding is what
`resolve()` computes from the workspace: the observed content and, where the
observation binds file identities (`Stamped`), the stamp of the last change.
`pc` follows a thread through `execute`. `Cancel` and `CancelCloses` are the two
halves of `cancel()`, which sets a flag and then waits for the store.

**Stores and engine.** In `ResultStore`, `Preflight`, `PutStdout`, `PutStderr`
and `InsertRow` are the transactions of `insert_result`; `DieInPut` and
`DieInCleanup` are crashes after the file system was changed and before SQLite
committed. A cleanup pass may run at any time, with a stale clock. In
`LocalEngine` a version of a file is its content and change time; every
fingerprint and every execution reads the files one after the other, so each
can mix two moments.

**Sessions.** In `McpStdio` a frame is named by its position, which is the
attempt id of its call; ids may collide. The reader blocks until the worker has
registered the call. `McpDelivery` names a challenge, its receipt and its grant
by their call; expiry is a choice where the code compares clocks. In
`UpstreamProvider` writes to the child hold the stdin lock and have no deadline.
In `GatewayDaemon` a daemon's name stands for its socket, nonce and inodes.

**Ledgers.** `TaskLedger` and `ContextLedger` keep a tool call as the sequence
of its transactions; between two of them other sessions, the session's own
disconnect and `again task delete` run. A lapsed lease keeps its row until some
transaction sweeps it.

**Tracer.** The kernel is external: lifetimes that enter calls, stop, fork,
exec, exit and are killed; `waitpid` reports stops in any order and reuses
thread ids. The recorder is a value, and a token is its pending request,
because tokens are linear in Rust and the loop hands each one straight back.
The one loop in the repository is that of the two-task probe: its
`TaskTreeGuardV1` refuses every tree but a root with one forked child, when a
stop is reported, when a fork is announced, and at the end. `Guarded` says
whether the loop keeps that tree; without it the loop stands for a caller that
only follows the planner's intents, as the planner's tests do, since the planner
itself is made for any tree. A traced parent stops at the SIGCHLD of its child
unless the probe has blocked it (`block_tracee_sigchld_v1`), and a clone3 whose
arguments another task could change is refused (`prove_clone3_quiescence_v1`).

**Team.** In the service every await is a step; a PUT belongs to R2 once it is
sent and may land after its handler died. The client assumes nothing of the
service but signatures: it may answer with any signed bundle or manifest, old
or new. The checkpoint is compared, renamed and read back in separate steps.
Any failure inside the commit of a manifest, a lost answer of D1 included, sends
`putManifest` to the lookups that decide whether it raced. In
`ImmutableCapture` a group has its leader, members and descendants that left it
with the output; `open` says whether a member still holds the streams, since one
that closed them is silent and stays. `terminate_and_reap` ends when the group
is gone, at its deadline, or at an error of `process_group_exists`.
`fence` and `since` in `TeamClient` and `ghost` in `ImmutableCapture` record
history for the properties and are read by no guard.

## 3. Runs

Several runs hold more than one instance: a variable `instance`, fixed by the
first state, picks the component and its bounds, and the others stay where they
start. The components of such a run do not interact; they are checked together
because they ask the same question of different code. Components that do
interact are composed (`GatewayRuntime` over `GatewayCoordinator`,
`TracerSupervisor` over `TracerTasks`) or meet at an interface that both sides
state: a provider of `McpStdio` returns or is cancelled, a lease of the service
may be lost between any two steps of a handler, a capture of `TeamClient` fails
or succeeds.

| Run | Instances and bounds | Shows |
|---|---|---|
| `gateway_coordinator` | 3 calls, 1 binding, 2 request keys, times 0..2, lease time 1 | tables sound, and they implement `ExactReuse` |
| `gateway_runtime` | 2 calls, 2 contents, 2 edits, clock 0..2 | published results are true, reused answers current, no false quarantine, leaders close their leases, a cancelled call is not published |
| `gateway_runtime_live` | 2 calls, 1 content, failing files, clock 0..2 | every call returns |
| `gateway_unstamped` | as `gateway_runtime`; one content is an absent file | **violation**, section 6 |
| `command_path` | store: 2 processes, 2 keys, room for 1, clock 0..3, 1 damaged blob; team: a reader (legacy protocol) and a publisher (bundled), 5 bundles, 2 foreign manifests, times 0..2, 1 edit, 1 kill | what commands store, present and publish |
| `local_engine` | 2 calls, one of them a lookup only, 2 files, 2 contents, 2 writes, 1 damaged blob | what the engine remembers, stores and answers |
| `mcp_gateway` | session: 2 ids, 2 workers, 3 frames, queues of 1, a failing writer; daemon: 2 connectors and a stop, 2 daemons, 1 kill, or every error and signal | cancellation, places in the pool; files, locks and connections of the daemon |
| `gateway_ends` | session: 1 worker, or 2 that only get calls, 3 frames, a failing writer; attempt: pipe of 5, queue of 1, 3 frames of output, a request of 2 that must end and one of 6 that may block; daemon: 1 connector and a stop, 1 kill | sessions, attempts and clients of the daemon end; a child always has its owner |
| `task_context` | graph: 3 ids, 2 tasks; chain: a task and one that depends on it, 2 leases; claims and work leases: 2 recipients; ledger: 2 connections, or one that listens, with the event quota reached; delivery: 2 calls, 3 generations | tasks, context and deliveries |
| `tracer` | 4 tasks that fork and clone; 3 with kills, among processes and in a thread group; vfork with execve; the probe's loop with kills, signals and restarts | traces are true; the planner refuses no legal trace, and the probe completes with its own program, always and only |
| `team_service` | blobs: four mixes of uploads, DELETE, crons, loss; repository: two generations, or two pages; trust: bundles out of order, release while trust changes, manifests that agree in one name | blobs, generations and trust of the service |
| `background` | tracer with vfork and execve; capture: 2 signals, 1 descendant a run; crons on one upload; one deletion | what could go on for ever ends; a capture loses no signal and neither runs again nor validates beside a group that is left |

*Why the bounds are enough.* A lease can be live, overdue and replaced with
times 0..2 and a lease time of 1; three calls give a leader, its follower and
the leader that takes over. Bindings, digests, repository names and recipients
are treated independently by the code, so one of each is enough except where a
property relates two. Two edits are needed for a change that is undone, two
incarnations for a late PUT, two generations for a late pass, three bundles for
a revocation that is forgotten, two signals for an escalation. A task that
waits for another is claimed twice, before and after the other completes. A
leader with one descendant gives every kind of group: silent, escaped, forked
while dying; the theorem covers any number. One worker and three frames reach
the state `SessionEnds` excepts, two workers need four. In the store an
orphan put at 0 becomes removable at 3, while a second writer uses its blob.
Queues and quotas are small so that they fill. Symmetry is used only between
members that play the same role, and in no run with liveness. Deadlock is
checked in `tracer`, where stopping before the end is the error; elsewhere the
calls end, counters are bounded, and the systems may then stop.

*Fairness.* Threads and processes that can run are scheduled (weak fairness of
their own steps) and providers return. Deadlines are on monotonic clocks and
are tested in loops, which is why they are strongly fair where a loop passes
the test again and again (`LoopExpires`, `CleanupExpires`, `GiveUp`,
`Deadline`). The kernel ends what SIGKILL was sent to. In the service the crons
start again and again and from some time on are not killed, a deletion pass
ends within its lease, and R2 settles every PUT. The client of
a session closes its input in the end, and may stop reading before that; sessions
of the daemon are closed in the end. Nothing is asked of a child, a command, a
signal, a cancellation, an edit, a heartbeat or a crash.

## 4. Properties

The properties are aimed at the hazards listed in `PROJECT.json`, and each has a
mutant that breaks it. Most are conjunctions whose parts are named and commented
in their modules:

- `SingleFlight`, `WriteOnce`, `Generations`, `ResultsBound`, `NoOrphanWait`,
  `Agreement`, `QuarantineIsForGood`, `StaleLeaderStaysOut`,
  `ImplementsExactReuse`: however stale the clocks, a binding has one live
  leader, one row, whoever waits waits on a live lease of its own binding, and
  quarantine and closed leases are final.
- `TrueResults`, `CurrentAnswers`, `NoFalseQuarantine`, `LeaderClosesLease`,
  `CancelledNeverPublishes`, `EveryCallReturns`: the observations of the runtime
  are placed where they must be.
- `RowsComplete`, `AckedHeld`, `DisputedClosed`, `WithinCapacity`: cleanup never
  takes a blob from a row, acknowledged outputs stay, the quota holds.
- `EngineIsTrue` = `DigestIsTrue`, `ResultIsTrue`, `HitIsCurrent`.
- `SessionIsSound` = `CancelFindsCall`, `CancelledIsNotAnswered`,
  `NoSyntheticRefusal`, `NothingRunsUncancelled`, `InflightIsExact`;
  `SessionEnds`: a closed session ends, whoever of writer, workers and reader
  leaves first, except in the state `Stranded` (section 6), and every call is
  answered while the writer works.
- `AttemptIsSound` = `ChildHasOwner`, `NothingLeftBehind`,
  `CancelledStartFails`; `CallsReturn`.
- `DaemonIsKept` = `ServerIsReachable`, `CleanExit`, `ActiveIsExact`
  and the step `SessionOutlivesStop`; `DaemonAnswers`.
- `TasksAreSound` = `DependenciesDone`, `StoreReopens`, `QuotaIsExact`,
  `Converged`, `OneLeader`, and the lifecycle and retirement as a step: no work
  starts on a task before what it depends on has completed, whatever was
  claimed, released and retired in between.
- `ContextIsKept`, `DeliveryIsCurrent`: provenance, cursors and receipts of the
  ledger; challenges, briefs and grants of a connection.
- `TracesAreTrue` = `BirthsAreTrue`, `StopsAreOwned`, `CompletionIsTrue`,
  `NoFalseRejection`, `ProbeIsExact`: the planner gives up no run of supported
  things, and the probe's loop never its own program and completes with no
  other; `RunEnds`.
- `BlobsAreSafe`, `GenerationsAreApart`, `ReleasesAreTrusted`, `CronsFinish`:
  the service.
- `TeamRunIsTrusted` = `AuthorityIsDurable`, `HitIsTrusted`,
  `PublicationIsTrusted`, `CheckpointAdvances`: trust is on the disk before
  anything is authorised by it, the checkpoint never goes back, and what is
  presented or published was not revoked in anything a process of the machine
  had accepted when the plaintext or the capture was complete.
- `CaptureIsSound` = `NoFurtherRun`, `InterruptionHonoured`, `GroupsContained`;
  `CapturesEnd`. `GroupsContained`: the second run starts only when the first
  group is gone, a validated capture leaves no group, no leader outlives the
  capture, and a group is left only if `terminate_and_reap` gave up on it.

## 5. Proofs

| Theorem | States | Under |
|---|---|---|
| `TypeCorrect`, `OneLeader`, `RowsWrittenOnce`, `NewestGenerationHolds`, `RowsAreBound`, `WaitersHaveLeaders`, `CallsAgree` | `TypeOK`, `SingleFlight`, `WriteOnce`, `Generations`, `ResultsBound`, `NoOrphanWait`, `Agreement` | `CoordinatorAssumptions` |
| `StaleLeaders`, `QuarantineHolds` | the steps `StaleLeaderStaysOut`, `QuarantineIsForGood` | the same |
| `CoordinatorImplementsExactReuse` | `ImplementsExactReuse` | the same |
| `RuntimeKeepsCoordinator`, `CancelledLeadersStayOut` | the coordinator's invariants under the runtime; `CancelledNeverPublishes` | `RuntimeAssumptions` |
| `ResultsAreTrue`, `AnswersAreCurrent` | `TrueResults`, `CurrentAnswers` | and `Stamped = Content` |
| `NothingFalselyQuarantined`, `LeadersCloseLeases` | `NoFalseQuarantine`, `LeaderClosesLease` | and `~FilesFail` |
| `StoreTypes`, `CleanupSparesRows`, `AcknowledgedRowsStay`, `DisputesClose`, `CapacityHolds` | `StoreTypeOK`, `RowsComplete`, `AckedHeld`, `DisputedClosed`, `WithinCapacity` | `StoreAssumptions` |
| `EngineTrue` | `EngineIsTrue` | `EngineAssumption`, `FineClock` |
| `SessionSound` | `SessionIsSound` | `StdioAssumption` |
| `DaemonKept` | `DaemonIsKept` | `DaemonAssumption` |
| `DeliveryCurrent` | `DeliveryIsCurrent` | `DeliveryAssumption` |
| `ContextKept` | `ContextIsKept` | `ContextLedgerAssumption` |
| `AttemptSound` | `AttemptIsSound` | `UpstreamAssumption` |
| `TeamRunTrusted` | `TeamRunIsTrusted` | `ClientBounds` |
| `ReleasesTrusted` | `ReleasesAreTrusted` | `TrustBounds` |
| `GenerationsApart` | `GenerationsAreApart` | `RepositoryBounds` |
| `BlobsSafe` | `BlobsAreSafe` | `BlobBounds` |
| `CaptureSound` | `CaptureIsSound` | nothing |

Each is a theorem of the specification the runs check, for any calls, bindings,
contents, files, workers, frames, signals, clocks and bounds. Every inductive
invariant was also checked by TLC on a small instance of its module.

**Coordinator.** `IndInv` is stated as `TablesInv(L, R, G, S)` on table *values*,
because a transaction works on what its earlier statements left: expiry,
quarantine, a request write, a new lease, a publication and a divergence each
get a lemma "keeps `TablesInv`", and an operation composes them. It
strengthens the properties by what they need of each other: a result row names
a lease that completed with it and holds the newest generation of its binding
(so a live lease excludes a row and a row excludes a second one), and a
request that holds a result holds a row of its own binding (so agreement
follows from the uniqueness of rows). `QuarantineHolds` also needs
`EmptyRequests`: a call without a request row has joined no lease, so that
closing the requests of a lease answers nobody else. `CoordinatorAssumptions`
say that the times and lease windows are integers and that `None`, the NULL of a
column, is no value of a column.

**Refinement.** Publication maps to `APublish`, a quarantined row to
`AQuarantine`, a recorded serve to `AAnswer`, and the rest are stutters. Two
facts make them stutters: a source row never changes its content once it
exists, and a served call keeps the result it was served (`ServedHeld`).

**Runtime.** Three layers. `RuntimeInv`: every step of a thread is an operation
of the coordinator at the clock of that moment, so `IndInv` carries over; a
call's lease and request agree with where its thread is, and a cancelled flag
with its lease. `TruthInv`: source rows and the values threads hold are what
their bindings name. It needs `Stamped = Content`, that every observation binds
the change time of what it saw; the code does so except for absent paths, and
`gateway_unstamped` (section 6) shows the theorem fail there. `SoundInv`: blobs
are present, the times of a lease are in order, a live lease has a thread that
leads it, and nothing is quarantined. It needs files that are not lost or
damaged, because losing one is what quarantine is for.

**Result store.** `RowsComplete` needs `PutsKept` and `WritersPrompt`: the blobs
a writer has put are inventoried no earlier than it began, it began at most
`Patience` ago, and cleanup removes only what is older than `TTL > Patience`.
The assumption is real: a writer suspended for 24 hours between its puts and its
row inserts a row without blobs, and the first hit then quarantines the key for
good.

**Engine.** `Fits`: no newer version of a file has the change time of a version
that was read, so equal times mean equal contents, which makes cache and rows
true. That the contents of a key were on the disk *together* during the call
needs more, since files are read one after the other: for every row and every
call that is reading its key, the call has seen the contents of the row together,
or some file of it has moved on and the call will not compute that key
(`Known`, `Missed`). `FineClock`, a change time of its own for every write, is
what the code's identity check relies on (section 6).

**Session.** The reader's wait for the activation carries the argument: a call
that is queued, or whose worker has not passed the gate, is the current frame of
a reader that waits (`GateInv`). So earlier calls are decided or registered
(`DecidedInv`), no call is at the gate when the reader closes the session, and a
call that meets a closed session there owes it to the writer (`CloseInv`). A
frame is in one place (`HeldInv`, `OutInv`), an entry of the active map belongs
to the worker that runs its call (`ActiveInv`), and a marked call that succeeded
is still before `complete`, which sees the mark (`MarkInv`). `StdioAssumption`
asks for a finite, non-empty pool and a queue with room.

**Daemon.** The files belong to the holder of the instance lock: `FileInv` says,
for each place of a daemon between taking the lock and releasing it, which of
socket and locator are its own, and outside it that none is; nobody else's step
touches them. A killed daemon leaves files that the next holder sweeps before it
binds. `CountInv` ties `active` to the connections whose handler works and those
that are leaving, with cardinalities of finite sets (`DaemonAssumption` asks for
finitely many clients), and says that only a daemon that is alive has any;
`LinkInv` says what a client at its place knows of its connection.

**Deliveries.** A challenge or a grant that bears the present lifecycle was
issued since it began (`ChallengeInv`, `GrantInv`): a worker reads the
generation while it holds the lock of the ledger, and only the reader moves it,
so nothing can be issued in a generation that is to come, and the comparisons at
the acknowledgement and the retrieval are enough however stale the worker's
recipient was. A call has one challenge in its life, whose acceptance takes it
out of the ledger, so a second acceptance would need a second issue; the memory
of retired challenges, which forgets, is not needed for it. The lock of the
ledger is what makes room for the challenge being issued (`LockInv`).

**Context ledger.** `RowsInv`, of facts and of references alike: a row names
events that are there, and what is current was admitted after every recorded
change to another value. Collection removes what no row names and no receipt
covers, so it keeps the first part, and it can only take changes away from the
second. `Reception` is about the response on its way: what its recipient has
been shown, with what the response shows, is every event up to its cursor, so
that an acknowledgement in the same lifecycle may move the cursor there.
Delivery in full is stated for tasks that never have more events than a delta
may hold (64 in the code): the compact delta of `task.start` is cut there, while
its cursor is that of the snapshot (section 6).

**Team run.** `ClientInv` says for every place of a run what it knows of the
checkpoint: whoever is between comparison and read-back holds the flock and has
the checkpoint it compared with (`TrustInv`), whoever relies on a bundle relies
on one that the checkpoint on the disk has reached, and every revocation a
process had accepted when the plaintext or the capture was complete is in the
bundle that authorises it (`PullInv`, `PublishInv`). `ClientBounds` asks that
times and epochs are naturals and that a bundle binds a key id to one key and
none it revokes, which its parser checks.

**Trust of the service.** Handlers carry what they read across awaits.
`CallInv` says what a call at its place still knows: the bundle it carries
authorises the manifest it carries. `TablesInv` says that the head repeats all
that earlier heads said, active keys and revocations, that a row was authorised
by a bundle no newer than the head and its key is bound as the row says, and that
a body a conflict was reported for is closed. Before a commit and before the
bytes go, the fences compare head, key and row with what the call carries; what
they find equal carries the authority over to that moment. `TrustBounds` asks
that epochs are positive and that a bundle binds a key id to one key and none it
revokes, which its parser checks.

**Generations.** A pass may stand still for longer than its lease while another
takes over the job, and wake up in another life of the repository. What it
found out must stay true meanwhile, and does because of the receipts
(`Onward`): once a generation has one, it is not live and never will be, so
with no lease it gets none, and with no lease and no object it gets only
objects that R2 wrote late. `WorkFits` says what a pass at its place has found
(no lease left; nothing left to erase), `JobFits` that a phase of the job leaves
behind it what was found (the tables before it are empty), and `GenFits` ties
receipt, tombstone and objects of each generation together. Leases and rows are
of the generation that is there (`OfPresent`), because only a live one gets any.
Nothing is assumed of the times of leases. `RepositoryBounds` asks that writers
are numbered from 1, which is how listings are ordered, and that no pass has the
name of the NULL in the column of its lease.

**Blobs.** A handler that read the row or the object before an await acts on it
later, when others may have moved both. What it found stays true (`Ahead`)
because no incarnation is drawn twice and a row that is being deleted only
leaves: an incarnation once `Gone` is so for good. Every handler that erases an
object has found its incarnation gone, and a PUT writes only where nothing is,
so what another has read is `Kept` unless its own incarnation went. `HandlerFits`
says this of each place of a handler: whoever promotes holds the identity of an
object that is kept, and whoever repairs or quarantines although R2 has lost
nothing does so for an incarnation that is gone. `PutsFit` keeps a candidate
until its PUT was carried out, and `RowFits` ties the row to object, manifests
and queue. What R2 loses is counted; after a loss nothing is claimed of objects
and of the manifests that refer to them, the rest is. The limits may be any
numbers.

**Attempt.** Once `terminated` is set exactly one thread owns the kill, or the
child has been reaped (`KillOwned`); nobody passes `terminate_v1` without
setting it; and the entry in the map follows the place of `execute`, except for
a cancelled start, which `execute` carries out itself (`EntryFollows`). The
sizes of pipe, queue and request only have to be positive.

**Capture.** What is gone stays gone (`Later`): a group whose leader was waited
for and that has no member gets no new one. It is then enough to know where in
`run_once` the group is gone (`GroupsFollow`) and that its locals never say more
than is true (`LocalsTrue`). A run that is
terminated is followed by no second one and never validated, whether or not it
gave up on its group; so the second run and the validated outcome rest on the
loop's own test of the group alone, and only "no group is left" has to except
`gaveUp`. The leader is sent SIGKILL before any path can give up. A handled
signal is in the flags until `finish` has read them and is the outcome from then
on (`Honoured`).

Only model-checked: liveness under fairness, which is out of the prover's reach
(`EveryCallReturns`, `SessionEnds`, `CallsReturn`, `DaemonAnswers`, `RunEnds`,
`CapturesEnd`, `CronsFinish`), and the safety of the remaining components
(`TasksAreSound`, `TracesAreTrue`).

## 6. Finding and limits

`gateway_unstamped`: a path that does not exist is observed as a negative
dependency, whose digest has the parent's device, inode and mode but no
timestamp. If the file is created after the first observation, read by the
provider, and deleted before the leader observes again, the two digests agree
and the result that saw the file is published for the state without it.
`TrueResults` is violated; with stamped observations it holds. The local
engine's `fingerprint_absent_path` binds the ancestor's ctime and is not
affected.

The models also make explicit what the code's comments and docs leave open or
put differently. No run asserts the stronger reading of any of these:

- *Gateway.* When inserting a result fails, the leader returns without closing
  its lease, and followers wait for the lease or their own deadline. One failed
  observation ends reuse for the life of the process. A wall clock that steps
  back between start and completion makes the next reader quarantine a good
  result.
- *Engine.* The digest cache relies on a change time for every write
  (`src/fingerprint.rs:1382`); the run assumes one (`FineClock`).
  With a coarse clock a rewrite of the same size within one tick keeps its old
  digest. A key that mixes two moments, since files are hashed one after the
  other (`src/fingerprint.rs:758`), is never the key of a stored row: that a hit
  fits one moment of the call rests on the change times in the key. A leader of the pending-call table killed by its
  deadline (`src/engine.rs:1168`) and the takeover at `:1107` are not modelled.
- *Sessions.* A session can hang after its writer failed. The reader looks at
  `session_closed` (`src/mcp_gateway.rs:3302`), then the writer fails and leaves,
  and every worker breaks because its answer cannot be sent (`:3290`). The call
  the reader then queues is taken by nobody: the send succeeds, because
  `serve_stdio` itself keeps the receiving end (`:3214`), and `recv` at `:3365`
  waits for ever, because the queued job keeps the sending end of its
  activation. `SessionEnds` excepts exactly that state (`Stranded`) and is
  violated without the exception. All 16 workers have to hold a call for it; the
  test at `tests/mcp_gateway.rs:1765` sends its later frame after the flag was
  set. If the writer fails while the session is idle, the session stays
  until its input closes (`src/mcp_gateway.rs:3358`); the worker pool is told to
  close before the workers are joined (`:3419`), while `docs/STATUS.md:29`
  speaks of draining. A request larger than the pipe to a child that does not
  read holds the stdin lock that cancellation needs (`:1785`): `CallsReturn` is
  checked for requests that fit.
- *Daemon.* A stop takes effect after the acknowledgement
  (`src/agent_gateway_service.rs:338`), which the comment at `:311` orders the
  other way.
- *Ledgers.* `work_start` moves a lease (`src/store.rs:3615`) that
  `context_coordinator.rs:1194` reads again; an observation equal to the last
  one is dropped, so a value that goes away and comes back between two
  observations leaves no event (`context_coordinator.rs:323`); a compact delta
  holds at most 64 events (`:557`), which `docs/ROADMAP.md:167` does not say.
- *Service.* A PUT that lands after its candidate is gone leaves an orphan
  (`service/src/index.ts:5383`; cf. `service/README.md:165`); a cron that runs
  out of time leaves its work to the next (`:5800`; cf.
  `docs/REMOTE_THREAT_MODEL.md:95`). The request key of a quarantined manifest
  opens again once the manifest has been deleted or has expired and been cleaned
  up (cf. `docs/REMOTE_THREAT_MODEL.md:70`).
- *Capture.* The group stays published until the run ends, also after its
  leader was reaped and the group is empty while an escaped descendant holds a
  pipe; its number could be used again by then. A first run that had to be
  killed after the grace period is retained if its streams drained, while the
  comment at `src/team_manifest_v2/immutable_capture.rs:358` speaks of a
  completed execution. `terminate_and_reap` returns at its deadline, or at any
  error of `process_group_exists` (`:2163`), with members of the group possibly
  alive; an error of its wait is dropped (`:2156`).

## 7. Not modelled

- Linux snapshots (`snapshot_publish.rs`, `snapshot_tree.rs`,
  `snapshot_materialize.rs`, `snapshot_verify.rs`): traversal, copying and
  sealing of trees by descriptor, where the difficulty is what the file system
  does, not the order of a few steps; the publication by rename is a candidate.
- Execute-only runtime, isolation, seccomp, Seatbelt: kernel mechanisms.
- The pytest profile store and `linux_pytest.rs`; the qualification programs,
  which test the host and are not on the reuse path. These and the tests inside
  the source files are most of the repository's lines.
- Wire formats, canonical encodings, signatures, encryption and privacy
  scanning: pure functions on bytes. A digest or a signature is the value it
  stands for.
- Setup, hook, configuration and CLI: sequential edits and parsing. Code
  intelligence: pure.
- Within modelled components: the tracer's exec by a thread that is not the
  leader of a group of several, its step limit (`MAX_DRIVER_STEPS_V1`, 128) and
  the cleanup of the task tree after a failure;
  the runtime's repository tools; the store's migrations, telemetry and pending
  calls; the service's authentication, rate limits, audit contents and
  statistics, and the allowlists of a bundle, whose refusal is an error exit of
  the handler like others (`GiveUp`); the client's budgets.

## 8. Plan

1. Proofs: `TracesAreTrue` of the tracer, from `BirthsAreTrue` upwards;
   `TasksAreSound` without `QuotaIsExact`, whose sum over rows is an induction
   over data.
2. The publication of snapshots by rename, and the promotion of profiles by
   compare-and-swap.
3. The composition of `McpStdio` with the runtime's `cancel()`, and of
   `TeamClient` with the service's `TeamTrust`.
